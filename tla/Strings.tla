------------------------------ MODULE Strings ------------------------------
(***************************************************************************)
(* The text helpers of string.hpp, the number lists of serialize.hpp, the  *)
(* files of io.hpp and the reading of streams of input.hpp.  A string is a *)
(* sequence of characters, "n" its newline.                                *)
(***************************************************************************)
EXTENDS Integers, FiniteSets, SequencesExt, FiniteSetsExt

CONSTANTS White,   \* the characters isspace and the whitespace lists name
          Digits,  \* the digits, as characters
          Upper,   \* the upper-case character of each lower-case one
          MaxDigits  \* how many digits the largest int has

npos == -1  \* what find gives when there is nothing
From(s, pos)        == SubSeq(s, pos + 1, Len(s))
substr(s, pos, n)   == SubSeq(s, pos + 1, Min({pos + n, Len(s)}))
find(s, d, start)   == LET at == {i \in start .. Len(s) - Len(d) : SubSeq(s, i + 1, i + Len(d)) = d}
                       IN  IF at = {} THEN npos ELSE Min(at)

RECURSIVE SplitFrom(_, _, _)
SplitFrom(s, delim, start) ==
  LET pos == find(s, delim, start)
  IN  IF pos = npos THEN IF start < Len(s) THEN <<From(s, start)>> ELSE <<>>
      ELSE <<substr(s, start, pos - start)>> \o SplitFrom(s, delim, pos + Len(delim))
split_char(s, c) == SplitFrom(s, <<c>>, 0)
split(s, delim) == IF delim = <<>> THEN <<s>> ELSE SplitFrom(s, delim, 0)

\* The view of one character walks the string instead.
split_view(s, c) ==
  LET Step(t, i) == IF s[i] = c THEN [out |-> Append(t.out, substr(s, t.start, i - 1 - t.start)), start |-> i] ELSE t
      end == FoldLeft(Step, [out |-> <<>>, start |-> 0], [i \in DOMAIN s |-> i])
  IN  IF end.start < Len(s) THEN Append(end.out, From(s, end.start)) ELSE end.out

\* And the view of a longer delimiter searches it, as split does.
RECURSIVE ViewsFrom(_, _, _)
ViewsFrom(s, delim, pieces) ==
  LET start == IF pieces = <<>> THEN 0 ELSE pieces[Len(pieces)].end + Len(delim)
      pos   == find(s, delim, start)
  IN  IF pos # npos THEN ViewsFrom(s, delim, Append(pieces, [start |-> start, end |-> pos]))
      ELSE IF start < Len(s) THEN Append(pieces, [start |-> start, end |-> Len(s)]) ELSE pieces
split_views(s, delim) ==
  IF delim = <<>> THEN <<s>>
  ELSE LET views == ViewsFrom(s, delim, <<>>)
       IN  [i \in DOMAIN views |-> substr(s, views[i].start, views[i].end - views[i].start)]

split_any(s, delims) ==
  LET Flush(t)   == IF t.current = <<>> THEN t.out ELSE Append(t.out, t.current)
      Step(t, c) == IF c \in delims THEN [out |-> Flush(t), current |-> <<>>] ELSE [t EXCEPT !.current = Append(@, c)]
  IN  Flush(FoldLeft(Step, [out |-> <<>>, current |-> <<>>], s))

join(parts, sep) == LET Out[i \in 0 .. Len(parts)] == IF i = 0 THEN <<>>
                                                      ELSE Out[i - 1] \o (IF i > 1 THEN sep ELSE <<>>) \o parts[i]
                    IN  Out[Len(parts)]

\* Of a range: texts and characters as they are, numbers in their digits, one after the other.
append_element(out, x) == CASE x.kind = "text"   -> out \o x.text
                            [] x.kind = "char"   -> Append(out, x.text[1])
                            [] x.kind = "number" -> out \o x.text
join_range(elements, sep) ==
  LET Step(t, x) == [first |-> FALSE, out |-> append_element(IF t.first THEN t.out ELSE t.out \o sep, x)]
  IN  FoldLeft(Step, [first |-> TRUE, out |-> <<>>], elements).out

RECURSIVE ReplacedFrom(_, _, _, _)
ReplacedFrom(s, from, to, start) ==
  LET pos == find(s, from, start)
  IN  IF pos = npos THEN From(s, start) ELSE substr(s, start, pos - start) \o to \o ReplacedFrom(s, from, to, pos + Len(from))
replace_all(s, from, to) == IF from = <<>> THEN s ELSE ReplacedFrom(s, from, to, 0)

starts_with(s, p) == substr(s, 0, Len(p)) = p   \* rfind that may only look at the front
ends_with(s, p)   == Len(s) >= Len(p) /\ From(s, Len(s) - Len(p)) = p
strip_prefix(s, p) == IF IsPrefix(p, s) THEN From(s, Len(p)) ELSE s
strip_suffix(s, p) == IF IsSuffix(p, s) THEN SubSeq(s, 1, Len(s) - Len(p)) ELSE s
trim_trailing(s, cs) == SubSeq(s, 1, Max({i \in DOMAIN s : s[i] \notin cs} \cup {0}))
trim_leading(s, cs)  == SubSeq(s, Min({i \in DOMAIN s : s[i] \notin cs} \cup {Len(s) + 1}), Len(s))
trim(s, cs)          == trim_trailing(trim_leading(s, cs), cs)
trim_view(s) == LET kept == {i \in DOMAIN s : s[i] \notin White}
                IN  IF kept = {} THEN <<>> ELSE substr(s, Min(kept) - 1, Max(kept) - Min(kept) + 1)
reverse(s)           == Reverse(s)
repeat(s, n)         == FlattenSeq([i \in 1 .. n |-> s])
pad_left(s, n, c)    == IF Len(s) < n THEN [i \in 1 .. n - Len(s) |-> c] \o s ELSE s
pad_right(s, n, c)   == IF Len(s) < n THEN s \o [i \in 1 .. n - Len(s) |-> c] ELSE s
truncate(s, max, tail) == IF Len(s) <= max THEN s
                          ELSE IF max <= Len(tail) THEN SubSeq(tail, 1, max)
                          ELSE substr(s, 0, max - Len(tail)) \o tail
chunk(s, n) == IF n = 0 THEN <<>> ELSE [k \in 1 .. (Len(s) + n - 1) \div n |-> substr(s, (k - 1) * n, n)]

upper(c)      == IF c \in DOMAIN Upper THEN Upper[c] ELSE c
lower(c)      == IF \E l \in DOMAIN Upper : Upper[l] = c THEN CHOOSE l \in DOMAIN Upper : Upper[l] = c ELSE c
to_upper(s)   == [i \in DOMAIN s |-> upper(s[i])]
to_lower(s)   == [i \in DOMAIN s |-> lower(s[i])]
capitalize(s) == [i \in DOMAIN s |-> IF i = 1 THEN upper(s[i]) ELSE s[i]]
title(s) ==
  LET Step(t, c) == IF c \in White THEN [start |-> TRUE, out |-> Append(t.out, c)]
                    ELSE [start |-> FALSE, out |-> Append(t.out, IF t.start THEN upper(c) ELSE c)]
  IN  FoldLeft(Step, [start |-> TRUE, out |-> <<>>], s).out

-----------------------------------------------------------------------------
\* from_chars takes a minus and as many digits as there are, at least one; 0 is a failure.
\* A number is what it took.
from_chars(s) == LET sign == IF s # <<>> /\ s[1] = "-" THEN 1 ELSE 0
                     last == Min({i \in sign + 1 .. Len(s) : s[i] \notin Digits} \cup {Len(s) + 1}) - 1
                 IN  IF last = sign THEN 0 ELSE last
skip_plus(s) == IF s # <<>> /\ s[1] = "+" THEN Tail(s) ELSE s
Error == <<<<"error">>>>  \* no number

\* to_int: all of the trimmed text is one number, a plus may come first. That the number is too large is
\* found before what follows it.
OutOfRange == <<<<"out of range">>>>
Digits_(s) == Cardinality({i \in DOMAIN s : s[i] \in Digits})
to_int(s) ==
  LET t    == skip_plus(trim_view(s))
      last == from_chars(t)
  IN  IF t = <<>> THEN Error
      ELSE IF Digits_(SubSeq(t, 1, last)) > MaxDigits THEN OutOfRange
      ELSE IF last = 0 \/ last # Len(t) THEN Error ELSE <<t>>

\* The same with the numbers from_chars takes for a double: digits with a point before, between or after
\* them (exponents and the names of infinities are left out).
to_double(s) ==
  LET t    == skip_plus(trim_view(s))
      sign == IF t # <<>> /\ t[1] = "-" THEN 1 ELSE 0
      body == From(t, sign)
      points == {i \in DOMAIN body : body[i] = "."}
  IN  IF /\ t # <<>> /\ Digits_(body) > 0 /\ Cardinality(points) <= 1
         /\ \A i \in DOMAIN body \ points : body[i] \in Digits
      THEN <<t>> ELSE Error

\* Integers of every width go through int.
parse_number(s, type) == IF type = "double" THEN to_double(s) ELSE to_int(s)
parse_numbers(s, type) ==
  LET tokens == split_any(s, White \cup {","})
      ns == [i \in DOMAIN tokens |-> parse_number(tokens[i], type)]
  IN  IF \E i \in DOMAIN ns : ns[i] \in {Error, OutOfRange} THEN Error ELSE FlattenSeq(ns)

\* Numbers one after the other, white space before each and one plus allowed.
RECURSIVE from_text(_)
from_text(s) ==
  LET t    == skip_plus(trim_leading(s, White))
      n    == from_chars(t)
      rest == from_text(From(t, n))
  IN  IF trim_leading(s, White) = <<>> THEN <<>>
      ELSE IF n = 0 \/ Digits_(SubSeq(t, 1, n)) > MaxDigits THEN Error ELSE IF rest = Error THEN Error ELSE <<SubSeq(t, 1, n)>> \o rest
to_text(ns) == join(ns, <<" ">>)

\* The bytes of elements of `size` bytes each, and the elements of bytes that are a whole number of them.
to_bytes(elements) == FlattenSeq(elements)
from_bytes(data, size) ==
  IF Len(data) % size # 0 THEN Error
  ELSE [i \in 1 .. Len(data) \div size |-> SubSeq(data, (i - 1) * size + 1, i * size)]

\* A file of lines: each is followed by a newline, and getline needs no newline at the end.
write_lines(ls)  == FlattenSeq([i \in DOMAIN ls |-> Append(ls[i], "n")])
read_lines(text) == LET Step(t, c) == IF c = "n" THEN [out |-> Append(t.out, t.line), line |-> <<>>] ELSE [t EXCEPT !.line = Append(@, c)]
                        end == FoldLeft(Step, [out |-> <<>>, line |-> <<>>], text)
                    IN  IF end.line = <<>> THEN end.out ELSE Append(end.out, end.line)
lines(s) == split(s, <<"n">>)

-----------------------------------------------------------------------------
\* An istream: how much of its text is read, its state, and whether seekg can move in it.
Open(text, seekable) == [text |-> text, at |-> 0, eof |-> FALSE, fail |-> FALSE, seekable |-> seekable]
Rest(in)             == From(in.text, in.at)
Nothing              == {}

\* std::getline and get: on a stream that is not good, and at the end, nothing is read and it fails.
getline(in) ==
  LET nl == find(in.text, <<"n">>, in.at)
  IN  CASE in.eof \/ in.fail -> [in |-> [in EXCEPT !.fail = TRUE], got |-> Nothing]
        [] ~(in.eof \/ in.fail) /\ nl # npos -> [in |-> [in EXCEPT !.at = nl + 1], got |-> {substr(in.text, in.at, nl - in.at)}]
        [] OTHER -> [in |-> [in EXCEPT !.at = Len(in.text), !.eof = TRUE, !.fail = Rest(in) = <<>>],
                     got |-> IF Rest(in) = <<>> THEN Nothing ELSE {Rest(in)}]
get(in) ==
  CASE in.eof \/ in.fail -> [in |-> [in EXCEPT !.fail = TRUE], got |-> Nothing]
    [] ~(in.eof \/ in.fail) /\ Rest(in) # <<>> -> [in |-> [in EXCEPT !.at = @ + 1], got |-> {Rest(in)[1]}]
    [] OTHER -> [in |-> [in EXCEPT !.eof = TRUE, !.fail = TRUE], got |-> Nothing]
Answer(r)     == IF r.got # Nothing THEN [ok |-> TRUE, value |-> CHOOSE v \in r.got : TRUE]
                 ELSE [ok |-> FALSE, error |-> IF r.in.eof THEN "end of input" ELSE "input error"]
read_line(in) == Answer(getline(in))
read_char(in) == Answer(get(in))
RECURSIVE AllLines(_, _)
AllLines(in, n) == IF n = 0 \/ getline(in).got = Nothing THEN [in |-> getline(in).in, out |-> <<>>]
                   ELSE LET more == AllLines(getline(in).in, n - 1)
                        IN  [in |-> more.in, out |-> <<CHOOSE l \in getline(in).got : TRUE>> \o more.out]
RECURSIVE read_chars(_)
read_chars(in)  == IF get(in).got = Nothing THEN <<>> ELSE <<CHOOSE c \in get(in).got : TRUE>> \o read_chars(get(in).in)
Lines(in)       == AllLines(in, Len(in.text) + 1).out

\* The channel is closed after `sends` more: the next send throws, with the line it was given.
feed_lines(in, sends) == LET all == Lines(in) IN [sent |-> SubSeq(all, 1, Min({sends, Len(all)})), throws |-> sends < Len(all)]

\* seekg forgets the end but not a failure. The whole of a stream that can seek is read, the rest of another.
read_all(in) == IF in.seekable /\ ~in.fail THEN in.text ELSE Rest(in)

\* Files: the text at each path. An open or a write may fail; what only the destructor of the stream fails to
\* write is lost without an error.
Faults           == {"none", "open", "write", "close"}
Missing          == [ok |-> FALSE, error |-> "cannot open"]
exists(fs, path) == path \in DOMAIN fs
read_file(fs, path)  == IF exists(fs, path) THEN [ok |-> TRUE, value |-> read_all(Open(fs[path], TRUE))] ELSE Missing
read_bytes(fs, path) == IF exists(fs, path) THEN [ok |-> TRUE, value |-> fs[path]] ELSE Missing
Stored(fs, path, text) == [p \in DOMAIN fs \cup {path} |-> IF p = path THEN text ELSE fs[p]]
write_file(fs, path, text, fault) ==
  CASE fault = "open"  -> [fs |-> fs, r |-> Missing]
    [] fault = "write" -> [fs |-> Stored(fs, path, <<>>), r |-> [ok |-> FALSE, error |-> "write failed"]]
    [] fault = "close" -> [fs |-> Stored(fs, path, <<>>), r |-> [ok |-> TRUE]]
    [] fault = "none"  -> [fs |-> Stored(fs, path, text), r |-> [ok |-> TRUE]]
write_bytes(fs, path, data, fault) == write_file(fs, path, data, fault)
lift_io(call) == IF ~call.throws THEN [ok |-> TRUE, value |-> call.value]
                 ELSE [ok |-> FALSE, error |-> IF call.what = Nothing THEN "unknown IO error" ELSE CHOOSE m \in call.what : TRUE]

-----------------------------------------------------------------------------
Without(s, d) == find(s, d, 0) = npos

\* All splits agree, joining the pieces gives the text back but for one delimiter at its end, no piece
\* holds a delimiter, and what replaces a text takes the place of the delimiters.
SplitsAgree(s, d, t) ==
  LET parts == split(s, d)
      c     == d[1]
      ends  == join(parts, d) # s
  IN  d # <<>> =>
        /\ join(parts, d) \o (IF ends THEN d ELSE <<>>) = s
        /\ \A i \in DOMAIN parts : Without(parts[i], d)
        /\ replace_all(s, d, t) = join(parts, t) \o (IF ends THEN t ELSE <<>>)
        /\ replace_all(s, d, d) = s
        /\ split_views(s, d) = parts
        /\ Len(d) = 1 => /\ split_view(s, c) = parts /\ split_char(s, c) = parts
                         /\ split_any(s, {c}) = SelectSeq(parts, LAMBDA p : p # <<>>)
        /\ starts_with(s, d) <=> d \o strip_prefix(s, d) = s
        /\ starts_with(reverse(s), reverse(d)) <=> ends_with(s, d)
        /\ join_range([i \in DOMAIN parts |-> [kind |-> IF Len(parts[i]) = 1 THEN "char" ELSE "text", text |-> parts[i]]], d) = join(parts, d)
        /\ strip_prefix(d \o s, d) = s /\ strip_suffix(s \o d, d) = s
        /\ \A n \in 1 .. 3 : join(chunk(s, n), <<>>) = s /\ split(repeat(d, n), d) = [i \in 1 .. n |-> <<>>]

\* A text cut to a width has it, padding reaches it from either side and trimming undoes the padding.
WidthsAgree(s, max, tail, c) ==
  /\ Len(truncate(s, max, tail)) = Min({Len(s), max})
  /\ Len(s) > max => IsSuffix(truncate(s, max, tail), tail) \/ IsSuffix(tail, truncate(s, max, tail))
  /\ Len(pad_left(s, max, c)) = Max({Len(s), max}) /\ Len(pad_right(s, max, c)) = Len(pad_left(s, max, c))
  /\ trim(s, {c}) = s => trim(pad_left(pad_right(s, max, c), max + 2, c), {c}) = s
  /\ to_lower(to_upper(s)) = to_lower(s) /\ to_upper(title(s)) = to_upper(s)
  /\ trim_view(s) = trim(s, White)
  /\ title(title(s)) = title(s) /\ (\A i \in DOMAIN s : s[i] \notin White) => title(s) = capitalize(s)
  /\ split_any(title(s), White) = [i \in DOMAIN split_any(s, White) |-> capitalize(split_any(s, White)[i])]

\* Numbers and lines written out are read back, the readers of numbers agree where the stricter one succeeds,
\* bytes give back their elements, and both readers of lines agree on every text.
ReadsBack(s, parts) ==
  /\ (\A i \in DOMAIN parts : parts[i] # <<>> /\ from_chars(parts[i]) = Len(parts[i])) =>
        /\ from_text(to_text(parts)) = parts
        /\ \A type \in {"int", "double"} : parse_numbers(join_range([i \in DOMAIN parts |->
                                              [kind |-> "number", text |-> parts[i]]], <<",">>), type) = parts
  /\ parse_numbers(s, "int") # Error => /\ parse_numbers(s, "double") = parse_numbers(s, "int")
                                        /\ Without(s, <<",">>) => from_text(s) = parse_numbers(s, "int")
  /\ to_int(s) = OutOfRange => from_text(s) = Error \/ Len(from_text(s)) # 1
  /\ \A size \in 1 .. 3 : IF Len(s) % size = 0 THEN to_bytes(from_bytes(s, size)) = s ELSE from_bytes(s, size) = Error
  /\ read_lines(s) = lines(s)
  /\ (\A i \in DOMAIN parts : Without(parts[i], <<"n">>)) => read_lines(write_lines(parts)) = parts

\* A stream read by lines, by characters or in one piece gives the same text: after n lines, those not read yet and the
\* rest are left, a stream that can seek is read from its start unless a read has failed before, and a closed
\* channel loses no more than the line at hand. The end of the input is told from a stream that was never good.
InputAgrees(text, n, seekable) ==
  LET start == Open(text, seekable)
      some  == AllLines(start, n)
      fed   == feed_lines(start, n)
  IN  /\ Lines(start) = read_lines(text) /\ read_chars(start) = text /\ read_all(start) = text
      /\ LET in == FoldLeft(LAMBDA i, k : getline(i).in, start, [k \in 1 .. n |-> k])
         IN  /\ some.out \o Lines(in) = read_lines(text)
             /\ ~seekable => write_lines(some.out) \o read_all(in) \in {text, Append(text, "n")}
             /\ seekable /\ n <= Len(read_lines(text)) => read_all(in) = text
             /\ in.fail => ~read_line(in).ok /\ read_line(in).error = "end of input" /\ read_all(in) = <<>>
             /\ read_line(in).ok <=> Len(read_lines(text)) > n
             /\ read_char(in).ok = read_line(in).ok /\ write_lines(some.out) \o read_chars(in) \in {text, Append(text, "n")}
      /\ read_line([start EXCEPT !.fail = TRUE]) = [ok |-> FALSE, error |-> "input error"]
      /\ fed.sent = some.out /\ (fed.throws <=> Len(read_lines(text)) > n)

\* A file gives back what was written to it, by lines, by bytes or as a text; a write that reports a failure leaves
\* no other text, other files are left alone, and only a failure at the close is not reported.
FilesAgree(parts, old, fault) ==
  LET fs    == [p \in {"other"} \cup (IF old = Nothing THEN {} ELSE {"file"}) |-> IF p = "other" THEN <<"o">> ELSE CHOOSE t \in old : TRUE]
      text  == write_lines(parts)
      after == write_file(fs, "file", text, fault)
      read  == read_file(after.fs, "file")
  IN  /\ after = write_bytes(fs, "file", text, fault) /\ read = read_bytes(after.fs, "file") /\ read.ok = exists(after.fs, "file")
      /\ after.fs["other"] = fs["other"] /\ (after.r.ok <=> fault \in {"none", "close"})
      /\ fault = "none" => read.value = text /\ ((\A i \in DOMAIN parts : Without(parts[i], <<"n">>)) => Lines(Open(read.value, TRUE)) = parts)
      /\ ~after.r.ok => after.fs = fs \/ read.value = <<>>
      /\ lift_io([throws |-> TRUE, what |-> Nothing]).error = "unknown IO error" /\ lift_io([throws |-> FALSE, value |-> read]).value = read
=============================================================================
