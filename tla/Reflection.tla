----------------------------- MODULE Reflection -----------------------------
(***************************************************************************)
(* Types, fields and enumerators of reflect.hpp.  A type is a record of    *)
(* its name, its form, the standard traits it has and its fields in order; *)
(* a value of a type with fields is the tuple of their values.  Names the  *)
(* compiler spells out are modelled by the tokens of the spelling.         *)
(***************************************************************************)
EXTENDS Integers, FiniteSets, SequencesExt

CONSTANTS max_fields,  \* of automatic reflection
          ScanBits     \* bits of the scan range of enumerators

none == -1
Nameless == ""

\* The name of a type, between the key and the last of the closing tokens of what the compiler spells.
Tags == <<"struct", "class", "enum", "union">>
type_name_impl(pretty, key, closing) ==
  LET begin == {i \in DOMAIN pretty : pretty[i] = key}
      end   == {i \in DOMAIN pretty : pretty[i] = closing}
  IN  IF begin = {} \/ end = {} \/ Max(end) <= Min(begin) THEN pretty
      ELSE FoldLeft(LAMBDA name, tag : IF name # <<>> /\ Head(name) = tag THEN Tail(name) ELSE name,
                    SubSeq(pretty, Min(begin) + 1, Max(end) - 1), Tags)

\* The first of the kinds whose trait the type has: bool is integral, too.
TypeKind == <<"void", "bool", "integral", "floating", "enum", "member pointer", "pointer", "array", "union", "function", "class">>
type_kind(t) == LET has == {k \in DOMAIN TypeKind : TypeKind[k] \in t.traits} IN IF has = {} THEN "other" ELSE TypeKind[Min(has)]
type_id(t)   == t

\* Forms: "number" and "text" compare by value, "plain" is trivially copyable and "opaque" is not;
\* "aggregate", "array" and "tuple" have fields, "access" has a table given by hand.
Constructible(t, n) == t.form \in {"aggregate", "array"} /\ n <= Len(t.fields)
arity_upto(t, n)    == LET fits == {k \in 1 .. n : Constructible(t, k)} IN IF fits = {} THEN 0 ELSE CHOOSE k \in fits : \A l \in fits : l <= k
tuple_like(t) == t.form = "tuple"
arity(t) == CASE t.form = "access" \/ tuple_like(t) -> Len(t.fields)
              [] arity_upto(t, max_fields) = max_fields /\ Constructible(t, max_fields + 1) -> 0
              [] OTHER -> arity_upto(t, max_fields)
has_fields(t) == arity(t) > 0

\* A structured binding of as many names as there are fields; a table given by hand has them in an order of its own.
Bound(obj, n)       == [i \in 1 .. n |-> obj[i]]
tie_fields(t, obj)  == Bound(obj, arity(t))
members(t, i)       == t.pointers[i]
field_at(t, obj, i) == IF t.form = "access" THEN obj[members(t, i)] ELSE tie_fields(t, obj)[i]
Assigned(t, obj, i, v) == [obj EXCEPT ![IF t.form = "access" THEN members(t, i) ELSE i] = v]

-----------------------------------------------------------------------------
\* Names.  The entries of the spelling are separated by the commas outside of brackets; the name follows
\* the last dot and the last qualifier of its entry.
Openers == {"<", "{", "(", "["}
Closers == {">", "}", ")", "]"}
is_ident(c) == c \notin Openers \cup Closers \cup {",", ".", "::", "&", " ", "="}
After(s, c) == LET at == {i \in DOMAIN s : s[i] = c}
               IN  IF at = {} THEN s ELSE SubSeq(s, (CHOOSE i \in at : \A j \in at : j <= i) + 1, Len(s))
Identifier(entry) ==
  LET tail == After(After(entry, "."), "::")
      end  == {k \in DOMAIN tail : ~is_ident(tail[k])}
  IN  SubSeq(tail, 1, IF end = {} THEN Len(tail) ELSE (CHOOSE k \in end : \A l \in end : k <= l) - 1)
Flush(s, i, raw, n) ==
  LET entry == SubSeq(raw, s.start, i - 1)
  IN  IF Contains(entry, ".") /\ Len(s.names) < n THEN [s EXCEPT !.names = Append(@, Identifier(entry))] ELSE s
parse_all_names(raw, n) ==
  LET close == IF raw[1] = "{" THEN "}" ELSE ">"
      Char(s, i) ==
        LET c == raw[i]
        IN  CASE s.done                        -> s
              [] c \in Openers                 -> [s EXCEPT !.depth = @ + 1]
              [] c = close /\ s.depth = 0      -> [Flush(s, i, raw, n) EXCEPT !.done = TRUE]
              [] c \in Closers                 -> [s EXCEPT !.depth = @ - 1]
              [] c = "," /\ s.depth = 0        -> [Flush(s, i, raw, n) EXCEPT !.start = i + 1]
              [] OTHER                         -> s
  IN  IF raw = <<>> THEN <<>> ELSE FoldLeft(Char, [depth |-> 0, start |-> 2, names |-> <<>>, done |-> FALSE], [k \in 1 .. Len(raw) - 1 |-> k + 1]).names

\* All names of a type, empty where the compiler spells none, and whether it spells those of the probe.
build_names(raw, n) == LET names == parse_all_names(raw, n) IN [i \in 1 .. n |-> IF i <= Len(names) THEN names[i] ELSE <<>>]
name_probe          == <<"size_at_begin", "other">>
names_available(raw) == build_names(raw, 2)[1] = <<name_probe[1]>>

\* Decimal digits of the index, from 0.
index_name(i) ==
  LET digits == 1 + Cardinality({p \in 1 .. 3 : i >= 10 ^ p})
  IN  <<"field">> \o [d \in 1 .. digits |-> (i \div 10 ^ (digits - d)) % 10]

field_name(t, i) == IF t.form = "array" \/ tuple_like(t) \/ t.names[i] = <<>> THEN index_name(i - 1) ELSE t.names[i]

\* Metadata: of every field, and with index names only.
FieldInfo(name, type) == [name |-> name, type |-> type_id(type), type_name |-> type.name]
field_table(t) == [i \in 1 .. arity(t) |-> FieldInfo(field_name(t, i), t.fields[i])]
shape_field_table(t) == [i \in 1 .. arity(t) |-> FieldInfo(index_name(i - 1), t.fields[i])]
Given(t) == [i \in 1 .. Len(t.fields) |-> FieldInfo(t.names[i], t.fields[i])]
fields(t) == IF t.form = "access" THEN Given(t) ELSE field_table(t)
TypeInfo(t, infos) == [id |-> type_id(t), name |-> t.name, kind |-> type_kind(t), fields |-> infos]
describe(t) == TypeInfo(t, IF has_fields(t) THEN fields(t) ELSE <<>>)
describe_shape(t) == TypeInfo(t, CASE t.form = "access" -> Given(t)
                                   [] has_fields(t) /\ t.form # "access" -> shape_field_table(t)
                                   [] OTHER -> <<>>)
type_text(info) == <<info.name, "(", info.kind>> \o FlattenSeq([i \in DOMAIN info.fields |-> <<info.fields[i].name, ":", info.fields[i].type_name>>])

field_index(t, name) == LET at == {i \in DOMAIN fields(t) : fields(t)[i].name = name}
                        IN  IF at = {} THEN none ELSE CHOOSE i \in at : \A j \in at : i <= j
has_field(t, name) == field_index(t, name) # none

-----------------------------------------------------------------------------
\* Dynamic access: the field a name or an index leads to, none for an error.
field_ref_at(t, i)  == IF i \in 1 .. arity(t) THEN i ELSE none
find_field_at(t, i) == field_ref_at(t, i)
find_field(t, name) == IF arity(t) = 0 THEN none ELSE LET i == field_index(t, name) IN IF i = none THEN none ELSE field_ref_at(t, i)
as(t, i, type)      == i # none /\ t.fields[i] = type
get_field(t, obj, name, type) ==
  LET i == find_field(t, name) IN IF as(t, i, type) THEN <<field_at(t, obj, i)>> ELSE <<>>
set_field(t, obj, name, type, v) ==
  LET i == find_field(t, name) IN IF as(t, i, type) THEN [ok |-> TRUE, obj |-> Assigned(t, obj, i, v)] ELSE [ok |-> FALSE, obj |-> obj]

\* Comparing, copying and printing whole objects.
RECURSIVE equal(_, _, _, _)
value_equal(t, a, b) == CASE t.form \in {"number", "text"} -> a = b
                          [] t.form \notin {"number", "text"} /\ has_fields(t) -> equal(t, a, t, b)
                          [] t.form = "plain" -> a = b
                          [] OTHER -> FALSE
equal_field(i, s, a, t, b) == LET j == field_index(t, field_name(s, i))
                              IN  j # none /\ s.fields[i] = t.fields[j] /\ value_equal(t.fields[j], field_at(s, a, i), field_at(t, b, j))
equal(s, a, t, b) == arity(s) = arity(t) /\ \A i \in 1 .. arity(s) : equal_field(i, s, a, t, b)

\* A number can be assigned to any number, other values to their own type only.
Assignable(to, from) == to = from \/ (to.form = "number" /\ from.form = "number")
copy_field(r, i, t, s, src) ==
  LET j == field_index(t, field_name(s, i))
  IN  IF j = none \/ ~Assignable(t.fields[j], s.fields[i]) THEN r
      ELSE [obj |-> Assigned(t, r.obj, j, field_at(s, src, i)), copied |-> r.copied + 1]
copy_fields(t, dst, s, src) == FoldLeft(LAMBDA r, i : copy_field(r, i, t, s, src), [obj |-> dst, copied |-> 0], [i \in 1 .. arity(s) |-> i])

for_each_field(t, obj) == [i \in 1 .. arity(t) |-> <<i, field_at(t, obj, i)>>]

\* A reference to a value without its type, a null one without data; text() formats what it refers to.
RECURSIVE to_string(_, _)
format_value(t, v) == IF t.form \in {"number", "text"} THEN <<v>> ELSE IF has_fields(t) THEN to_string(t, v) ELSE <<t.name>>
AnyRef(data, t) == [data |-> data, type |-> type_id(t), kind |-> type_kind(t)]
make_field_ref(t, obj, i) == AnyRef({field_at(t, obj, i)}, t.fields[i])
field_refs(t, obj) == [i \in 1 .. arity(t) |-> make_field_ref(t, obj, i)]
is(ref, type) == ref.type = type_id(type)
text(ref) == IF ref.data = {} THEN <<"<null>">> ELSE format_value(ref.type, CHOOSE v \in ref.data : TRUE)
for_each_field_ref(t, obj) == [i \in 1 .. arity(t) |-> <<fields(t)[i], field_refs(t, obj)[i]>>]
to_string(t, obj) ==
  LET Field(out, e) == out \o (IF Len(out) = 2 THEN <<>> ELSE <<", ">>) \o <<e[1].name, "=">> \o text(e[2])
  IN  FoldLeft(Field, <<t.name, "{">>, for_each_field_ref(t, obj)) \o <<"}">>

-----------------------------------------------------------------------------
\* Enumerations: e.signed, e.bits of the underlying type, and the enumerators in the order declared.
\* The scan goes through as many values as the range has, from 0, and casts each to the enumeration.
Scan == 0 .. 2 ^ ScanBits - 1
Cast(e, v) == LET w == v % 2 ^ e.bits IN IF e.signed /\ w >= 2 ^ (e.bits - 1) THEN w - 2 ^ e.bits ELSE w
enum_spelling(e, v) == LET at == {i \in DOMAIN e.values : e.values[i] = v}
                       IN  IF at = {} THEN Nameless ELSE e.names[CHOOSE i \in at : \A j \in at : i <= j]
enum_name_exact(e, v) == enum_spelling(e, v)
enum_table(e) == [k \in 1 .. Cardinality(Scan) |-> LET v == Cast(e, k - 1) IN <<v, enum_spelling(e, v)>>]
FirstIn(e, Matches(_)) == LET at == {k \in DOMAIN enum_table(e) : Matches(enum_table(e)[k])}
                          IN  IF at = {} THEN 0 ELSE CHOOSE k \in at : \A l \in at : k <= l
enum_name(e, v) == LET k == FirstIn(e, LAMBDA p : p[1] = v) IN IF k = 0 THEN Nameless ELSE enum_table(e)[k][2]
enum_from_name(e, name) == LET k == FirstIn(e, LAMBDA p : p[2] = name /\ p[2] # Nameless)
                           IN  IF k = 0 \/ name = Nameless THEN <<>> ELSE <<enum_table(e)[k][1]>>
enum_values(e) == LET found == SelectSeq(enum_table(e), LAMBDA p : p[2] # Nameless) IN [k \in DOMAIN found |-> found[k][1]]
is_valid_enum(e, v) == enum_name(e, v) # Nameless

-----------------------------------------------------------------------------
\* All leaves of t are of these forms.
RECURSIVE Leaves(_, _)
Leaves(t, forms) == t.form \in forms \/ (has_fields(t) /\ \A i \in DOMAIN t.fields : Leaves(t.fields[i], forms))

\* Every way to a field leads to the same one: the metadata with and without names, access by name and
\* by index, reading and writing, printing and comparing; writing changes one field only, and copying
\* exactly the fields of the same name that can take the value.
FieldsAgree(s, a, t, b) ==
  /\ Len(describe(t).fields) = Len(describe_shape(t).fields) /\ \A i \in 1 .. arity(t) : for_each_field(t, b)[i] = <<i, CHOOSE v \in for_each_field_ref(t, b)[i][2].data : TRUE>>
  /\ \A i \in 1 .. arity(t) : describe(t).fields[i].type = describe_shape(t).fields[i].type
  /\ \A i \in 1 .. arity(t) : \A v \in {b[i]} \cup {a[j] : j \in {k \in 1 .. arity(s) : s.fields[k] = t.fields[i]}} :
       LET name == fields(t)[i].name
           set  == set_field(t, b, name, t.fields[i], v)
       IN  /\ has_field(t, name) /\ find_field(t, name) = field_ref_at(t, i)
           /\ set.ok /\ get_field(t, set.obj, name, t.fields[i]) = <<v>>
           /\ \A j \in 1 .. arity(t) \ {i} : field_at(t, set.obj, j) = field_at(t, b, j)
           /\ text(make_field_ref(t, set.obj, find_field_at(t, i))) = format_value(t.fields[i], v)
           /\ \A j \in 1 .. arity(s) : is(field_refs(s, a)[j], t.fields[i]) <=> fields(s)[j].type = fields(t)[i].type
  /\ (type_text(describe(s)) = type_text(describe(t))) = (s = t)
  /\ t.form # "access" /\ s.form # "access" /\ has_fields(s) /\ has_fields(t) =>
       LET r     == copy_fields(t, b, s, a)
           taken == {i \in 1 .. arity(s) : \E j \in 1 .. arity(t) : field_name(t, j) = field_name(s, i) /\ Assignable(t.fields[j], s.fields[i])}
       IN  /\ equal(s, a, t, b) = equal(t, b, s, a)
           /\ s = t /\ Leaves(t, {"number", "text"}) => /\ equal(s, a, t, b) = (a = b)
                                                         /\ (to_string(s, a) = to_string(t, b)) = (a = b)
           /\ r.copied = Cardinality(taken)
           /\ \A j \in 1 .. arity(t) : LET from == {i \in taken : field_name(s, i) = field_name(t, j)}
                                      IN  IF from = {} THEN r.obj[j] = b[j] ELSE \A i \in from : r.obj[j] = a[i]
           /\ arity(s) = arity(t) /\ (\A i \in 1 .. arity(s) : \E j \in taken : field_name(s, j) = field_name(t, i) /\ Leaves(t.fields[i], {"number", "text", "plain"})
                                                             /\ s.fields[j] = t.fields[i]) => equal(s, a, t, r.obj)

\* Names of fields and of types come out of the spelling of either compiler, whatever the types of the fields hold and
\* whichever word MSVC puts before a type, and a compiler that spells none is found out.
NamesAgree(names, args) ==
  LET Entry(gcc, name) == IF gcc THEN <<"(", "&", "fake", "<", "T">> \o args \o <<">", ".", "value", ".", "T", "::", name, ")">>
                          ELSE <<"&", "fake", "<", "T">> \o args \o <<">", ".", "value", ".", name>>
      Raw(gcc, all) == (IF gcc THEN <<"{">> ELSE <<"<">>) \o Entry(gcc, all[1])
                       \o FlattenSeq([i \in 1 .. Len(all) - 1 |-> <<",">> \o Entry(gcc, all[i + 1])]) \o (IF gcc THEN <<"}", ";">> ELSE <<">", "]">>)
      Pretty(gcc, type) == <<"raw_pretty", "(", ")", "[", "T =">> \o type \o (IF gcc THEN <<";", "string_view", "=", "S", "]">> ELSE <<"]">>)
      Name(gcc, type) == type_name_impl(Pretty(gcc, type), "T =", IF gcc THEN ";" ELSE "]")
  IN  \A gcc \in BOOLEAN :
        /\ parse_all_names(Raw(gcc, names), Len(names)) = [i \in DOMAIN names |-> <<names[i]>>]
        /\ names_available(Raw(gcc, name_probe)) /\ ~names_available(<<>>)
        /\ \A i \in DOMAIN names : build_names(Raw(gcc, SubSeq(names, 1, i)), Len(names))[i] = <<names[i]>>
        /\ \A tag \in ToSet(Tags), type \in {names \o args, args \o names \o <<"[", "3", "]">>} :
             Name(gcc, type) = type /\ Name(gcc, <<tag>> \o type) = type

\* Names of enumerators and their values lead to each other, each value is listed once, under the
\* enumerator declared first, and unsigned ranges are covered.
EnumsAgree(e) ==
  LET vs == enum_values(e)
  IN  /\ IsInjective(vs)
      /\ \A v \in -(2 ^ ScanBits) .. 2 ^ ScanBits : is_valid_enum(e, v) = Contains(vs, v)
      /\ \A v \in {vs[k] : k \in DOMAIN vs} : enum_from_name(e, enum_name(e, v)) = <<v>> /\ Contains(e.values, v)
      /\ \A v \in {enum_table(e)[k][1] : k \in DOMAIN enum_table(e)} : enum_name(e, v) = enum_name_exact(e, v)
      /\ \A i \in DOMAIN e.values : enum_name_exact(e, e.values[i]) = e.names[Min({j \in DOMAIN e.values : e.values[j] = e.values[i]})]
      /\ \A i \in DOMAIN e.names : enum_from_name(e, e.names[i]) \in {<<>>, <<e.values[i]>>}
      /\ ~e.signed => \A i \in DOMAIN e.values : e.values[i] \in Scan => Contains(vs, e.values[i])
=============================================================================
