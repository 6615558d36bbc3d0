------------------------------- MODULE Streams -------------------------------
(***************************************************************************)
(* Stream of stream.hpp: a pull-driven pipeline of stages over a Channel,  *)
(* each stage a callable with its own state.  The source is try_recv, so   *)
(* an empty channel answers nullopt though more may come.  Each call of a  *)
(* source is a step, and so is what a callable does with the answer:       *)
(* senders come in between.  An optional is a sequence of at most one.     *)
(***************************************************************************)
EXTENDS Integers, Sequences, SequencesExt

CONSTANTS Items,     \* the type of the streams
          Values,    \* what is sent, of them
          Pipelines, \* sequences of stages, nearest to the source first
          MaxSends,  \* bound: sends to each channel
          MaxPulls   \* bound: pulls of the consumer

VARIABLES stages,    \* the pipeline
          queue,     \* of each channel
          own,       \* what a take has taken; 1 once a take_while is done or a concat has left its first stream
          acc,       \* what the callable of a scan holds
          sent,      \* all that was sent to each channel
          log,       \* all that each channel and each stage answered
          collected, \* what collect has now
          vectors,   \* what finished collects returned
          turn,      \* the stage, or the channel or consumer at the ends, whose code runs
          back       \* it has an answer of its source

Stage == [op : {"map", "filter", "take", "take_while", "scan", "concat"}, n : Nat, f : [Items -> Items],
          pred : SUBSET Items, init : Items, step : [Items \X Items -> Items]]

Calls(op) == {k \in DOMAIN stages : stages[k].op = op}
src       == 0  \* stages are numbered from 1
other(k)  == -k \* the channel a concat goes on with
Channels  == {src} \cup {other(k) : k \in Calls("concat")}
consumer  == Len(stages) + 1
nullopt   == <<>>
answer    == Last(log[turn - 1]) \* of the source

-----------------------------------------------------------------------------
Init == /\ stages \in Pipelines
        /\ queue = [c \in Channels |-> <<>>]
        /\ own = [k \in DOMAIN stages |-> 0]
        /\ acc = [k \in DOMAIN stages |-> stages[k].init]
        /\ sent = queue
        /\ log = [who \in Channels \cup DOMAIN stages |-> <<>>]
        /\ collected = <<>> /\ vectors = <<>>
        /\ turn = consumer /\ back = FALSE

Send == \E c \in Channels, v \in Values :
          /\ Len(sent[c]) < MaxSends
          /\ queue' = [queue EXCEPT ![c] = Append(@, v)]
          /\ sent' = [sent EXCEPT ![c] = Append(@, v)]
          /\ UNCHANGED <<stages, own, acc, log, collected, vectors, turn, back>>

try_recv(c) == IF queue[c] = <<>> THEN nullopt ELSE <<Head(queue[c])>>
Rest(c)     == IF queue[c] = <<>> THEN <<>> ELSE Tail(queue[c])

\* One round of the loop of collect, subscribe and fold_left; the stream can be drained again.
Collect == /\ turn = consumer
           /\ \/ /\ ~back /\ Len(log[turn - 1]) < MaxPulls
                 /\ turn' = turn - 1
                 /\ UNCHANGED <<collected, vectors, back>>
              \/ /\ back /\ back' = FALSE
                 /\ collected' = IF answer = nullopt THEN <<>> ELSE collected \o answer
                 /\ vectors' = IF answer = nullopt THEN Append(vectors, collected) ELSE vectors
                 /\ UNCHANGED turn
           /\ UNCHANGED <<stages, queue, own, acc, sent, log>>

Receive == /\ turn = src /\ ~back
           /\ queue' = [queue EXCEPT ![src] = Rest(src)]
           /\ log' = [log EXCEPT ![src] = Append(@, try_recv(src))]
           /\ turn' = 1 /\ back' = TRUE
           /\ UNCHANGED <<stages, own, acc, sent, collected, vectors>>

\* A callable answers o.
Return(o, mine) == /\ log' = [log EXCEPT ![turn] = Append(@, o)]
                   /\ own' = [own EXCEPT ![turn] = mine]
                   /\ turn' = turn + 1 /\ back' = TRUE
                   /\ UNCHANGED queue

\* Mutant: the count is compared after the pull.
DoneLate(k) == \/ k \in Calls("take") /\ own[k] > stages[k].n
               \/ k \in Calls("take_while") /\ own[k] = 1

\* Nothing is pulled once n items were taken, or one failed.
Done(k)   == \/ k \in Calls("take") /\ own[k] >= stages[k].n
             \/ k \in Calls("take_while") /\ own[k] = 1
Turned(k) == k \in Calls("concat") /\ own[k] = 1

\* A callable is called.
Pull == /\ turn \in DOMAIN stages /\ ~back
        /\ \/ Done(turn) /\ Return(nullopt, own[turn])
           \/ /\ Turned(turn)
              /\ queue' = [queue EXCEPT ![other(turn)] = Rest(other(turn))]
              /\ log' = [log EXCEPT ![other(turn)] = Append(@, try_recv(other(turn))),
                                    ![turn] = Append(@, try_recv(other(turn)))]
              /\ turn' = turn + 1 /\ back' = TRUE
              /\ UNCHANGED own
           \/ /\ ~Done(turn) /\ ~Turned(turn)
              /\ turn' = turn - 1
              /\ UNCHANGED <<queue, own, log, back>>
        /\ UNCHANGED <<stages, acc, sent, collected, vectors>>

\* What it does with the answer of its source.
Answered(op) == back /\ turn \in Calls(op) /\ UNCHANGED <<stages, sent, collected, vectors>>
Passes(s, o) == o # nullopt /\ o[1] \in s.pred

Map == Answered("map") /\ Return(IF answer = nullopt THEN nullopt ELSE <<stages[turn].f[answer[1]]>>, 0) /\ UNCHANGED acc

Filter == /\ Answered("filter")
          /\ \/ (answer = nullopt \/ Passes(stages[turn], answer)) /\ Return(answer, 0)
             \/ /\ answer # nullopt /\ ~Passes(stages[turn], answer)
                /\ turn' = turn - 1 /\ back' = FALSE
                /\ UNCHANGED <<queue, own, log>>
          /\ UNCHANGED acc

\* An end does not count.
Take == Answered("take") /\ Return(answer, own[turn] + Len(answer)) /\ UNCHANGED acc

\* An end of the source is for good, as a failing item is.
TakeWhile == /\ Answered("take_while")
             /\ IF Passes(stages[turn], answer) THEN Return(answer, 0) ELSE Return(nullopt, 1)
             /\ UNCHANGED acc

Scan == /\ Answered("scan")
        /\ IF answer = nullopt THEN Return(nullopt, 0) /\ UNCHANGED acc
           ELSE LET a == stages[turn].step[acc[turn], answer[1]]
                IN  acc' = [acc EXCEPT ![turn] = a] /\ Return(<<a>>, 0)

\* The first end of the source turns to the other stream for good.
Concat == /\ Answered("concat")
          /\ \/ answer # nullopt /\ Return(answer, 0)
             \/ /\ answer = nullopt
                /\ own' = [own EXCEPT ![turn] = 1] /\ back' = FALSE
                /\ UNCHANGED <<queue, log, turn>>
          /\ UNCHANGED acc

Next == Send \/ Collect \/ Receive \/ Pull \/ Map \/ Filter \/ Take \/ TakeWhile \/ Scan \/ Concat

vars == <<stages, queue, own, acc, sent, log, collected, vectors, turn, back>>
Spec == Init /\ [][Next]_vars

-----------------------------------------------------------------------------
\* What the accumulator of a scan s is after each of the answers `in`.
Folded(s, in) == LET a[i \in 0 .. Len(in)] == IF i = 0 THEN s.init
                                              ELSE IF in[i] = nullopt THEN a[i - 1]
                                              ELSE s.step[a[i - 1], in[i][1]]
                 IN  a

\* What a stage s answered, out of what its source answered to it.
Maps(s, in, out) == out = [i \in DOMAIN in |-> IF in[i] = nullopt THEN nullopt ELSE <<s.f[in[i][1]]>>]

Filters(s, in, out) ==
  out = FlattenSeq([i \in DOMAIN in |-> IF in[i] = nullopt \/ Passes(s, in[i]) THEN <<in[i]>> ELSE <<>>])

Takes(s, in, out) == /\ Len(in) <= Len(out) /\ Len(FlattenSeq(in)) <= s.n
                     /\ \A i \in DOMAIN out : out[i] = IF i <= Len(in) THEN in[i] ELSE nullopt
                     /\ Len(in) < Len(out) => Len(FlattenSeq(in)) = s.n

TakesWhile(s, in, out) ==
  /\ Len(in) <= Len(out)
  /\ \A i \in DOMAIN out : out[i] = IF i <= Len(in) /\ Passes(s, in[i]) THEN in[i] ELSE nullopt
  /\ \A i \in 1 .. Len(in) - 1 : Passes(s, in[i])
  /\ Len(in) < Len(out) => in # <<>> /\ ~Passes(s, Last(in))

Scans(s, in, out) == out = [i \in DOMAIN in |-> IF in[i] = nullopt THEN nullopt ELSE <<Folded(s, in)[i]>>]

Ended(in) == in # <<>> /\ Last(in) = nullopt
Concats(in, after, out) == /\ out = (IF Ended(in) THEN Front(in) ELSE in) \o after
                           /\ \A i \in 1 .. Len(in) - 1 : in[i] # nullopt
                           /\ after # <<>> => Ended(in)

StageAgrees(k, in, out) == /\ k \in Calls("map")        => Maps(stages[k], in, out)
                           /\ k \in Calls("filter")     => Filters(stages[k], in, out)
                           /\ k \in Calls("take")       => Takes(stages[k], in, out)
                           /\ k \in Calls("take_while") => TakesWhile(stages[k], in, out)
                           /\ k \in Calls("scan")       => Scans(stages[k], in, out)
                           /\ k \in Calls("concat")     => Concats(in, log[other(k)], out)

\* What a stage, or the consumer, has dealt with of its source: all but an answer that has just come.
Heard(k) == IF back /\ turn = k THEN Front(log[k - 1]) ELSE log[k - 1]

\* However sends fall into pulls, and however often a stream that answered nullopt is drained again,
\* every stage answers what its definition makes of what its source answered: nothing that a channel
\* gave up is lost but what a filter or a take_while turns down, a take does not pull an item it will
\* not deliver, a concat never goes back, and all that was delivered is in the vectors collected.
StreamAgrees ==
  /\ \A c \in Channels : sent[c] = FlattenSeq(log[c]) \o queue[c]
  /\ \A k \in DOMAIN stages : StageAgrees(k, Heard(k), log[k])
  /\ FlattenSeq(vectors) \o collected = FlattenSeq(Heard(consumer))
=============================================================================
