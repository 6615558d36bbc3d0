---------------------------- MODULE FuturesProofs ----------------------------
(***************************************************************************)
(* Tasks and futures: for every expression a result is set once, losers    *)
(* are cancelled before their combinator answers, and an answer comes from *)
(* what was combined.                                                      *)
(*                                                                         *)
(* The nodes take some forty different steps.  LegalStep states what all   *)
(* of them have in common, node by node: it follows from each action and   *)
(* it preserves the invariant.                                             *)
(***************************************************************************)
EXTENDS Futures, TLAPS

Stages == {"none", "created", "body", "waiting", "inner", "expired", "cancelled", "attempt",
           "exhausted", "backoff", "done"}
Retries(t) == Kind(t) \in {"retry", "again"}

TypeInv == /\ graph \in Graphs
           /\ stage \in [Nodes -> Stages]
           /\ result \in [Nodes -> Results]
           /\ winner \in [Nodes -> Nodes \cup {0}]
           /\ cancels \in [Nodes -> Nat]
           /\ tries \in [Nodes -> Nat]

\* A node is done when its future is set; how it got to its stage.
StageInv ==
  \A t \in Nodes : /\ stage[t] = "done" <=> Resolved(t)
                   /\ stage[t] \in {"backoff", "exhausted"} => Retries(t)
                   /\ stage[t] = "cancelled" => Stopped(t)
                   /\ Continues(t) /\ stage[t] \in {"body", "inner"} => Resolved(Up(t))

TriesOK(t) == Retries(t) => /\ tries[t] <= Attempts
                            /\ stage[t] \in {"attempt", "backoff"} => tries[t] < Attempts
                            /\ stage[t] = "exhausted" => tries[t] = Attempts

\* The winner goes through the contestants in order, cancelling each.
CancelInv == \A r \in Nodes : \A i \in 1 .. cancels[r] : i \in DOMAIN Of(r) /\ Source(Of(r)[i]) \in stopped

\* A winner finished and did not throw; who no longer waits for a contestant of an undecided
\* race has seen it throw, and an undecided race that ended has nobody left who could win.
WinnerInv ==
  \A r \in Nodes :
    /\ \A c \in Nodes \cup {Timer} : <<r, c>> \in waiting => Exists(r)
    /\ winner[r] # 0 => Exists(r) /\ winner[r] \in Inputs(r) /\ Resolved(winner[r]) /\ ~Threw(winner[r])
    /\ Kind(r) = "first" /\ Exists(r) /\ winner[r] = 0 => \A c \in Inputs(r) : <<r, c>> \in waiting \/ Threw(c)

\* What node t may answer with.
Justified(t, r) ==
  /\ Kind(t) = "sequence" =>
       \/ r = "ok" /\ \A c \in Inputs(t) : result[c] = "ok"
       \/ \E i \in DOMAIN Of(t) : /\ \A j \in 1 .. i - 1 : result[Of(t)[j]] = "ok"
                                  /\ result[Of(t)[i]] \notin {Pending, "ok"}
                                  /\ r = Got(Of(t)[i])
  /\ Kind(t) = "race" => \/ winner[t] # 0 /\ r = result[winner[t]] /\ cancels[t] = Len(Of(t))
                         \/ Of(t) = <<>>
  /\ Kind(t) = "first" => \/ winner[t] # 0 /\ r = result[winner[t]]
                          \/ r = "broken" /\ winner[t] = 0 /\ \A c \in Inputs(t) : <<t, c>> \notin waiting
  /\ Kind(t) = "timeout" => \/ Resolved(Up(t)) /\ r = Got(Up(t))
                            \/ r = "timeout" /\ Stopped(t)
  /\ Kind(t) = "deadline" => \/ r = "timeout"
                             \/ Resolved(Up(t)) /\ ~Threw(Up(t)) /\ r = result[Up(t)]
  /\ Retries(t) /\ r = "exhausted" => tries[t] = Attempts
  /\ r = "cancelled" => stopped # {}

AnswerInv == \A t \in Nodes : Resolved(t) => Justified(t, result[t])

IInv == /\ TypeInv /\ StageInv /\ (\A t \in Nodes : TriesOK(t))
        /\ CancelInv /\ WinnerInv /\ AnswerInv

-----------------------------------------------------------------------------
\* The shape of every step.
Kept(t)  == stage'[t] = stage[t] /\ result'[t] = result[t]
Moved(t) == /\ stage[t] # "done" /\ stage'[t] \in Stages \ {"none", "done"} /\ result'[t] = result[t]
            /\ stage'[t] \in {"backoff", "exhausted"} => Retries(t)
            /\ stage'[t] = "cancelled" => Source(t) \in stopped'
            /\ Continues(t) /\ stage'[t] \in {"body", "inner"} => Resolved(Up(t))
            /\ Continues(t) /\ stage'[t] = "body" => ~Stopped(t)
Ended(t) == /\ stage[t] \notin {"none", "done"} /\ stage'[t] = "done"
            /\ result'[t] \in Results \ {Pending} /\ Justified(t, result'[t])

WinnerRule(t) ==
  \/ winner'[t] = winner[t]
  \/ /\ winner[t] = 0 /\ winner'[t] \in Inputs(t) /\ <<t, winner'[t]>> \in waiting
     /\ Resolved(winner'[t]) /\ ~Threw(winner'[t])

CancelRule(t) ==
  \/ cancels'[t] = cancels[t]
  \/ /\ cancels[t] < Len(Of(t)) /\ cancels'[t] = cancels[t] + 1
     /\ Source(Of(t)[cancels[t] + 1]) \in stopped'

WaitingRule(t) ==
  /\ \A c \in Nodes \cup {Timer} :
       /\ <<t, c>> \in waiting' /\ <<t, c>> \notin waiting => stage[t] = "none" /\ stage'[t] # "none"
       /\ <<t, c>> \in waiting /\ <<t, c>> \notin waiting' /\ Kind(t) = "first" =>
            winner[t] # 0 \/ (c \in Nodes => Threw(c))
  /\ Kind(t) = "first" /\ stage[t] = "none" /\ stage'[t] # "none" => \A c \in Inputs(t) : <<t, c>> \in waiting'

TriesRule(t) == /\ tries'[t] = tries[t] \/ (stage[t] = "attempt" /\ tries'[t] = tries[t] + 1)
                /\ TriesOK(t)'

Functional == /\ stage' = [t \in Nodes |-> stage'[t]] /\ result' = [t \in Nodes |-> result'[t]]
              /\ winner' = [t \in Nodes |-> winner'[t]] /\ cancels' = [t \in Nodes |-> cancels'[t]]
              /\ tries' = [t \in Nodes |-> tries'[t]]

LegalStep ==
  /\ graph' = graph /\ stopped \subseteq stopped' /\ Functional
  /\ \A t \in Nodes : /\ Kept(t) \/ Moved(t) \/ Ended(t)
                      /\ WinnerRule(t) /\ CancelRule(t) /\ WaitingRule(t) /\ TriesRule(t)

-----------------------------------------------------------------------------
LEMMA GraphFacts ==
  ASSUME TypeInv, NEW t \in Nodes
  PROVE  /\ t \in 1 .. MaxNodes /\ t # 0
         /\ Of(t) \in Seq(Nodes) /\ Inputs(t) \subseteq Nodes
         /\ DOMAIN Of(t) = 1 .. Len(Of(t)) /\ Len(Of(t)) \in Nat
         /\ Kind(t) \in Unary => Up(t) \in Nodes /\ Inputs(t) = {Up(t)}
         /\ Kind(t) \in Nested => graph[t].inner \in Nodes
         /\ Kind(t) = "timeout" => Source(t) = Source(Up(t))
         /\ graph[t].ends \subseteq {"ok", "error", "cancelled", "thrown"}
<1>1. /\ Nodes \subseteq 1 .. MaxNodes /\ MaxNodes \in Nat
      /\ graph[t].of \in Seq(DOMAIN graph)
      /\ graph[t].kind \in Unary => Len(graph[t].of) = 1
      /\ graph[t].kind \in Nested => graph[t].inner \in DOMAIN graph
      /\ graph[t].kind = "timeout" => graph[t].source = graph[graph[t].of[1]].source
      /\ graph[t].ends \subseteq {"ok", "error", "cancelled", "thrown"}
  BY TasksAssumption DEF TasksAssumption, TypeInv, Nodes
<1>2. t \in 1 .. MaxNodes /\ t # 0
  BY <1>1
<1>3. Of(t) \in Seq(Nodes) /\ DOMAIN Of(t) = 1 .. Len(Of(t)) /\ Len(Of(t)) \in Nat
  BY <1>1 DEF Of, Nodes
<1>4. Inputs(t) \subseteq Nodes
  BY <1>3 DEF Inputs, Range
<1>5. Kind(t) \in Unary => Up(t) \in Nodes /\ Inputs(t) = {Up(t)}
  BY <1>1, <1>3 DEF Kind, Of, Up, Inputs, Range
<1>. QED BY <1>1, <1>2, <1>3, <1>4, <1>5 DEF Kind, Source, Up, Of, Nodes

LEMMA SameGraph ==
  ASSUME graph' = graph
  PROVE  /\ Nodes' = Nodes
         /\ \A t \in Nodes : /\ Kind(t)' = Kind(t) /\ Of(t)' = Of(t) /\ Up(t)' = Up(t) /\ Inputs(t)' = Inputs(t)
                             /\ Source(t)' = Source(t) /\ Retries(t)' = Retries(t) /\ Continues(t)' = Continues(t)
BY DEF Nodes, Kind, Of, Up, Inputs, Source, Retries, Continues

\* A future that is set stays as it is: in every step, for every node.
LEMMA ResultsStay ==
  ASSUME IInv, LegalStep, NEW t \in Nodes, Resolved(t)
  PROVE  Kept(t) /\ result'[t] = result[t] /\ stage[t] = "done"
         /\ Resolved(t)' /\ (Threw(t)' <=> Threw(t)) /\ Got(t)' = Got(t)
<1>1. stage[t] = "done"
  BY DEF IInv, StageInv
<1>2. Kept(t)
  BY <1>1 DEF LegalStep, Moved, Ended
<1>. QED BY <1>1, <1>2 DEF Kept, Resolved, Threw, Got

\* The winner of a node that may answer, and what a race has cancelled, are settled as well.
LEMMA JustifiedStays ==
  ASSUME IInv, LegalStep, NEW t \in Nodes, NEW r, Justified(t, r), stage[t] # "none"
  PROVE  Justified(t, r)'
<1>1. /\ Nodes' = Nodes /\ Kind(t)' = Kind(t) /\ Of(t)' = Of(t) /\ Up(t)' = Up(t) /\ Inputs(t)' = Inputs(t)
      /\ Source(t)' = Source(t) /\ Retries(t)' = Retries(t)
  BY SameGraph DEF LegalStep
<1>2. /\ TypeInv /\ Inputs(t) \subseteq Nodes /\ DOMAIN Of(t) = 1 .. Len(Of(t)) /\ Len(Of(t)) \in Nat
      /\ \A i \in DOMAIN Of(t) : Of(t)[i] \in Nodes
      /\ Kind(t) \in Unary => Up(t) \in Nodes
  BY GraphFacts DEF IInv, Inputs, Range
<1>3. \A c \in Nodes : Resolved(c) => /\ result'[c] = result[c] /\ Resolved(c)'
                                      /\ (Threw(c)' <=> Threw(c)) /\ Got(c)' = Got(c)
  BY ResultsStay
<1>4. \A c \in Nodes : result[c] = "ok" => result'[c] = "ok"
  BY <1>3 DEF Resolved, Pending
<1>5. winner[t] # 0 => winner'[t] = winner[t] /\ result'[winner[t]] = result[winner[t]]
  BY <1>2, <1>3 DEF LegalStep, WinnerRule, IInv, WinnerInv
<1>6. stopped # {} => stopped' # {}
  BY DEF LegalStep
<1>7. Kind(t)' = "sequence" =>
        \/ r = "ok" /\ \A c \in Inputs(t)' : result'[c] = "ok"
        \/ \E i \in DOMAIN Of(t)' : /\ \A j \in 1 .. i - 1 : result'[Of(t)'[j]] = "ok"
                                    /\ result'[Of(t)'[i]] \notin {Pending, "ok"}
                                    /\ r = (Got(Of(t)[i]))'
  <2> SUFFICES ASSUME Kind(t) = "sequence"
               PROVE  \/ r = "ok" /\ \A c \in Inputs(t) : result'[c] = "ok"
                      \/ \E i \in DOMAIN Of(t) : /\ \A j \in 1 .. i - 1 : result'[Of(t)[j]] = "ok"
                                                 /\ result'[Of(t)[i]] \notin {Pending, "ok"}
                                                 /\ r = Got(Of(t)[i])'
    BY <1>1
  <2>1. CASE r = "ok" /\ \A c \in Inputs(t) : result[c] = "ok"
    BY <1>2, <1>4, <2>1
  <2>2. ASSUME NEW i \in DOMAIN Of(t), \A j \in 1 .. i - 1 : result[Of(t)[j]] = "ok",
               result[Of(t)[i]] \notin {Pending, "ok"}, r = Got(Of(t)[i])
        PROVE  /\ \A j \in 1 .. i - 1 : result'[Of(t)[j]] = "ok"
               /\ result'[Of(t)[i]] \notin {Pending, "ok"}
               /\ r = Got(Of(t)[i])'
    <3>1. \A j \in 1 .. i - 1 : j \in DOMAIN Of(t)
      BY <1>2
    <3>2. PICK c \in Nodes : c = Of(t)[i]
      BY <1>2
    <3>3. Resolved(c) /\ result[c] # "ok" /\ r = Got(c)
      BY <2>2, <3>2 DEF Resolved
    <3>4. Of(t)[i]' = c
      BY <1>1, <3>2
    <3>5. result'[c] = result[c] /\ Got(c)' = Got(c)
      BY <1>3, <3>3
    <3>6. Got(Of(t)[i])' = Got(c)'
      BY <3>4 DEF Got, Threw
    <3>7. \A j \in 1 .. i - 1 : result'[Of(t)[j]] = "ok"
      BY <1>2, <1>4, <2>2, <3>1
    <3>. QED BY <2>2, <3>2, <3>3, <3>5, <3>6, <3>7
  <2>. QED BY <2>1, <2>2 DEF Justified
<1>8. Kind(t) = "race" => \/ winner'[t] # 0 /\ r = result'[winner'[t]] /\ cancels'[t] = Len(Of(t))
                          \/ Of(t) = <<>>
  <2>1. cancels[t] = Len(Of(t)) => cancels'[t] = cancels[t]
    <3>1. cancels[t] \in Nat /\ CancelRule(t)
      BY DEF LegalStep, IInv, TypeInv
    <3>. QED BY <1>2, <3>1 DEF CancelRule
  <2>. QED BY <1>5, <2>1 DEF Justified
<1>9. Kind(t) = "first" => \/ winner'[t] # 0 /\ r = result'[winner'[t]]
                           \/ r = "broken" /\ winner'[t] = 0 /\ \A c \in Inputs(t) : <<t, c>> \notin waiting'
  <2>1. CASE winner[t] # 0
    BY <1>5, <2>1 DEF Justified
  <2>2. CASE Kind(t) = "first" /\ winner[t] = 0
    <3>1. r = "broken" /\ \A c \in Inputs(t) : <<t, c>> \notin waiting
      BY <2>2 DEF Justified
    <3>2. winner'[t] = 0
      BY <2>2, <3>1 DEF LegalStep, WinnerRule
    <3>3. \A c \in Inputs(t) : <<t, c>> \notin waiting'
      BY <1>2, <3>1 DEF LegalStep, WaitingRule
    <3>. QED BY <3>1, <3>2, <3>3
  <2>. QED BY <2>1, <2>2
<1>10. Kind(t) = "timeout" => \/ Resolved(Up(t))' /\ r = Got(Up(t))'
                              \/ r = "timeout" /\ Source(t) \in stopped'
  <2> SUFFICES ASSUME Kind(t) = "timeout"
               PROVE  \/ Resolved(Up(t))' /\ r = Got(Up(t))'
                      \/ r = "timeout" /\ Source(t) \in stopped'
    OBVIOUS
  <2>1. PICK u \in Nodes : u = Up(t)
    BY <1>2 DEF Unary
  <2>2. Up(t)' = u
    BY <1>1, <2>1
  <2>3. Resolved(u) => Resolved(u)' /\ Got(u)' = Got(u)
    BY <1>3, <2>1
  <2>4. (Resolved(Up(t))' <=> Resolved(u)') /\ Got(Up(t))' = Got(u)'
    BY <2>2 DEF Resolved, Got, Threw
  <2>. QED BY <2>1, <2>3, <2>4 DEF Justified, LegalStep, Stopped
<1>11. Kind(t) = "deadline" => \/ r = "timeout"
                               \/ Resolved(Up(t))' /\ ~Threw(Up(t))' /\ r = result'[Up(t)]
  <2> SUFFICES ASSUME Kind(t) = "deadline"
               PROVE  \/ r = "timeout"
                      \/ Resolved(Up(t))' /\ ~Threw(Up(t))' /\ r = result'[Up(t)]
    OBVIOUS
  <2>1. PICK u \in Nodes : u = Up(t)
    BY <1>2 DEF Unary
  <2>2. Up(t)' = u
    BY <1>1, <2>1
  <2>3. (Resolved(Up(t))' <=> Resolved(u)') /\ (Threw(Up(t))' <=> Threw(u)')
    BY <2>2 DEF Resolved, Threw
  <2>. QED BY <1>3, <2>1, <2>3 DEF Justified
<1>12. Retries(t) /\ r = "exhausted" => tries'[t] = Attempts
  <2>1. TriesOK(t) /\ tries[t] \in Nat /\ Attempts \in Nat
    BY TasksAssumption DEF IInv, TypeInv, TasksAssumption
  <2>2. Retries(t) /\ stage[t] = "attempt" => tries[t] < Attempts
    BY <2>1 DEF TriesOK
  <2>. QED BY <2>1, <2>2 DEF Justified, LegalStep, TriesRule
<1>13. r = "cancelled" => stopped' # {}
  BY <1>6 DEF Justified
<1>. QED BY <1>1, <1>7, <1>8, <1>9, <1>10, <1>11, <1>12, <1>13 DEF Justified, Stopped

-----------------------------------------------------------------------------
\* Legal steps preserve the invariant.
LEMMA LegalType == ASSUME IInv, LegalStep PROVE TypeInv'
<1>1. /\ TypeInv /\ graph' = graph /\ Nodes' = Nodes /\ Functional
      /\ \A t \in Nodes : /\ Kept(t) \/ Moved(t) \/ Ended(t)
                          /\ WinnerRule(t) /\ CancelRule(t) /\ TriesRule(t)
  BY SameGraph DEF IInv, LegalStep
<1>2. ASSUME NEW t \in Nodes PROVE stage'[t] \in Stages /\ result'[t] \in Results
  BY <1>1 DEF TypeInv, Kept, Moved, Ended, Stages
<1>3. ASSUME NEW t \in Nodes PROVE winner'[t] \in Nodes \cup {0}
  BY <1>1, GraphFacts DEF TypeInv, WinnerRule
<1>4. ASSUME NEW t \in Nodes PROVE cancels'[t] \in Nat /\ tries'[t] \in Nat
  <2>1. cancels[t] \in Nat /\ tries[t] \in Nat /\ CancelRule(t) /\ TriesRule(t)
    BY <1>1 DEF TypeInv
  <2>2. cancels'[t] \in Nat
    BY <2>1 DEF CancelRule
  <2>3. tries'[t] \in Nat
    BY <2>1 DEF TriesRule
  <2>. QED BY <2>2, <2>3
<1>. QED BY <1>1, <1>2, <1>3, <1>4 DEF TypeInv, Functional

LEMMA LegalStage == ASSUME IInv, LegalStep PROVE StageInv'
<1> SUFFICES ASSUME NEW t \in Nodes
             PROVE  /\ stage'[t] = "done" <=> Resolved(t)'
                    /\ stage'[t] \in {"backoff", "exhausted"} => Retries(t)
                    /\ stage'[t] = "cancelled" => Source(t) \in stopped'
                    /\ Continues(t) /\ stage'[t] \in {"body", "inner"} => Resolved(Up(t))'
  BY SameGraph DEF LegalStep, StageInv, Stopped
<1>1. /\ Kept(t) \/ Moved(t) \/ Ended(t)
      /\ stopped \subseteq stopped'
      /\ stage[t] = "done" <=> Resolved(t)
      /\ stage[t] \in {"backoff", "exhausted"} => Retries(t)
      /\ stage[t] = "cancelled" => Source(t) \in stopped
      /\ Continues(t) /\ stage[t] \in {"body", "inner"} => Resolved(Up(t))
  BY DEF LegalStep, IInv, StageInv, Stopped
<1>2. stage'[t] = "done" <=> Resolved(t)'
  BY <1>1 DEF Kept, Moved, Ended, Resolved
<1>3. stage'[t] \in {"backoff", "exhausted"} => Retries(t)
  BY <1>1 DEF Kept, Moved, Ended
<1>4. stage'[t] = "cancelled" => Source(t) \in stopped'
  BY <1>1 DEF Kept, Moved, Ended
<1>5. Continues(t) /\ stage'[t] \in {"body", "inner"} => Resolved(Up(t))'
  <2> SUFFICES ASSUME Continues(t), stage'[t] \in {"body", "inner"} PROVE Resolved(Up(t))'
    OBVIOUS
  <2>1. PICK u \in Nodes : u = Up(t)
    BY GraphFacts DEF IInv, Unary, Continues
  <2>2. Resolved(u)
    BY <1>1, <2>1 DEF Kept, Moved, Ended
  <2>3. Resolved(u)'
    BY <2>2, ResultsStay
  <2>4. Up(t)' = u
    BY <2>1, SameGraph DEF LegalStep
  <2>. QED BY <2>3, <2>4 DEF Resolved
<1>. QED BY <1>2, <1>3, <1>4, <1>5

LEMMA LegalCancel == ASSUME IInv, LegalStep PROVE CancelInv'
<1> SUFFICES ASSUME NEW t \in Nodes, NEW i \in 1 .. cancels'[t]
             PROVE  i \in DOMAIN Of(t) /\ Source(Of(t)[i])' \in stopped'
  <2>1. Nodes' = Nodes /\ \A t \in Nodes : Of(t)' = Of(t)
    BY SameGraph DEF LegalStep
  <2>. QED BY <2>1 DEF CancelInv, Source
<1>1. /\ CancelRule(t) /\ cancels[t] \in Nat /\ stopped \subseteq stopped' /\ graph' = graph
      /\ DOMAIN Of(t) = 1 .. Len(Of(t)) /\ Len(Of(t)) \in Nat
      /\ \A j \in 1 .. cancels[t] : j \in DOMAIN Of(t) /\ Source(Of(t)[j]) \in stopped
  BY GraphFacts DEF LegalStep, IInv, CancelInv, TypeInv
<1>2. i \in DOMAIN Of(t) /\ Source(Of(t)[i]) \in stopped'
  <2>1. CASE i \in 1 .. cancels[t]
    BY <1>1, <2>1
  <2>2. CASE i \notin 1 .. cancels[t]
    <3>1. cancels[t] < Len(Of(t)) /\ cancels'[t] = cancels[t] + 1 /\ Source(Of(t)[cancels[t] + 1]) \in stopped'
      BY <1>1, <2>2 DEF CancelRule
    <3>2. i = cancels[t] + 1
      BY <1>1, <2>2, <3>1
    <3>. QED BY <1>1, <3>1, <3>2
  <2>. QED BY <2>1, <2>2
<1>3. Source(Of(t)[i])' = Source(Of(t)[i])
  BY <1>1, SameGraph DEF Source, Of
<1>. QED BY <1>2, <1>3

LEMMA LegalWinner == ASSUME IInv, LegalStep PROVE WinnerInv'
<1> SUFFICES ASSUME NEW t \in Nodes
             PROVE  /\ \A c \in Nodes \cup {Timer} : <<t, c>> \in waiting' => Exists(t)'
                    /\ winner'[t] # 0 => Exists(t)' /\ winner'[t] \in Inputs(t) /\ Resolved(winner[t])' /\ ~Threw(winner[t])'
                    /\ Kind(t) = "first" /\ Exists(t)' /\ winner'[t] = 0 =>
                         \A c \in Inputs(t) : <<t, c>> \in waiting' \/ Threw(c)'
  BY SameGraph DEF LegalStep, WinnerInv, Resolved, Threw
<1>1. /\ Kept(t) \/ Moved(t) \/ Ended(t)
      /\ WinnerRule(t) /\ WaitingRule(t)
      /\ \A c \in Nodes \cup {Timer} : <<t, c>> \in waiting => Exists(t)
      /\ winner[t] # 0 => Exists(t) /\ winner[t] \in Inputs(t) /\ Resolved(winner[t]) /\ ~Threw(winner[t])
      /\ Kind(t) = "first" /\ Exists(t) /\ winner[t] = 0 => \A c \in Inputs(t) : <<t, c>> \in waiting \/ Threw(c)
      /\ Inputs(t) \subseteq Nodes
  BY GraphFacts DEF LegalStep, IInv, WinnerInv
<1>2. Exists(t) => Exists(t)'
  BY <1>1 DEF Kept, Moved, Ended, Exists
<1>3. \A c \in Nodes \cup {Timer} : <<t, c>> \in waiting' => Exists(t)'
  BY <1>1, <1>2 DEF WaitingRule, Exists
<1>4. winner'[t] # 0 => Exists(t)' /\ winner'[t] \in Inputs(t) /\ Resolved(winner[t])' /\ ~Threw(winner[t])'
  <2> SUFFICES ASSUME winner'[t] # 0
               PROVE  Exists(t)' /\ winner'[t] \in Inputs(t) /\ Resolved(winner[t])' /\ ~Threw(winner[t])'
    OBVIOUS
  <2>1. PICK c \in Nodes : c = winner'[t] /\ c \in Inputs(t) /\ Resolved(c) /\ ~Threw(c) /\ Exists(t)
    BY <1>1 DEF WinnerRule
  <2>2. Resolved(c)' /\ ~Threw(c)'
    BY <2>1, ResultsStay
  <2>. QED BY <1>2, <2>1, <2>2 DEF Resolved, Threw
<1>5. ASSUME Kind(t) = "first", Exists(t)', winner'[t] = 0, NEW c \in Inputs(t)
      PROVE  <<t, c>> \in waiting' \/ Threw(c)'
  <2>1. CASE ~Exists(t)
    BY <1>1, <1>5, <2>1 DEF WaitingRule, Exists
  <2>2. CASE Exists(t)
    <3>1. winner[t] = 0
      BY <1>1, <1>5, GraphFacts DEF WinnerRule, IInv
    <3>2. Threw(c) => Threw(c)'
      BY <1>1, ResultsStay DEF Threw, Resolved, Pending
    <3>. QED BY <1>1, <1>5, <2>2, <3>1, <3>2 DEF WaitingRule
  <2>. QED BY <2>1, <2>2
<1>. QED BY <1>3, <1>4, <1>5

LEMMA LegalAnswer == ASSUME IInv, LegalStep PROVE AnswerInv'
<1> SUFFICES ASSUME NEW t \in Nodes, Resolved(t)' PROVE Justified(t, result[t])'
  BY SameGraph DEF LegalStep, AnswerInv
<1>1. PICK r : r = result'[t]
  OBVIOUS
<1>2. stage[t] # "none" /\ Justified(t, r)
  <2>1. CASE Resolved(t)
    BY <1>1, <2>1, ResultsStay DEF IInv, AnswerInv
  <2>2. CASE ~Resolved(t)
    <3>1. Ended(t)
      BY <2>2 DEF LegalStep, Kept, Moved, Resolved
    <3>. QED BY <1>1, <3>1 DEF Ended
  <2>. QED BY <2>1, <2>2
<1>3. Justified(t, r)'
  BY <1>2, JustifiedStays
<1>. QED BY <1>1, <1>3 DEF Justified

LEMMA LegalInv == IInv /\ LegalStep => IInv'
<1> SUFFICES ASSUME IInv, LegalStep PROVE IInv'
  OBVIOUS
<1>1. (\A t \in Nodes : TriesOK(t))'
  BY SameGraph DEF LegalStep, TriesRule
<1>. QED BY <1>1, LegalType, LegalStage, LegalCancel, LegalWinner, LegalAnswer DEF IInv

-----------------------------------------------------------------------------
\* Every action is legal.  Most change one node and nothing of the detached threads.
LEMMA QuietLegal ==
  ASSUME IInv, UNCHANGED <<graph, stage, result, winner, cancels, tries>>, stopped \subseteq stopped',
         waiting' = waiting
  PROVE  LegalStep
<1>1. Functional
  BY DEF IInv, TypeInv, Functional
<1>2. ASSUME NEW t \in Nodes PROVE TriesOK(t)'
  BY SameGraph DEF IInv, TriesOK
<1>. QED BY <1>1, <1>2 DEF LegalStep, Kept, WinnerRule, CancelRule, WaitingRule, TriesRule

\* The others keep their stage and result when t moves or ends.
LEMMA OneNode ==
  ASSUME TypeInv, NEW t \in Nodes, graph' = graph, UNCHANGED <<winner, cancels>>,
         \/ \E s : Moves(t, s)
         \/ \E r : Ends(t, r),
         tries' = tries \/ tries' = [tries EXCEPT ![t] = @ + 1]
  PROVE  /\ Functional
         /\ \A u \in Nodes : u # t => Kept(u) /\ tries'[u] = tries[u]
         /\ \A s : Moves(t, s) => stage'[t] = s /\ result'[t] = result[t]
         /\ \A r : Ends(t, r) => stage'[t] = "done" /\ result'[t] = r
<1>1. Functional
  BY DEF TypeInv, Functional, Moves, Ends
<1>. QED BY <1>1 DEF TypeInv, Kept, Moves, Ends

LEMMA OneNodeLegal ==
  ASSUME IInv, NEW t \in Nodes, graph' = graph, stopped \subseteq stopped', UNCHANGED <<winner, cancels>>,
         \/ \E s : Moves(t, s)
         \/ \E r : Ends(t, r),
         Moved(t) \/ Ended(t), \A u \in Nodes : WaitingRule(u),
         \/ tries' = tries /\ (Retries(t) => TriesOK(t)')
         \/ tries' = [tries EXCEPT ![t] = @ + 1] /\ stage[t] = "attempt" /\ TriesOK(t)'
  PROVE  LegalStep
<1>1. /\ TypeInv /\ Functional
      /\ \A u \in Nodes : u # t => Kept(u) /\ tries'[u] = tries[u]
  BY OneNode DEF IInv
<1>2. ASSUME NEW u \in Nodes PROVE TriesRule(u)
  <2>1. CASE u # t
    BY <1>1, <2>1, SameGraph DEF TriesRule, IInv, TriesOK, Kept
  <2>2. CASE u = t
    <3>1. tries'[t] = tries[t] \/ (stage[t] = "attempt" /\ tries'[t] = tries[t] + 1)
      BY <1>1 DEF TypeInv
    <3>2. TriesOK(t)'
      BY SameGraph DEF TriesOK
    <3>. QED BY <2>2, <3>1, <3>2 DEF TriesRule
  <2>. QED BY <2>1, <2>2
<1>. QED BY <1>1, <1>2 DEF LegalStep, WinnerRule, CancelRule

LEMMA MovesLegal ==
  ASSUME IInv, NEW t \in Nodes, NEW s \in Stages \ {"none", "done"}, Moves(t, s), stage[t] \notin {"none", "done"},
         UNCHANGED <<graph, waiting, winner, cancels, tries>>, stopped \subseteq stopped',
         Retries(t) => TriesOK(t)',
         s \in {"backoff", "exhausted"} => Retries(t),
         s = "cancelled" => Source(t) \in stopped',
         Continues(t) /\ s \in {"body", "inner"} => Resolved(Up(t)),
         Continues(t) /\ s = "body" => ~Stopped(t)
  PROVE  LegalStep
<1>1. stage'[t] = s /\ result'[t] = result[t] /\ \A u \in Nodes : u # t => stage'[u] = stage[u]
  BY OneNode DEF IInv, Kept
<1>2. Moved(t)
  BY <1>1 DEF Moved
<1>3. \A u \in Nodes : WaitingRule(u)
  BY <1>1 DEF WaitingRule
<1>. QED BY <1>2, <1>3, OneNodeLegal

LEMMA EndsLegal ==
  ASSUME IInv, NEW t \in Nodes, NEW r \in Results \ {Pending}, Ends(t, r), stage[t] \notin {"none", "done"},
         UNCHANGED <<graph, winner, cancels, tries>>, stopped \subseteq stopped', Justified(t, r),
         \/ waiting' = waiting
         \/ (Kind(t) # "first" \/ winner[t] # 0) /\ \E c : waiting' = waiting \ {<<t, c>>}
  PROVE  LegalStep
<1>1. stage'[t] = "done" /\ result'[t] = r /\ \A u \in Nodes : u # t => stage'[u] = stage[u]
  BY OneNode DEF IInv, Kept
<1>2. Ended(t)
  BY <1>1 DEF Ended
<1>3. \A u \in Nodes : WaitingRule(u)
  <2>1. CASE waiting' = waiting
    BY <1>1, <2>1 DEF WaitingRule
  <2>2. ASSUME Kind(t) # "first" \/ winner[t] # 0, NEW c, waiting' = waiting \ {<<t, c>>} PROVE \A u \in Nodes : WaitingRule(u)
    BY <1>1, <2>2 DEF WaitingRule
  <2>. QED BY <2>1, <2>2
<1>4. Retries(t) => TriesOK(t)'
  BY <1>1, SameGraph DEF TriesOK, IInv
<1>. QED BY <1>2, <1>3, <1>4, OneNodeLegal

\* What get() gives a node is an answer, and "cancelled" only if something was stopped.
LEMMA GotAnswer ==
  ASSUME IInv, NEW c \in Nodes, Resolved(c)
  PROVE  /\ result[c] \in Results \ {Pending} /\ Got(c) \in Results \ {Pending}
         /\ result[c] = "cancelled" \/ Got(c) = "cancelled" => stopped # {}
         /\ Got(c) = "ok" <=> result[c] = "ok"
<1>1. result[c] \in Results \ {Pending}
  BY DEF IInv, TypeInv, Resolved
<1>2. result[c] = "cancelled" => stopped # {}
  BY DEF IInv, AnswerInv, Justified
<1>. QED BY <1>1, <1>2 DEF Got, Threw, Results, Pending

\* Nodes that may answer whatever their callable or the node before them gives.
Free(t) == Kind(t) \notin {"sequence", "race", "first", "timeout", "deadline", "retry", "again"}

LEMMA FreeEnds ==
  ASSUME IInv, NEW t \in Nodes, NEW r \in Results \ {Pending}, Ends(t, r), stage[t] \notin {"none", "done"},
         Free(t), r = "cancelled" => stopped # {},
         UNCHANGED <<graph, waiting, winner, cancels, tries>>, stopped \subseteq stopped'
  PROVE  LegalStep
<1>1. Justified(t, r)
  BY DEF Justified, Free, Retries
<1>. QED BY <1>1, EndsLegal

LEMMA FreeMoves ==
  ASSUME IInv, NEW t \in Nodes, NEW s \in Stages \ {"none", "done", "backoff", "exhausted", "cancelled"},
         Moves(t, s), stage[t] \notin {"none", "done"}, ~Retries(t),
         Continues(t) /\ s \in {"body", "inner"} => Resolved(Up(t)),
         Continues(t) /\ s = "body" => ~Stopped(t),
         UNCHANGED <<graph, waiting, winner, cancels, tries>>, stopped \subseteq stopped'
  PROVE  LegalStep
BY MovesLegal

\* How an action states what it leaves alone.
LEMMA Frames ==
  /\ (UNCHANGED detached => UNCHANGED <<waiting, winner, cancels>>)
  /\ (UNCHANGED stops => stopped \subseteq stopped')
BY DEF detached, stops

LEMMA ProducerLegal ==
  ASSUME IInv, NEW t \in Nodes, ProducerSkips(t) \/ ProducerStarts(t) \/ BodyEnds(t)
  PROVE  LegalStep
<1>1. UNCHANGED <<graph, waiting, winner, cancels, tries>> /\ stopped \subseteq stopped'
  BY Frames DEF ProducerSkips, ProducerStarts, BodyEnds
<1>2. CASE ProducerSkips(t)
  BY <1>1, <1>2, FreeEnds DEF ProducerSkips, Stopped, Free, Results, Pending
<1>3. CASE ProducerStarts(t)
  BY <1>1, <1>3, FreeMoves DEF ProducerStarts, Stages, Retries, Continues
<1>4. CASE BodyEnds(t)
  <2>1. PICK r \in graph[t].ends : MayEnd(t, r) /\ Ends(t, r)
    BY <1>4 DEF BodyEnds
  <2>2. r \in Results \ {Pending} /\ (r = "cancelled" => stopped # {})
    BY <2>1, GraphFacts DEF IInv, MayEnd, Stopped, Results, Pending
  <2>3. Free(t) /\ stage[t] = "body"
    BY <1>4 DEF BodyEnds, Free
  <2>. QED BY <1>1, <2>1, <2>2, <2>3, FreeEnds
<1>. QED BY <1>2, <1>3, <1>4

LEMMA ContinuationLegal ==
  ASSUME IInv, NEW t \in Nodes, ContinuationSkips(t) \/ ContinuationWaits(t) \/ ContinuationGets(t)
  PROVE  LegalStep
<1>1. UNCHANGED <<graph, waiting, winner, cancels, tries>> /\ stopped \subseteq stopped'
  BY Frames DEF ContinuationSkips, ContinuationWaits, ContinuationGets
<1>2. Free(t) /\ ~Retries(t) /\ Continues(t) /\ stage[t] \notin {"none", "done"}
  BY DEF ContinuationSkips, ContinuationWaits, ContinuationGets, Free, Retries, Continues
<1>3. CASE ContinuationSkips(t)
  BY <1>1, <1>2, <1>3, FreeEnds DEF ContinuationSkips, Stopped, Results, Pending
<1>4. CASE ContinuationWaits(t)
  BY <1>1, <1>2, <1>4, FreeMoves DEF ContinuationWaits, Stages
<1>5. CASE ContinuationGets(t)
  <2>1. PICK u \in Nodes : u = Up(t) /\ Resolved(u)
    BY <1>5, GraphFacts DEF IInv, ContinuationGets, Continues, Unary
  <2>2. \/ Ends(t, "thrown")
        \/ Stopped(t) /\ Ends(t, "cancelled")
        \/ Ends(t, result[u])
        \/ ~Stopped(t) /\ Moves(t, "body")
    BY <1>5, <2>1 DEF ContinuationGets
  <2>3. CASE Ends(t, "thrown")
    BY <1>1, <1>2, <2>3, FreeEnds DEF Results, Pending
  <2>4. CASE Stopped(t) /\ Ends(t, "cancelled")
    BY <1>1, <1>2, <2>4, FreeEnds DEF Results, Pending, Stopped
  <2>5. CASE Ends(t, result[u])
    BY <1>1, <1>2, <2>1, <2>5, FreeEnds, GotAnswer
  <2>6. CASE ~Stopped(t) /\ Moves(t, "body")
    BY <1>1, <1>2, <2>1, <2>6, FreeMoves DEF Stages
  <2>. QED BY <2>2, <2>3, <2>4, <2>5, <2>6
<1>. QED BY <1>3, <1>4, <1>5

LEMMA InnerLegal ==
  ASSUME IInv, NEW t \in Nodes, InnerBridges(t) \/ InnerThrows(t) \/ InnerReturns(t) \/ AsyncInnerReturns(t)
  PROVE  LegalStep
<1>1. UNCHANGED <<graph, waiting, winner, cancels, tries>> /\ stopped \subseteq stopped'
  BY Frames DEF InnerBridges, InnerThrows, InnerReturns, AsyncInnerReturns, Bridge
<1>2. Free(t) /\ ~Retries(t) /\ Kind(t) \in Nested /\ stage[t] \in {"body", "inner"}
  BY DEF InnerBridges, InnerThrows, InnerReturns, AsyncInnerReturns, Free, Retries, Nested
<1>3. CASE InnerBridges(t)
  <2>1. Moves(t, "inner") /\ stage[t] = "body"
    BY <1>3 DEF InnerBridges
  <2>2. Continues(t) => Resolved(Up(t))
    BY <2>1 DEF IInv, StageInv
  <2>. QED BY <1>1, <1>2, <2>1, <2>2, FreeMoves DEF Stages
<1>4. CASE InnerThrows(t)
  BY <1>1, <1>2, <1>4, FreeEnds DEF InnerThrows, Results, Pending
<1>5. CASE InnerReturns(t) \/ AsyncInnerReturns(t)
  <2>1. PICK u \in Nodes : u = graph[t].inner /\ Resolved(u)
    BY <1>2, <1>5, GraphFacts DEF IInv, InnerReturns, AsyncInnerReturns
  <2>2. Ends(t, Got(u))
    BY <1>5, <2>1 DEF InnerReturns, AsyncInnerReturns
  <2>. QED BY <1>1, <1>2, <2>1, <2>2, FreeEnds, GotAnswer
<1>. QED BY <1>3, <1>4, <1>5

LEMMA GetsLegal ==
  ASSUME IInv, NEW t \in Nodes, RecoverGets(t) \/ MapGets(t) \/ AsyncAndThenGets(t)
  PROVE  LegalStep
<1>1. UNCHANGED <<graph, waiting, winner, cancels, tries>> /\ stopped \subseteq stopped'
  BY Frames DEF RecoverGets, MapGets, AsyncAndThenGets
<1>2. Free(t) /\ ~Retries(t) /\ ~Continues(t) /\ Kind(t) \in Unary /\ stage[t] = "created"
  BY DEF RecoverGets, MapGets, AsyncAndThenGets, Free, Retries, Unary, Continues
<1>3. PICK u \in Nodes : u = Up(t) /\ Resolved(u)
  BY <1>2, GraphFacts DEF IInv, RecoverGets, MapGets, AsyncAndThenGets
<1>4. Ends(t, "ok") \/ Ends(t, "thrown") \/ Ends(t, result[u]) \/ Moves(t, "body")
  BY <1>3 DEF RecoverGets, MapGets, AsyncAndThenGets
<1>5. CASE Ends(t, "ok") \/ Ends(t, "thrown")
  BY <1>1, <1>2, <1>5, FreeEnds DEF Results, Pending
<1>6. CASE Ends(t, result[u])
  BY <1>1, <1>2, <1>3, <1>6, FreeEnds, GotAnswer
<1>7. CASE Moves(t, "body")
  BY <1>1, <1>2, <1>7, FreeMoves DEF Stages
<1>. QED BY <1>4, <1>5, <1>6, <1>7

LEMMA ListLegal ==
  ASSUME IInv, NEW t \in Nodes, JoinReturns(t) \/ SequenceReturns(t)
  PROVE  LegalStep
<1>1. UNCHANGED <<graph, waiting, winner, cancels, tries>> /\ stopped \subseteq stopped' /\ stage[t] = "created"
  BY Frames DEF JoinReturns, SequenceReturns
<1>2. CASE JoinReturns(t)
  <2>1. Free(t) /\ (Ends(t, "ok") \/ Ends(t, "thrown"))
    BY <1>2 DEF JoinReturns, Free
  <2>. QED BY <1>1, <2>1, FreeEnds DEF Results, Pending
<1>3. CASE SequenceReturns(t)
  <2>1. Kind(t) = "sequence" /\ ~Retries(t)
    BY <1>3 DEF SequenceReturns, Retries
  <2>2. CASE (\A c \in Inputs(t) : result[c] = "ok") /\ Ends(t, "ok")
    <3>1. Justified(t, "ok")
      BY <2>1, <2>2 DEF Justified
    <3>. QED BY <1>1, <2>2, <3>1, EndsLegal DEF Results, Pending
  <2>3. ASSUME NEW i \in DOMAIN Of(t), \A j \in 1 .. i - 1 : result[Of(t)[j]] = "ok",
               result[Of(t)[i]] \notin {Pending, "ok"}, Ends(t, Got(Of(t)[i]))
        PROVE  LegalStep
    <3>1. PICK c \in Nodes : c = Of(t)[i] /\ Resolved(c)
      BY <2>3, GraphFacts DEF IInv, Resolved
    <3>2. Got(c) \in Results \ {Pending} /\ (Got(c) = "cancelled" => stopped # {})
      BY <3>1, GotAnswer
    <3>3. Justified(t, Got(c))
      BY <2>1, <2>3, <3>1, <3>2 DEF Justified
    <3>. QED BY <1>1, <2>3, <3>1, <3>2, <3>3, EndsLegal
  <2>. QED BY <1>3, <2>2, <2>3 DEF SequenceReturns
<1>. QED BY <1>2, <1>3

-----------------------------------------------------------------------------
LEMMA TimeoutLegal ==
  ASSUME IInv, NEW t \in Nodes,
         TimeoutGets(t) \/ TimeoutExpires(t) \/ TimeoutCancels(t) \/ TimeoutReturns(t)
  PROVE  LegalStep
<1>1. /\ UNCHANGED <<graph, waiting, winner, cancels, tries>> /\ stopped \subseteq stopped'
      /\ Kind(t) = "timeout" /\ ~Retries(t) /\ ~Continues(t) /\ stage[t] \notin {"none", "done"}
  BY Frames DEF TimeoutGets, TimeoutExpires, TimeoutCancels, TimeoutReturns, Retries, Continues
<1>2. CASE TimeoutGets(t)
  <2>1. PICK u \in Nodes : u = Up(t) /\ Resolved(u) /\ Ends(t, Got(u))
    BY <1>1, <1>2, GraphFacts DEF TimeoutGets, IInv, Unary
  <2>2. Got(u) \in Results \ {Pending} /\ (Got(u) = "cancelled" => stopped # {})
    BY <2>1, GotAnswer
  <2>3. Justified(t, Got(u))
    BY <1>1, <2>1, <2>2 DEF Justified
  <2>. QED BY <1>1, <2>1, <2>2, <2>3, EndsLegal
<1>3. CASE TimeoutExpires(t)
  BY <1>1, <1>3, MovesLegal DEF TimeoutExpires, Stages
<1>4. CASE TimeoutCancels(t)
  BY <1>1, <1>4, MovesLegal DEF TimeoutCancels, Stages
<1>5. CASE TimeoutReturns(t)
  <2>1. Justified(t, "timeout")
    BY <1>1, <1>5 DEF TimeoutReturns, Justified, IInv, StageInv
  <2>. QED BY <1>1, <1>5, <2>1, EndsLegal DEF TimeoutReturns, Results, Pending
<1>. QED BY <1>2, <1>3, <1>4, <1>5

\* A detached thread leaves without an answer: of a race over futures only when its contestant
\* threw or another one won.
LEMMA LeavesLegal ==
  ASSUME IInv, NEW t \in Nodes, NEW c, Leaves(t, c),
         UNCHANGED <<graph, stage, result, stops, winner, cancels, tries>>,
         Kind(t) = "first" => winner[t] # 0 \/ (c \in Nodes => Threw(c))
  PROVE  LegalStep
<1>1. Functional /\ stopped \subseteq stopped'
  BY DEF IInv, TypeInv, Functional, stops
<1>2. ASSUME NEW u \in Nodes PROVE TriesOK(u)'
  BY SameGraph DEF IInv, TriesOK
<1>3. \A u \in Nodes : WaitingRule(u)
  BY DEF WaitingRule, Leaves
<1>. QED BY <1>1, <1>2, <1>3 DEF LegalStep, Kept, WinnerRule, CancelRule, TriesRule

\* The flag of a race is set.
LEMMA WinsLegal ==
  ASSUME IInv, NEW t \in Nodes, NEW c \in Inputs(t), <<t, c>> \in waiting, Resolved(c), ~Threw(c), winner[t] = 0,
         winner' = [winner EXCEPT ![t] = c],
         UNCHANGED <<graph, stage, result, stops, waiting, cancels, tries>>
  PROVE  LegalStep
<1>1. Functional /\ stopped \subseteq stopped'
  BY DEF IInv, TypeInv, Functional, stops
<1>2. ASSUME NEW u \in Nodes PROVE TriesOK(u)' /\ WinnerRule(u)
  BY SameGraph DEF IInv, TriesOK, WinnerRule, TypeInv
<1>. QED BY <1>1, <1>2 DEF LegalStep, Kept, CancelRule, TriesRule, WaitingRule

LEMMA ContestantLegal ==
  ASSUME IInv, NEW t \in Nodes, NEW c \in Inputs(t),
         \/ ContestantWins(t, c) \/ ContestantLoses(t, c) \/ ContestantThrows(t, c)
         \/ FirstFinishes(t, c)
  PROVE  LegalStep
<1>1. CASE ContestantWins(t, c)
  BY <1>1, WinsLegal DEF ContestantWins
<1>2. CASE ContestantLoses(t, c)
  BY <1>2, LeavesLegal DEF ContestantLoses, Leaves
<1>3. CASE ContestantThrows(t, c)
  BY <1>3, QuietLegal DEF ContestantThrows, stops
<1>4. CASE FirstFinishes(t, c)
  <2>1. CASE ~Threw(c) /\ winner[t] = 0
    BY <1>4, <2>1, WinsLegal DEF FirstFinishes
  <2>2. CASE ~ (~Threw(c) /\ winner[t] = 0)
    BY <1>4, <2>2, LeavesLegal DEF FirstFinishes
  <2>. QED BY <2>1, <2>2
<1>. QED BY <1>1, <1>2, <1>3, <1>4

LEMMA WinnerCancelsLegal == ASSUME IInv, NEW t \in Nodes, WinnerCancels(t) PROVE LegalStep
<1>1. /\ cancels[t] < Len(Of(t)) /\ cancels' = [cancels EXCEPT ![t] = @ + 1]
      /\ stopped' = stopped \cup {Source(Of(t)[cancels[t] + 1])}
      /\ UNCHANGED <<graph, stage, result, waiting, winner, tries>>
  BY DEF WinnerCancels
<1>2. Functional
  BY <1>1 DEF IInv, TypeInv, Functional
<1>3. ASSUME NEW u \in Nodes PROVE TriesOK(u)' /\ CancelRule(u)
  BY <1>1, SameGraph DEF IInv, TriesOK, CancelRule, TypeInv
<1>. QED BY <1>1, <1>2, <1>3 DEF LegalStep, Kept, WinnerRule, TriesRule, WaitingRule

\* A race answers as its winner; one whose contestants have all thrown breaks its promise.
LEMMA RaceLegal ==
  ASSUME IInv, NEW t \in Nodes,
         WinnerSets(t) \/ EmptyRaceReturns(t) \/ RaceUnbridges(t) \/ FirstSets(t) \/ PromiseBreaks(t)
  PROVE  LegalStep
<1>1. CASE WinnerSets(t) \/ FirstSets(t)
  <2>1. /\ winner[t] # 0 /\ Ends(t, result[winner[t]]) /\ waiting' = waiting \ {<<t, winner[t]>>} /\ ~Resolved(t)
        /\ UNCHANGED <<graph, winner, cancels, tries>> /\ stopped \subseteq stopped'
        /\ \/ Kind(t) = "race" /\ cancels[t] = Len(Of(t))
           \/ Kind(t) = "first"
    BY <1>1, Frames DEF WinnerSets, FirstSets, Leaves
  <2>2. PICK c \in Nodes : c = winner[t] /\ Resolved(c) /\ stage[t] \notin {"none", "done"}
    BY <2>1, GraphFacts DEF IInv, WinnerInv, StageInv, Exists
  <2>3. result[c] \in Results \ {Pending} /\ (result[c] = "cancelled" => stopped # {})
    BY <2>2, GotAnswer
  <2>4. Justified(t, result[c])
    BY <2>1, <2>2, <2>3 DEF Justified, Retries
  <2>. QED BY <2>1, <2>2, <2>3, <2>4, EndsLegal
<1>2. CASE EmptyRaceReturns(t)
  <2>1. Justified(t, "error")
    BY <1>2 DEF EmptyRaceReturns, Justified, Retries
  <2>. QED BY <1>2, <2>1, EndsLegal, Frames DEF EmptyRaceReturns, Results, Pending
<1>3. CASE RaceUnbridges(t)
  BY <1>3, QuietLegal DEF RaceUnbridges, detached
<1>4. CASE PromiseBreaks(t)
  <2>1. Justified(t, "broken") /\ stage[t] \notin {"none", "done"}
    BY <1>4 DEF PromiseBreaks, Justified, Retries, Exists, IInv, StageInv
  <2>. QED BY <1>4, <2>1, EndsLegal, Frames DEF PromiseBreaks, Results, Pending
<1>. QED BY <1>1, <1>2, <1>3, <1>4

LEMMA DeadlineLegal == ASSUME IInv, NEW t \in Nodes, AnswerArrives(t) \/ TimerFires(t) PROVE LegalStep
<1>1. /\ Kind(t) = "deadline" /\ ~Retries(t) /\ UNCHANGED <<graph, stops, winner, cancels, tries>>
      /\ stopped \subseteq stopped'
  BY Frames DEF AnswerArrives, TimerFires, Retries
<1>2. PICK u \in Nodes : u = Up(t)
  BY <1>1, GraphFacts DEF IInv, Unary
<1>3. PICK c \in Nodes \cup {Timer} : <<t, c>> \in waiting /\ Leaves(t, c)
  BY <1>2 DEF AnswerArrives, TimerFires
<1>4. CASE UNCHANGED <<stage, result>>
  BY <1>1, <1>3, <1>4, LeavesLegal
<1>5. ASSUME NEW r \in Results \ {Pending}, Ends(t, r), ~Resolved(t), Justified(t, r) PROVE LegalStep
  <2>1. stage[t] \notin {"none", "done"}
    BY <1>3, <1>5 DEF IInv, WinnerInv, StageInv, Exists
  <2>. QED BY <1>1, <1>3, <1>5, <2>1, EndsLegal DEF Leaves
<1>6. CASE TimerFires(t) /\ ~Resolved(t)
  <2>1. Ends(t, "timeout") /\ Justified(t, "timeout")
    BY <1>1, <1>6 DEF TimerFires, Justified
  <2>. QED BY <1>5, <1>6, <2>1 DEF Results, Pending
<1>7. CASE AnswerArrives(t) /\ ~Resolved(t) /\ ~Threw(u)
  <2>1. Resolved(u) /\ Ends(t, result[u])
    BY <1>2, <1>7 DEF AnswerArrives
  <2>2. result[u] \in Results \ {Pending} /\ (result[u] = "cancelled" => stopped # {})
    BY <2>1, GotAnswer
  <2>3. Justified(t, result[u])
    BY <1>1, <1>2, <1>7, <2>1, <2>2 DEF Justified
  <2>. QED BY <1>5, <1>7, <2>1, <2>2, <2>3
<1>. QED BY <1>2, <1>4, <1>6, <1>7 DEF AnswerArrives, TimerFires

-----------------------------------------------------------------------------
\* The loop of a retry: attempts are counted up to the last, which has no back-off.
LEMMA RetryTries ==
  ASSUME IInv, NEW t \in Nodes, graph' = graph, NEW k, NEW s, tries'[t] = k, stage'[t] = s,
         k \in Nat, k <= Attempts, s \in {"attempt", "backoff"} => k < Attempts, s = "exhausted" => k = Attempts
  PROVE  TriesOK(t)'
BY DEF TriesOK

LEMMA RetryLegal ==
  ASSUME IInv, NEW t \in Nodes,
         RetryBegins(t) \/ RetryAttempts(t) \/ RetryWakes(t) \/ RetryGivesUp(t) \/ RetryThrows(t)
  PROVE  LegalStep
<1>1. /\ UNCHANGED <<graph, waiting, winner, cancels>> /\ stopped \subseteq stopped'
      /\ Retries(t) /\ ~Continues(t) /\ stage[t] \notin {"none", "done"}
  BY Frames DEF RetryBegins, RetryAttempts, RetryWakes, RetryGivesUp, RetryThrows, Retries, Continues,
                IInv, StageInv, Kind
<1>2. tries[t] \in Nat /\ Attempts \in Nat /\ tries[t] <= Attempts
      /\ (stage[t] \in {"attempt", "backoff"} => tries[t] < Attempts)
      /\ (stage[t] = "exhausted" => tries[t] = Attempts)
  BY <1>1, TasksAssumption DEF IInv, TypeInv, TriesOK, TasksAssumption
<1>3. \A r : r # "exhausted" /\ (r = "cancelled" => stopped # {}) => Justified(t, r)
  BY <1>1 DEF Justified, Retries
<1>4. CASE RetryBegins(t)
  <2>1. tries' = tries
    BY <1>4 DEF RetryBegins
  <2>2. CASE Stopped(t) /\ Ends(t, "cancelled")
    <3>1. Justified(t, "cancelled")
      BY <1>3, <2>2 DEF Stopped
    <3>. QED BY <1>1, <2>1, <2>2, <3>1, EndsLegal DEF Results, Pending
  <2>3. ASSUME NEW s \in {"attempt", "exhausted"}, Moves(t, s), s = "attempt" <=> tries[t] < Attempts PROVE LegalStep
    <3>1. stage'[t] = s
      BY <2>3 DEF Moves, IInv, TypeInv
    <3>2. TriesOK(t)'
      BY <1>1, <1>2, <2>1, <2>3, <3>1, RetryTries
    <3>. QED BY <1>1, <2>1, <2>3, <3>2, MovesLegal DEF Stages
  <2>. QED BY <1>4, <2>2, <2>3 DEF RetryBegins
<1>5. CASE RetryAttempts(t)
  <2>1. stage[t] = "attempt" /\ tries' = [tries EXCEPT ![t] = @ + 1] /\ tries'[t] = tries[t] + 1
    BY <1>5 DEF RetryAttempts, IInv, TypeInv
  <2>2. CASE Ends(t, "ok")
    <3>1. stage'[t] = "done" /\ result'[t] = "ok" /\ \A u \in Nodes : u # t => stage'[u] = stage[u]
      BY <2>2 DEF Ends, IInv, TypeInv
    <3>2. Ended(t)
      BY <1>1, <1>3, <3>1 DEF Ended, Results, Pending
    <3>3. TriesOK(t)'
      BY <1>1, <1>2, <2>1, <3>1, RetryTries
    <3>4. \A u \in Nodes : WaitingRule(u)
      BY <1>1, <3>1 DEF WaitingRule
    <3>. QED BY <1>1, <2>1, <2>2, <3>2, <3>3, <3>4, OneNodeLegal
  <2>3. ASSUME NEW s \in {"exhausted", "backoff"}, Moves(t, s), s = "exhausted" <=> tries[t] + 1 = Attempts PROVE LegalStep
    <3>1. stage'[t] = s /\ result'[t] = result[t] /\ \A u \in Nodes : u # t => stage'[u] = stage[u]
      BY <2>3 DEF Moves, IInv, TypeInv
    <3>2. Moved(t)
      BY <1>1, <2>3, <3>1 DEF Moved, Stages
    <3>3. TriesOK(t)'
      BY <1>1, <1>2, <2>1, <2>3, <3>1, RetryTries
    <3>4. \A u \in Nodes : WaitingRule(u)
      BY <1>1, <3>1 DEF WaitingRule
    <3>. QED BY <1>1, <2>1, <2>3, <3>2, <3>3, <3>4, OneNodeLegal
  <2>. QED BY <1>5, <2>2, <2>3 DEF RetryAttempts
<1>6. CASE RetryWakes(t)
  <2>1. tries' = tries /\ Moves(t, "created") /\ stage'[t] = "created"
    BY <1>6 DEF RetryWakes, Moves, IInv, TypeInv
  <2>2. TriesOK(t)'
    BY <1>1, <1>2, <2>1, RetryTries
  <2>. QED BY <1>1, <2>1, <2>2, MovesLegal DEF Stages
<1>7. CASE RetryGivesUp(t)
  <2>1. tries' = tries /\ stage[t] = "exhausted"
    BY <1>7 DEF RetryGivesUp
  <2>2. CASE Stopped(t) /\ Ends(t, "cancelled")
    <3>1. Justified(t, "cancelled")
      BY <1>3, <2>2 DEF Stopped
    <3>. QED BY <1>1, <2>1, <2>2, <3>1, EndsLegal DEF Results, Pending
  <2>3. CASE Ends(t, "exhausted")
    <3>1. Justified(t, "exhausted")
      BY <1>1, <1>2, <2>1 DEF Justified, Retries
    <3>. QED BY <1>1, <2>1, <2>3, <3>1, EndsLegal DEF Results, Pending
  <2>. QED BY <1>7, <2>2, <2>3 DEF RetryGivesUp
<1>8. CASE RetryThrows(t)
  <2>1. CASE Ends(t, "thrown")
    <3>1. Justified(t, "thrown")
      BY <1>3
    <3>. QED BY <1>1, <1>8, <2>1, <3>1, EndsLegal DEF RetryThrows, Results, Pending
  <2>2. CASE UNCHANGED <<stage, result>>
    BY <1>1, <1>8, <2>2, QuietLegal DEF RetryThrows
  <2>. QED BY <1>8, <2>1, <2>2 DEF RetryThrows
<1>. QED BY <1>4, <1>5, <1>6, <1>7, <1>8

\* A new node waits for all its inputs.
LEMMA CreateLegal ==
  ASSUME IInv, NEW t \in Nodes, CreateTask(t) \/ CreateRace(t) \/ CreateFuture(t)
  PROVE  LegalStep
<1>1. /\ stage[t] = "none" /\ UNCHANGED <<graph, winner, cancels, tries>> /\ stopped \subseteq stopped'
      /\ waiting \subseteq waiting'
      /\ \A p \in waiting' \ waiting : p[1] = t
      /\ Kind(t) = "first" => \A c \in Inputs(t) : <<t, c>> \in waiting'
      /\ Kind(t) \in {"first", "race", "deadline"} \/ waiting' = waiting
      /\ \E s \in {"created", "body"} : Moves(t, s) /\ (s = "body" => ~Continues(t))
  <2>1. stage[t] = "none" /\ UNCHANGED <<graph, winner, cancels, tries>>
    BY Frames DEF CreateTask, CreateRace, CreateFuture, MayCreate, Exists
  <2>2. stopped \subseteq stopped'
    BY Frames DEF CreateTask, CreateRace, CreateFuture, Bridge
  <2>3. \E s \in {"created", "body"} : Moves(t, s) /\ (s = "body" => ~Continues(t))
    BY DEF CreateTask, CreateRace, CreateFuture, Continues
  <2>4. /\ waiting \subseteq waiting' /\ \A p \in waiting' \ waiting : p[1] = t
        /\ Kind(t) = "first" => \A c \in Inputs(t) : <<t, c>> \in waiting'
        /\ Kind(t) \in {"first", "race", "deadline"} \/ waiting' = waiting
    <3>1. CASE CreateTask(t)
      BY <3>1, Frames DEF CreateTask
    <3>2. CASE CreateRace(t)
      BY <3>2 DEF CreateRace
    <3>3. CASE CreateFuture(t)
      BY <3>3 DEF CreateFuture
    <3>. QED BY <3>1, <3>2, <3>3
  <2>. QED BY <2>1, <2>2, <2>3, <2>4
<1>2. PICK s \in {"created", "body"} : Moves(t, s) /\ (s = "body" => ~Continues(t))
  BY <1>1
<1>3. stage'[t] = s /\ result'[t] = result[t] /\ \A u \in Nodes : u # t => stage'[u] = stage[u]
  BY <1>2 DEF Moves, IInv, TypeInv
<1>4. Moved(t)
  BY <1>1, <1>2, <1>3 DEF Moved, Stages
<1>5. Retries(t) => TriesOK(t)'
  <2>1. tries'[t] = tries[t] /\ tries[t] \in Nat
    BY <1>1 DEF IInv, TypeInv
  <2>2. Retries(t) => tries[t] <= Attempts
    BY DEF IInv, TriesOK
  <2>. QED BY <1>1, <1>2, <1>3, <2>1, <2>2, RetryTries
<1>6. \A u \in Nodes : WaitingRule(u)
  BY <1>1, <1>2, <1>3 DEF WaitingRule
<1>. QED BY <1>1, <1>2, <1>4, <1>5, <1>6, OneNodeLegal

LEMMA StopLegal == ASSUME IInv, Stop \/ Callback PROVE LegalStep
<1>1. UNCHANGED <<graph, stage, result, winner, cancels, tries, waiting>> /\ stopped \subseteq stopped'
  BY Frames DEF Stop, Callback, RequestStop, RunCallback
<1>. QED BY <1>1, QuietLegal

LEMMA NextLegal == IInv /\ [Next]_vars => LegalStep
<1> SUFFICES ASSUME IInv, [Next]_vars PROVE LegalStep
  OBVIOUS
<1>1. ASSUME NEW t \in Nodes, Create(t) PROVE LegalStep
  BY <1>1, CreateLegal DEF Create
<1>2. ASSUME NEW t \in Nodes, TaskStep(t) PROVE LegalStep
  BY <1>2, ProducerLegal, ContinuationLegal, InnerLegal, GetsLegal, ListLegal, TimeoutLegal DEF TaskStep
<1>3. ASSUME NEW t \in Nodes, RaceStep(t) PROVE LegalStep
  BY <1>3, ContestantLegal, WinnerCancelsLegal, RaceLegal DEF RaceStep
<1>4. ASSUME NEW t \in Nodes, FutureStep(t) PROVE LegalStep
  BY <1>4, GetsLegal, InnerLegal, ListLegal, RaceLegal, RetryLegal DEF FutureStep
<1>5. ASSUME NEW t \in Nodes, DetachedStep(t) PROVE LegalStep
  BY <1>5, ContestantLegal, DeadlineLegal DEF DetachedStep
<1>6. CASE Stop \/ Callback
  BY <1>6, StopLegal
<1>7. CASE UNCHANGED vars
  BY <1>7, QuietLegal DEF vars, detached, stops
<1>. QED BY <1>1, <1>2, <1>3, <1>4, <1>5, <1>6, <1>7 DEF Next, NodeStep

LEMMA InitIInv == Init => IInv
<1> SUFFICES ASSUME Init PROVE IInv
  OBVIOUS
<1>1. TypeInv
  BY DEF Init, TypeInv, Stages, Results, Pending
<1>2. \A t \in Nodes : /\ stage[t] = "none" /\ ~Resolved(t) /\ winner[t] = 0 /\ cancels[t] = 0 /\ tries[t] = 0
                       /\ ~Exists(t)
  BY DEF Init, Resolved, Exists
<1>3. StageInv
  BY <1>2 DEF StageInv
<1>4. \A t \in Nodes : TriesOK(t)
  BY <1>2, TasksAssumption DEF TriesOK, TasksAssumption
<1>5. CancelInv /\ WinnerInv /\ AnswerInv
  BY <1>2 DEF CancelInv, WinnerInv, AnswerInv, Init
<1>. QED BY <1>1, <1>3, <1>4, <1>5 DEF IInv

-----------------------------------------------------------------------------
THEOREM Inductive == Spec => []IInv
BY InitIInv, NextLegal, LegalInv, PTL DEF Spec

\* A promise shared by detached threads is set once, for every expression: a late answer, or a
\* timer that fires after the answer, changes nothing.
THEOREM SetOnceTheorem == Spec => SetOnce
<1>1. IInv /\ [Next]_vars => [\A t \in Nodes : Resolved(t) => result'[t] = result[t]]_vars
  BY NextLegal, ResultsStay
<1>. QED BY <1>1, Inductive, PTL DEF Spec, SetOnce

\* A race answers only when every contestant was cancelled, its whole chain with it; a timeout
\* that was too late for its task only when that task was.
THEOREM LosersTheorem == Spec => []LosersCancelled
<1>1. IInv => LosersCancelled
  <2> SUFFICES ASSUME IInv, NEW r \in Nodes, Resolved(r)
               PROVE  /\ Kind(r) = "race" => \A c \in Inputs(r) : Stopped(c)
                      /\ Kind(r) = "timeout" /\ result[r] = "timeout" /\ result[Up(r)] # "timeout" => Stopped(Up(r))
    BY DEF LosersCancelled
  <2>1. Justified(r, result[r])
    BY DEF IInv, AnswerInv
  <2>2. ASSUME Kind(r) = "race", NEW c \in Inputs(r) PROVE Stopped(c)
    <3>1. PICK i \in DOMAIN Of(r) : c = Of(r)[i]
      BY DEF Inputs, Range
    <3>2. cancels[r] = Len(Of(r))
      BY <2>1, <2>2, <3>1 DEF Justified
    <3>3. i \in 1 .. cancels[r]
      BY <3>2, GraphFacts DEF IInv
    <3>. QED BY <3>1, <3>3 DEF IInv, CancelInv, Stopped
  <2>3. ASSUME Kind(r) = "timeout", result[r] = "timeout", result[Up(r)] # "timeout" PROVE Stopped(Up(r))
    <3>1. Stopped(r)
      BY <2>1, <2>3 DEF Justified, Got
    <3>2. Source(r) = Source(Up(r))
      BY <2>3, GraphFacts DEF IInv
    <3>. QED BY <3>1, <3>2 DEF Stopped
  <2>. QED BY <2>2, <2>3
<1>. QED BY <1>1, Inductive, PTL

LEMMA FirstFailure ==
  ASSUME NEW t \in Nodes, DOMAIN Of(t) \subseteq Nat, NEW i \in DOMAIN Of(t),
         result[Of(t)[i]] # "ok", \A j \in 1 .. i - 1 : j \in DOMAIN Of(t) /\ result[Of(t)[j]] = "ok",
         \A j \in DOMAIN Of(t) : j >= 1
  PROVE  FirstFailed(t) = i
<1>1. ASSUME NEW k \in DOMAIN Of(t), result[Of(t)[k]] # "ok", \A j \in 1 .. k - 1 : result[Of(t)[j]] = "ok"
      PROVE  k = i
  <2>1. i \in Nat /\ k \in Nat /\ i >= 1 /\ k >= 1
    OBVIOUS
  <2>2. ~ (i < k) /\ ~ (k < i)
    <3>1. i < k => i \in 1 .. k - 1
      BY <2>1
    <3>2. k < i => k \in 1 .. i - 1
      BY <2>1
    <3>. QED BY <1>1, <3>1, <3>2
  <2>. QED BY <2>1, <2>2
<1>2. \A k \in DOMAIN Of(t) : (result[Of(t)[k]] # "ok" /\ \A j \in 1 .. k - 1 : result[Of(t)[j]] = "ok") => k = i
  BY <1>1
<1>. QED BY <1>2 DEF FirstFailed

\* What a combinator answers comes from what it combines, in the order the code promises.
THEOREM AnswersTheorem == Spec => []AnswersComeFromInputs
<1>1. IInv => AnswersComeFromInputs
  <2> SUFFICES ASSUME IInv, NEW t \in Nodes, Resolved(t)
               PROVE  /\ Kind(t) = "sequence" => IF \A c \in Inputs(t) : result[c] = "ok" THEN result[t] = "ok"
                                                 ELSE result[t] = Got(Of(t)[FirstFailed(t)])
                      /\ Kind(t) \in {"race", "first"} /\ winner[t] # 0 => result[t] = result[winner[t]]
                      /\ Kind(t) = "first" /\ winner[t] = 0 => result[t] = "broken" /\ \A c \in Inputs(t) : Threw(c)
                      /\ Kind(t) \in {"timeout", "deadline"} => result[t] \in {"timeout", Got(Up(t))}
                      /\ Kind(t) = "deadline" => ~Threw(t)
                      /\ Kind(t) \in {"retry", "again"} /\ result[t] = "exhausted" => tries[t] = Attempts
                      /\ result[t] = "cancelled" => stopped # {}
    BY DEF AnswersComeFromInputs
  <2>1. /\ Justified(t, result[t]) /\ Exists(t)
        /\ winner[t] # 0 => winner[t] \in Inputs(t)
        /\ Kind(t) = "first" /\ winner[t] = 0 => \A c \in Inputs(t) : <<t, c>> \in waiting \/ Threw(c)
    BY DEF IInv, AnswerInv, WinnerInv, StageInv, Exists
  <2>2. DOMAIN Of(t) = 1 .. Len(Of(t)) /\ Len(Of(t)) \in Nat /\ \A i \in DOMAIN Of(t) : Of(t)[i] \in Inputs(t)
    BY GraphFacts DEF IInv, Inputs, Range
  <2>3. ASSUME Kind(t) = "sequence"
        PROVE  IF \A c \in Inputs(t) : result[c] = "ok" THEN result[t] = "ok"
               ELSE result[t] = Got(Of(t)[FirstFailed(t)])
    <3>1. CASE result[t] = "ok" /\ \A c \in Inputs(t) : result[c] = "ok"
      BY <3>1
    <3>2. ASSUME NEW i \in DOMAIN Of(t), \A j \in 1 .. i - 1 : result[Of(t)[j]] = "ok",
                 result[Of(t)[i]] \notin {Pending, "ok"}, result[t] = Got(Of(t)[i])
          PROVE  (\E c \in Inputs(t) : result[c] # "ok") /\ result[t] = Got(Of(t)[FirstFailed(t)])
      <4>1. DOMAIN Of(t) \subseteq Nat /\ (\A j \in DOMAIN Of(t) : j >= 1) /\ \A j \in 1 .. i - 1 : j \in DOMAIN Of(t)
        BY <2>2
      <4>2. FirstFailed(t) = i
        BY <3>2, <4>1, FirstFailure
      <4>. QED BY <2>2, <3>2, <4>2
    <3>. QED BY <2>1, <2>3, <3>1, <3>2 DEF Justified
  <2>4. Kind(t) \in {"race", "first"} /\ winner[t] # 0 => result[t] = result[winner[t]]
    BY <2>1 DEF Justified, Inputs, Range
  <2>5. Kind(t) = "first" /\ winner[t] = 0 => result[t] = "broken" /\ \A c \in Inputs(t) : Threw(c)
    BY <2>1 DEF Justified
  <2>6. Kind(t) = "timeout" => result[t] \in {"timeout", Got(Up(t))}
    BY <2>1 DEF Justified
  <2>7. Kind(t) = "deadline" => result[t] \in {"timeout", Got(Up(t))} /\ ~Threw(t)
    BY <2>1 DEF Justified, Got, Threw
  <2>8. Retries(t) /\ result[t] = "exhausted" => tries[t] = Attempts
    BY <2>1 DEF Justified
  <2>9. result[t] = "cancelled" => stopped # {}
    BY <2>1 DEF Justified
  <2>. QED BY <2>3, <2>4, <2>5, <2>6, <2>7, <2>8, <2>9 DEF Retries
<1>. QED BY <1>1, Inductive, PTL

\* A continuation whose chain is stopped while the task before it still runs never runs.
THEOREM SkippedTheorem == Spec => SkippedWhenStopped
<1> DEFINE Due(t)  == t \in Nodes /\ Continues(t) /\ Stopped(t) /\ ~Resolved(Up(t))
           Off(t)  == t \in Nodes => Continues(t) /\ Stopped(t) /\ stage[t] # "body"
           Quiet(t) == t \in Nodes => stage[t] # "body"
<1>1. ASSUME NEW t \in 1 .. MaxNodes PROVE Spec => [](Due(t) => []Quiet(t))
  <2>1. IInv /\ Due(t) => Off(t)
    BY DEF IInv, StageInv
  <2>2. IInv /\ [Next]_vars /\ Off(t) => Off(t)'
    <3> SUFFICES ASSUME IInv, LegalStep, t \in Nodes, Continues(t), Stopped(t), stage[t] # "body"
                 PROVE  Continues(t)' /\ Stopped(t)' /\ stage'[t] # "body"
      BY NextLegal, SameGraph DEF LegalStep
    <3>1. Continues(t)' /\ Source(t)' = Source(t) /\ stopped \subseteq stopped'
      BY SameGraph DEF LegalStep
    <3>2. Kept(t) \/ Moved(t) \/ Ended(t)
      BY DEF LegalStep
    <3>3. stage'[t] # "body"
      BY <3>2 DEF Kept, Moved, Ended
    <3>. QED BY <3>1, <3>3 DEF Stopped
  <2>3. Off(t) => Quiet(t)
    OBVIOUS
  <2> HIDE DEF Due, Off, Quiet
  <2>. QED BY <2>1, <2>2, <2>3, Inductive, PTL DEF Spec
<1>. QED BY <1>1 DEF SkippedWhenStopped
=============================================================================
