-------------------------------- MODULE Registry --------------------------------
(***************************************************************************)
(* fp::reflect::TypeRegistry: writers copy the current snapshot, change    *)
(* the copy under the mutex and store it; readers load a snapshot without  *)
(* a lock and look at it for as long as they like.  A snapshot has two     *)
(* indices over the same infos.  type_info registers a type on its first   *)
(* use, register_type under a name of its own: an alias.                   *)
(***************************************************************************)
EXTENDS Naturals, FiniteSets, Sequences

CONSTANTS Threads,
          Infos,     \* what may be registered: [id, name], "" for no name
          MaxWrites

VARIABLES snapshot,  \* the current one: [by_id, by_name]
          mutex_,    \* who holds it, NoThread for nobody
          copy,      \* the snapshot a writer is about to store
          view,      \* the snapshot a reader looks at
          written,   \* the writes that were stored, in order: an info, or Cleared
          pending    \* what a thread is about to write

vars == <<snapshot, mutex_, copy, view, written, pending>>

NoThread == "none"
Nothing  == [id |-> "none", name |-> ""]
Cleared  == [id |-> "all", name |-> ""]

Empty == [by_id |-> <<>>, by_name |-> <<>>]

\* insert keeps an entry that is there, insert_or_assign replaces it.
insert_or_assign(f, k, v) == [x \in DOMAIN f \cup {k} |-> IF x = k THEN v ELSE f[x]]
insert(f, k, v)           == IF k \in DOMAIN f THEN f ELSE insert_or_assign(f, k, v)

Added(snap, info) ==
  [by_id   |-> insert(snap.by_id, info.id, info),
   by_name |-> IF info.name = "" THEN snap.by_name ELSE insert_or_assign(snap.by_name, info.name, info)]

Init == /\ snapshot = Empty /\ mutex_ = NoThread
        /\ copy = [t \in Threads |-> Empty] /\ view = [t \in Threads |-> Empty]
        /\ written = <<>> /\ pending = [t \in Threads |-> Nothing]

\* Mutant: the snapshot is copied before the mutex is taken.
LocksLate(t) == /\ pending[t] = Nothing
                /\ Len(written) + Cardinality({u \in Threads : pending[u] # Nothing}) < MaxWrites
                /\ \E w \in Infos \cup {Cleared} :
                     /\ pending' = [pending EXCEPT ![t] = w]
                     /\ copy' = [copy EXCEPT ![t] = IF w = Cleared THEN Empty ELSE Added(snapshot, w)]
                /\ mutex_' = IF mutex_ = NoThread THEN t ELSE mutex_
                /\ UNCHANGED <<snapshot, view, written>>

\* add, clear: the mutex is held from before the load to after the store.
Locks(t) == /\ mutex_ = NoThread /\ pending[t] = Nothing
            /\ Len(written) + Cardinality({u \in Threads : pending[u] # Nothing}) < MaxWrites
            /\ mutex_' = t
            /\ \E w \in Infos \cup {Cleared} :
                 /\ pending' = [pending EXCEPT ![t] = w]
                 /\ copy' = [copy EXCEPT ![t] = IF w = Cleared THEN Empty ELSE Added(snapshot, w)]
            /\ UNCHANGED <<snapshot, view, written>>

Stores(t) == /\ pending[t] # Nothing
             /\ snapshot' = copy[t]
             /\ written' = Append(written, pending[t])
             /\ pending' = [pending EXCEPT ![t] = Nothing]
             /\ mutex_' = NoThread
             /\ UNCHANGED <<copy, view>>

\* find, types, size: one load, and the rest looks at what was loaded.
Loads(t) == /\ view' = [view EXCEPT ![t] = snapshot]
            /\ UNCHANGED <<snapshot, mutex_, copy, written, pending>>

Next == \E t \in Threads : Locks(t) \/ Stores(t) \/ Loads(t)

Spec == Init /\ [][Next]_vars

-----------------------------------------------------------------------------
LastClear == CHOOSE n \in 0 .. Len(written) :
               /\ n = 0 \/ written[n] = Cleared
               /\ \A i \in n + 1 .. Len(written) : written[i] # Cleared
Since == LastClear + 1 .. Len(written)

First(i) == \A j \in Since : j < i => written[j].id # written[i].id
Final(i) == \A j \in Since : j > i => written[j].name # written[i].name

\* No registration is lost, whoever registers at the same time: an id is found as it was first
\* registered since the last clear, so that an alias does not rename a type, and a name as what it
\* was last given to.
NothingLost ==
  /\ DOMAIN snapshot.by_id = {written[i].id : i \in Since}
  /\ DOMAIN snapshot.by_name = {written[i].name : i \in Since} \ {""}
  /\ \A i \in Since : /\ First(i) => snapshot.by_id[written[i].id] = written[i]
                      /\ Final(i) /\ written[i].name # "" => snapshot.by_name[written[i].name] = written[i]

\* A reader's snapshot is of one piece: what it finds by name it also finds by id, and the name of
\* what it finds by id leads somewhere.
ViewsClosed ==
  \A t \in Threads :
    /\ \A n \in DOMAIN view[t].by_name : view[t].by_name[n].id \in DOMAIN view[t].by_id
    /\ \A i \in DOMAIN view[t].by_id :
         view[t].by_id[i].name \in DOMAIN view[t].by_name \cup {""}

RegistryComplete == NothingLost /\ ViewsClosed
=============================================================================
