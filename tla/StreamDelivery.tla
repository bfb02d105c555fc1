--------------------------- MODULE StreamDelivery ---------------------------
(***************************************************************************)
(* What the event plane of a pipeline promises, per stream key            *)
(* (SourceID, StreamName) (spec 4.2, 4.3, invariants 1 and 3): records    *)
(* enter a stream in intake order and leave it from its head only; the    *)
(* head record is passed to the output, discarded (committed at once) or  *)
(* held by an action. A held record is later passed to the output or      *)
(* committed, in any order. A record passed to the output is committed    *)
(* when the output says so. No record is committed twice.                 *)
(***************************************************************************)
EXTENDS Naturals, Sequences, SequencesExt

CONSTANTS Keys, Records

VARIABLES
  pending,    \* per key: records in the stream, head first
  loose,      \* <<key, record>> taken out of stream order by an action
  out,        \* per key: records passed to the output, in order
  committed   \* per key: records committed to the input, in order

vars == <<pending, loose, out, committed>>

Known == UNION {ToSet(pending[k]) \cup ToSet(out[k]) \cup ToSet(committed[k]) : k \in Keys}
           \cup {l[2] : l \in loose}

Init ==
  /\ pending = [k \in Keys |-> <<>>]
  /\ loose = {}
  /\ out = [k \in Keys |-> <<>>]
  /\ committed = [k \in Keys |-> <<>>]

\* Records are numbered in intake order.
Accept(k, r) ==
  /\ \A x \in Known : x < r
  /\ pending' = [pending EXCEPT ![k] = Append(@, r)]
  /\ UNCHANGED <<loose, out, committed>>

Forward(k) ==
  /\ pending[k] # <<>>
  /\ out' = [out EXCEPT ![k] = Append(@, Head(pending[k]))]
  /\ pending' = [pending EXCEPT ![k] = Tail(@)]
  /\ UNCHANGED <<loose, committed>>

Discard(k) ==
  /\ pending[k] # <<>>
  /\ committed' = [committed EXCEPT ![k] = Append(@, Head(pending[k]))]
  /\ pending' = [pending EXCEPT ![k] = Tail(@)]
  /\ UNCHANGED <<loose, out>>

Hold(k) ==
  /\ pending[k] # <<>>
  /\ loose' = loose \cup {<<k, Head(pending[k])>>}
  /\ pending' = [pending EXCEPT ![k] = Tail(@)]
  /\ UNCHANGED <<out, committed>>

ForwardLoose(l) ==
  /\ l \in loose
  /\ out' = [out EXCEPT ![l[1]] = Append(@, l[2])]
  /\ loose' = loose \ {l}
  /\ UNCHANGED <<pending, committed>>

CommitLoose(l) ==
  /\ l \in loose
  /\ committed' = [committed EXCEPT ![l[1]] = Append(@, l[2])]
  /\ loose' = loose \ {l}
  /\ UNCHANGED <<pending, out>>

CommitOut(k, r) ==
  /\ r \in ToSet(out[k]) \ ToSet(committed[k])
  /\ committed' = [committed EXCEPT ![k] = Append(@, r)]
  /\ UNCHANGED <<pending, loose, out>>

Next ==
  \/ \E k \in Keys, r \in Records : Accept(k, r) \/ CommitOut(k, r)
  \/ \E k \in Keys : Forward(k) \/ Discard(k) \/ Hold(k)
  \/ \E l \in loose : ForwardLoose(l) \/ CommitLoose(l)

Spec == Init /\ [][Next]_vars
=============================================================================
