--------------------------- MODULE OutputContract ---------------------------
(***************************************************************************)
(* What an output plugin promises the pipeline (spec 5, output plugin     *)
(* contract; 4.7, batcher): every event handed to Out is eventually       *)
(* committed exactly once, and only after the sink has stored it. The     *)
(* sink may store an event more than once (at-least-once delivery).      *)
(***************************************************************************)
EXTENDS SequencesExt

CONSTANT Events

VARIABLES
  accepted,   \* events handed to Out
  stored,     \* events the sink holds (at least one copy)
  committed   \* events committed back to the pipeline, in commit order

vars == <<accepted, stored, committed>>

Init == accepted = {} /\ stored = {} /\ committed = <<>>

Accept(e) ==
  /\ e \notin accepted
  /\ accepted' = accepted \cup {e}
  /\ UNCHANGED <<stored, committed>>

\* The sink stores a set of accepted events (one request), again or not.
Store(S) ==
  /\ S # {} /\ S \subseteq accepted
  /\ stored' = stored \cup S
  /\ UNCHANGED <<accepted, committed>>

Commit(e) ==
  /\ e \in stored
  /\ e \notin ToSet(committed)
  /\ committed' = Append(committed, e)
  /\ UNCHANGED <<accepted, stored>>

Next ==
  \/ \E e \in Events : Accept(e) \/ Commit(e)
  \/ \E S \in SUBSET Events : Store(S)

Spec == Init /\ [][Next]_vars

(* Every event handed to Out is eventually committed to the pipeline. *)
Delivered == \A e \in Events : e \in accepted ~> e \in ToSet(committed)
=============================================================================
