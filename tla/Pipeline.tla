------------------------------- MODULE Pipeline -------------------------------
(***************************************************************************)
(* The event plane of one file.d pipeline: the intake path Pipeline.In and *)
(* streamEvent (pipeline/pipeline.go), the event pool, the stream registry *)
(* (streamer), the processors that drain streams through the action chain, *)
(* the output's Out/Commit contract, and Pipeline.finalize.                *)
(*                                                                         *)
(* Records are identified by their sequence id (1, 2, ...).  An event is a *)
(* pool slot; a slot is reused for a later record once finalize gives it   *)
(* back.  Documents are abstracted to what routing reads from them: the    *)
(* value of the stream field, and whether the bytes decode.                *)
(***************************************************************************)
EXTENDS Naturals, Sequences, FiniteSets, SequencesExt

CONSTANTS
    Slots,            \* the event pool; Settings.Capacity = Cardinality(Slots)
    Workers,          \* the processors started by initProcs
    SourceIDs,        \* the SourceID values inputs use (naturals)
    FieldValues,      \* values the stream field of a document may hold
    NumActions,       \* length of the action chain
    Decisions,        \* the results an action's Do may return
    Payloads,         \* "wellformed" and/or "malformed" input bytes
    Decoder,          \* Settings.Decoder
    SuggestedDecoder, \* what the input passed to SuggestDecoder ("no": nothing)
    IsStrict,         \* Settings.IsStrict
    UseSpread,        \* the input called UseSpread during Start
    DisableStreams,   \* the input called DisableStreams during Start
    MaxIn,            \* bound on the number of records taken from the pool
    NoWorker, NoEvent, NoStream, NoField

DefaultStreamName == "not_set"
StreamNames == FieldValues \cup {DefaultStreamName}
Keys == SourceIDs \X StreamNames
ProcCount == Cardinality(Workers)

ASSUME
    /\ Slots # {} /\ Workers # {}
    /\ NumActions \in Nat
    /\ Decisions \subseteq {"pass", "discard", "hold"} /\ "pass" \in Decisions
    /\ Payloads \subseteq {"wellformed", "malformed"}
    /\ Decoder \in {"json", "raw", "cri", "postgres", "auto"}
    /\ SuggestedDecoder \in {"no", "json", "raw", "cri", "postgres"}
    /\ UseSpread => 0 .. ProcCount - 1 \subseteq SourceIDs
    /\ MaxIn \in Nat

VARIABLES
    free,       \* eventPool: the slots get() may hand out
    ev,         \* per slot: the record it carries, its stream key, action index
    seq,        \* last sequence id handed out by the pool
    queue,      \* streamer: per stream key, the FIFO of slots
    owner,      \* streamer: the processor owning each stream, or NoWorker
    ready,      \* streamer: streams waiting for a processor
    attached,   \* per processor: the stream it owns, or NoStream
    cur,        \* per processor: the event it is running, or NoEvent
    async,      \* events resumed by Propagate, run by the action's goroutine
    held,       \* events an action holds
    outq,       \* events the output accepted and has not committed yet
    committed,  \* per stream key: records committed to the input, in order
    outLog,     \* per stream key: records passed to output.Out, in order
    halted      \* the process died in logger.Fatalf

vars == <<free, ev, seq, queue, owner, ready, attached, cur, async, held,
          outq, committed, outLog, halted>>

Running == ({cur[w] : w \in Workers} \ {NoEvent}) \cup async

-----------------------------------------------------------------------------
(* Decoding and routing (Pipeline.New, In, streamEvent).                   *)

\* The decoder In uses: the configured one, or the suggestion under "auto",
\* JSON when nothing was suggested.
SelectedDecoder ==
    LET dec == IF Decoder = "auto" THEN SuggestedDecoder ELSE Decoder
    IN  IF dec = "no" THEN "json" ELSE dec

\* RAW wraps any bytes as {"message": ...}; the other decoders parse.
DecodeFails(dec, payload) == payload = "malformed" /\ dec # "raw"

\* Only a parsed document can carry the stream field; RAW's has one field.
StreamFieldOf(dec, field) == IF dec = "raw" THEN NoField ELSE field

\* streamEvent: the SourceID is replaced by seqID mod procCount under
\* UseSpread; the stream name is the stream field's value unless streams
\* are disabled or the field is absent.
StreamKey(seqID, sourceID, field) ==
    << IF UseSpread THEN seqID % ProcCount ELSE sourceID,
       IF DisableStreams \/ field = NoField THEN DefaultStreamName ELSE field >>

\* Variant of PutEvent that readies a stream even while a processor owns it.
PutEventReadyAlways(k, e) ==
    /\ queue' = [queue EXCEPT ![k] = Append(@, e)]
    /\ ready' = ready \cup {k}

\* Variant of PutEvent that never readies the stream (a lost wakeup).
PutEventNoWakeup(k, e) ==
    /\ queue' = [queue EXCEPT ![k] = Append(@, e)]
    /\ ready' = ready

\* streamer.putEvent: append to the stream; an unowned stream becomes ready.
PutEvent(k, e) ==
    /\ queue' = [queue EXCEPT ![k] = Append(@, e)]
    /\ ready' = IF owner[k] = NoWorker THEN ready \cup {k} ELSE ready

\* Pipeline.In with the antispam filter disabled (threshold 0) and
\* non-empty bytes: get() blocks while the pool is empty; a JSON decode
\* error returns 0 in non-strict mode, any other decode error is fatal.
\* The slot taken for a failed decode is never given back (lines 284-291).
In(sourceID, field, payload) ==
    LET dec == SelectedDecoder
        n   == seq + 1
    IN
    /\ ~halted
    /\ seq < MaxIn
    /\ \E e \in free :
         /\ free' = free \ {e}
         /\ seq' = n
         /\ \/ /\ DecodeFails(dec, payload)
               \* logger.Fatalf exits; logger.Errorf and `return 0` drop e
               /\ halted' = (dec # "json" \/ IsStrict)
               /\ UNCHANGED <<ev, queue, ready>>
            \/ /\ ~DecodeFails(dec, payload)
               /\ LET k == StreamKey(n, sourceID, StreamFieldOf(dec, field))
                  IN  /\ ev' = [ev EXCEPT ![e] = [rec |-> n, key |-> k, act |-> 0]]
                      /\ PutEvent(k, e)
               /\ UNCHANGED halted
    /\ UNCHANGED <<owner, attached, cur, async, held, outq, committed,
                   outLog>>

-----------------------------------------------------------------------------
(* Pipeline.finalize: commit to the input, give the slot back.            *)

\* Variant of Finalize that never gives the slot back to the pool.
FinalizeNoBack(e, notifyInput, backEvent) ==
    /\ committed' = IF notifyInput
                    THEN [committed EXCEPT ![ev[e].key] = Append(@, ev[e].rec)]
                    ELSE committed
    /\ UNCHANGED free

\* finalize: input.Commit when notifyInput, eventPool.back when backEvent.
\* The stream commit, the timeout-event return and the event log are left
\* out: nothing modelled reads them.
Finalize(e, notifyInput, backEvent) ==
    /\ committed' = IF notifyInput
                    THEN [committed EXCEPT ![ev[e].key] = Append(@, ev[e].rec)]
                    ELSE committed
    /\ free' = IF backEvent THEN free \cup {e} ELSE free

\* The runner of e (its processor, or the goroutine that propagated it)
\* lets go of it.
Release(e) ==
    /\ cur' = [w \in Workers |-> IF cur[w] = e THEN NoEvent ELSE cur[w]]
    /\ async' = async \ {e}

-----------------------------------------------------------------------------
(* Processors (streamer.attach, stream.get, detach).                       *)

Attach(w) ==
    /\ ~halted
    /\ attached[w] = NoStream
    /\ \E k \in ready :
         /\ owner' = [owner EXCEPT ![k] = w]
         /\ ready' = ready \ {k}
         /\ attached' = [attached EXCEPT ![w] = k]
    /\ UNCHANGED <<free, ev, seq, queue, cur, async, held, outq, committed,
                   outLog, halted>>

NextEvent(w) ==
    LET k == attached[w] IN
    /\ ~halted
    /\ k # NoStream /\ cur[w] = NoEvent
    /\ queue[k] # <<>>
    /\ cur' = [cur EXCEPT ![w] = Head(queue[k])]
    /\ queue' = [queue EXCEPT ![k] = Tail(@)]
    /\ UNCHANGED <<free, ev, seq, owner, ready, attached, async, held, outq,
                   committed, outLog, halted>>

\* Variant of Detach that leaves the stream's owner set.
DetachKeepOwner(w) ==
    LET k == attached[w] IN
    /\ ~halted
    /\ k # NoStream /\ cur[w] = NoEvent
    /\ queue[k] = <<>>
    /\ attached' = [attached EXCEPT ![w] = NoStream]
    /\ UNCHANGED <<free, ev, seq, queue, owner, ready, cur, async, held, outq,
                   committed, outLog, halted>>

Detach(w) ==
    LET k == attached[w] IN
    /\ ~halted
    /\ k # NoStream /\ cur[w] = NoEvent
    /\ queue[k] = <<>>
    /\ owner' = [owner EXCEPT ![k] = NoWorker]
    /\ attached' = [attached EXCEPT ![w] = NoStream]
    /\ UNCHANGED <<free, ev, seq, queue, ready, cur, async, held, outq,
                   committed, outLog, halted>>

-----------------------------------------------------------------------------
(* The action chain (processor) and the controllers actions and outputs   *)
(* call (Propagate, Pipeline.Commit).                                      *)

\* Variant of DoAction whose chain loop runs one action past the end.
DoActionPastEnd(e, d) ==
    /\ ~halted
    /\ e \in Running
    /\ ev[e].act <= NumActions
    /\ d = "pass"
    /\ ev' = [ev EXCEPT ![e].act = @ + 1]
    /\ UNCHANGED <<free, cur, async, held, committed, seq, queue,
                   owner, ready, attached, outq, outLog, halted>>

\* Action ev[e].act runs on e and returns decision d.
DoAction(e, d) ==
    /\ ~halted
    /\ e \in Running
    /\ ev[e].act < NumActions
    /\ \/ /\ d = "pass"
          /\ ev' = [ev EXCEPT ![e].act = @ + 1]
          /\ UNCHANGED <<free, cur, async, held, committed>>
       \/ /\ d = "discard"
          /\ Finalize(e, TRUE, TRUE)
          /\ Release(e)
          /\ UNCHANGED <<ev, held>>
       \/ /\ d = "hold"
          /\ held' = held \cup {e}
          /\ Release(e)
          /\ UNCHANGED <<free, ev, committed>>
    /\ UNCHANGED <<seq, queue, owner, ready, attached, outq, outLog, halted>>

\* Past the last action the event goes to output.Out.
Out(e) ==
    /\ ~halted
    /\ e \in Running
    /\ ev[e].act = NumActions
    /\ outq' = outq \cup {e}
    /\ outLog' = [outLog EXCEPT ![ev[e].key] = Append(@, ev[e].rec)]
    /\ Release(e)
    /\ UNCHANGED <<free, ev, seq, queue, owner, ready, attached, held,
                   committed, halted>>

\* Propagate: a held event resumes at the next action.
Propagate(e) ==
    /\ ~halted
    /\ e \in held
    /\ held' = held \ {e}
    /\ async' = async \cup {e}
    /\ ev' = [ev EXCEPT ![e].act = @ + 1]
    /\ UNCHANGED <<free, seq, queue, owner, ready, attached, cur, outq,
                   committed, outLog, halted>>

\* Pipeline.Commit called by an action for an event it holds.
ActionCommit(e) ==
    /\ ~halted
    /\ e \in held
    /\ held' = held \ {e}
    /\ Finalize(e, TRUE, TRUE)
    /\ UNCHANGED <<ev, seq, queue, owner, ready, attached, cur, async, outq,
                   outLog, halted>>

\* Variant of OutputCommit where the output keeps the event after committing.
OutputCommitKeep(e) ==
    /\ ~halted
    /\ e \in outq
    /\ Finalize(e, TRUE, TRUE)
    /\ UNCHANGED <<outq, ev, seq, queue, owner, ready, attached, cur, async,
                   held, outLog, halted>>

\* Pipeline.Commit called by the output for an event it accepted.
OutputCommit(e) ==
    /\ ~halted
    /\ e \in outq
    /\ outq' = outq \ {e}
    /\ Finalize(e, TRUE, TRUE)
    /\ UNCHANGED <<ev, seq, queue, owner, ready, attached, cur, async, held,
                   outLog, halted>>

-----------------------------------------------------------------------------

Init ==
    /\ free = Slots
    /\ ev = [e \in Slots |-> [rec |-> 0, key |-> NoStream, act |-> 0]]
    /\ seq = 0
    /\ queue = [k \in Keys |-> <<>>]
    /\ owner = [k \in Keys |-> NoWorker]
    /\ ready = {}
    /\ attached = [w \in Workers |-> NoStream]
    /\ cur = [w \in Workers |-> NoEvent]
    /\ async = {}
    /\ held = {}
    /\ outq = {}
    /\ committed = [k \in Keys |-> <<>>]
    /\ outLog = [k \in Keys |-> <<>>]
    /\ halted = FALSE

\* The process has exited after logger.Fatalf.
Halted == halted /\ UNCHANGED vars

\* Every record was taken in and every slot is back in the pool: the
\* pipeline idles until the input produces more.
Drained == ~halted /\ seq = MaxIn /\ free = Slots /\ UNCHANGED vars

Next ==
    \/ \E s \in SourceIDs, f \in FieldValues \cup {NoField}, p \in Payloads :
         In(s, f, p)
    \/ \E w \in Workers : Attach(w) \/ NextEvent(w) \/ Detach(w)
    \/ \E e \in Slots, d \in Decisions : DoAction(e, d)
    \/ \E e \in Slots : Out(e) \/ Propagate(e) \/ ActionCommit(e)
                        \/ OutputCommit(e)
    \/ Halted
    \/ Drained

\* Processors run as long as they have work; the output eventually commits
\* what it accepted (its contract); an action eventually resolves what it
\* holds.  The input is not assumed to keep producing.
Fairness ==
    /\ \A w \in Workers : WF_vars(Attach(w)) /\ WF_vars(NextEvent(w))
                          /\ WF_vars(Detach(w))
    /\ \A e \in Slots :
         /\ WF_vars(\E d \in Decisions : DoAction(e, d))
         /\ WF_vars(Out(e))
         /\ WF_vars(Propagate(e) \/ ActionCommit(e))
         /\ WF_vars(OutputCommit(e))

Spec == Init /\ [][Next]_vars
FairSpec == Spec /\ Fairness

-----------------------------------------------------------------------------
(* Properties.                                                             *)

TypeOK ==
    /\ free \subseteq Slots
    /\ ev \in [Slots -> [rec : 0 .. MaxIn, key : Keys \cup {NoStream},
                         act : 0 .. NumActions]]
    /\ seq \in 0 .. MaxIn
    /\ queue \in [Keys -> Seq(Slots)]
    /\ owner \in [Keys -> Workers \cup {NoWorker}]
    /\ ready \subseteq Keys
    /\ attached \in [Workers -> Keys \cup {NoStream}]
    /\ cur \in [Workers -> Slots \cup {NoEvent}]
    /\ async \cup held \cup outq \subseteq Slots
    /\ committed \in [Keys -> Seq(1 .. MaxIn)]
    /\ outLog \in [Keys -> Seq(1 .. MaxIn)]
    /\ halted \in BOOLEAN

\* Where a slot currently is: the pool, a stream, a processor, an action's
\* goroutine, an action's hold, the output.
Places(e) ==
    LET inQueue == {<<k, i>> \in Keys \X (1 .. Cardinality(Slots)) :
                        i <= Len(queue[k]) /\ queue[k][i] = e}
    IN  Cardinality(inQueue)
          + Cardinality({w \in Workers : cur[w] = e})
          + (IF e \in free THEN 1 ELSE 0) + (IF e \in async THEN 1 ELSE 0)
          + (IF e \in held THEN 1 ELSE 0) + (IF e \in outq THEN 1 ELSE 0)

\* Every pool slot is, at each instant, in exactly one place: free, queued
\* in one stream, run by one processor or goroutine, held by an action, or
\* awaiting the output's commit (spec: "every event in the pool is either
\* queued, held, or committed/returned").  A slot in no place has leaked
\* from the pool; a slot in two is handed out twice.
EventAccounting == ~halted => \A e \in Slots : Places(e) = 1

\* The stream registry is consistent: a processor's stream is owned by it
\* alone, and a stream is ready exactly when it has queued events and no
\* owner (spec 3, "Stream"), so no queued event is stranded.
RegistryConsistent ==
    /\ \A w \in Workers : attached[w] # NoStream => owner[attached[w]] = w
    /\ \A k \in Keys : owner[k] # NoWorker => attached[owner[k]] = k
    /\ \A k \in Keys : k \in ready <=> (queue[k] # <<>> /\ owner[k] = NoWorker)

\* Every record In accepted is eventually committed to the input exactly
\* once (spec invariant 3), provided the process does not die.
Committed(r) == \E k \in Keys : r \in ToSet(committed[k])

EventuallyCommitted ==
    \A r \in 1 .. MaxIn : (seq >= r /\ ~halted) ~> (Committed(r) \/ halted)

\* The records of stream k in stream order: the one its processor is
\* running, then those queued (stream.get takes the head).
InStream(k) ==
    LET running == {ev[cur[w]].rec : w \in {v \in Workers : attached[v] = k /\ cur[v] # NoEvent}}
    IN  SetToSortSeq(running, <) \o [i \in 1 .. Len(queue[k]) |-> ev[queue[k][i]].rec]

\* The event plane implements the per-stream delivery contract (spec 4.2,
\* 4.3; invariants 1 and 3): In appends to a stream in sequence order, a
\* processor takes only its stream's head and passes, discards or holds it,
\* held records come back through Propagate or Commit, and each record is
\* committed once.  Depends on attach/detach giving a stream to one
\* processor at a time and on finalize running once per record.
Delivery == INSTANCE StreamDelivery WITH
    Keys <- Keys,
    Records <- 1 .. MaxIn,
    pending <- [k \in Keys |-> InStream(k)],
    loose <- {<<ev[e].key, ev[e].rec>> : e \in held \cup async},
    out <- outLog,
    committed <- committed

ImplementsDelivery == Delivery!Spec

=============================================================================
