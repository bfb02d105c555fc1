---------------------------- MODULE SplunkOutput ----------------------------
(***************************************************************************)
(* The splunk output (src/plugin/output/splunk/splunk.go) on top of the   *)
(* batcher it starts (spec 4.7; the batcher is not under src/). The       *)
(* pipeline hands events 1..NumEvents of one stream to Out in order; W    *)
(* batcher workers collect them into batches, flush on size or timeout,   *)
(* call out (which retries send until it returns nil) and then commit    *)
(* the batch's events one by one. A send that times out on the client may *)
(* still reach the collector later.                                       *)
(***************************************************************************)
EXTENDS Naturals, Sequences, SequencesExt

CONSTANTS
  Workers,      \* batcher workers (WorkersCount_)
  BatchSize,    \* BatchSize_
  NumEvents,    \* events the pipeline hands to Out
  MaxFailures,  \* bound on failed sends: the collector accepts after that
  UncodedAnswers \* something at the endpoint (a gateway, a proxy) may answer
                 \* with a JSON body that has no "code" field

ASSUME BatchSize \in Nat \ {0} /\ NumEvents \in Nat /\ MaxFailures \in Nat
       /\ UncodedAnswers \in BOOLEAN

Events == 1..NumEvents

VARIABLES
  nextOut,    \* next event the pipeline passes to Out
  batch,      \* batch.Events of each worker
  wstate,     \* worker: "collect", "send" (inside out), "commit" (commit loop)
  stored,     \* the collector's log: events in arrival order, with repeats
  late,       \* timed-out requests still on the wire: <<id, events>>
  failures,   \* failed sends so far
  committed   \* history: events committed to the pipeline, in order

vars == <<nextOut, batch, wstate, stored, late, failures, committed>>

(* Outcome of one send call. "ok": code 0 in the response. "rejected":   *)
(* no request made or the collector refused it (request error, refused   *)
(* connection, undecodable body, code > 0). "timeout": c.Do gave up      *)
(* after writing the request, which may still be processed. "readFail":  *)
(* the collector answered but the body could not be read: it stored the  *)
(* batch and send still returns an error. "uncoded": the body decodes but *)
(* has no "code": Dig returns nil, AsInt gives 0, and the HTTP status is   *)
(* never looked at, so send returns nil although nothing was stored.     *)
SendOutcomes ==
  {"ok", "rejected", "timeout", "readFail"} \cup (IF UncodedAnswers THEN {"uncoded"} ELSE {})

StoredNow(o) == o \in {"ok", "readFail"}

SendReturnsNil(o) == o \in {"ok", "uncoded"}

(* Start: NewBatcher with WorkersCount_ workers, each with an empty batch. *)
Init ==
  /\ nextOut = 1
  /\ batch = [w \in Workers |-> <<>>]
  /\ wstate = [w \in Workers |-> "collect"]
  /\ stored = <<>>
  /\ late = {}
  /\ failures = 0
  /\ committed = <<>>

(* Variant of Add that does not wait for room in the batch. *)
AddIgnoreFull(w) ==
  /\ nextOut <= NumEvents
  /\ wstate[w] = "collect"
  /\ batch' = [batch EXCEPT ![w] = Append(@, nextOut)]
  /\ nextOut' = nextOut + 1
  /\ UNCHANGED <<wstate, stored, late, failures, committed>>

(* Out -> batcher.Add: the event joins the batch of a collecting worker  *)
(* that is not full; Add blocks while there is none.                     *)
Add(w) ==
  /\ nextOut <= NumEvents
  /\ wstate[w] = "collect"
  /\ Len(batch[w]) < BatchSize
  /\ batch' = [batch EXCEPT ![w] = Append(@, nextOut)]
  /\ nextOut' = nextOut + 1
  /\ UNCHANGED <<wstate, stored, late, failures, committed>>

(* Variant of Flush that only flushes full batches. *)
FlushWhenFull(w) ==
  /\ wstate[w] = "collect"
  /\ Len(batch[w]) = BatchSize
  /\ wstate' = [wstate EXCEPT ![w] = "send"]
  /\ UNCHANGED <<nextOut, batch, stored, late, failures, committed>>

(* The batch is full or BatchFlushTimeout_ has passed since its first   *)
(* event: the worker calls out.                                         *)
Flush(w) ==
  /\ wstate[w] = "collect"
  /\ batch[w] # <<>>
  /\ wstate' = [wstate EXCEPT ![w] = "send"]
  /\ UNCHANGED <<nextOut, batch, stored, late, failures, committed>>

(* Variant of Send that takes a code > 0 response for success. *)
SendIgnoreCode(w) ==
  /\ wstate[w] = "send"
  /\ \E o \in SendOutcomes :
       IF o \in {"ok", "rejected"}
         THEN /\ stored' = IF o = "ok" THEN stored \o batch[w] ELSE stored
              /\ wstate' = [wstate EXCEPT ![w] = "commit"]
              /\ UNCHANGED <<late, failures>>
         ELSE /\ failures < MaxFailures
              /\ failures' = failures + 1
              /\ stored' = IF StoredNow(o) THEN stored \o batch[w] ELSE stored
              /\ late' = IF o = "timeout" THEN late \cup {<<failures, batch[w]>>} ELSE late
              /\ UNCHANGED wstate
  /\ UNCHANGED <<nextOut, batch, committed>>

(* One iteration of out's send loop: the batch is encoded into outBuf     *)
(* and sent. nil ends the loop and out returns; an error is logged and,   *)
(* after a one-second sleep, the same outBuf is sent again.              *)
Send(w) ==
  /\ wstate[w] = "send"
  /\ \E o \in SendOutcomes :
       /\ stored' = IF StoredNow(o) THEN stored \o batch[w] ELSE stored
       /\ IF SendReturnsNil(o)
            THEN /\ wstate' = [wstate EXCEPT ![w] = "commit"]
                 /\ UNCHANGED <<late, failures>>
            ELSE /\ failures < MaxFailures
                 /\ failures' = failures + 1
                 /\ late' = IF o = "timeout" THEN late \cup {<<failures, batch[w]>>} ELSE late
                 /\ UNCHANGED wstate
  /\ UNCHANGED <<nextOut, batch, committed>>

(* A timed-out request reaches the collector after all, or is lost. *)
LateArrive(r) ==
  /\ r \in late
  /\ stored' = stored \o r[2]
  /\ late' = late \ {r}
  /\ UNCHANGED <<nextOut, batch, wstate, failures, committed>>

LateLost(r) ==
  /\ r \in late
  /\ late' = late \ {r}
  /\ UNCHANGED <<nextOut, batch, wstate, stored, failures, committed>>

(* After out returns: controller.Commit for the batch's events in batch  *)
(* order, one at a time; then the worker starts a fresh batch.           *)
CommitNext(w) ==
  /\ wstate[w] = "commit"
  /\ committed' = Append(committed, Head(batch[w]))
  /\ batch' = [batch EXCEPT ![w] = Tail(@)]
  /\ wstate' = [wstate EXCEPT ![w] = IF Len(batch[w]) = 1 THEN "collect" ELSE "commit"]
  /\ UNCHANGED <<nextOut, stored, late, failures>>

Done ==
  /\ nextOut > NumEvents /\ late = {}
  /\ \A w \in Workers : wstate[w] = "collect" /\ batch[w] = <<>>
  /\ UNCHANGED vars

Next ==
  \/ \E w \in Workers : Add(w) \/ Flush(w) \/ Send(w) \/ CommitNext(w)
  \/ \E r \in late : LateArrive(r) \/ LateLost(r)
  \/ Done

(* The pipeline keeps calling Out, the flush timer fires, workers keep    *)
(* running and, past MaxFailures failures, the collector accepts. The     *)
(* network owes nothing to late requests.                                 *)
Fairness ==
  /\ WF_vars(\E w \in Workers : Add(w))
  /\ \A w \in Workers : WF_vars(Flush(w)) /\ WF_vars(Send(w)) /\ WF_vars(CommitNext(w))

Spec == Init /\ [][Next]_vars
FairSpec == Spec /\ Fairness

-----------------------------------------------------------------------------
TypeOK ==
  /\ nextOut \in 1..NumEvents + 1
  /\ batch \in [Workers -> Seq(Events)]
  /\ \A w \in Workers : Len(batch[w]) <= BatchSize
  /\ wstate \in [Workers -> {"collect", "send", "commit"}]
  /\ stored \in Seq(Events)
  /\ late \subseteq (0..MaxFailures) \X Seq(Events)
  /\ failures \in 0..MaxFailures
  /\ committed \in Seq(Events)

(* The batcher with the splunk out implements the output contract:       *)
(* events enter through Out, the collector stores whole batches, and an  *)
(* event is committed once, only after the collector stored it.          *)
Contract == INSTANCE OutputContract WITH
  Events <- Events,
  accepted <- {e \in Events : e < nextOut},
  stored <- ToSet(stored),
  committed <- committed

ImplementsContract == Contract!Spec

(* Every event handed to Out is eventually committed: the retry loop     *)
(* ends once the collector accepts, and partial batches are flushed by    *)
(* the timeout.                                                           *)
EventuallyDelivered == Contract!Delivered

=============================================================================
