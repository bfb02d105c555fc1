----------------------------- MODULE AdminSample -----------------------------
(***************************************************************************)
(* The admin handlers of a pipeline's actions (src/pipeline/pipeline.go): *)
(* serveActionSample, which starts one watcher goroutine per processor and *)
(* answers with the first sample or a timeout, and serveActionInfo, which *)
(* answers with the action's counters. The fleet may grow while a request *)
(* is served (expandProcs appends to p.Procs without a lock). A response  *)
(* is modelled by what net/http does with it: the first Write sends the   *)
(* header with status 200, and a later WriteHeader is ignored.            *)
(***************************************************************************)
EXTENDS Naturals

CONSTANTS
  InitProcs,   \* len(p.Procs) when the request arrives
  MaxGrow      \* processors expandProcs may append during the request

ASSUME InitProcs \in Nat \ {0} /\ MaxGrow \in Nat

VARIABLES
  hpc,        \* handler: "idle", "spawn" (channel made), "select", "done"
  procsLen,   \* len(p.Procs)
  capac,      \* capacity of the samples channel
  watching,   \* watcher goroutines still inside watch
  blocked,    \* watcher goroutines blocked sending a sample
  chanq,      \* samples buffered in the channel
  spawned,    \* watcher goroutines started by the range loop
  madeLen,    \* history: len(p.Procs) as read for make
  status,     \* status sent to the client, 0 while no header was sent
  body        \* "none", "sample", "info", "error"

vars == <<hpc, procsLen, capac, watching, blocked, chanq, spawned, madeLen, status, body>>

(* http.ResponseWriter.Write: sends status 200 first if no header was sent. *)
WriteBody(b) ==
  /\ body' = b
  /\ status' = IF status = 0 THEN 200 ELSE status

(* writeErr then w.WriteHeader(code): the header was already sent by the *)
(* Write inside writeErr, so the code never reaches the client.          *)
RespondError(code) ==
  LET afterWrite == IF status = 0 THEN 200 ELSE status
  IN  /\ body' = "error"
      /\ status' = IF afterWrite = 0 THEN code ELSE afterWrite

Init ==
  /\ hpc = "idle"
  /\ procsLen = InitProcs
  /\ capac = 0
  /\ watching = 0 /\ blocked = 0 /\ chanq = 0 /\ spawned = 0 /\ madeLen = 0
  /\ status = 0
  /\ body = "none"

(* serveActionInfo: an action without metric_name gets an error answer,   *)
(* otherwise the current counters are marshalled and written.            *)
ServeInfo ==
  /\ hpc = "idle"
  /\ hpc' = "done"
  /\ \E hasMetricName \in BOOLEAN :
       IF hasMetricName THEN WriteBody("info") ELSE RespondError(400)
  /\ UNCHANGED <<procsLen, capac, watching, blocked, chanq, spawned, madeLen>>

(* Variant of SampleBegin whose channel holds one sample less. *)
SampleBeginShort ==
  /\ hpc = "idle"
  /\ \E hasActive \in BOOLEAN :
       IF hasActive
         THEN /\ capac' = procsLen - 1
              /\ madeLen' = procsLen
              /\ hpc' = "spawn"
              /\ UNCHANGED <<status, body>>
         ELSE /\ RespondError(400)
              /\ hpc' = "done"
              /\ UNCHANGED <<capac, madeLen>>
  /\ UNCHANGED <<procsLen, watching, blocked, chanq, spawned>>

(* serveActionSample up to make: reject when no processor is active,     *)
(* otherwise make the samples channel with capacity len(p.Procs).        *)
SampleBegin ==
  /\ hpc = "idle"
  /\ \E hasActive \in BOOLEAN :
       IF hasActive
         THEN /\ capac' = procsLen
              /\ madeLen' = procsLen
              /\ hpc' = "spawn"
              /\ UNCHANGED <<status, body>>
         ELSE /\ RespondError(400)
              /\ hpc' = "done"
              /\ UNCHANGED <<capac, madeLen>>
  /\ UNCHANGED <<procsLen, watching, blocked, chanq, spawned>>

(* `range p.Procs` reads the slice again: one watcher per processor it *)
(* holds now, which may be more than the channel's capacity.           *)
SampleSpawn ==
  /\ hpc = "spawn"
  /\ watching' = procsLen
  /\ spawned' = procsLen
  /\ hpc' = "select"
  /\ UNCHANGED <<procsLen, capac, blocked, chanq, status, body, madeLen>>

(* Variant of WatchSample that does not respect the buffer's capacity. *)
WatchSampleUnbounded ==
  /\ watching > 0
  /\ watching' = watching - 1
  /\ chanq' = chanq + 1
  /\ UNCHANGED <<hpc, procsLen, capac, blocked, status, body, spawned, madeLen>>

(* watch returns a sample: the goroutine sends it, and blocks while the *)
(* buffer is full.                                                       *)
WatchSample ==
  /\ watching > 0
  /\ watching' = watching - 1
  /\ IF chanq < capac
       THEN chanq' = chanq + 1 /\ UNCHANGED blocked
       ELSE blocked' = blocked + 1 /\ UNCHANGED chanq
  /\ UNCHANGED <<hpc, procsLen, capac, status, body, spawned, madeLen>>

(* watch times out: the goroutine returns without sending. *)
WatchTimeout ==
  /\ watching > 0
  /\ watching' = watching - 1
  /\ UNCHANGED <<hpc, procsLen, capac, blocked, chanq, status, body, spawned, madeLen>>

(* select takes the first sample (a blocked sender moves into the freed *)
(* slot, or hands over directly on an unbuffered channel) and writes it. *)
SampleReceive ==
  /\ hpc = "select"
  /\ chanq + blocked > 0
  /\ IF chanq > 0
       THEN /\ chanq' = IF blocked > 0 THEN chanq ELSE chanq - 1
            /\ blocked' = IF blocked > 0 THEN blocked - 1 ELSE 0
       ELSE /\ blocked' = blocked - 1
            /\ UNCHANGED chanq
  /\ WriteBody("sample")
  /\ hpc' = "done"
  /\ UNCHANGED <<procsLen, capac, watching, spawned, madeLen>>

(* time.After(timeout) wins the select: error answer, status 500. *)
SampleTimeout ==
  /\ hpc = "select"
  /\ RespondError(500)
  /\ hpc' = "done"
  /\ UNCHANGED <<procsLen, capac, watching, blocked, chanq, spawned, madeLen>>

(* expandProcs appends a processor meanwhile. *)
Grow ==
  /\ procsLen < InitProcs + MaxGrow
  /\ procsLen' = procsLen + 1
  /\ UNCHANGED <<hpc, capac, watching, blocked, chanq, status, body, spawned, madeLen>>

(* The request is answered and every watcher returned or sits blocked. *)
Served ==
  /\ hpc = "done" /\ watching = 0
  /\ UNCHANGED vars

Next ==
  \/ ServeInfo \/ SampleBegin \/ SampleSpawn
  \/ WatchSample \/ WatchTimeout
  \/ SampleReceive \/ SampleTimeout
  \/ Grow \/ Served

(* The handler and watcher goroutines are scheduled, and both 5 s timers *)
(* fire, so every watch and every select ends.                           *)
Fairness ==
  /\ WF_vars(SampleSpawn) /\ WF_vars(WatchSample \/ WatchTimeout)
  /\ WF_vars(SampleReceive \/ SampleTimeout)

Spec == Init /\ [][Next]_vars
FairSpec == Spec /\ Fairness

-----------------------------------------------------------------------------
TypeOK ==
  /\ hpc \in {"idle", "spawn", "select", "done"}
  /\ procsLen \in InitProcs..InitProcs + MaxGrow
  /\ capac \in 0..InitProcs + MaxGrow
  /\ {watching, blocked, chanq, spawned, madeLen} \subseteq 0..InitProcs + MaxGrow
  /\ chanq <= capac
  /\ status \in {0, 200, 400, 500}
  /\ body \in {"none", "sample", "info", "error"}

(* Spec 7 (admin call errors): an error answer reaches the client with a *)
(* 4xx/5xx status, from serveActionSample and serveActionInfo alike.     *)
ErrorHasErrorStatus == body = "error" => status \in {400, 500}

(* When p.Procs did not grow between make and the range loop,            *)
(* every watcher goroutine serveActionSample starts eventually returns,   *)
(* whichever way the select ends.                                         *)
WatchersFinishWhenSized ==
  (hpc = "done" /\ spawned <= madeLen) ~> (watching = 0 /\ blocked = 0)

(* Every watcher goroutine serveActionSample starts eventually returns. *)
WatchersFinish == (hpc = "done") ~> (watching = 0 /\ blocked = 0)
=============================================================================
