------------------------------ MODULE Lifecycle ------------------------------
(***************************************************************************)
(* Lifecycle of the processor fleet of a pipeline (src/pipeline/pipeline.go):*)
(* Start and Stop, run by the main goroutine; growProcs and expandProcs, run *)
(* by the growth supervisor goroutine; the exit check of maintenance.       *)
(* Processors are the slice p.Procs; each is "running" or "stopped" and,    *)
(* while running, may be busy on a stream (counted in activeProcs).         *)
(***************************************************************************)
EXTENDS Naturals, Sequences, FiniteSets

CONSTANTS
  GoMaxProcs,   \* runtime.GOMAXPROCS(0)
  SingleProc,   \* p.singleProc
  MaxProcs      \* bound on the fleet: growth past it is not explored

ASSUME GoMaxProcs \in Nat \ {0} /\ SingleProc \in BOOLEAN /\ MaxProcs \in Nat

VARIABLES
  ctl,        \* where the main goroutine is: "new", "running", "stopProcs", "stopRest", "stopped"
  procs,      \* p.Procs: sequence of "running" / "stopped"
  busy,       \* processors counted in activeProcs
  procCount,  \* p.procCount
  shouldStop, \* p.shouldStop
  stopN,      \* length of p.Procs when Stop's range loop began
  stopI,      \* next index of that loop
  grow,       \* growProcs goroutine: "none", "sleep", "expand", "exited"
  expandTo,   \* `to` of the running expandProcs
  left,       \* processors expandProcs still has to append
  maint,      \* maintenance goroutine: "none", "sleep", "exited"
  satPrev     \* history: did growProcs' previous sample see a saturated fleet?

vars == <<ctl, procs, busy, procCount, shouldStop, stopN, stopI, grow,
          expandTo, left, maint, satPrev>>

ProcIdx == 1..Len(procs)

\* initProcs: procCount := GOMAXPROCS*2, or 1 for a single-processor pipeline.
InitProcCount == IF SingleProc THEN 1 ELSE GoMaxProcs * 2

Saturated == procCount = Cardinality(busy)

Init ==
  /\ ctl = "new"
  /\ procs = <<>>
  /\ busy = {}
  /\ procCount = 0
  /\ shouldStop = FALSE
  /\ stopN = 0
  /\ stopI = 1
  /\ grow = "none"
  /\ expandTo = 0
  /\ left = 0
  /\ maint = "none"
  /\ satPrev = FALSE

(* Start: initProcs creates and starts procCount processors, then the    *)
(* maintenance and growProcs goroutines are launched. Nothing else runs  *)
(* concurrently with it before its last two lines.                       *)
Start ==
  /\ ctl = "new"
  /\ ctl' = "running"
  /\ procCount' = InitProcCount
  /\ procs' = [i \in 1..InitProcCount |-> "running"]
  /\ grow' = "sleep"
  /\ maint' = "sleep"
  /\ UNCHANGED <<busy, shouldStop, stopN, stopI, expandTo, left, satPrev>>

\* Stop begins: `range p.Procs` evaluates the slice once.
StopBegin ==
  /\ ctl = "running"
  /\ ctl' = "stopProcs"
  /\ stopN' = Len(procs)
  /\ stopI' = 1
  /\ UNCHANGED <<procs, busy, procCount, shouldStop, grow, expandTo, left, maint, satPrev>>

(* Variant of StopProc that leaves the stopped processor counted active. *)
StopProcKeepBusy ==
  /\ ctl = "stopProcs"
  /\ IF stopI <= stopN
       THEN /\ procs' = [procs EXCEPT ![stopI] = "stopped"]
            /\ stopI' = stopI + 1
            /\ UNCHANGED <<ctl, busy>>
       ELSE /\ ctl' = "stopRest"
            /\ UNCHANGED <<procs, busy, stopI>>
  /\ UNCHANGED <<procCount, shouldStop, stopN, grow, expandTo, left, maint, satPrev>>

\* processor.stop() for the next processor of the snapshot.
StopProc ==
  /\ ctl = "stopProcs"
  /\ IF stopI <= stopN
       THEN /\ procs' = [procs EXCEPT ![stopI] = "stopped"]
            /\ busy' = busy \ {stopI}
            /\ stopI' = stopI + 1
            /\ UNCHANGED ctl
       ELSE /\ ctl' = "stopRest"
            /\ UNCHANGED <<procs, busy, stopI>>
  /\ UNCHANGED <<procCount, shouldStop, stopN, grow, expandTo, left, maint, satPrev>>

(* Variant of StopComponents that forgets the flag. *)
StopComponentsNoFlag ==
  /\ ctl = "stopRest"
  /\ ctl' = "stopped"
  /\ UNCHANGED <<procs, busy, procCount, shouldStop, stopN, stopI, grow, expandTo, left, maint, satPrev>>

(* streamer.stop, input.Stop, output.Stop, then shouldStop = true. *)
StopComponents ==
  /\ ctl = "stopRest"
  /\ ctl' = "stopped"
  /\ shouldStop' = TRUE
  /\ UNCHANGED <<procs, busy, procCount, stopN, stopI, grow, expandTo, left, maint, satPrev>>

(* A running processor takes a stream (activeProcs++) or finishes one. *)
Busy(i) ==
  /\ procs[i] = "running"
  /\ i \notin busy
  /\ busy' = busy \cup {i}
  /\ UNCHANGED <<ctl, procs, procCount, shouldStop, stopN, stopI, grow, expandTo, left, maint, satPrev>>

Idle(i) ==
  /\ i \in busy
  /\ busy' = busy \ {i}
  /\ UNCHANGED <<ctl, procs, procCount, shouldStop, stopN, stopI, grow, expandTo, left, maint, satPrev>>

(* Variant of GrowCheck whose expandProcs loop runs to <= to-from. *)
GrowCheckLoopPastEnd ==
  /\ grow = "sleep"
  /\ \/ /\ shouldStop
        /\ grow' = "exited"
        /\ UNCHANGED <<expandTo, left, satPrev>>
     \/ /\ ~shouldStop
        /\ satPrev' = Saturated
        /\ IF Saturated /\ ~SingleProc
             THEN /\ procCount * 2 <= MaxProcs
                  /\ grow' = "expand"
                  /\ expandTo' = procCount * 2
                  /\ left' = procCount + 1
             ELSE UNCHANGED <<grow, expandTo, left>>
  /\ UNCHANGED <<ctl, procs, busy, procCount, shouldStop, stopN, stopI, maint>>

(* One iteration of growProcs after its Sleep. `t` is reset whenever the   *)
(* sample is not saturated, and the sleep since the last reset always     *)
(* exceeds the interval, so the loop expands exactly when this one sample *)
(* is saturated. expandProcs returns at once for a single-proc pipeline;  *)
(* otherwise it reads from and computes to = from*2.                      *)
GrowCheck ==
  /\ grow = "sleep"
  /\ \/ /\ shouldStop
        /\ grow' = "exited"
        /\ UNCHANGED <<expandTo, left, satPrev>>
     \/ /\ ~shouldStop
        /\ satPrev' = Saturated
        /\ IF Saturated /\ ~SingleProc
             THEN /\ procCount * 2 <= MaxProcs
                  /\ grow' = "expand"
                  /\ expandTo' = procCount * 2
                  /\ left' = procCount
             ELSE UNCHANGED <<grow, expandTo, left>>
  /\ UNCHANGED <<ctl, procs, busy, procCount, shouldStop, stopN, stopI, maint>>

(* expandProcs loop body: newProc, append to p.Procs, proc.start. *)
GrowExpandStep ==
  /\ grow = "expand"
  /\ left > 0
  /\ procs' = Append(procs, "running")
  /\ left' = left - 1
  /\ UNCHANGED <<ctl, busy, procCount, shouldStop, stopN, stopI, grow, expandTo, maint, satPrev>>

(* p.procCount.Swap(to): back to sleeping. *)
GrowSwap ==
  /\ grow = "expand"
  /\ left = 0
  /\ procCount' = expandTo
  /\ grow' = "sleep"
  /\ UNCHANGED <<ctl, procs, busy, shouldStop, stopN, stopI, expandTo, left, maint, satPrev>>

(* maintenance after its Sleep: return when shouldStop is set; its work   *)
(* (antispam, metrics, stats) changes nothing this module tracks.        *)
MaintCheck ==
  /\ maint = "sleep"
  /\ shouldStop
  /\ maint' = "exited"
  /\ UNCHANGED <<ctl, procs, busy, procCount, shouldStop, stopN, stopI, grow, expandTo, left, satPrev>>

Terminated ==
  /\ ctl = "stopped" /\ grow = "exited" /\ maint = "exited"
  /\ \A i \in ProcIdx : procs[i] = "stopped"
  /\ UNCHANGED vars

Next ==
  \/ Start \/ StopBegin \/ StopProc \/ StopComponents
  \/ \E i \in ProcIdx : Busy(i) \/ Idle(i)
  \/ GrowCheck \/ GrowExpandStep \/ GrowSwap
  \/ MaintCheck
  \/ Terminated

(* A Stop that has begun runs to its end, and the growth supervisor and   *)
(* maintenance goroutines keep being scheduled. Nobody is obliged to call *)
(* Start or Stop, and processors are not obliged to pick up work.         *)
Fairness ==
  /\ WF_vars(StopProc) /\ WF_vars(StopComponents)
  /\ WF_vars(GrowCheck) /\ WF_vars(GrowExpandStep) /\ WF_vars(GrowSwap)
  /\ WF_vars(MaintCheck)

Spec == Init /\ [][Next]_vars
FairSpec == Spec /\ Fairness

-----------------------------------------------------------------------------
TypeOK ==
  /\ ctl \in {"new", "running", "stopProcs", "stopRest", "stopped"}
  /\ procs \in Seq({"running", "stopped"})
  /\ busy \subseteq {i \in ProcIdx : procs[i] = "running"}
  /\ procCount \in 0..MaxProcs
  /\ shouldStop \in BOOLEAN
  /\ stopN \in 0..MaxProcs /\ stopI \in 1..MaxProcs + 1
  /\ grow \in {"none", "sleep", "expand", "exited"}
  /\ maint \in {"none", "sleep", "exited"}
  /\ satPrev \in BOOLEAN

(* p.Procs and p.procCount agree whenever growProcs is not inside        *)
(* expandProcs; inside it the slice holds the old processors plus those  *)
(* already appended, and procCount is swapped only after the loop.       *)
FleetConsistent ==
  /\ grow # "expand" => Len(procs) = procCount
  /\ grow = "expand" => Len(procs) + left = expandTo

(* Spec 5 (shutdown): Stop stops the workers and the growth loop observes *)
(* the flag, so once Stop has returned no processor is still running.    *)
NoProcessorAfterStop ==
  ctl = "stopped" => \A i \in ProcIdx : procs[i] = "stopped"

(* After Stop, the growProcs and maintenance goroutines both return. *)
LoopsExit == (ctl = "stopped") ~> (grow = "exited" /\ maint = "exited")

(* Spec 4.4: the fleet doubles only when it has been saturated           *)
(* continuously for over 100 ms, i.e. over two consecutive samples.      *)
GrowOnlyWhenSustained ==
  [][grow = "sleep" /\ grow' = "expand" => satPrev]_vars
=============================================================================
