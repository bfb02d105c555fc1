------------------------------ MODULE FileOutput ------------------------------
(***************************************************************************)
(* The file output plugin (plugin/output/file/file.go): batcher workers   *)
(* write encoded batches into the current file under mu.RLock; the        *)
(* fileSealUpTicker goroutine seals the file when its retention interval   *)
(* is over: it renames it to name_<idx>_<time>.ext, swaps in a new file    *)
(* under mu.Lock, closes the old one and announces it to SealUpCallback.   *)
(* The process may crash at any point and restart: Start then rebuilds     *)
(* idx and the current file from the directory.                            *)
(*                                                                         *)
(* Files are inodes; a name is what the directory maps to an inode.  The  *)
(* current file's name is "<unix ts>_name.ext"; it is represented by the  *)
(* inode it was created for.  A sealed name is represented by its idx:     *)
(* the time suffix has one-second resolution, and the model lets two      *)
(* seals with one idx fall in the same second.  Time is represented by    *)
(* whether the sealing deadline has passed.                                *)
(***************************************************************************)
EXTENDS Integers, Sequences, FiniteSets, FiniteSetsExt

LOCAL SeqExt == INSTANCE SequencesExt

CONSTANTS
    Writers,     \* batcher workers calling out()
    Batches,     \* batches handed to out()
    Inodes,      \* files that can be created in the target directory
    MaxCrashes,  \* bound on crash-and-restart
    OldSealed,   \* idx of the sealed files an earlier run left behind
    None

ASSUME Writers # {} /\ Batches # {} /\ MaxCrashes \in Nat
       /\ OldSealed \subseteq Nat

Unused == <<"unused">>
Gone == <<"gone">>
CurName(i) == <<"cur", i>>
SealedName(n) == <<"sealed", n>>
IsCur(nm) == nm[1] = "cur"
IsSealed(nm) == nm[1] = "sealed"

VARIABLES
    name,       \* directory: the name of each inode (Unused, Gone)
    data,       \* contents of each inode: the batches written into it
    closed,     \* inodes whose handle the plugin closed
    announced,  \* inodes passed to SealUpCallback
    file,       \* p.file
    idx,        \* p.idx
    due,        \* time.Now() has reached p.nextSealUpTime
    tpc,        \* fileSealUpTicker: "wait", "fired", "lockWait", "locked", "unlocked"
    oldFile,    \* sealUp's oldFile
    readers,    \* writers holding mu.RLock
    locked,     \* sealUp holds mu.Lock
    wbatch,     \* per writer: the batch out() is writing, or None
    wfile,      \* per writer: the p.file it read under RLock, or None
    pending,    \* batches waiting for a writer
    acked,      \* batches the batcher committed after out() returned
    crashes

vars == <<name, data, closed, announced, file, idx, due, tpc, oldFile,
          readers, locked, wbatch, wfile, pending, acked, crashes>>

SealedIdx == OldSealed \cup {name[i][2] : i \in {j \in Inodes : IsSealed(name[j])}}
CurFiles == {i \in Inodes : IsCur(name[i])}

-----------------------------------------------------------------------------
(* Start: getStartIdx, createNew, setNextSealUpTime.                       *)

\* The decimal digits of n, most significant first (strconv, Sprintf %d).
RECURSIVE Digits(_)
Digits(n) == IF n < 10 THEN <<n>> ELSE Digits(n \div 10) \o <<n % 10>>

\* filepath.Glob returns the matches sorted by name.  name_<idx>_<time>.ext
\* sorts by the digits of idx and then the separator '_', which sorts
\* after every digit ('_' is 10 here): name_10_... before name_9_....
GlobKey(n) == Digits(n) \o <<10>>
GlobBefore(m, n) ==
    LET a == GlobKey(m)  b == GlobKey(n)
        p == Len(SeqExt!LongestCommonPrefix({a, b}))
    IN  p < Len(a) /\ a[p + 1] < b[p + 1]

\* The idx of a set of sealed names, in glob order.
RECURSIVE GlobOrder(_)
GlobOrder(S) ==
    IF S = {} THEN <<>>
    ELSE LET first == CHOOSE n \in S : \A m \in S \ {n} : GlobBefore(n, m)
         IN  <<first>> \o GlobOrder(S \ {first})

\* The sealed names getStartIdx's glob name_*_*.ext matches, in glob order.
Matches == GlobOrder(SealedIdx)

\* Variant of ScanIdx that keeps the idx of the last name seen.
ScanIdxLast(names, best) ==
    IF names = <<>> THEN best ELSE SeqExt!Last(names)

\* The loop of getStartIdx: each name's idx is the text between the name
\* and the time suffix; strconv.Atoi of it succeeds for every name this
\* plugin wrote with a fixed-width Layout (the default), so the `break`
\* is not taken here; the largest idx seen is kept.
RECURSIVE ScanIdx(_, _)
ScanIdx(names, best) ==
    IF names = <<>> THEN best
    ELSE ScanIdx(Tail(names), IF Head(names) > best THEN Head(names) ELSE best)

\* Variant of GetStartIdx that resumes at the largest idx itself.
GetStartIdxNoIncrement == ScanIdx(Matches, -1)

\* getStartIdx: one more than the idx the loop ends with, which starts at -1
\* (0 on a directory without sealed files).
GetStartIdx == ScanIdx(Matches, -1) + 1

\* Variant of CreateNew that always creates a new file.
CreateNewAlwaysFresh(reused) ==
    LET u == CHOOSE i \in Inodes : name[i] = Unused
    IN  /\ \E i \in Inodes : name[i] = Unused
        /\ file' = u
        /\ name' = [name EXCEPT ![u] = CurName(u)]
        /\ reused = FALSE

\* createNew: reuse the current file if the glob *_name.ext finds exactly
\* one, otherwise create "<now>_name.ext" (O_CREATE|O_APPEND).
CreateNew(reused) ==
    IF Cardinality(CurFiles) = 1
    THEN /\ file' = CHOOSE i \in CurFiles : TRUE
         /\ reused = TRUE
         /\ UNCHANGED name
    ELSE LET u == CHOOSE i \in Inodes : name[i] = Unused
         IN  /\ \E i \in Inodes : name[i] = Unused
             /\ file' = u
             /\ name' = [name EXCEPT ![u] = CurName(u)]
             /\ reused = FALSE

\* setNextSealUpTime: the deadline is the timestamp in the current file's
\* name plus RetentionInterval; for a reused file it may already be over.
SetNextSealUpTime(reused) == due' \in (IF reused THEN BOOLEAN ELSE {FALSE})

\* Start: a reused file's deadline is its creation time plus the retention
\* interval, which may already be over; a new file's is not.
Start ==
    /\ idx' = GetStartIdx
    /\ \E reused \in BOOLEAN : CreateNew(reused) /\ SetNextSealUpTime(reused)
    /\ tpc' = "wait" /\ oldFile' = None
    /\ readers' = {} /\ locked' = FALSE
    /\ wbatch' = [w \in Writers |-> None] /\ wfile' = [w \in Writers |-> None]

\* The plugin's first Start, on a target directory holding only the sealed
\* files of an earlier run.
Init ==
    LET first == CHOOSE i \in Inodes : TRUE IN
    /\ name = [i \in Inodes |-> IF i = first THEN CurName(i) ELSE Unused]
    /\ data = [i \in Inodes |-> {}]
    /\ closed = {} /\ announced = {}
    /\ file = first /\ idx = GetStartIdx /\ due = FALSE
    /\ tpc = "wait" /\ oldFile = None
    /\ readers = {} /\ locked = FALSE
    /\ wbatch = [w \in Writers |-> None] /\ wfile = [w \in Writers |-> None]
    /\ pending = Batches /\ acked = {} /\ crashes = 0

-----------------------------------------------------------------------------
(* Batcher workers: out() encodes the batch and calls write(), which holds *)
(* mu.RLock around p.file.Write.  RLock waits while sealUp holds or waits  *)
(* for mu.Lock (Go's RWMutex lets a waiting writer in first).              *)

WriteRLock(w, b) ==
    /\ wbatch[w] = None
    /\ b \in pending
    /\ tpc \notin {"lockWait", "locked"}
    /\ pending' = pending \ {b}
    /\ wbatch' = [wbatch EXCEPT ![w] = b]
    /\ wfile' = [wfile EXCEPT ![w] = file]
    /\ readers' = readers \cup {w}
    /\ UNCHANGED <<name, data, closed, announced, file, idx, due, tpc, oldFile,
                   locked, acked, crashes>>

\* p.file.Write, RUnlock, out() returns.  (A failed Write is
\* logger.Fatalf; TypeOK and WriterSeesOpenFile show the handle written to
\* is never closed.)
WriteDone(w) ==
    /\ wfile[w] # None
    /\ data' = [data EXCEPT ![wfile[w]] = @ \cup {wbatch[w]}]
    /\ readers' = readers \ {w}
    /\ wfile' = [wfile EXCEPT ![w] = None]
    /\ UNCHANGED <<name, closed, announced, file, idx, due, tpc, oldFile,
                   locked, wbatch, pending, acked, crashes>>

\* After out() returns, the batcher commits the batch's events to the
\* pipeline (spec 4.7); the input persists their offsets.
BatchCommit(w) ==
    /\ wbatch[w] # None /\ wfile[w] = None
    /\ acked' = acked \cup {wbatch[w]}
    /\ wbatch' = [wbatch EXCEPT ![w] = None]
    /\ UNCHANGED <<name, data, closed, announced, file, idx, due, tpc, oldFile,
                   readers, locked, wfile, pending, crashes>>

-----------------------------------------------------------------------------
(* fileSealUpTicker and sealUp.                                            *)

\* Time passes until the next seal-up deadline.
Tick ==
    /\ ~due
    /\ due' = TRUE
    /\ UNCHANGED <<name, data, closed, announced, file, idx, tpc, oldFile,
                   readers, locked, wbatch, wfile, pending, acked, crashes>>

\* The timer set to time.Until(nextSealUpTime) fires.
TimerFires ==
    /\ tpc = "wait" /\ due
    /\ tpc' = "fired"
    /\ UNCHANGED <<name, data, closed, announced, file, idx, due, oldFile,
                   readers, locked, wbatch, wfile, pending, acked, crashes>>

\* rename: os.Rename onto newFileName, which replaces a file already named
\* so; then p.idx++.
Rename(f, newName) ==
    /\ name' = [i \in Inodes |->
                  IF i = f THEN newName
                  ELSE IF name[i] = newName THEN Gone
                  ELSE name[i]]
    /\ idx' = idx + 1

\* Variant of SealRename that increments idx on the empty-file path too.
SealRenameCountEmpty ==
    /\ tpc = "fired"
    /\ \/ /\ data[file] = {}
          /\ tpc' = "wait"
          /\ idx' = idx + 1
          /\ UNCHANGED <<name, oldFile>>
       \/ /\ data[file] # {}
          /\ Rename(file, SealedName(idx))
          /\ oldFile' = file
          /\ tpc' = "lockWait"
    /\ UNCHANGED <<data, closed, announced, file, due, readers, locked,
                   wbatch, wfile, pending, acked, crashes>>

\* sealUp up to mu.Lock: Stat; an empty file returns at once, leaving
\* nextSealUpTime as it is; otherwise rename to name_<idx>_<time>.ext
\* and oldFile := p.file.
SealRename ==
    /\ tpc = "fired"
    /\ \/ /\ data[file] = {}
          /\ tpc' = "wait"
          /\ UNCHANGED <<name, idx, oldFile>>
       \/ /\ data[file] # {}
          /\ Rename(file, SealedName(idx))
          /\ oldFile' = file
          /\ tpc' = "lockWait"
    /\ UNCHANGED <<data, closed, announced, file, due, readers, locked,
                   wbatch, wfile, pending, acked, crashes>>

\* Variant of SealLock that does not wait for the readers to leave.
SealLockNoWait ==
    /\ tpc = "lockWait"
    /\ locked' = TRUE
    /\ tpc' = "locked"
    /\ UNCHANGED <<name, data, closed, announced, file, idx, due, oldFile,
                   readers, wbatch, wfile, pending, acked, crashes>>

\* mu.Lock: granted once no writer holds the read lock.
SealLock ==
    /\ tpc = "lockWait"
    /\ readers = {}
    /\ locked' = TRUE
    /\ tpc' = "locked"
    /\ UNCHANGED <<name, data, closed, announced, file, idx, due, oldFile,
                   readers, wbatch, wfile, pending, acked, crashes>>

\* Under the lock: createNew, nextSealUpTime = now + RetentionInterval;
\* then mu.Unlock.
SealSwap ==
    /\ tpc = "locked"
    /\ CreateNew(FALSE)
    /\ due' = FALSE
    /\ locked' = FALSE
    /\ tpc' = "unlocked"
    /\ UNCHANGED <<data, closed, announced, idx, oldFile, readers, wbatch,
                   wfile, pending, acked, crashes>>

\* oldFile.Close(), then SealUpCallback(newFileName) in a goroutine.
SealClose ==
    /\ tpc = "unlocked"
    /\ closed' = closed \cup {oldFile}
    /\ announced' = announced \cup {oldFile}
    /\ oldFile' = None
    /\ tpc' = "wait"
    /\ UNCHANGED <<name, data, file, idx, due, readers, locked, wbatch, wfile,
                   pending, acked, crashes>>

-----------------------------------------------------------------------------
(* Crash and restart: memory is lost, the directory stays; batches not    *)
(* committed yet, written or not, are delivered again by the input.       *)

CrashRestart ==
    /\ crashes < MaxCrashes
    /\ crashes' = crashes + 1
    /\ pending' = pending \cup ({wbatch[w] : w \in Writers} \ {None})
    /\ closed' = {}   \* handles belong to the process that died
    /\ Start
    /\ UNCHANGED <<data, announced, acked>>

\* Every batch is written and sealed; the plugin waits for more.
Idle ==
    /\ pending = {} /\ \A w \in Writers : wbatch[w] = None
    /\ tpc = "wait" /\ ~due /\ data[file] = {}
    /\ UNCHANGED vars

Next ==
    \/ \E w \in Writers, b \in Batches : WriteRLock(w, b)
    \/ \E w \in Writers : WriteDone(w) \/ BatchCommit(w)
    \/ Tick \/ TimerFires \/ SealRename \/ SealLock \/ SealSwap \/ SealClose
    \/ CrashRestart
    \/ Idle

\* The batcher's workers and the ticker goroutine are scheduled; time
\* passes.  Crashes are not forced.
Fairness ==
    /\ \A w \in Writers : WF_vars(WriteDone(w)) /\ WF_vars(BatchCommit(w))
    /\ WF_vars(\E w \in Writers, b \in Batches : WriteRLock(w, b))
    /\ WF_vars(Tick) /\ WF_vars(TimerFires) /\ WF_vars(SealRename)
    /\ WF_vars(SealLock) /\ WF_vars(SealSwap) /\ WF_vars(SealClose)

Spec == Init /\ [][Next]_vars
FairSpec == Spec /\ Fairness

-----------------------------------------------------------------------------
(* Properties.                                                             *)

\* Each seal takes an inode, so idx stays below the earlier run's last idx
\* plus the number of inodes.
IdxBound == Cardinality(Inodes) + (IF OldSealed = {} THEN 0 ELSE Max(OldSealed) + 1)

TypeOK ==
    /\ name \in [Inodes -> {Unused, Gone} \cup {CurName(i) : i \in Inodes}
                             \cup {SealedName(n) : n \in 0 .. IdxBound}]
    /\ data \in [Inodes -> SUBSET Batches]
    /\ closed \cup announced \subseteq Inodes
    /\ file \in Inodes /\ idx \in 0 .. IdxBound /\ due \in BOOLEAN
    /\ tpc \in {"wait", "fired", "lockWait", "locked", "unlocked"}
    /\ oldFile \in Inodes \cup {None}
    /\ readers \subseteq Writers /\ locked \in BOOLEAN
    /\ wbatch \in [Writers -> Batches \cup {None}]
    /\ wfile \in [Writers -> Inodes \cup {None}]
    /\ pending \cup acked \subseteq Batches
    /\ crashes \in 0 .. MaxCrashes

\* A writer holding mu.RLock writes to the file that is current and open:
\* sealUp swaps p.file and closes the old handle only after every reader
\* left (write(), sealUp; a Write on a closed *os.File is logger.Fatalf).
WriterSeesOpenFile ==
    \A w \in readers : wfile[w] = file /\ file \notin closed

\* No file holding a committed batch loses its name: no rename replaced it,
\* across restarts too (sealUp's rename, getStartIdx).  A batch may be in
\* two files: a crash after out() returned and before the batcher committed
\* makes the input deliver it again (at-least-once).
AckedDurable ==
    \A i \in Inodes : data[i] \cap acked # {} => name[i] \notin {Unused, Gone}

\* The name the next seal renames onto is free: p.idx is above the idx of
\* every sealed file in the directory, the earlier run's included, also
\* after each restart rebuilt it with getStartIdx from the glob's name
\* order (name_10_... sorts before name_9_...).  A taken name would be
\* replaced by sealUp's os.Rename.
NextSealNameFree == \A n \in SealedIdx : n < idx

\* Every acknowledged batch ends up in a sealed file (fileSealUpTicker,
\* createNew reusing the unsealed file after a restart).
Sealed(b) == \E i \in Inodes : b \in data[i] /\ IsSealed(name[i])

EventuallySealed == \A b \in Batches : b \in acked ~> Sealed(b)

\* Each time the ticker goes back to waiting, its next deadline is in the
\* future: the timer does not fire again until time has passed.  The
\* config's retention_interval is the "interval of creation new file".
TickerWaitsForDeadline ==
    [][tpc # "wait" /\ tpc' = "wait" /\ crashes' = crashes => ~due']_vars

=============================================================================
