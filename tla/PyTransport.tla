---------------------------- MODULE PyTransport ----------------------------
(***************************************************************************)
(* The transport of the Python SDK (packages/sdk-py/src/blamr_sdk/         *)
(* transport.py), and complete_run() of its emitter: a queue in memory     *)
(* that one thread posts, files on disk that another thread posts again,   *)
(* and flush(), which also posts the files, in the thread of the program.  *)
(*                                                                         *)
(* Requests are numbered in the order of send(): edges, and the completion *)
(* of the run.  A file holds one request, and is named after it here.  A   *)
(* file is written under a lock, which no scan of the files takes.         *)
(***************************************************************************)
EXTENDS Naturals, Sequences, FiniteSets, SequencesExt, TLC

CONSTANTS
    MaxSent,      \* bound: requests sent
    MemorySize,   \* maxsize of the queue in memory
    DiskSize,     \* files max_queue_bytes has room for
    MaxRefusals,  \* bound: posts that raise, whether they reached ingest or not
    MaxFaults     \* bound: errors of enqueue(), of the body or of the file system

ASSUME PyAssumption ==
    /\ MaxSent \in Nat /\ MemorySize \in Nat \ {0} /\ DiskSize \in Nat
    /\ MaxRefusals \in Nat /\ MaxFaults \in Nat

VARIABLES
    pyMem,       \* _mem: the requests, and 0 for the None of close()
    pyDisk,      \* the files, oldest first
    text,        \* what the file of each request holds: nothing yet, a part of
                 \* the line, or the line
    writer,      \* the thread that holds _lock in enqueue(), and what it listed
    poster,      \* _run_loop: what it is about to do
    scan,        \* _flush_disk_once in the program and in its own thread
    program,     \* what the program does
    stop,        \* _stop
    pySent,      \* requests sent
    landed,      \* requests ingest accepted, in order
    refusals,    \* posts that raised
    faults,      \* errors of enqueue()
    spilled,     \* history: requests that had a file
    pruned,      \* history: requests whose file _prune() deleted
    broken,      \* history: requests that an error of enqueue() befell
    raced        \* history: requests that enqueue() had while the files were scanned

disk == <<pyDisk, text, writer>>
fates == <<faults, spilled, pruned, broken, raced>>
pyVars == <<pyMem, disk, poster, scan, program, stop, pySent, landed, refusals, fates>>

Scanners == {"program", "flusher"}
NoScan == [on |-> FALSE, files |-> <<>>, reading |-> 0, got |-> "nothing"]
Writers == {"program", "poster"}
NoWriter == [by |-> "none", pc |-> "list", listed |-> <<>>]
AtRest == [pc |-> "check", item |-> 0]

Alive == program # "ended"

\* The request that a thread has for enqueue(), and whether it has one.
InHand(t) == IF t = "program" THEN pySent ELSE poster.item
Spilling(t) == IF t = "program" THEN program = "spill" ELSE poster.pc = "spill"
Writing == writer.by # "none"

-----------------------------------------------------------------------------
PyInit ==
    /\ pyMem = <<>> /\ pyDisk = <<>> /\ landed = <<>>
    /\ text = [r \in 1..MaxSent |-> "nothing"]
    /\ writer = NoWriter
    /\ poster = AtRest
    /\ scan = [s \in Scanners |-> NoScan]
    /\ program = "run"
    /\ stop = FALSE
    /\ pySent = 0 /\ refusals = 0 /\ faults = 0
    /\ spilled = {} /\ pruned = {} /\ broken = {} /\ raced = {}

\* send() of an edge, or of the completion after its flush.
Send ==
    /\ program \in {"run", "complete"} /\ pySent < MaxSent
    /\ pySent' = pySent + 1
    /\ IF Len(pyMem) < MemorySize
       THEN pyMem' = Append(pyMem, pySent') /\ program' = "run"
       ELSE program' = "spill" /\ UNCHANGED pyMem
    /\ UNCHANGED <<disk, poster, scan, stop, landed, refusals, fates>>

\* complete_run() and close() call flush().
StartComplete ==
    /\ program = "run"
    /\ program' = "flushComplete"
    /\ UNCHANGED <<pyMem, disk, poster, scan, stop, pySent, landed, refusals, fates>>

Close ==
    /\ program = "run"
    /\ program' = "flushClose"
    /\ stop' = TRUE
    /\ pyMem' = IF Len(pyMem) < MemorySize THEN Append(pyMem, 0) ELSE pyMem
    /\ UNCHANGED <<disk, poster, scan, pySent, landed, refusals, fates>>

\* The process dies; its daemon threads die with the program in any case.
Kill ==
    /\ Alive
    /\ program' = "ended"
    /\ UNCHANGED <<pyMem, disk, poster, scan, stop, pySent, landed, refusals, fates>>

(***************************************************************************)
(* DiskQueue.enqueue(), in the program or in the thread of _run_loop: list *)
(* the files under the lock, look at their sizes, delete the oldest while  *)
(* there is too much, create the file and write the line.                  *)
(***************************************************************************)
EnqueueReturns(t) ==
    /\ writer' = NoWriter
    /\ IF t = "program" THEN program' = "run" /\ UNCHANGED poster
       ELSE poster' = AtRest /\ UNCHANGED program

ListToPrune(t) ==
    /\ Alive /\ Spilling(t) /\ ~Writing
    /\ writer' = [by |-> t, pc |-> "prune", listed |-> pyDisk]
    /\ raced' = IF \E s \in Scanners : scan[s].on THEN raced \cup {InHand(t)} ELSE raced
    /\ UNCHANGED <<pyMem, pyDisk, text, poster, scan, program, stop, pySent, landed, refusals,
                   faults, spilled, pruned, broken>>

\* A scan has removed a file that was listed: stat() raises, and enqueue() gives
\* the request up.
FileIsGone == \E i \in DOMAIN writer.listed : ~Contains(pyDisk, writer.listed[i])
StatRaises(t) ==
    /\ Alive /\ writer.by = t /\ writer.pc = "prune" /\ FileIsGone
    /\ EnqueueReturns(t)
    /\ UNCHANGED <<pyMem, pyDisk, text, scan, stop, pySent, landed, refusals, fates>>

\* _prune() deletes n files; an error ends it before there is room.
Prune(n) ==
    /\ n = 0 \/ n + DiskSize <= Len(pyDisk)
    /\ pruned' = pruned \cup {pyDisk[i] : i \in 1..n}
Rest(n) == SubSeq(pyDisk, n + 1, Len(pyDisk))

CreateFile(t) ==
    /\ Alive /\ writer.by = t /\ writer.pc = "prune" /\ ~FileIsGone
    /\ \E n \in 0..Len(pyDisk) : Prune(n) /\ pyDisk' = Append(Rest(n), InHand(t))
    /\ text' = [text EXCEPT ![InHand(t)] = "nothing"]
    /\ writer' = [writer EXCEPT !.pc = "write"]
    /\ spilled' = spilled \cup {InHand(t)}
    /\ UNCHANGED <<pyMem, poster, scan, program, stop, pySent, landed, refusals, faults, broken, raced>>

WriteFile(t) ==
    /\ Alive /\ writer.by = t /\ writer.pc = "write"
    /\ text' = [text EXCEPT ![InHand(t)] = "line"]
    /\ EnqueueReturns(t)
    /\ UNCHANGED <<pyMem, pyDisk, scan, stop, pySent, landed, refusals, fates>>

\* An error anywhere in enqueue(): the body is not JSON, the directory cannot be
\* made, files have been pruned but none can be opened, or not all is written.
EnqueueRaises(t) ==
    /\ Alive /\ Spilling(t) /\ faults < MaxFaults
    /\ faults' = faults + 1 /\ broken' = broken \cup {InHand(t)}
    /\ \/ /\ writer.by # t
          /\ UNCHANGED <<pyDisk, text, pruned, writer>>
          /\ IF t = "program" THEN program' = "run" /\ UNCHANGED poster
             ELSE poster' = AtRest /\ UNCHANGED program
       \/ /\ writer.by = t /\ writer.pc = "prune" /\ ~FileIsGone
          /\ \E n \in 0..Len(pyDisk) : Prune(n) /\ pyDisk' = Rest(n)
          /\ EnqueueReturns(t) /\ UNCHANGED text
       \/ /\ writer.by = t /\ writer.pc = "write"
          /\ \E left \in {"nothing", "part", "line"} : text' = [text EXCEPT ![InHand(t)] = left]
          /\ EnqueueReturns(t) /\ UNCHANGED <<pyDisk, pruned>>
    /\ UNCHANGED <<pyMem, scan, stop, pySent, landed, refusals, spilled, raced>>

(***************************************************************************)
(* _run_loop.                                                              *)
(***************************************************************************)
CheckStop ==
    /\ Alive /\ poster.pc = "check"
    /\ poster' = [poster EXCEPT !.pc = IF stop THEN "stopped" ELSE "get"]
    /\ UNCHANGED <<pyMem, disk, scan, program, stop, pySent, landed, refusals, fates>>

\* get() with its timeout: there may be nothing.
GetItem ==
    /\ Alive /\ poster.pc = "get"
    /\ IF pyMem = <<>> THEN poster' = [poster EXCEPT !.pc = "check"] /\ UNCHANGED pyMem
       ELSE /\ poster' = IF Head(pyMem) = 0 THEN [pc |-> "stopped", item |-> 0]
                         ELSE [pc |-> "post", item |-> Head(pyMem)]
            /\ pyMem' = Tail(pyMem)
    /\ UNCHANGED <<disk, scan, program, stop, pySent, landed, refusals, fates>>

Posted ==
    /\ Alive /\ poster.pc = "post"
    /\ landed' = Append(landed, poster.item)
    /\ poster' = AtRest
    /\ UNCHANGED <<pyMem, disk, scan, program, stop, pySent, refusals, fates>>

\* _post() raises: ingest refused the request, did not get it, or accepted it
\* and the answer was lost or late.
Raises(r) ==
    /\ refusals < MaxRefusals /\ refusals' = refusals + 1
    /\ landed' \in {landed, Append(landed, r)}

\* Variant of KeepRefused: the request goes back to the queue in memory.
Requeue == pyMem' = Append(pyMem, poster.item) /\ poster' = AtRest
KeepRefused == poster' = [poster EXCEPT !.pc = "spill"] /\ UNCHANGED pyMem
PostRaises ==
    /\ Alive /\ poster.pc = "post" /\ Raises(poster.item)
    /\ KeepRefused
    /\ UNCHANGED <<disk, scan, program, stop, pySent, fates>>

(***************************************************************************)
(* _flush_disk_once: list the files, then read, post and remove each.      *)
(***************************************************************************)
StartScan(s) ==
    /\ scan' = [scan EXCEPT ![s] = [on |-> TRUE, files |-> pyDisk, reading |-> 0, got |-> "nothing"]]
    /\ raced' = IF Writing THEN raced \cup {InHand(writer.by)} ELSE raced
    /\ UNCHANGED <<pyMem, disk, poster, program, stop, pySent, landed, refusals,
                   faults, spilled, pruned, broken>>

EndScan(s) ==
    /\ scan[s].on /\ scan[s].files = <<>> /\ scan[s].reading = 0
    /\ scan' = [scan EXCEPT ![s] = NoScan]

FlusherWakes ==
    /\ Alive /\ ~stop /\ ~scan["flusher"].on
    /\ pyDisk # <<>>
    /\ StartScan("flusher")

FlusherDone ==
    /\ Alive /\ EndScan("flusher")
    /\ UNCHANGED <<pyMem, disk, poster, program, stop, pySent, landed, refusals, fates>>

\* flush() waits for an empty queue, but not longer than its deadline.
Waited ==
    /\ program \in {"flushComplete", "flushClose"} /\ ~scan["program"].on
    /\ StartScan("program")

\* The disk has been gone through: flush() returns.
Flushed ==
    /\ program \in {"flushComplete", "flushClose"} /\ EndScan("program")
    /\ program' = IF program = "flushComplete" THEN "complete" ELSE "ended"
    /\ UNCHANGED <<pyMem, disk, poster, stop, pySent, landed, refusals, fates>>

ReadFile(s) ==
    /\ Alive /\ scan[s].reading = 0 /\ scan[s].files # <<>>
    /\ LET f == Head(scan[s].files)
       IN scan' = [scan EXCEPT ![s].files = Tail(@),
                               ![s].reading = IF Contains(pyDisk, f) THEN f ELSE 0,
                               ![s].got = IF Contains(pyDisk, f) THEN text[f] ELSE "nothing"]
    /\ UNCHANGED <<pyMem, disk, poster, program, stop, pySent, landed, refusals, fates>>

NextFile(s) == scan' = [scan EXCEPT ![s].reading = 0, ![s].got = "nothing"]
UnlinkFile(s) == pyDisk' = RemoveFirst(pyDisk, scan[s].reading)

FilePosted(s) ==
    /\ Alive /\ scan[s].got = "line"
    /\ landed' = Append(landed, scan[s].reading)
    /\ UnlinkFile(s) /\ NextFile(s)
    /\ UNCHANGED <<pyMem, text, writer, poster, program, stop, pySent, refusals, fates>>

\* A file without a line in it has nothing to post, and is removed.
EmptyFileRemoved(s) ==
    /\ Alive /\ scan[s].reading # 0 /\ scan[s].got = "nothing"
    /\ UnlinkFile(s) /\ NextFile(s)
    /\ UNCHANGED <<pyMem, text, writer, poster, program, stop, pySent, landed, refusals, fates>>

\* Variant of KeepFile: the file is removed whether its line was posted or not.
RemoveAnyway(s) == UnlinkFile(s)

\* The file stays when its line cannot be posted, or is not all there (or when
\* unlink() raises after the post).
KeepFile(s) == UNCHANGED pyDisk
FileRaises(s) ==
    /\ Alive
    /\ \/ scan[s].got = "line" /\ Raises(scan[s].reading)
       \/ scan[s].got = "part" /\ UNCHANGED <<landed, refusals>>
    /\ KeepFile(s) /\ NextFile(s)
    /\ UNCHANGED <<pyMem, text, writer, poster, program, stop, pySent, fates>>

PyNext ==
    \/ Send \/ StartComplete \/ Close \/ Waited \/ Flushed \/ Kill
    \/ \E t \in Writers : ListToPrune(t) \/ StatRaises(t) \/ CreateFile(t) \/ WriteFile(t) \/ EnqueueRaises(t)
    \/ CheckStop \/ GetItem \/ Posted \/ PostRaises
    \/ FlusherWakes \/ FlusherDone
    \/ \E s \in Scanners : ReadFile(s) \/ FilePosted(s) \/ EmptyFileRemoved(s) \/ FileRaises(s)

PySpec == PyInit /\ [][PyNext]_pyVars

(***************************************************************************)
(* Properties.                                                             *)
(***************************************************************************)
\* A request reaches ingest twice, or after a later one, only when it or the
\* later one had a file: by the memory queue alone the completion of a run
\* follows its edges, also when answers are lost.
DisorderWasSpilled ==
    \A i, j \in DOMAIN landed :
      i < j /\ landed[j] <= landed[i] => {landed[i], landed[j]} \cap spilled # {}

\* A request is with ingest, in memory, in the hands of a thread, or whole in a
\* file.
Kept(r) ==
    \/ Contains(landed, r) \/ Contains(pyMem, r) \/ poster.item = r
    \/ program = "spill" /\ r = pySent
    \/ Contains(pyDisk, r) /\ text[r] = "line"

\* While the process lives, a request is lost only when _prune() deleted its
\* file, enqueue() met an error with it, or its enqueue() ran during a scan of
\* the files: a scan removes a file that is created and not yet written, and
\* makes the stat() of _prune() raise.  (What is in memory when close() gives up
\* waiting ends with the process.)
LossExplained ==
    Alive => \A r \in 1..pySent : Kept(r) \/ r \in pruned \cup broken \cup raced

\* Failed posts are queued on the disk and retried (packages/sdk-py/README.md:52):
\* where enqueue() meets no error and there is room, nothing is lost while the
\* process lives.
FailedPostsAreQueued ==
    Alive => \A r \in 1..pySent : Kept(r)
=============================================================================
