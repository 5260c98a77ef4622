----------------------------- MODULE Transport -----------------------------
(***************************************************************************)
(* The delivery queue of the TypeScript SDK: class BlamrTransport in       *)
(* packages/sdk-ts/src/transport.ts, in its asynchronous mode.             *)
(*                                                                         *)
(* send() pushes a request on an in-memory queue and arms a 5 ms timer;    *)
(* the timer, flush() and close() drain that queue with one POST at a      *)
(* time; a POST that fails is spilled to a file of the queue directory; an *)
(* interval, and flush() after it has drained memory, re-send the files.   *)
(* Every await of the code is a step boundary, so a request in flight is   *)
(* the head of `batch` or of some scan's `lines`.                          *)
(*                                                                         *)
(* A request is the number of the send() call that made it.  A file is     *)
(* named by its creation number: the code's names begin with Date.now(),   *)
(* so that their sorted order is the order of creation (two files made in  *)
(* the same millisecond sort by a random suffix, which is abstracted).     *)
(* A file is as large as the number of its lines.                          *)
(***************************************************************************)
EXTENDS Naturals, Sequences, FiniteSets, Functions, FiniteSetsExt

CONSTANTS
  MaxSends,      \* bound: how many requests the application sends
  MaxMemory,     \* cfg.maxMemoryQueue
  MaxDisk,       \* cfg.maxQueueBytes, in lines
  MaxRestarts,   \* bound: how often the process exits and a new one starts
  Ticks,         \* bound: interval runs of flushDiskToNetwork that may overlap
  Callers,       \* concurrent callers of flush() and close()
  Outcomes,      \* how a POST may end, a subset of AllOutcomes
  Rejected,      \* requests the ingest always refuses (a 4xx answer)
  DiskFails      \* whether file operations may fail

AllOutcomes == {"ok", "lostReply", "fail"}

None  == "none"
Timer == "timer"
Req   == 1..MaxSends

ASSUME TransportAssumption ==
  /\ MaxSends \in Nat
  /\ MaxMemory \in Nat \ {0}
  /\ MaxDisk \in Nat
  /\ MaxRestarts \in Nat
  /\ Outcomes \subseteq AllOutcomes
  /\ Rejected \subseteq Req
  /\ DiskFails \in BOOLEAN
  /\ Ticks \cap Callers = {}
  /\ {None, Timer} \cap Callers = {}

VARIABLES
  sent,      \* number of send() calls so far
  memory,    \* this.memory
  batch,     \* what flushMemory() spliced and has not finished; head in flight
  owner,     \* who runs flushMemory(): None (this.flushing = false), Timer, caller
  timer,     \* this.flushTimer is set
  closed,    \* this.closed
  disk,      \* the queue directory: file -> its lines
  files,     \* number of files created so far
  scan,      \* per run of flushDiskToNetwork: where it is
  arrived,   \* history: requests in the order the ingest first accepted them
  dups,      \* history: requests the ingest accepted more than once
  spilled,   \* history: requests that were ever written to a file
  lost,      \* history: requests a copy of which was given up
  barrier,   \* history: what each caller's last flush() found
  restarts

queueDir == <<disk, files, spilled, lost>>
ingest   == <<arrived, dups>>
vars == <<sent, memory, batch, owner, timer, closed, queueDir, scan,
          ingest, barrier, restarts>>

-----------------------------------------------------------------------------
Flushers == Ticks \cup Callers
Idle     == [todo |-> {}, file |-> 0, lines |-> <<>>]
Flushing == owner # None

(* A caller is inside flush() while its memory batch or its scan runs.     *)
Busy(c) == owner = c \/ scan[c] # Idle

Lines(d, F)     == UNION {Range(d[f]) : f \in F}
OnDisk          == Lines(disk, DOMAIN disk)
InFlight        == UNION {Range(scan[p].lines) : p \in Flushers}
DiskSize(d, F)  == MapThenSumSet(LAMBDA f : Len(d[f]), F)

(* Every place that holds a copy of a request.                             *)
Pending == Range(memory) \cup Range(batch) \cup OnDisk \cup InFlight

(* pruneDisk(): oldest files go first, until the rest fits.  The loop      *)
(* breaks at a file it cannot remove, so that a failing disk may leave     *)
(* more: any set that lacks only oldest files.                             *)
Kept(d) == {f \in DOMAIN d :
              DiskSize(d, {g \in DOMAIN d : g >= f}) <= MaxDisk}
Pruned(d) ==
  {Kept(d)} \cup
  {F \in SUBSET DOMAIN d :
     /\ DiskFails /\ Kept(d) \subseteq F
     /\ \A f \in F, g \in DOMAIN d : f < g => g \in F}

(* spillToDisk(q): prune, then write one new file, or lose q when the disk *)
(* fails, before or after the pruning.                                     *)
Spill(q) ==
  LET new == files + 1 IN
  \E F \in Pruned(disk) :
    \/ /\ disk' = [f \in F \cup {new} |-> IF f = new THEN q ELSE disk[f]]
       /\ files' = new
       /\ spilled' = spilled \cup Range(q)
       /\ lost' = lost \cup Lines(disk, DOMAIN disk \ F)
    \/ /\ DiskFails
       /\ disk' = [f \in F |-> disk[f]]
       /\ lost' = lost \cup Range(q) \cup Lines(disk, DOMAIN disk \ F)
       /\ UNCHANGED <<files, spilled>>

NoSpill == UNCHANGED queueDir

(* post(r): the ingest accepts r unless the request or the answer fails;   *)
(* a lost answer throws although the ingest has the request.               *)
Post(r, o) ==
  /\ o = "fail" \/ r \notin Rejected
  /\ IF o = "fail" THEN UNCHANGED ingest
     ELSE IF r \in Range(arrived)
          THEN dups' = dups \cup {r} /\ UNCHANGED arrived
          ELSE arrived' = Append(arrived, r) /\ UNCHANGED dups

(* Variant of Unlink: every file up to f is removed, those that failed too. *)
UnlinkThrough(d, f) == [g \in {h \in DOMAIN d : h > f} |-> d[g]]

Unlink(d, f) == [g \in DOMAIN d \ {f} |-> d[g]]

(* Variant of ReadNext: the file just read stays on the list.              *)
ReadAgain(p, todo, d) ==
  LET live == todo \cap DOMAIN d IN
  \/ /\ live = {}
     /\ scan' = [scan EXCEPT ![p] = Idle]
  \/ \E f \in live :
       /\ \A g \in live : f <= g
       /\ scan' = [scan EXCEPT ![p] =
                     [todo |-> live, file |-> f, lines |-> d[f]]]

(* The next iteration of the file loop of flushDiskToNetwork() in p: the   *)
(* first listed file that can still be read, or the end of the loop.       *)
ReadNext(p, todo, d) ==
  LET live == todo \cap DOMAIN d IN
  \/ /\ live = {}
     /\ scan' = [scan EXCEPT ![p] = Idle]
  \/ \E f \in live :
       /\ \A g \in live : f <= g
       /\ scan' = [scan EXCEPT ![p] =
                     [todo |-> live \ {f}, file |-> f, lines |-> d[f]]]

(* Variant of StartScan: only the oldest file is ever tried.               *)
StartOldest(p, d) ==
  ReadNext(p, IF closed' THEN {} ELSE {f \in DOMAIN d : \A g \in DOMAIN d : f <= g}, d)

(* The call of flushDiskToNetwork() by p: nothing once closed.             *)
StartScan(p, d) == ReadNext(p, IF closed' THEN {} ELSE DOMAIN d, d)

(* Variants of TakeBatch: the queue is copied instead of spliced; the      *)
(* newest goes first.                                                      *)
TakeCopy(w) ==
  ~Flushing /\ memory # <<>> /\ owner' = w /\ batch' = memory /\ memory' = memory
TakeNewest(w) ==
  /\ ~Flushing /\ memory # <<>>
  /\ owner' = w
  /\ batch' = <<memory[Len(memory)]>>
  /\ memory' = SubSeq(memory, 1, Len(memory) - 1)

(* flushMemory() up to its first await, called by w.                       *)
TakeBatch(w) ==
  /\ ~Flushing /\ memory # <<>>
  /\ owner' = w
  /\ batch' = memory
  /\ memory' = <<>>

-----------------------------------------------------------------------------
Init ==
  /\ sent = 0
  /\ memory = <<>>
  /\ batch = <<>>
  /\ owner = None
  /\ timer = FALSE
  /\ closed = FALSE
  /\ disk = [f \in {} |-> <<>>]
  /\ files = 0
  /\ scan = [p \in Flushers |-> Idle]
  /\ arrived = <<>>
  /\ dups = {}
  /\ spilled = {}
  /\ lost = {}
  /\ barrier = [c \in Callers |-> [upto |-> 0, joined |-> FALSE]]
  /\ restarts = 0

(* send(): push, spill everything when the queue is full, arm the timer.   *)
Send ==
  LET q == Append(memory, sent + 1) IN
  /\ sent < MaxSends
  /\ sent' = sent + 1
  /\ \/ Len(q) < MaxMemory /\ memory' = q /\ NoSpill
     \/ Len(q) >= MaxMemory /\ memory' = <<>> /\ Spill(q)
  /\ timer' = TRUE
  /\ UNCHANGED <<batch, owner, closed, scan, ingest, barrier, restarts>>

(* The 5 ms timer: it clears itself, and does no more when a flushMemory() *)
(* is already running or there is nothing to send.                         *)
TimerFire ==
  /\ timer
  /\ timer' = FALSE
  /\ \/ TakeBatch(Timer)
     \/ (Flushing \/ memory = <<>>) /\ UNCHANGED <<owner, batch, memory>>
  /\ UNCHANGED <<sent, closed, queueDir, scan, ingest, barrier, restarts>>

(* The synchronous prefix of flush(), shared with close(): take the batch, *)
(* or go straight on to the disk queue when flushMemory() returns at once. *)
BeginFlush(c) ==
  /\ \/ TakeBatch(c) /\ UNCHANGED scan
     \/ /\ Flushing \/ memory = <<>>
        /\ StartScan(c, disk)
        /\ UNCHANGED <<owner, batch, memory>>
  /\ barrier' = [barrier EXCEPT ![c] = [upto |-> sent, joined |-> Flushing]]
  /\ UNCHANGED <<sent, queueDir, ingest, restarts>>

Flush(c) ==
  /\ ~Busy(c)
  /\ UNCHANGED <<timer, closed>>
  /\ BeginFlush(c)

(* close(): both timers are cleared, and the final flush() finds `closed`  *)
(* set, so that it only drains memory.                                     *)
Close(c) ==
  /\ ~Busy(c)
  /\ closed' = TRUE
  /\ timer' = FALSE
  /\ BeginFlush(c)

(* The answer to the POST in flight of flushMemory(): a failed request is  *)
(* spilled; after the last one `flushing` is reset, and a caller's flush() *)
(* goes on to the disk queue.                                              *)
MemoryPost(o) ==
  /\ Flushing
  /\ Post(Head(batch), o)
  /\ batch' = Tail(batch)
  /\ \/ o = "ok" /\ NoSpill
     \/ o # "ok" /\ Spill(<<Head(batch)>>)
  /\ UNCHANGED <<sent, memory, timer, closed, barrier, restarts>>
  /\ \/ Tail(batch) # <<>> /\ UNCHANGED <<owner, scan>>
     \/ /\ Tail(batch) = <<>>
        /\ owner' = None
        /\ IF owner \in Callers THEN StartScan(owner, disk')
                                ELSE UNCHANGED scan

(* setInterval: a new run of flushDiskToNetwork(), whether or not an       *)
(* earlier one still waits for an answer.                                  *)
Tick(t) ==
  /\ ~closed
  /\ scan[t] = Idle
  /\ DOMAIN disk # {}
  /\ UNCHANGED closed
  /\ StartScan(t, disk)
  /\ UNCHANGED <<sent, memory, batch, owner, timer, queueDir, ingest,
                 barrier, restarts>>

(* The answer to the POST in flight of scan p.  A failure leaves the file  *)
(* for a later run; after its last line the file is unlinked (a failing    *)
(* unlink keeps it, and unlinking a missing file changes nothing).         *)
DiskPost(p, o) ==
  LET s == scan[p] IN
  /\ s # Idle
  /\ Post(Head(s.lines), o)
  /\ UNCHANGED <<sent, memory, batch, owner, timer, closed, files, spilled,
                 lost, barrier, restarts>>
  /\ \/ /\ o = "ok" /\ Tail(s.lines) # <<>>
        /\ scan' = [scan EXCEPT ![p].lines = Tail(s.lines)]
        /\ UNCHANGED disk
     \/ /\ o = "ok" /\ Tail(s.lines) = <<>>
        /\ \/ disk' = Unlink(disk, s.file)
           \/ DiskFails /\ UNCHANGED disk
        /\ ReadNext(p, s.todo, disk')
     \/ /\ o # "ok"
        /\ UNCHANGED disk
        /\ ReadNext(p, s.todo, disk)

(* The process exits or is killed (both timers are unref'ed, so that they  *)
(* do not hold it back) and a new one opens the same queue directory.      *)
Restart ==
  /\ restarts < MaxRestarts
  /\ restarts' = restarts + 1
  /\ lost' = lost \cup Range(memory) \cup Range(batch)
  /\ memory' = <<>>
  /\ batch' = <<>>
  /\ owner' = None
  /\ timer' = FALSE
  /\ closed' = FALSE
  /\ scan' = [p \in Flushers |-> Idle]
  /\ barrier' = [c \in Callers |-> [upto |-> 0, joined |-> FALSE]]
  /\ UNCHANGED <<sent, disk, files, spilled, ingest>>

Next ==
  \/ Send
  \/ TimerFire
  \/ \E c \in Callers : Flush(c) \/ Close(c)
  \/ \E o \in Outcomes : MemoryPost(o)
  \/ \E t \in Ticks : Tick(t)
  \/ \E p \in Flushers, o \in Outcomes : DiskPost(p, o)
  \/ Restart

Spec == Init /\ [][Next]_vars

(* Fairness of the runtime: due timers fire, and a POST ends one way or    *)
(* another.  The application is free not to send, flush, close or exit.    *)
RuntimeFairness ==
  /\ WF_vars(TimerFire)
  /\ WF_vars(\E o \in Outcomes : MemoryPost(o))
  /\ \A t \in Ticks : WF_vars(Tick(t))
  /\ \A p \in Flushers : WF_vars(\E o \in Outcomes : DiskPost(p, o))

(* The ingest comes back: a line that is tried again and again is          *)
(* accepted in the end, unless the ingest refuses it for what it is.       *)
IngestRecovers ==
  \A p \in Flushers, r \in Req \ Rejected :
    SF_vars(/\ scan[p] # Idle /\ Head(scan[p].lines) = r
            /\ DiskPost(p, "ok"))

RuntimeSpec  == Spec /\ RuntimeFairness
RecoverySpec == Spec /\ RuntimeFairness /\ IngestRecovers

-----------------------------------------------------------------------------
TypeOK ==
  /\ sent \in 0..MaxSends
  /\ memory \in Seq(Req) /\ batch \in Seq(Req)
  /\ owner \in {None, Timer} \cup Callers
  /\ (owner = None) <=> (batch = <<>>)
  /\ timer \in BOOLEAN /\ closed \in BOOLEAN
  /\ files \in Nat
  /\ DOMAIN disk \subseteq 1..files
  /\ \A f \in DOMAIN disk : disk[f] \in Seq(Req) \ {<<>>}
  /\ scan \in [Flushers -> [todo : SUBSET (1..files), file : 0..files,
                            lines : Seq(Req)]]
  /\ \A p \in Flushers : scan[p] = Idle \/ scan[p].lines # <<>>
  /\ arrived \in Seq(Req)
  /\ dups \subseteq Req /\ spilled \subseteq Req /\ lost \subseteq Req
  /\ barrier \in [Callers -> [upto : 0..MaxSends, joined : BOOLEAN]]
  /\ restarts \in 0..MaxRestarts

(* The queue implements an outbox: its pending requests are those of       *)
(* memory, of the batch in flight, of the queue directory and of the file  *)
(* scans under way.  A request whose POST fails, whose file is pruned or   *)
(* whose process exits is never silently dropped.                          *)
Queue == INSTANCE Outbox WITH Request   <- Req,
                              accepted  <- 1..sent,
                              pending   <- Pending,
                              delivered <- Range(arrived)

ImplementsOutbox == Queue!Spec

(* Requests that were never written to disk reach the ingest in the order  *)
(* they were sent, across timer flushes, flush() calls and restarts:       *)
(* `flushing` keeps two batches from overtaking each other.                *)
UnspilledInOrder ==
  \A i, j \in 1..Len(arrived) :
    i < j /\ {arrived[i], arrived[j]} \cap spilled = {}
      => arrived[i] < arrived[j]

(* Only the disk queue re-sends: a request that reached the ingest twice   *)
(* was written to a file at some time.                                     *)
RepeatsWereSpilled == dups \subseteq spilled

(* A flush() that found no flushMemory() running has, when it returns,     *)
(* moved every request sent before it out of memory and off the wire.      *)
FlushAloneDrains ==
  \A c \in Callers : ~Busy(c) /\ ~barrier[c].joined =>
    \A r \in 1..barrier[c].upto : r \notin Range(memory) \cup Range(batch)

(* The claim of the code's comment and of the install guide, for every     *)
(* flush(): on its return the memory queue is drained of what was sent     *)
(* before it.  It fails when a timer's batch is still in flight.           *)
FlushDrains ==
  \A c \in Callers : ~Busy(c) =>
    \A r \in 1..barrier[c].upto : r \notin Range(memory) \cup Range(batch)

(* A flush() in progress returns.                                          *)
FlushReturns == \A c \in Callers : Busy(c) ~> ~Busy(c)

(* A request in memory leaves it, once the timer is armed and no           *)
(* flushMemory() runs that would swallow the timer.                        *)
ArmedTimerDrains ==
  \A r \in Req : (r \in Range(memory) /\ timer /\ ~Flushing)
                   ~> (r \notin Range(memory))

(* The install guide's "background worker": while the transport is open,   *)
(* whatever is in memory is sent.  It fails when the timer fires during a  *)
(* flushMemory(), because nothing arms it again.                           *)
MemoryDrains ==
  \A r \in Req : (r \in Range(memory)) ~> (closed \/ r \notin Range(memory))

(* Nothing of what a file holds is refused by the ingest.                  *)
Deliverable(r) ==
  \E f \in DOMAIN disk : r \in Range(disk[f]) /\ Range(disk[f]) \cap Rejected = {}

(* While the transport is open, a request on disk reaches the ingest in    *)
(* the end or is pruned, unless its file holds a request the ingest        *)
(* refuses.                                                                *)
DiskDrains ==
  \A r \in Req : Deliverable(r) ~> (closed \/ r \in Range(arrived) \cup lost)
=============================================================================
