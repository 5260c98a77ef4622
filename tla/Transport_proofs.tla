-------------------------- MODULE Transport_proofs --------------------------
(***************************************************************************)
(* Theorems about Transport, for any number of requests, callers and       *)
(* overlapping interval runs, and any of the limits.  The inductive        *)
(* invariant is TypeOK with Conserved and with ScanInv, which says what a  *)
(* file scan under way may rely on although other scans and pruning remove *)
(* files under it.                                                         *)
(***************************************************************************)
EXTENDS Transport, SequenceRanges, TLAPS

(* While its file is there, a scan has delivered the lines it no longer    *)
(* holds; once another scan or pruneDisk() has removed the file, the lines *)
(* it still holds have been delivered or given up.                         *)
Backed(s) ==
  s # Idle =>
    /\ s.file \in DOMAIN disk =>
         /\ Range(s.lines) \subseteq Range(disk[s.file])
         /\ Range(disk[s.file]) \subseteq Range(s.lines) \cup Range(arrived)
    /\ s.file \notin DOMAIN disk => Range(s.lines) \subseteq Range(arrived) \cup lost

ScanInv == \A p \in Flushers : Backed(scan[p])

ScanType(n) == [todo : SUBSET (1..n), file : 0..n, lines : Seq(Req)]

(* Every request handed to send() is queued somewhere, has reached the     *)
(* ingest, or is accounted for as given up; and nothing else reaches it.   *)
Conserved == Queue!Accounted

IInv == TypeOK /\ ScanInv /\ Conserved
-----------------------------------------------------------------------------
(* A spill keeps files whole, adds one file under a fresh name, and gives  *)
(* up what it removes or cannot write.                                     *)
LEMMA SpillFacts ==
  ASSUME TypeOK, NEW q \in Seq(Req) \ {<<>>}, Spill(q)
  PROVE  /\ files' \in {files, files + 1}
         /\ DOMAIN disk' \subseteq 1..files'
         /\ \A f \in DOMAIN disk' : disk'[f] \in Seq(Req) \ {<<>>}
         /\ spilled' \subseteq Req /\ lost' \subseteq Req
         /\ \A f \in DOMAIN disk : \/ f \in DOMAIN disk' /\ disk'[f] = disk[f]
                                   \/ f \notin DOMAIN disk'
                                      /\ Range(disk[f]) \subseteq lost'
         /\ \A f \in 1..files : f \in DOMAIN disk' => f \in DOMAIN disk
         /\ lost \subseteq lost'
         /\ lost' \subseteq lost \cup Range(q) \cup OnDisk
         /\ OnDisk' \subseteq OnDisk \cup Range(q)
         /\ OnDisk \cup Range(q) \subseteq OnDisk' \cup lost'
<1> DEFINE new == files + 1
<1>1. PICK F \in Pruned(disk) :
        \/ /\ disk' = [f \in F \cup {new} |-> IF f = new THEN q ELSE disk[f]]
           /\ files' = new
           /\ spilled' = spilled \cup Range(q)
           /\ lost' = lost \cup Lines(disk, DOMAIN disk \ F)
        \/ /\ DiskFails
           /\ disk' = [f \in F |-> disk[f]]
           /\ lost' = lost \cup Range(q) \cup Lines(disk, DOMAIN disk \ F)
           /\ UNCHANGED <<files, spilled>>
  BY DEF Spill
<1>0. F \subseteq DOMAIN disk
  BY DEF Pruned, Kept
<1>2. Range(q) \subseteq Req /\ \A f \in DOMAIN disk : Range(disk[f]) \subseteq Req
  BY RangeType DEF TypeOK
<1>3. DOMAIN disk \subseteq 1..files /\ files \in Nat /\ new \notin DOMAIN disk
  BY DEF TypeOK
<1>4. CASE /\ disk' = [f \in F \cup {new} |->
                         IF f = new THEN q ELSE disk[f]]
           /\ files' = new
           /\ spilled' = spilled \cup Range(q)
           /\ lost' = lost \cup Lines(disk, DOMAIN disk \ F)
  <2>1. /\ DOMAIN disk' = F \cup {new} /\ disk'[new] = q
        /\ \A f \in F : disk'[f] = disk[f]
    BY <1>0, <1>3, <1>4
  <2>2. \A f \in DOMAIN disk \ F : Range(disk[f]) \subseteq lost'
    BY <1>4 DEF Lines
  <2>3. lost' \subseteq lost \cup OnDisk /\ lost' \subseteq Req
    BY <1>2, <1>4 DEF Lines, OnDisk, TypeOK
  <2>4. OnDisk' = Range(q) \cup UNION {Range(disk[f]) : f \in F}
    BY <2>1 DEF OnDisk, Lines
  <2>5. OnDisk' \subseteq OnDisk \cup Range(q)
    BY <1>0, <2>4 DEF OnDisk, Lines
  <2>6. OnDisk \cup Range(q) \subseteq OnDisk' \cup lost'
    BY <2>2, <2>4 DEF OnDisk, Lines
  <2>7. DOMAIN disk' \subseteq 1..files' /\ files' \in {files, files + 1}
    BY <1>0, <1>3, <1>4, <2>1
  <2>8. \A f \in DOMAIN disk' : disk'[f] \in Seq(Req) \ {<<>>}
    BY <1>0, <2>1 DEF TypeOK
  <2>9. spilled' \subseteq Req
    BY <1>2, <1>4 DEF TypeOK
  <2>10. \A f \in DOMAIN disk : \/ f \in DOMAIN disk' /\ disk'[f] = disk[f]
                                \/ f \notin DOMAIN disk'
                                   /\ Range(disk[f]) \subseteq lost'
    BY <1>3, <2>1, <2>2
  <2>11. \A f \in 1..files : f \in DOMAIN disk' => f \in DOMAIN disk
    BY <1>0, <1>3, <2>1
  <2> QED BY <1>4, <2>3, <2>5, <2>6, <2>7, <2>8, <2>9, <2>10, <2>11
<1>5. CASE /\ disk' = [f \in F |-> disk[f]]
           /\ lost' = lost \cup Range(q) \cup Lines(disk, DOMAIN disk \ F)
           /\ UNCHANGED <<files, spilled>>
  <2>1. DOMAIN disk' = F /\ \A f \in F : disk'[f] = disk[f]
    BY <1>5
  <2>3. \A f \in DOMAIN disk \ F : Range(disk[f]) \subseteq lost'
    BY <1>5 DEF Lines
  <2>4. lost' \subseteq lost \cup Range(q) \cup OnDisk /\ lost' \subseteq Req
    BY <1>2, <1>5 DEF Lines, OnDisk, TypeOK
  <2>5. OnDisk' = UNION {Range(disk[f]) : f \in F}
    BY <2>1 DEF OnDisk, Lines
  <2>6. OnDisk' \subseteq OnDisk
    BY <1>0, <2>5 DEF OnDisk, Lines
  <2>7. OnDisk \cup Range(q) \subseteq OnDisk' \cup lost'
    BY <1>5, <2>3, <2>5 DEF OnDisk, Lines
  <2>8. /\ DOMAIN disk' \subseteq 1..files' /\ files' = files
        /\ \A f \in DOMAIN disk' : disk'[f] \in Seq(Req) \ {<<>>}
        /\ spilled' \subseteq Req
    BY <1>3, <1>5, <1>0, <2>1 DEF TypeOK
  <2>9. \A f \in DOMAIN disk : \/ f \in DOMAIN disk' /\ disk'[f] = disk[f]
                               \/ f \notin DOMAIN disk'
                                  /\ Range(disk[f]) \subseteq lost'
    BY <2>1, <2>3
  <2> QED BY <1>5, <1>0, <2>1, <2>4, <2>6, <2>7, <2>8, <2>9
<1> QED BY <1>1, <1>4, <1>5
-----------------------------------------------------------------------------
(* A POST delivers at most its own request, and does so unless it fails.   *)
LEMMA PostFacts ==
  ASSUME NEW r \in Req, NEW o, Post(r, o), arrived \in Seq(Req), dups \subseteq Req
  PROVE  /\ arrived' \in Seq(Req) /\ dups' \subseteq Req
         /\ Range(arrived) \subseteq Range(arrived')
         /\ Range(arrived') \subseteq Range(arrived) \cup {r}
         /\ o # "fail" => r \in Range(arrived')
         /\ o = "fail" => Range(arrived') = Range(arrived)
<1>1. Range(Append(arrived, r)) = Range(arrived) \cup {r} /\ Append(arrived, r) \in Seq(Req)
  BY RangeAppend
<1> QED BY <1>1 DEF Post, ingest

(* Moving on in a listing puts one scan at the start of a file, or ends it.*)
LEMMA ReadNextFacts ==
  ASSUME NEW p \in Flushers, NEW todo, NEW d, ReadNext(p, todo, d),
         NEW n \in Nat, todo \subseteq 1..n, DOMAIN d \subseteq 1..n,
         \A f \in DOMAIN d : d[f] \in Seq(Req) \ {<<>>},
         scan \in [Flushers -> ScanType(n)]
  PROVE  /\ scan' \in [Flushers -> ScanType(n)]
         /\ \A q \in Flushers : q # p => scan'[q] = scan[q]
         /\ \/ scan'[p] = Idle
            \/ /\ scan'[p].file \in DOMAIN d
               /\ scan'[p].lines = d[scan'[p].file]
               /\ scan'[p].lines # <<>>
<1>1. CASE scan' = [scan EXCEPT ![p] = Idle]
  <2>1. Idle \in ScanType(n) BY DEF Idle, ScanType
  <2> QED BY <1>1, <2>1
<1>2. CASE \E f \in todo \cap DOMAIN d :
             scan' = [scan EXCEPT ![p] =
                       [todo |-> (todo \cap DOMAIN d) \ {f}, file |-> f, lines |-> d[f]]]
  <2>1. PICK f \in todo \cap DOMAIN d :
          scan' = [scan EXCEPT ![p] =
                    [todo |-> (todo \cap DOMAIN d) \ {f}, file |-> f, lines |-> d[f]]]
    BY <1>2
  <2>2. [todo |-> (todo \cap DOMAIN d) \ {f}, file |-> f, lines |-> d[f]] \in ScanType(n)
    BY DEF ScanType
  <2> QED BY <2>1, <2>2
<1> QED BY <1>1, <1>2 DEF ReadNext

(* Scan p moved on, alone, in the queue directory d.                       *)
ScanMoves(p, d) ==
  /\ scan' \in [Flushers -> ScanType(files')]
  /\ \A q \in Flushers : q # p => scan'[q] = scan[q]
  /\ \/ scan'[p] = Idle
     \/ /\ scan'[p].file \in DOMAIN d
        /\ scan'[p].lines = d[scan'[p].file]
        /\ scan'[p].lines # <<>>

(* What every step does to the files that scans may be reading.            *)
DiskStep ==
  /\ Range(arrived) \subseteq Range(arrived') /\ lost \subseteq lost'
  /\ \A f \in DOMAIN disk :
       \/ f \in DOMAIN disk' /\ disk'[f] = disk[f]
       \/ f \notin DOMAIN disk' /\ Range(disk[f]) \subseteq Range(arrived') \cup lost'
  /\ \A f \in 1..files : f \in DOMAIN disk' => f \in DOMAIN disk

LEMMA BackedKept ==
  ASSUME TypeOK, TypeOK', DiskStep, NEW p \in Flushers, Backed(scan[p]),
         scan'[p] = scan[p]
  PROVE  Backed(scan[p])'
<1> DEFINE f == scan[p].file
           L == Range(scan[p].lines)
<1> SUFFICES ASSUME scan[p] # Idle
             PROVE  /\ f \in DOMAIN disk' =>
                         /\ L \subseteq Range(disk'[f])
                         /\ Range(disk'[f]) \subseteq L \cup Range(arrived')
                    /\ f \notin DOMAIN disk' => L \subseteq Range(arrived') \cup lost'
  BY DEF Backed
<1>1. f \in 0..files /\ DOMAIN disk' \subseteq 1..files' /\ files \in Nat
  BY DEF TypeOK
<1>2. CASE f \in DOMAIN disk'
  <2>1. f \in 1..files' /\ f # 0 BY <1>1, <1>2 DEF TypeOK
  <2>2. f \in DOMAIN disk BY <1>1, <1>2, <2>1 DEF DiskStep
  <2>3. disk'[f] = disk[f] BY <1>2, <2>2 DEF DiskStep
  <2> QED BY <1>2, <2>2, <2>3 DEF Backed, DiskStep
<1>3. CASE f \notin DOMAIN disk'
  <2>1. CASE f \in DOMAIN disk BY <1>3, <2>1 DEF Backed, DiskStep
  <2>2. CASE f \notin DOMAIN disk BY <1>3, <2>2 DEF Backed, DiskStep
  <2> QED BY <2>1, <2>2
<1> QED BY <1>2, <1>3

LEMMA SpillDiskStep ==
  ASSUME TypeOK, NEW q \in Seq(Req) \ {<<>>}, Spill(q),
         Range(arrived) \subseteq Range(arrived')
  PROVE  DiskStep
BY SpillFacts DEF DiskStep

(* The accounting of an outbox survives each of its steps.                 *)
LEMMA AccountedStep ==
  ASSUME Conserved, NEW A, NEW D, NEW L, D \subseteq Pending,
         L \subseteq Pending \cup A, Queue!Step(A, D, L)
  PROVE  Conserved'
BY DEF Conserved, Queue!Accounted, Queue!Step

LEMMA ScanTypeGrows ==
  ASSUME NEW n \in Nat, NEW m \in {n, n + 1}
  PROVE  [Flushers -> ScanType(n)] \subseteq [Flushers -> ScanType(m)]
<1>1. 1..n \subseteq 1..m /\ 0..n \subseteq 0..m
  OBVIOUS
<1>2. ScanType(n) \subseteq ScanType(m)
  BY <1>1 DEF ScanType
<1> QED BY <1>2

(* What scans hold is on disk, delivered or given up.                      *)
LEMMA InFlightBacked ==
  ASSUME ScanInv
  PROVE  InFlight \subseteq OnDisk \cup Range(arrived) \cup lost
<1> SUFFICES ASSUME NEW p \in Flushers
             PROVE  Range(scan[p].lines) \subseteq OnDisk \cup Range(arrived) \cup lost
  BY DEF InFlight
<1>1. CASE scan[p] = Idle
  BY <1>1, RangeEmpty DEF Idle
<1>2. CASE scan[p] # Idle
  BY <1>2 DEF ScanInv, Backed, OnDisk, Lines
<1> QED BY <1>1, <1>2

(* A scan that moves on holds lines of a file that is there.               *)
LEMMA InFlightNext ==
  ASSUME NEW p \in Flushers, NEW d, d = disk \/ d = disk',
         \A q \in Flushers : q # p => scan'[q] = scan[q],
         \/ scan'[p] = Idle
         \/ /\ scan'[p].file \in DOMAIN d
            /\ scan'[p].lines = d[scan'[p].file]
  PROVE  InFlight' \subseteq InFlight \cup OnDisk \cup OnDisk'
<1>1. Range(scan'[p].lines) \subseteq OnDisk \cup OnDisk'
  BY RangeEmpty DEF Idle, OnDisk, Lines
<1>2. \A q \in Flushers : q # p => Range(scan'[q].lines) \subseteq InFlight
  BY DEF InFlight
<1> QED BY <1>1, <1>2 DEF InFlight

(* A step of the queue is a step of an outbox if it accepts A, delivers D, *)
(* and what leaves memory, the batch or the disk has gone somewhere.       *)
LEMMA QueueStep ==
  ASSUME IInv, NEW A, NEW D,
         1..sent' = 1..sent \cup A,
         Range(arrived') = Range(arrived) \cup D,
         lost \subseteq lost', lost' \subseteq lost \cup Pending \cup A,
         Pending' \subseteq Pending \cup A,
         Range(memory) \cup Range(batch) \cup OnDisk \cup A
           \subseteq Pending' \cup Range(arrived') \cup lost'
  PROVE  \E L \in SUBSET (Pending \cup A) : Queue!Step(A, D, L)
<1> DEFINE L == lost' \ lost
<1>1. L \in SUBSET (Pending \cup A) /\ lost' = lost \cup L
  OBVIOUS
<1>2. InFlight \subseteq OnDisk \cup Range(arrived) \cup lost
  BY InFlightBacked DEF IInv
<1>3. Pending \cup A \subseteq Pending' \cup Range(arrived') \cup lost'
  BY <1>2 DEF Pending
<1>4. Queue!Step(A, D, L)
  BY <1>1, <1>3 DEF Queue!Step
<1> QED BY <1>1, <1>4

(* What each action is shown to do.                                        *)
Preserved == TypeOK' /\ ScanInv' /\ Conserved' /\ [Queue!Next]_(Queue!outbox)

LEMMA DeliverOrDiscard ==
  ASSUME IInv, TypeOK', ScanInv', NEW D,
         D = {} \/ (\E r \in Pending : D = {r}),
         sent' = sent,
         Range(arrived') = Range(arrived) \cup D,
         lost \subseteq lost', lost' \subseteq lost \cup Pending,
         Pending' \subseteq Pending,
         Range(memory) \cup Range(batch) \cup OnDisk
           \subseteq Pending' \cup Range(arrived') \cup lost'
  PROVE  Preserved
<1>1. PICK L \in SUBSET (Pending \cup {}) : Queue!Step({}, D, L)
  BY QueueStep
<1>2. Conserved'
  BY <1>1, AccountedStep DEF IInv
<1>3. CASE D = {}
  BY <1>1, <1>2, <1>3 DEF Queue!Next, Queue!Discard, Preserved
<1>4. CASE \E r \in Pending : D = {r}
  <2>1. /\ D \in (SUBSET Pending) \ {{}}
        /\ L \in SUBSET Pending
    BY <1>1, <1>4
  <2>2. Queue!Deliver
    BY <1>1, <2>1 DEF Queue!Deliver
  <2> QED BY <1>2, <2>2 DEF Queue!Next, Preserved
<1> QED BY <1>3, <1>4

(* Steps that touch neither the disk nor the ingest.                       *)
LEMMA SameQueue ==
  ASSUME IInv, TypeOK', UNCHANGED <<sent, queueDir, scan, ingest>>,
         Range(memory') \cup Range(batch') = Range(memory) \cup Range(batch)
  PROVE  Preserved
<1>1. ScanInv'
  BY DEF IInv, ScanInv, Backed, queueDir, ingest
<1>2. Pending' = Pending
  BY DEF Pending, OnDisk, InFlight, queueDir
<1>3. UNCHANGED Queue!outbox
  BY <1>2 DEF Queue!outbox, queueDir, ingest
<1>4. Conserved'
  BY <1>3 DEF IInv, Conserved, Queue!Accounted, Queue!outbox
<1> QED BY <1>1, <1>3, <1>4 DEF Preserved
-----------------------------------------------------------------------------
(* send() accepts one request.                                             *)
LEMMA SendStep == ASSUME IInv, Send PROVE Preserved
<1> DEFINE r == sent + 1
           q == Append(memory, r)
<1>0. TypeOK /\ ScanInv /\ Conserved
  BY DEF IInv
<1>1. /\ r \in Req /\ sent \in Nat /\ 1..sent' = 1..sent \cup {r} /\ r \notin 1..sent
      /\ sent' \in 0..MaxSends
  <2>1. MaxSends \in Nat BY TransportAssumption
  <2>2. sent \in 0..MaxSends /\ sent < MaxSends /\ sent' = sent + 1
    BY <1>0 DEF Send, TypeOK
  <2> HIDE DEF r, q
  <2>3. sent' = r /\ r = sent + 1 BY <2>2 DEF r
  <2> QED BY <2>1, <2>2, <2>3 DEF Req
<1>2. q \in Seq(Req) \ {<<>>} /\ Range(q) = Range(memory) \cup {r}
  BY <1>0, <1>1, RangeAppend DEF TypeOK
<1>3. UNCHANGED <<batch, owner, closed, scan, ingest, barrier, restarts>> /\ timer' = TRUE
  BY DEF Send
<1>4. ASSUME TypeOK', ScanInv',
             lost \subseteq lost', lost' \subseteq lost \cup Pending \cup {r},
             Range(memory') \cup OnDisk' \subseteq Pending \cup {r},
             Range(memory) \cup OnDisk \cup {r} \subseteq Range(memory') \cup OnDisk' \cup lost'
      PROVE  Preserved
  <2>1. InFlight' = InFlight /\ Range(arrived') = Range(arrived) \cup {}
    BY <1>3 DEF InFlight, ingest
  <2>2. /\ Pending' \subseteq Pending \cup {r}
        /\ Range(memory) \cup Range(batch) \cup OnDisk \cup {r}
             \subseteq Pending' \cup Range(arrived') \cup lost'
    BY <1>3, <1>4, <2>1 DEF Pending
  <2>3. PICK L \in SUBSET (Pending \cup {r}) : Queue!Step({r}, {}, L)
    BY <1>1, <1>4, <2>1, <2>2, QueueStep
  <2>4. Conserved'
    BY <1>0, <2>3, AccountedStep
  <2>5. r \in Req \ (1..sent)
    BY <1>1
  <2>6. Queue!Accept
    BY <2>3, <2>5 DEF Queue!Accept
  <2> QED BY <1>4, <2>4, <2>6 DEF Preserved, Queue!Next
<1>5. CASE memory' = q /\ NoSpill
  <2>1. TypeOK'
    BY <1>0, <1>1, <1>2, <1>3, <1>5 DEF TypeOK, NoSpill, queueDir, ingest, Flushers
  <2>2. ScanInv'
    BY <1>0, <1>3, <1>5 DEF ScanInv, Backed, NoSpill, queueDir, ingest
  <2>3. OnDisk' = OnDisk /\ lost' = lost
    BY <1>5 DEF NoSpill, queueDir, OnDisk
  <2> QED BY <1>2, <1>4, <1>5, <2>1, <2>2, <2>3 DEF Pending
<1>6. CASE memory' = <<>> /\ Spill(q)
  <2>1. /\ files' \in {files, files + 1}
        /\ DOMAIN disk' \subseteq 1..files'
        /\ \A f \in DOMAIN disk' : disk'[f] \in Seq(Req) \ {<<>>}
        /\ spilled' \subseteq Req /\ lost' \subseteq Req
        /\ lost \subseteq lost'
        /\ lost' \subseteq lost \cup Range(q) \cup OnDisk
        /\ OnDisk' \subseteq OnDisk \cup Range(q)
        /\ OnDisk \cup Range(q) \subseteq OnDisk' \cup lost'
    BY <1>0, <1>2, <1>6, SpillFacts
  <2>2. scan' \in [Flushers -> ScanType(files')]
    BY <1>0, <1>3, <2>1, ScanTypeGrows DEF TypeOK, ScanType
  <2>3. TypeOK'
    BY <1>0, <1>1, <1>3, <1>6, <2>1, <2>2 DEF TypeOK, ScanType, ingest, Flushers
  <2>4. DiskStep
    BY <1>0, <1>2, <1>3, <1>6, SpillDiskStep DEF ingest
  <2>5. ScanInv'
    BY <1>0, <1>3, <2>3, <2>4, BackedKept DEF ScanInv
  <2>6. Range(memory') = {}
    BY <1>6, RangeEmpty
  <2> QED BY <1>2, <1>4, <2>1, <2>3, <2>5, <2>6 DEF Pending
<1> QED BY <1>5, <1>6 DEF Send

(* Taking a batch moves all of memory on the wire, which was free.         *)
LEMMA TakeBatchFacts ==
  ASSUME TypeOK, NEW w, w # None, TakeBatch(w)
  PROVE  /\ memory' \in Seq(Req) /\ batch' \in Seq(Req)
         /\ owner' = w /\ batch' # <<>>
         /\ Range(memory') \cup Range(batch') = Range(memory) \cup Range(batch)
<1>1. batch = <<>> /\ memory \in Seq(Req) /\ memory # <<>> /\ batch' = memory /\ memory' = <<>>
  BY DEF TypeOK, TakeBatch, Flushing
<1> QED BY <1>1, RangeEmpty DEF TakeBatch

LEMMA TimerFireStep == ASSUME IInv, TimerFire PROVE Preserved
<1>0. TypeOK
  BY DEF IInv
<1>1. UNCHANGED <<sent, closed, queueDir, scan, ingest, barrier, restarts>> /\ timer' = FALSE
  BY DEF TimerFire
<1>2. /\ memory' \in Seq(Req) /\ batch' \in Seq(Req)
      /\ owner' \in {None, Timer} \cup Callers
      /\ owner' = None <=> batch' = <<>>
      /\ Range(memory') \cup Range(batch') = Range(memory) \cup Range(batch)
  <2>1. CASE TakeBatch(Timer)
    <3>1. Timer # None BY DEF Timer, None
    <3> QED BY <1>0, <2>1, <3>1, TakeBatchFacts
  <2>2. CASE UNCHANGED <<owner, batch, memory>>
    BY <1>0, <2>2 DEF TypeOK
  <2> QED BY <2>1, <2>2 DEF TimerFire
<1>3. TypeOK'
  BY <1>0, <1>1, <1>2 DEF TypeOK, queueDir, ingest, Flushers
<1> QED BY <1>1, <1>2, <1>3, SameQueue

(* Starting a scan copies lines that are on disk.                          *)
LEMMA StartScanStep ==
  ASSUME IInv, NEW p \in Flushers, StartScan(p, disk),
         UNCHANGED <<sent, memory, batch, owner, queueDir, ingest, restarts>>,
         timer' \in BOOLEAN, closed' \in BOOLEAN,
         barrier' \in [Callers -> [upto : 0..MaxSends, joined : BOOLEAN]]
  PROVE  Preserved
<1>0. TypeOK /\ ScanInv
  BY DEF IInv
<1>1. /\ scan' \in [Flushers -> ScanType(files)]
      /\ \A q \in Flushers : q # p => scan'[q] = scan[q]
      /\ \/ scan'[p] = Idle
         \/ /\ scan'[p].file \in DOMAIN disk
            /\ scan'[p].lines = disk[scan'[p].file]
            /\ scan'[p].lines # <<>>
  <2>1. PICK todo \in SUBSET (1..files) : ReadNext(p, todo, disk)
    <3>1. {} \subseteq 1..files /\ DOMAIN disk \subseteq 1..files BY <1>0 DEF TypeOK
    <3> QED BY <3>1 DEF StartScan
  <2>2. /\ files \in Nat /\ DOMAIN disk \subseteq 1..files
        /\ \A f \in DOMAIN disk : disk[f] \in Seq(Req) \ {<<>>}
        /\ scan \in [Flushers -> ScanType(files)]
    BY <1>0 DEF TypeOK, ScanType
  <2> HIDE DEF ReadNext
  <2> QED BY <2>1, <2>2, ReadNextFacts
<1>2. TypeOK'
  <2>1. \A q \in Flushers : scan'[q] = Idle \/ scan'[q].lines # <<>>
    BY <1>0, <1>1 DEF TypeOK
  <2> QED BY <1>0, <1>1, <2>1 DEF TypeOK, ScanType, queueDir, ingest, Flushers
<1>3. ScanInv'
  <2>1. \A q \in Flushers : q # p => Backed(scan[q])'
    BY <1>0, <1>1 DEF ScanInv, Backed, queueDir, ingest
  <2>2. Backed(scan[p])'
    BY <1>1 DEF Backed, queueDir
  <2> QED BY <2>1, <2>2 DEF ScanInv
<1>4. InFlight' \subseteq InFlight \cup OnDisk \cup OnDisk'
  BY <1>1, InFlightNext
<1>5. OnDisk' = OnDisk /\ lost' = lost /\ Range(arrived') = Range(arrived) \cup {}
  BY DEF OnDisk, queueDir, ingest
<1>6. Pending' \subseteq Pending /\ Range(memory) \cup Range(batch) \cup OnDisk \subseteq Pending'
  BY <1>4, <1>5 DEF Pending
<1> QED BY <1>2, <1>3, <1>5, <1>6, DeliverOrDiscard

LEMMA BeginFlushStep ==
  ASSUME IInv, NEW c \in Callers, BeginFlush(c),
         timer' \in BOOLEAN, closed' \in BOOLEAN
  PROVE  Preserved
<1>0. TypeOK
  BY DEF IInv
<1>1. /\ UNCHANGED <<sent, queueDir, ingest, restarts>>
      /\ barrier' \in [Callers -> [upto : 0..MaxSends, joined : BOOLEAN]]
  BY <1>0 DEF BeginFlush, TypeOK, Flushing
<1>2. CASE TakeBatch(c) /\ UNCHANGED scan
  <2>1. c # None BY TransportAssumption
  <2>2. /\ memory' \in Seq(Req) /\ batch' \in Seq(Req)
        /\ owner' = c /\ batch' # <<>>
        /\ Range(memory') \cup Range(batch') = Range(memory) \cup Range(batch)
    BY <1>0, <1>2, <2>1, TakeBatchFacts
  <2>3. TypeOK'
    BY <1>0, <1>1, <1>2, <2>1, <2>2 DEF TypeOK, queueDir, ingest, Flushers
  <2> QED BY <1>1, <1>2, <2>2, <2>3, SameQueue
<1>3. CASE StartScan(c, disk) /\ UNCHANGED <<owner, batch, memory>>
  <2>1. c \in Flushers BY DEF Flushers
  <2> QED BY <1>1, <1>3, <2>1, StartScanStep
<1> QED BY <1>2, <1>3 DEF BeginFlush

LEMMA FlushStep == ASSUME IInv, NEW c \in Callers, Flush(c) PROVE Preserved
<1>1. BeginFlush(c) /\ timer' \in BOOLEAN /\ closed' \in BOOLEAN
  BY DEF Flush, IInv, TypeOK
<1> QED BY <1>1, BeginFlushStep

LEMMA CloseStep == ASSUME IInv, NEW c \in Callers, Close(c) PROVE Preserved
<1>1. BeginFlush(c) /\ timer' \in BOOLEAN /\ closed' \in BOOLEAN
  BY DEF Close
<1> QED BY <1>1, BeginFlushStep

LEMMA TickStep == ASSUME IInv, NEW t \in Ticks, Tick(t) PROVE Preserved
<1>1. /\ StartScan(t, disk) /\ t \in Flushers
      /\ UNCHANGED <<sent, memory, batch, owner, queueDir, ingest, restarts>>
      /\ timer' \in BOOLEAN /\ closed' \in BOOLEAN
      /\ barrier' \in [Callers -> [upto : 0..MaxSends, joined : BOOLEAN]]
  BY DEF Tick, IInv, TypeOK, Flushers
<1> QED BY <1>1, StartScanStep

(* A restart gives up what memory and the batch held.                      *)
LEMMA RestartStep == ASSUME IInv, Restart PROVE Preserved
<1>0. TypeOK
  BY DEF IInv
<1>1. Range(memory) \subseteq Req /\ Range(batch) \subseteq Req
  BY <1>0, RangeType DEF TypeOK
<1>2. restarts' \in 0..MaxRestarts
  <2>1. MaxRestarts \in Nat BY TransportAssumption
  <2> QED BY <1>0, <2>1 DEF Restart, TypeOK
<1>3. scan' \in [Flushers -> ScanType(files)] /\ \A p \in Flushers : scan'[p] = Idle
  <2>1. Idle \in ScanType(files) BY <1>0 DEF Idle, ScanType, TypeOK
  <2> QED BY <2>1 DEF Restart
<1>4. barrier' \in [Callers -> [upto : 0..MaxSends, joined : BOOLEAN]]
  <2>1. MaxSends \in Nat BY TransportAssumption
  <2> QED BY <2>1 DEF Restart
<1>5. TypeOK'
  <2>1. /\ memory' \in Seq(Req) /\ batch' = <<>> /\ batch' \in Seq(Req)
        /\ owner' = None /\ timer' \in BOOLEAN /\ closed' \in BOOLEAN
        /\ UNCHANGED <<sent, disk, files, spilled, arrived, dups>>
    <3>1. <<>> \in Seq(Req) OBVIOUS
    <3>2. memory' = <<>> /\ batch' = <<>> BY DEF Restart
    <3>3. owner' = None /\ timer' = FALSE /\ closed' = FALSE BY DEF Restart
    <3>4. UNCHANGED <<sent, disk, files, spilled, arrived, dups>> BY DEF Restart, ingest
    <3> QED BY <3>1, <3>2, <3>3, <3>4
  <2>2. lost' \subseteq Req
    BY <1>0, <1>1 DEF Restart, TypeOK
  <2> QED BY <1>0, <1>2, <1>3, <1>4, <2>1, <2>2 DEF TypeOK, ScanType
<1>6. ScanInv'
  BY <1>3 DEF ScanInv, Backed, Idle
<1>7. InFlight' = {}
  BY <1>3, RangeEmpty DEF InFlight, Idle
<1>8. /\ OnDisk' = OnDisk /\ Range(arrived') = Range(arrived) \cup {}
      /\ Range(memory') = {} /\ Range(batch') = {} /\ sent' = sent
      /\ lost' = lost \cup Range(memory) \cup Range(batch)
  BY RangeEmpty DEF Restart, OnDisk, ingest
<1>9. /\ Pending' \subseteq Pending /\ lost' \subseteq lost \cup Pending
      /\ Range(memory) \cup Range(batch) \cup OnDisk \subseteq Pending' \cup lost'
  BY <1>7, <1>8 DEF Pending
<1> QED BY <1>5, <1>6, <1>8, <1>9, DeliverOrDiscard

(* The answer to a memory POST: its request is delivered, spilled or given *)
(* up, and a caller whose batch is finished may start to read files.       *)
LEMMA MemoryPostStep == ASSUME IInv, NEW o \in Outcomes, MemoryPost(o) PROVE Preserved
<1> DEFINE r == Head(batch)
           D == IF o = "fail" THEN {} ELSE {r}
<1>0. TypeOK /\ ScanInv
  BY DEF IInv
<1>1. batch \in Seq(Req) /\ batch # <<>>
  BY <1>0 DEF MemoryPost, Flushing, TypeOK
<1>2. r \in Req /\ Tail(batch) \in Seq(Req) /\ Range(batch) = {r} \cup Range(Tail(batch))
  BY <1>1, RangeHeadTail
<1>3. UNCHANGED <<sent, memory, timer, closed, barrier, restarts>> /\ batch' = Tail(batch)
  BY DEF MemoryPost
<1>4. Post(r, o)
  BY DEF MemoryPost
<1>5. /\ arrived' \in Seq(Req) /\ dups' \subseteq Req
      /\ Range(arrived) \subseteq Range(arrived')
      /\ Range(arrived') \subseteq Range(arrived) \cup {r}
      /\ o # "fail" => r \in Range(arrived')
      /\ o = "fail" => Range(arrived') = Range(arrived)
  BY <1>0, <1>2, <1>4, PostFacts DEF TypeOK
<1>6. DiskStep /\ files' \in {files, files + 1}
      /\ DOMAIN disk' \subseteq 1..files'
      /\ (\A f \in DOMAIN disk' : disk'[f] \in Seq(Req) \ {<<>>})
      /\ spilled' \subseteq Req /\ lost' \subseteq Req
      /\ lost \subseteq lost' /\ lost' \subseteq lost \cup {r} \cup OnDisk
      /\ OnDisk' \subseteq OnDisk \cup {r} /\ OnDisk \subseteq OnDisk' \cup lost'
      /\ r \in OnDisk' \cup lost' \cup Range(arrived')
  <2>1. CASE o = "ok" /\ NoSpill
    <3>1. UNCHANGED <<disk, files, spilled, lost>> BY <2>1 DEF NoSpill, queueDir
    <3>2. r \in Range(arrived') BY <1>5, <2>1
    <3>3. DiskStep BY <1>5, <3>1 DEF DiskStep
    <3>4. OnDisk' = OnDisk BY <3>1 DEF OnDisk
    <3> QED BY <1>0, <3>1, <3>2, <3>3, <3>4 DEF TypeOK
  <2>2. CASE Spill(<<r>>)
    <3>1. <<r>> \in Seq(Req) \ {<<>>} BY <1>2
    <3>2. Range(<<r>>) = {r} BY RangeOne
    <3>3. DiskStep BY <1>0, <1>5, <2>2, <3>1, SpillDiskStep
    <3>4. /\ files' \in {files, files + 1}
          /\ DOMAIN disk' \subseteq 1..files'
          /\ \A f \in DOMAIN disk' : disk'[f] \in Seq(Req) \ {<<>>}
          /\ spilled' \subseteq Req /\ lost' \subseteq Req
          /\ lost \subseteq lost'
          /\ lost' \subseteq lost \cup {r} \cup OnDisk
          /\ OnDisk' \subseteq OnDisk \cup {r}
          /\ OnDisk \cup {r} \subseteq OnDisk' \cup lost'
      BY <1>0, <2>2, <3>1, <3>2, SpillFacts
    <3> QED BY <3>3, <3>4
  <2> QED BY <2>1, <2>2 DEF MemoryPost
<1>7. files \in Nat /\ files' \in Nat /\ scan \in [Flushers -> ScanType(files')]
  <2>1. files \in Nat /\ scan \in [Flushers -> ScanType(files)] BY <1>0 DEF TypeOK, ScanType
  <2> QED BY <1>6, <2>1, ScanTypeGrows
<1>8. UNCHANGED scan \/ \E p \in Flushers : ScanMoves(p, disk')
  <2>1. CASE owner \in Callers /\ StartScan(owner, disk')
    <3>1. PICK todo \in SUBSET (1..files') : ReadNext(owner, todo, disk')
      <4>1. {} \subseteq 1..files' /\ DOMAIN disk' \subseteq 1..files' BY <1>6
      <4> QED BY <2>1, <4>1 DEF StartScan
    <3>2. owner \in Flushers BY <2>1 DEF Flushers
    <3> HIDE DEF ReadNext
    <3> QED BY <1>6, <1>7, <3>1, <3>2, ReadNextFacts DEF ScanMoves
  <2> QED BY <2>1 DEF MemoryPost
<1>9. owner' \in {None, Timer} \cup Callers /\ (owner' = None <=> batch' = <<>>)
  BY <1>0, <1>3 DEF MemoryPost, TypeOK, Flushing
<1>10. /\ scan' \in [Flushers -> ScanType(files')]
       /\ \A q \in Flushers : scan'[q] = Idle \/ scan'[q].lines # <<>>
  <2>1. CASE UNCHANGED scan BY <1>0, <1>7, <2>1 DEF TypeOK
  <2>2. CASE \E p \in Flushers : ScanMoves(p, disk') BY <1>0, <2>2 DEF TypeOK, ScanMoves
  <2> QED BY <1>8, <2>1, <2>2
<1>11. TypeOK'
  BY <1>0, <1>2, <1>3, <1>5, <1>6, <1>7, <1>9, <1>10 DEF TypeOK, ScanType, Flushers
<1>12. ScanInv'
  <2>1. \A q \in Flushers : scan'[q] = scan[q] => Backed(scan[q])'
    BY <1>0, <1>6, <1>11, BackedKept DEF ScanInv
  <2>2. \A p \in Flushers : ScanMoves(p, disk') => Backed(scan[p])'
    BY DEF ScanMoves, Backed
  <2> QED BY <1>8, <2>1, <2>2 DEF ScanInv, ScanMoves
<1>13. InFlight' \subseteq InFlight \cup OnDisk \cup OnDisk'
  <2>1. CASE UNCHANGED scan BY <2>1 DEF InFlight
  <2>2. CASE \E p \in Flushers : ScanMoves(p, disk') BY <2>2, InFlightNext DEF ScanMoves
  <2> QED BY <1>8, <2>1, <2>2
<1>14. Range(arrived') = Range(arrived) \cup (IF r \in Range(arrived') THEN {r} ELSE {})
  BY <1>5
<1>15. r \in Pending
  BY <1>2 DEF Pending
<1>16. /\ Pending' \subseteq Pending /\ lost' \subseteq lost \cup Pending
       /\ Range(memory) \cup Range(batch) \cup OnDisk
            \subseteq Pending' \cup Range(arrived') \cup lost'
  BY <1>2, <1>3, <1>6, <1>13 DEF Pending
<1> HIDE DEF r
<1> QED BY <1>3, <1>6, <1>11, <1>12, <1>14, <1>15, <1>16, DeliverOrDiscard

(* The answer to a scan's POST.  A file is unlinked only after its last    *)
(* line, when the scan has delivered all of it.                            *)
LEMMA DiskPostStep ==
  ASSUME IInv, NEW p \in Flushers, NEW o \in Outcomes, DiskPost(p, o)
  PROVE  Preserved
<1> DEFINE s == scan[p]
           r == Head(s.lines)
<1>0. TypeOK /\ ScanInv
  BY DEF IInv
<1>1. /\ s # Idle /\ s \in ScanType(files) /\ s.lines \in Seq(Req) /\ s.lines # <<>>
      /\ scan \in [Flushers -> ScanType(files)] /\ files \in Nat
  BY <1>0 DEF DiskPost, TypeOK, ScanType
<1>2. /\ r \in Req /\ Tail(s.lines) \in Seq(Req)
      /\ Range(s.lines) = {r} \cup Range(Tail(s.lines))
  BY <1>1, RangeHeadTail
<1>3. UNCHANGED <<sent, memory, batch, owner, timer, closed, files, spilled,
                  lost, barrier, restarts>>
  BY DEF DiskPost
<1>4. /\ arrived' \in Seq(Req) /\ dups' \subseteq Req
      /\ Range(arrived) \subseteq Range(arrived')
      /\ Range(arrived') \subseteq Range(arrived) \cup {r}
      /\ o # "fail" => r \in Range(arrived')
  <2>1. Post(r, o) BY DEF DiskPost
  <2> QED BY <1>0, <1>2, <2>1, PostFacts DEF TypeOK
<1>5. r \in Pending
  BY <1>2 DEF Pending, InFlight
<1>6. Range(arrived') = Range(arrived) \cup (IF r \in Range(arrived') THEN {r} ELSE {})
  BY <1>4
<1> HIDE DEF r
<1>7. ASSUME DiskStep, TypeOK', ScanInv', OnDisk' \subseteq OnDisk,
             InFlight' \subseteq InFlight \cup OnDisk
      PROVE  Preserved
  <2>1. OnDisk \subseteq OnDisk' \cup Range(arrived') \cup lost'
    <3> SUFFICES ASSUME NEW f \in DOMAIN disk
                 PROVE  Range(disk[f]) \subseteq OnDisk' \cup Range(arrived') \cup lost'
      BY DEF OnDisk, Lines
    <3> QED BY <1>7 DEF DiskStep, OnDisk, Lines
  <2>2. /\ Pending' \subseteq Pending
        /\ Range(memory) \cup Range(batch) \cup OnDisk
             \subseteq Pending' \cup Range(arrived') \cup lost'
    BY <1>3, <1>7, <2>1 DEF Pending
  <2> QED BY <1>3, <1>5, <1>6, <1>7, <2>2, DeliverOrDiscard
<1>8. ASSUME DiskStep, NEW d, d = disk \/ d = disk', ReadNext(p, s.todo, d),
             DOMAIN disk' \subseteq DOMAIN disk,
             \A f \in DOMAIN disk' : disk'[f] = disk[f],
             d = disk => disk' = disk
      PROVE  Preserved
  <2>1. /\ DOMAIN d \subseteq 1..files /\ s.todo \subseteq 1..files
        /\ \A f \in DOMAIN d : d[f] \in Seq(Req) \ {<<>>}
    BY <1>0, <1>1, <1>8 DEF TypeOK, ScanType
  <2>2. ScanMoves(p, d) /\ d = disk'
    <3> HIDE DEF ReadNext, s
    <3>1. \A n \in Nat : n = files' => files' = files BY <1>3
    <3> QED BY <1>1, <1>3, <1>8, <2>1, ReadNextFacts DEF ScanMoves
  <2>3. TypeOK'
    <3>1. \A q \in Flushers : scan'[q] = Idle \/ scan'[q].lines # <<>>
      BY <1>0, <2>2 DEF TypeOK, ScanMoves
    <3>2. DOMAIN disk' \subseteq 1..files' /\ \A f \in DOMAIN disk' : disk'[f] \in Seq(Req) \ {<<>>}
      BY <1>0, <1>3, <1>8 DEF TypeOK
    <3> QED BY <1>0, <1>3, <1>4, <2>2, <3>1, <3>2 DEF TypeOK, ScanType, ScanMoves
  <2>4. ScanInv'
    <3>1. \A q \in Flushers : q # p => Backed(scan[q])'
      BY <1>0, <1>8, <2>2, <2>3, BackedKept DEF ScanInv, ScanMoves
    <3>2. Backed(scan[p])'
      BY <2>2 DEF ScanMoves, Backed
    <3> QED BY <3>1, <3>2 DEF ScanInv
  <2>5. OnDisk' \subseteq OnDisk
    BY <1>8 DEF OnDisk, Lines
  <2>6. InFlight' \subseteq InFlight \cup OnDisk \cup OnDisk'
    BY <2>2, InFlightNext DEF ScanMoves
  <2> QED BY <1>7, <1>8, <2>3, <2>4, <2>5, <2>6
<1>9. CASE UNCHANGED disk /\ ReadNext(p, s.todo, disk)
  <2>1. DiskStep BY <1>3, <1>4, <1>9 DEF DiskStep
  <2> QED BY <1>8, <1>9, <2>1
<1>10. CASE /\ o = "ok" /\ Tail(s.lines) = <<>>
            /\ disk' = Unlink(disk, s.file)
            /\ ReadNext(p, s.todo, disk')
  <2>1. /\ DOMAIN disk' = DOMAIN disk \ {s.file}
        /\ \A f \in DOMAIN disk' : disk'[f] = disk[f]
    BY <1>10 DEF Unlink
  <2>2. Range(s.lines) \subseteq Range(arrived')
    BY <1>2, <1>4, <1>10, RangeEmpty
  <2>3. s.file \in DOMAIN disk => Range(disk[s.file]) \subseteq Range(arrived')
    BY <1>0, <1>1, <1>4, <2>2 DEF ScanInv, Backed
  <2>4. DiskStep
    BY <1>3, <1>4, <2>1, <2>3 DEF DiskStep
  <2>5. ASSUME disk' = disk PROVE disk = disk' BY <2>5
  <2>6. PICK d : d = disk' OBVIOUS
  <2> QED BY <1>8, <1>10, <2>1, <2>4, <2>6
<1>11. CASE o = "ok" /\ UNCHANGED disk /\ ReadNext(p, s.todo, disk')
  <2>1. ReadNext(p, s.todo, disk) BY <1>11
  <2> QED BY <1>9, <1>11, <2>1
<1>12. CASE /\ o = "ok" /\ Tail(s.lines) # <<>> /\ UNCHANGED disk
            /\ scan' = [scan EXCEPT ![p].lines = Tail(s.lines)]
  <2>1. DiskStep BY <1>3, <1>4, <1>12 DEF DiskStep
  <2>2. /\ scan' \in [Flushers -> ScanType(files)]
        /\ \A q \in Flushers : q # p => scan'[q] = scan[q]
        /\ scan'[p].lines = Tail(s.lines) /\ scan'[p].file = s.file
    BY <1>1, <1>2, <1>12 DEF ScanType
  <2>3. TypeOK'
    <3>1. \A q \in Flushers : scan'[q] = Idle \/ scan'[q].lines # <<>>
      BY <1>0, <1>12, <2>2 DEF TypeOK
    <3> QED BY <1>0, <1>3, <1>4, <1>12, <2>2, <3>1 DEF TypeOK, ScanType
  <2>4. ScanInv'
    <3>1. \A q \in Flushers : q # p => Backed(scan[q])'
      BY <1>0, <2>1, <2>2, <2>3, BackedKept DEF ScanInv
    <3>2. Backed(scan[p])'
      <4>1. Backed(s) BY <1>0 DEF ScanInv
      <4>2. r \in Range(arrived') BY <1>4, <1>12
      <4> HIDE DEF s
      <4>3. Range(arrived) \subseteq Range(arrived') /\ Range(s.lines) = {r} \cup Range(Tail(s.lines))
        BY <1>2, <1>4
      <4>4. disk' = disk /\ lost' = lost BY <1>3, <1>12
      <4> QED BY <1>1, <2>2, <4>1, <4>2, <4>3, <4>4 DEF Backed
    <3> QED BY <3>1, <3>2 DEF ScanInv
  <2>5. OnDisk' = OnDisk BY <1>12 DEF OnDisk
  <2>6. InFlight' \subseteq InFlight
    BY <1>2, <2>2 DEF InFlight
  <2> QED BY <1>7, <2>1, <2>3, <2>4, <2>5, <2>6
<1> QED BY <1>9, <1>10, <1>11, <1>12 DEF DiskPost
-----------------------------------------------------------------------------
LEMMA InitStep == Init => IInv /\ Queue!Init
<1> SUFFICES ASSUME Init PROVE IInv /\ Queue!Init
  OBVIOUS
<1>1. \A p \in Flushers : scan[p] = Idle
  BY DEF Init
<1>2. OnDisk = {} /\ InFlight = {}
  BY <1>1, RangeEmpty DEF Init, OnDisk, Lines, InFlight, Idle
<1>3. Pending = {} /\ Range(arrived) = {} /\ lost = {} /\ 1..sent = {}
  BY <1>2, RangeEmpty DEF Init, Pending
<1>4. Conserved /\ Queue!Init
  BY <1>3 DEF Conserved, Queue!Accounted, Queue!Init
<1>5. ScanInv
  BY <1>1 DEF ScanInv, Backed
<1>6. TypeOK
  <2>1. MaxSends \in Nat /\ MaxRestarts \in Nat
    BY TransportAssumption
  <2>2. <<>> \in Seq(Req)
    OBVIOUS
  <2>3. scan \in [Flushers -> [todo : SUBSET (1..files), file : 0..files,
                              lines : Seq(Req)]]
    BY <2>2 DEF Init, Idle
  <2>4. barrier \in [Callers -> [upto : 0..MaxSends, joined : BOOLEAN]]
    BY <2>1 DEF Init
  <2>5. DOMAIN disk = {}
    BY DEF Init
  <2>6. /\ sent \in 0..MaxSends /\ files \in Nat /\ restarts \in 0..MaxRestarts
        /\ timer \in BOOLEAN /\ closed \in BOOLEAN
        /\ dups \subseteq Req /\ spilled \subseteq Req /\ lost \subseteq Req
    <3>1. sent = 0 /\ files = 0 /\ restarts = 0 /\ timer = FALSE /\ closed = FALSE
      BY DEF Init
    <3>2. dups = {} /\ spilled = {} /\ lost = {}
      BY DEF Init
    <3>3. 0 \in 0..MaxSends /\ 0 \in 0..MaxRestarts
      BY <2>1
    <3>4. /\ sent \in 0..MaxSends /\ files \in Nat /\ restarts \in 0..MaxRestarts
          /\ timer \in BOOLEAN /\ closed \in BOOLEAN
      BY <3>1, <3>3
    <3>5. dups \subseteq Req /\ spilled \subseteq Req /\ lost \subseteq Req
      BY <3>2
    <3> QED BY <3>4, <3>5
  <2>7. memory = <<>> /\ batch = <<>> /\ arrived = <<>> /\ owner = None
    BY DEF Init
  <2> QED BY <1>1, <2>2, <2>3, <2>4, <2>5, <2>6, <2>7 DEF TypeOK
<1> QED BY <1>4, <1>5, <1>6 DEF IInv

LEMMA NextStep == IInv /\ [Next]_vars => IInv' /\ [Queue!Next]_(Queue!outbox)
<1> SUFFICES ASSUME IInv, [Next]_vars PROVE Preserved
  BY DEF Preserved, IInv
<1>1. CASE Send BY <1>1, SendStep
<1>2. CASE TimerFire BY <1>2, TimerFireStep
<1>3. ASSUME NEW c \in Callers, Flush(c) PROVE Preserved
  BY <1>3, FlushStep
<1>4. ASSUME NEW c \in Callers, Close(c) PROVE Preserved
  BY <1>4, CloseStep
<1>5. ASSUME NEW o \in Outcomes, MemoryPost(o) PROVE Preserved
  BY <1>5, MemoryPostStep
<1>6. ASSUME NEW t \in Ticks, Tick(t) PROVE Preserved
  BY <1>6, TickStep
<1>7. ASSUME NEW p \in Flushers, NEW o \in Outcomes, DiskPost(p, o) PROVE Preserved
  BY <1>7, DiskPostStep
<1>8. CASE Restart BY <1>8, RestartStep
<1>9. CASE UNCHANGED vars
  <2>1. UNCHANGED <<sent, memory, batch, owner, timer, closed, disk, files,
                    spilled, lost, scan, arrived, dups, barrier, restarts>>
    BY <1>9 DEF vars, queueDir, ingest
  <2>2. TypeOK'
    BY <2>1 DEF IInv, TypeOK
  <2>3. UNCHANGED Pending
    BY <2>1 DEF Pending, OnDisk, InFlight
  <2>4. Conserved' /\ UNCHANGED Queue!outbox
    BY <2>1, <2>3 DEF IInv, Conserved, Queue!Accounted, Queue!outbox
  <2>5. ScanInv'
    BY <2>1 DEF IInv, ScanInv, Backed
  <2> QED BY <2>2, <2>4, <2>5 DEF Preserved
<1> QED BY <1>1, <1>2, <1>3, <1>4, <1>5, <1>6, <1>7, <1>8, <1>9 DEF Next

(* The inductive invariant: the variables keep their types, a scan may     *)
(* rely on what it read although other scans, flush() calls and pruning    *)
(* change the directory under it, and every request is accounted for.      *)
THEOREM Inductive == Spec => []IInv
BY InitStep, NextStep, PTL DEF Spec

(* Every state of the transport is well typed; in particular `flushing` is *)
(* set exactly while a batch is under way, and a scan always holds a line. *)
THEOREM TypeCorrect == Spec => []TypeOK
<1>1. IInv => TypeOK BY DEF IInv
<1> QED BY <1>1, Inductive, PTL

(* The transport, with its timer, its interval, its files, its concurrent  *)
(* flush() and close() calls and its restarts, implements an at-least-once *)
(* outbox: every step of it accepts, delivers or gives up requests, and    *)
(* what stops being queued has been delivered or given up.                 *)
THEOREM Refinement == Spec => ImplementsOutbox
BY InitStep, NextStep, Inductive, PTL DEF Spec, ImplementsOutbox, Queue!Spec

(***************************************************************************)
(* The order in which Transport delivers, and what a flush() that returns  *)
(* has done, from an invariant on the line that the batch in flight and    *)
(* the memory queue form.                                                  *)
(***************************************************************************)
Increasing(s) == \A i, j \in DOMAIN s : i < j => s[i] < s[j]
Below(S, T)   == \A x \in S, y \in T : x < y

(* The requests of the batch come before those of memory, and what reached *)
(* the ingest without touching the disk before both.                       *)
InLine ==
  /\ Increasing(batch) /\ Increasing(memory)
  /\ Below(Range(batch), Range(memory))
  /\ Below(Range(arrived) \ spilled, Range(batch) \cup Range(memory))

(* What is read from files was written to files.                           *)
FromDisk == OnDisk \cup InFlight \subseteq spilled

(* What was sent before a flush() that found no other one has left memory, *)
(* and is on the wire only in its own batch.                               *)
Taken ==
  \A c \in Callers :
    /\ barrier[c].upto \in 0..sent
    /\ ~barrier[c].joined =>
         \A r \in 1..barrier[c].upto :
           r \notin Range(memory) /\ (r \in Range(batch) => owner = c)

OrderInv == InLine /\ FromDisk /\ Taken /\ RepeatsWereSpilled /\ UnspilledInOrder
-----------------------------------------------------------------------------
LEMMA IncreasingEmpty == Increasing(<<>>)
BY DEF Increasing

LEMMA IncreasingAppend ==
  ASSUME NEW S, S \subseteq Nat, NEW s \in Seq(S), NEW x \in S, Increasing(s), Below(Range(s), {x})
  PROVE  Increasing(Append(s, x))
<1> DEFINE t == Append(s, x)
           n == Len(s)
<1>1. /\ n \in Nat /\ DOMAIN t = 1..(n + 1) /\ DOMAIN s = 1..n
      /\ \A i \in 1..n : t[i] = s[i]
      /\ t[n + 1] = x
  OBVIOUS
<1> HIDE DEF t
<1> SUFFICES ASSUME NEW i \in 1..(n + 1), NEW j \in 1..(n + 1), i < j PROVE t[i] < t[j]
  BY <1>1 DEF Increasing, t
<1>2. i \in 1..n
  BY <1>1
<1>3. CASE j \in 1..n
  BY <1>1, <1>2, <1>3 DEF Increasing
<1>4. CASE j = n + 1
  BY <1>1, <1>2, <1>4 DEF Below, Range
<1> QED BY <1>1, <1>3, <1>4

LEMMA IncreasingTail ==
  ASSUME NEW S, S \subseteq Nat, NEW s \in Seq(S), s # <<>>, Increasing(s)
  PROVE  Increasing(Tail(s)) /\ Below({Head(s)}, Range(Tail(s)))
<1> DEFINE n == Len(s)
           t == Tail(s)
<1>1. /\ n \in Nat \ {0} /\ DOMAIN s = 1..n /\ Head(s) = s[1] /\ DOMAIN t = 1..(n - 1)
      /\ \A i \in 1..(n - 1) : t[i] = s[i + 1]
  OBVIOUS
<1> HIDE DEF t
<1>2. \A i \in 1..(n - 1) : i + 1 \in 1..n /\ 1 \in 1..n /\ 1 < i + 1
  BY <1>1
<1>3. Increasing(t)
  <2> SUFFICES ASSUME NEW i \in 1..(n - 1), NEW j \in 1..(n - 1), i < j PROVE t[i] < t[j]
    BY <1>1 DEF Increasing
  <2>1. i + 1 < j + 1 BY <1>1
  <2> QED BY <1>1, <1>2, <2>1 DEF Increasing
<1>4. Below({Head(s)}, Range(t))
  <2> SUFFICES ASSUME NEW i \in 1..(n - 1) PROVE s[1] < t[i]
    BY <1>1 DEF Below, Range
  <2> QED BY <1>1, <1>2 DEF Increasing
<1> QED BY <1>3, <1>4 DEF t

(* A spill only writes what it adds to `spilled`.                          *)
LEMMA SpillWritten ==
  ASSUME TypeOK, FromDisk, NEW q, Spill(q)
  PROVE  spilled \subseteq spilled' /\ OnDisk' \subseteq spilled'
<1>1. PICK F \in Pruned(disk) :
        \/ /\ disk' = [f \in F \cup {files + 1} |-> IF f = files + 1 THEN q ELSE disk[f]]
           /\ spilled' = spilled \cup Range(q)
        \/ /\ disk' = [f \in F |-> disk[f]]
           /\ UNCHANGED spilled
  BY DEF Spill
<1>2. \A f \in F : Range(disk[f]) \subseteq spilled
  BY DEF Pruned, Kept, FromDisk, OnDisk, Lines
<1>3. CASE /\ disk' = [f \in F \cup {files + 1} |-> IF f = files + 1 THEN q ELSE disk[f]]
           /\ spilled' = spilled \cup Range(q)
  <2>1. \A f \in DOMAIN disk' : Range(disk'[f]) \subseteq spilled'
    BY <1>2, <1>3
  <2> QED BY <1>3, <2>1 DEF OnDisk, Lines
<1>4. CASE disk' = [f \in F |-> disk[f]] /\ UNCHANGED spilled
  <2>1. \A f \in DOMAIN disk' : Range(disk'[f]) \subseteq spilled'
    BY <1>2, <1>4
  <2> QED BY <1>4, <2>1 DEF OnDisk, Lines
<1> QED BY <1>1, <1>3, <1>4

(* A scan that moves on reads what a file holds.                           *)
LEMMA ReadFromDisk ==
  ASSUME TypeOK, FromDisk, NEW p \in Flushers, NEW todo, NEW d, ReadNext(p, todo, d),
         d = disk \/ d = disk', OnDisk' \subseteq spilled', spilled \subseteq spilled'
  PROVE  FromDisk'
<1>1. PICK s : /\ scan' = [scan EXCEPT ![p] = s]
               /\ s = Idle \/ \E f \in DOMAIN d : s.lines = d[f]
  BY DEF ReadNext
<1>2. Range(s.lines) \subseteq OnDisk \cup OnDisk'
  BY <1>1, RangeEmpty DEF Idle, OnDisk, Lines
<1>3. \A q \in Flushers : scan'[q] = IF q = p THEN s ELSE scan[q]
  BY <1>1 DEF TypeOK
<1>4. \A q \in Flushers : Range(scan'[q].lines) \subseteq spilled'
  BY <1>2, <1>3 DEF FromDisk, InFlight
<1> QED BY <1>4 DEF FromDisk, InFlight

(* A POST of a request that was spilled, or that is behind what arrived    *)
(* unspilled, keeps the order at the ingest and repeats nothing unspilled. *)
LEMMA PostInOrder ==
  ASSUME TypeOK, RepeatsWereSpilled, UnspilledInOrder, NEW r \in Req, NEW o, Post(r, o),
         spilled \subseteq spilled', r \in spilled \/ Below(Range(arrived) \ spilled, {r})
  PROVE  /\ RepeatsWereSpilled' /\ UnspilledInOrder'
         /\ Range(arrived') \subseteq Range(arrived) \cup {r}
<1>0. r \in Nat /\ arrived \in Seq(Req)
  BY DEF Req, TypeOK
<1>1. r \in Range(arrived) => r \in spilled
  BY <1>0 DEF Below
<1>2. CASE UNCHANGED arrived
  <2>1. dups' \subseteq dups \cup (Range(arrived) \cap {r})
    BY <1>2 DEF Post, ingest
  <2> QED BY <1>1, <1>2, <2>1 DEF RepeatsWereSpilled, UnspilledInOrder
<1>3. CASE arrived' = Append(arrived, r) /\ UNCHANGED dups
  <2> DEFINE n == Len(arrived)
  <2>1. /\ n \in Nat /\ Len(arrived') = n + 1 /\ arrived'[n + 1] = r
        /\ \A i \in 1..n : arrived'[i] = arrived[i] /\ arrived[i] \in Range(arrived)
    BY <1>0, <1>3 DEF Range
  <2>2. Range(arrived') = Range(arrived) \cup {r}
    BY <1>0, <1>3, RangeAppend
  <2> HIDE DEF n
  <2>3. ASSUME NEW i \in 1..(n + 1), NEW j \in 1..(n + 1), i < j,
               {arrived'[i], arrived'[j]} \cap spilled' = {}
        PROVE  arrived'[i] < arrived'[j]
    <3>1. i \in 1..n /\ arrived'[i] = arrived[i] /\ arrived[i] \in Range(arrived) \ spilled
      BY <2>1, <2>3
    <3>2. CASE j \in 1..n
      BY <2>1, <2>3, <3>1, <3>2 DEF UnspilledInOrder, n
    <3>3. CASE j = n + 1
      <4>1. r \notin spilled BY <2>1, <2>3, <3>3
      <4> QED BY <2>1, <3>1, <3>3, <4>1 DEF Below
    <3> QED BY <2>1, <3>2, <3>3
  <2>4. UnspilledInOrder'
    BY <2>1, <2>3 DEF UnspilledInOrder
  <2> QED BY <1>3, <2>2, <2>4 DEF RepeatsWereSpilled
<1> QED BY <1>2, <1>3 DEF Post, ingest
-----------------------------------------------------------------------------
(* What is in the queue was sent, and numbers are compared as such.        *)
LEMMA Sent ==
  ASSUME IInv
  PROVE  /\ sent \in Nat /\ Req \subseteq Nat
         /\ Range(memory) \cup Range(batch) \cup Range(arrived) \subseteq 1..sent
         /\ memory \in Seq(Req) /\ batch \in Seq(Req)
<1>1. MaxSends \in Nat BY TransportAssumption
<1>2. Req \subseteq Nat BY DEF Req
<1>3. memory \in Seq(Req) /\ batch \in Seq(Req) /\ sent \in Nat
  BY <1>1 DEF IInv, TypeOK
<1> QED BY <1>2, <1>3 DEF IInv, Conserved, Queue!Accounted, Pending

LEMMA SendOrder == ASSUME IInv, OrderInv, Send PROVE OrderInv'
<1> DEFINE r == sent + 1
           q == Append(memory, r)
<1>0. TypeOK /\ InLine /\ FromDisk /\ Taken /\ RepeatsWereSpilled /\ UnspilledInOrder
  BY DEF IInv, OrderInv
<1>1. UNCHANGED <<batch, owner, scan, arrived, dups, barrier>>
  BY DEF Send, ingest
<1>2. r \in Req /\ r \in Nat /\ Below(1..sent, {r}) /\ sent' = r
  <2>1. sent \in 0..MaxSends /\ sent < MaxSends /\ sent' = sent + 1 /\ MaxSends \in Nat
    BY <1>0, TransportAssumption DEF Send, TypeOK
  <2> QED BY <2>1 DEF Req, Below
<1>3. Range(q) = Range(memory) \cup {r}
  BY <1>2, Sent, RangeAppend
<1>4. Increasing(q)
  <2>1. Below(Range(memory), {r}) BY <1>2, Sent DEF Below
  <2> QED BY <1>0, <1>2, <2>1, Sent, IncreasingAppend DEF InLine
<1>5. \A c \in Callers : barrier'[c].upto \in 0..sent' /\ r \notin 1..barrier[c].upto
  BY <1>0, <1>1, <1>2, Sent DEF Taken
<1>6. \/ memory' = q /\ UNCHANGED <<disk, spilled>>
      \/ memory' = <<>> /\ Spill(q)
  BY DEF Send, NoSpill, queueDir
<1> HIDE DEF r, q
<1>7. spilled \subseteq spilled' /\ OnDisk' \subseteq spilled'
  <2>1. CASE UNCHANGED <<disk, spilled>>
    BY <1>0, <2>1 DEF FromDisk, OnDisk
  <2> QED BY <1>0, <1>6, <2>1, SpillWritten
<1>8. FromDisk'
  BY <1>0, <1>1, <1>7 DEF FromDisk, InFlight
<1>9. RepeatsWereSpilled' /\ UnspilledInOrder'
  BY <1>0, <1>1, <1>7 DEF RepeatsWereSpilled, UnspilledInOrder
<1>10. Range(memory') \subseteq Range(memory) \cup {r} /\ Increasing(memory')
  BY <1>3, <1>4, <1>6, RangeEmpty, IncreasingEmpty
<1>11. InLine'
  <2>1. Below(Range(batch), {r}) /\ Below(Range(arrived), {r})
    BY <1>2, Sent DEF Below
  <2>2. Range(batch') = Range(batch) /\ Range(arrived') \ spilled' \subseteq Range(arrived) \ spilled
    BY <1>1, <1>7
  <2>3. Below(Range(batch'), Range(memory'))
    BY <1>0, <1>10, <2>1, <2>2 DEF InLine, Below
  <2>4. Below(Range(arrived') \ spilled', Range(batch') \cup Range(memory'))
    BY <1>0, <1>10, <2>1, <2>2 DEF InLine, Below
  <2> QED BY <1>0, <1>1, <1>10, <2>3, <2>4 DEF InLine
<1>12. Taken'
  BY <1>0, <1>1, <1>5, <1>10 DEF Taken
<1> QED BY <1>8, <1>9, <1>11, <1>12 DEF OrderInv

(* Taking the batch, or finding nothing to take, moves the line up.        *)
LEMMA TakeOrder ==
  ASSUME IInv, OrderInv, NEW w,
         \/ TakeBatch(w)
         \/ (Flushing \/ memory = <<>>) /\ UNCHANGED <<owner, batch, memory>>,
         UNCHANGED <<arrived, dups, spilled>>
  PROVE  /\ InLine' /\ RepeatsWereSpilled' /\ UnspilledInOrder'
         /\ \A r : r \in Range(memory') => r \in Range(memory)
         /\ ~Flushing => memory' = <<>> /\ (batch' # <<>> => owner' = w)
         /\ \A r \in Range(batch') : r \in Range(memory) \/ (r \in Range(batch) /\ owner' = owner)
<1>0. TypeOK /\ InLine /\ RepeatsWereSpilled /\ UnspilledInOrder
  BY DEF IInv, OrderInv
<1>1. RepeatsWereSpilled' /\ UnspilledInOrder'
  BY <1>0 DEF RepeatsWereSpilled, UnspilledInOrder
<1>2. CASE TakeBatch(w)
  <2>1. /\ ~Flushing /\ batch = <<>> /\ batch' = memory /\ memory' = <<>> /\ owner' = w
    BY <1>0, <1>2 DEF TakeBatch, Flushing, TypeOK
  <2>2. Range(memory') = {} /\ Range(batch) = {} /\ Increasing(memory')
    BY <2>1, RangeEmpty, IncreasingEmpty
  <2>3. InLine'
    BY <1>0, <2>1, <2>2 DEF InLine, Below
  <2> QED BY <1>1, <2>1, <2>2, <2>3
<1>3. CASE (Flushing \/ memory = <<>>) /\ UNCHANGED <<owner, batch, memory>>
  <2>1. InLine' BY <1>0, <1>3 DEF InLine
  <2>2. ~Flushing => batch' = <<>> BY <1>0, <1>3 DEF Flushing, TypeOK
  <2> QED BY <1>1, <1>3, <2>1, <2>2
<1> QED BY <1>2, <1>3

LEMMA TimerFireOrder == ASSUME IInv, OrderInv, TimerFire PROVE OrderInv'
<1>0. TypeOK /\ FromDisk /\ Taken
  BY DEF IInv, OrderInv
<1>1. /\ \/ TakeBatch(Timer)
         \/ (Flushing \/ memory = <<>>) /\ UNCHANGED <<owner, batch, memory>>
      /\ UNCHANGED <<sent, disk, spilled, scan, arrived, dups, barrier>>
  BY DEF TimerFire, queueDir, ingest
<1>2. /\ InLine' /\ RepeatsWereSpilled' /\ UnspilledInOrder'
      /\ \A r : r \in Range(memory') => r \in Range(memory)
      /\ \A r \in Range(batch') : r \in Range(memory) \/ (r \in Range(batch) /\ owner' = owner)
  BY <1>1, TakeOrder
<1>3. Taken'
  BY <1>0, <1>1, <1>2 DEF Taken
<1>4. FromDisk'
  BY <1>0, <1>1 DEF FromDisk, OnDisk, InFlight
<1> QED BY <1>2, <1>3, <1>4 DEF OrderInv

LEMMA BeginFlushOrder ==
  ASSUME IInv, OrderInv, NEW c \in Callers, BeginFlush(c) PROVE OrderInv'
<1>0. TypeOK /\ FromDisk /\ Taken /\ c \in Flushers
  BY DEF IInv, OrderInv, Flushers
<1>1. /\ \/ TakeBatch(c) /\ UNCHANGED scan
         \/ /\ Flushing \/ memory = <<>>
            /\ StartScan(c, disk)
            /\ UNCHANGED <<owner, batch, memory>>
      /\ barrier' = [barrier EXCEPT ![c] = [upto |-> sent, joined |-> Flushing]]
      /\ UNCHANGED <<sent, disk, spilled, arrived, dups>>
  BY DEF BeginFlush, queueDir, ingest
<1>2. /\ InLine' /\ RepeatsWereSpilled' /\ UnspilledInOrder'
      /\ \A r : r \in Range(memory') => r \in Range(memory)
      /\ ~Flushing => memory' = <<>> /\ (batch' # <<>> => owner' = c)
      /\ \A r \in Range(batch') : r \in Range(memory) \/ (r \in Range(batch) /\ owner' = owner)
  BY <1>1, TakeOrder
<1>3. Taken'
  <2>1. \A d \in Callers : barrier'[d] = IF d = c THEN [upto |-> sent, joined |-> Flushing]
                                         ELSE barrier[d]
    BY <1>0, <1>1 DEF TypeOK
  <2> SUFFICES ASSUME NEW d \in Callers
               PROVE  /\ barrier'[d].upto \in 0..sent'
                      /\ ~barrier'[d].joined =>
                           \A r \in 1..barrier'[d].upto :
                             r \notin Range(memory') /\ (r \in Range(batch') => owner' = d)
    BY DEF Taken
  <2>2. CASE d # c
    BY <1>0, <1>1, <1>2, <2>1, <2>2 DEF Taken
  <2>3. CASE d = c
    <3>1. barrier'[d].upto = sent /\ barrier'[d].joined = Flushing
      BY <2>1, <2>3
    <3>2. ~Flushing => Range(memory') = {} /\ \A r \in Range(batch') : owner' = c
      <4>1. \A r \in Range(batch') : batch' # <<>> BY RangeEmpty
      <4> QED BY <1>2, <4>1, RangeEmpty
    <3>3. sent \in 0..sent' BY <1>1, Sent
    <3> QED BY <2>3, <3>1, <3>2, <3>3
  <2> QED BY <2>2, <2>3
<1>4. FromDisk'
  <2>1. OnDisk' = OnDisk /\ OnDisk' \subseteq spilled' /\ spilled \subseteq spilled'
    BY <1>0, <1>1 DEF FromDisk, OnDisk
  <2>2. CASE UNCHANGED scan
    BY <1>0, <1>1, <2>1, <2>2 DEF FromDisk, InFlight
  <2>3. CASE StartScan(c, disk)
    BY <1>0, <2>1, <2>3, ReadFromDisk DEF StartScan
  <2> QED BY <1>1, <2>2, <2>3
<1> QED BY <1>2, <1>3, <1>4 DEF OrderInv

LEMMA TickOrder == ASSUME IInv, OrderInv, NEW t \in Ticks, Tick(t) PROVE OrderInv'
<1>0. TypeOK /\ FromDisk /\ Taken /\ InLine /\ RepeatsWereSpilled /\ UnspilledInOrder
      /\ t \in Flushers
  BY DEF IInv, OrderInv, Flushers
<1>1. /\ StartScan(t, disk)
      /\ UNCHANGED <<sent, memory, batch, owner, disk, spilled, arrived, dups, barrier>>
  BY DEF Tick, queueDir, ingest
<1>2. FromDisk'
  <2>1. OnDisk' \subseteq spilled' /\ spilled \subseteq spilled'
    BY <1>0, <1>1 DEF FromDisk, OnDisk
  <2> QED BY <1>0, <1>1, <2>1, ReadFromDisk DEF StartScan
<1>3. InLine' /\ Taken'
  BY <1>0, <1>1 DEF InLine, Taken
<1>4. RepeatsWereSpilled' /\ UnspilledInOrder'
  BY <1>0, <1>1 DEF RepeatsWereSpilled, UnspilledInOrder
<1> QED BY <1>2, <1>3, <1>4 DEF OrderInv
-----------------------------------------------------------------------------
LEMMA MemoryPostOrder ==
  ASSUME IInv, OrderInv, NEW o \in Outcomes, MemoryPost(o) PROVE OrderInv'
<1> DEFINE r == Head(batch)
           rest == Tail(batch)
<1>0. TypeOK /\ FromDisk /\ Taken /\ InLine /\ RepeatsWereSpilled /\ UnspilledInOrder
  BY DEF IInv, OrderInv
<1>1. batch \in Seq(Req) /\ batch # <<>>
  BY <1>0 DEF MemoryPost, Flushing, TypeOK
<1>2. r \in Req /\ rest \in Seq(Req) /\ Range(batch) = {r} \cup Range(rest)
  BY <1>1, RangeHeadTail
<1>3. Increasing(rest) /\ Below({r}, Range(rest))
  BY <1>0, <1>1, Sent, IncreasingTail DEF InLine
<1>4. /\ Post(r, o) /\ batch' = rest /\ UNCHANGED <<sent, memory, barrier>>
      /\ \/ UNCHANGED <<disk, spilled>>
         \/ Spill(<<r>>)
      /\ \/ rest # <<>> /\ UNCHANGED <<owner, scan>>
         \/ /\ rest = <<>>
            /\ IF owner \in Callers THEN StartScan(owner, disk') ELSE UNCHANGED scan
  BY DEF MemoryPost, NoSpill, queueDir
<1> HIDE DEF r, rest
<1>5. spilled \subseteq spilled' /\ OnDisk' \subseteq spilled'
  <2>1. CASE UNCHANGED <<disk, spilled>>
    BY <1>0, <2>1 DEF FromDisk, OnDisk
  <2> QED BY <1>0, <1>4, <2>1, SpillWritten
<1>6. FromDisk'
  <2>1. CASE UNCHANGED scan
    BY <1>0, <1>5, <2>1 DEF FromDisk, InFlight
  <2>2. CASE owner \in Callers /\ StartScan(owner, disk')
    <3>1. owner \in Flushers BY <2>2 DEF Flushers
    <3> QED BY <1>0, <1>5, <2>2, <3>1, ReadFromDisk DEF StartScan
  <2> QED BY <1>4, <2>1, <2>2
<1>7. /\ RepeatsWereSpilled' /\ UnspilledInOrder'
      /\ Range(arrived') \subseteq Range(arrived) \cup {r}
  <2>1. Below(Range(arrived) \ spilled, {r})
    BY <1>0, <1>2 DEF InLine, Below
  <2> QED BY <1>0, <1>2, <1>4, <1>5, <2>1, PostInOrder
<1>8. InLine'
  <2>1. Below({r}, Range(rest) \cup Range(memory)) /\ Below(Range(rest), Range(memory))
    BY <1>0, <1>2, <1>3 DEF InLine, Below
  <2>2. Below(Range(arrived') \ spilled', Range(rest) \cup Range(memory))
    BY <1>0, <1>2, <1>5, <1>7, <2>1 DEF InLine, Below
  <2> QED BY <1>0, <1>3, <1>4, <2>1, <2>2 DEF InLine
<1>9. Taken'
  <2>1. CASE rest # <<>> /\ UNCHANGED owner
    BY <1>0, <1>2, <1>4, <2>1 DEF Taken
  <2>2. CASE rest = <<>>
    <3>1. Range(batch') = {} BY <1>4, <2>2, RangeEmpty
    <3> QED BY <1>0, <1>4, <3>1 DEF Taken
  <2> QED BY <1>4, <2>1, <2>2
<1> QED BY <1>6, <1>7, <1>8, <1>9 DEF OrderInv

LEMMA DiskPostOrder ==
  ASSUME IInv, OrderInv, NEW p \in Flushers, NEW o \in Outcomes, DiskPost(p, o)
  PROVE  OrderInv'
<1> DEFINE s == scan[p]
           r == Head(s.lines)
<1>0. TypeOK /\ FromDisk /\ Taken /\ InLine /\ RepeatsWereSpilled /\ UnspilledInOrder
  BY DEF IInv, OrderInv
<1>1. s.lines \in Seq(Req) /\ s.lines # <<>>
  BY <1>0 DEF DiskPost, TypeOK
<1>2. r \in Req /\ Range(s.lines) = {r} \cup Range(Tail(s.lines))
  BY <1>1, RangeHeadTail
<1>3. Range(s.lines) \subseteq spilled
  BY <1>0 DEF FromDisk, InFlight
<1>4. /\ Post(r, o)
      /\ UNCHANGED <<sent, memory, batch, owner, spilled, barrier>>
      /\ \/ scan' = [scan EXCEPT ![p].lines = Tail(s.lines)] /\ UNCHANGED disk
         \/ /\ disk' = Unlink(disk, s.file) \/ UNCHANGED disk
            /\ ReadNext(p, s.todo, disk')
         \/ UNCHANGED disk /\ ReadNext(p, s.todo, disk)
  BY DEF DiskPost
<1>5. OnDisk' \subseteq spilled'
  <2>1. CASE UNCHANGED disk
    BY <1>0, <1>4, <2>1 DEF FromDisk, OnDisk
  <2>2. CASE disk' = Unlink(disk, s.file)
    <3>1. \A f \in DOMAIN disk' : f \in DOMAIN disk /\ disk'[f] = disk[f]
      BY <2>2 DEF Unlink
    <3> QED BY <1>0, <1>4, <3>1 DEF FromDisk, OnDisk, Lines
  <2> QED BY <1>4, <2>1, <2>2
<1>6. FromDisk'
  <2>1. CASE scan' = [scan EXCEPT ![p].lines = Tail(s.lines)]
    <3>1. \A q \in Flushers : scan'[q] = IF q = p THEN [s EXCEPT !.lines = Tail(s.lines)] ELSE scan[q]
      BY <1>0, <2>1 DEF TypeOK
    <3>2. s \in [todo : SUBSET (1..files), file : 0..files, lines : Seq(Req)]
      BY <1>0 DEF TypeOK
    <3> HIDE DEF s
    <3>3. [s EXCEPT !.lines = Tail(s.lines)].lines = Tail(s.lines)
      BY <3>2
    <3>4. \A q \in Flushers : Range(scan'[q].lines) \subseteq spilled'
      BY <1>0, <1>2, <1>3, <1>4, <3>1, <3>3 DEF FromDisk, InFlight
    <3> QED BY <1>5, <3>4 DEF FromDisk, InFlight
  <2>2. ASSUME NEW d, d = disk \/ d = disk', ReadNext(p, s.todo, d) PROVE FromDisk'
    BY <1>0, <1>4, <1>5, <2>2, ReadFromDisk
  <2> QED BY <1>4, <2>1, <2>2
<1>7. /\ RepeatsWereSpilled' /\ UnspilledInOrder'
      /\ Range(arrived') \subseteq Range(arrived) \cup {r}
  BY <1>0, <1>2, <1>3, <1>4, PostInOrder
<1>8. InLine'
  <2>1. Range(arrived') \ spilled' \subseteq Range(arrived) \ spilled
    BY <1>2, <1>3, <1>4, <1>7
  <2> QED BY <1>0, <1>4, <2>1 DEF InLine, Below
<1>9. Taken'
  BY <1>0, <1>4 DEF Taken
<1> QED BY <1>6, <1>7, <1>8, <1>9 DEF OrderInv

LEMMA RestartOrder == ASSUME IInv, OrderInv, Restart PROVE OrderInv'
<1>0. FromDisk /\ RepeatsWereSpilled /\ UnspilledInOrder /\ sent \in Nat
  BY Sent DEF OrderInv
<1>1. /\ memory' = <<>> /\ batch' = <<>>
      /\ scan' = [p \in Flushers |-> Idle]
      /\ barrier' = [c \in Callers |-> [upto |-> 0, joined |-> FALSE]]
      /\ UNCHANGED <<sent, disk, spilled, arrived, dups>>
  BY DEF Restart, ingest
<1>2. Range(memory') = {} /\ Range(batch') = {} /\ Increasing(memory') /\ Increasing(batch')
  BY <1>1, RangeEmpty, IncreasingEmpty
<1>3. InLine'
  BY <1>2 DEF InLine, Below
<1>4. Taken'
  BY <1>0, <1>1, <1>2 DEF Taken
<1>5. FromDisk'
  <2>1. \A p \in Flushers : Range(scan'[p].lines) = {} BY <1>1, RangeEmpty DEF Idle
  <2> QED BY <1>0, <1>1, <2>1 DEF FromDisk, OnDisk, InFlight
<1>6. RepeatsWereSpilled' /\ UnspilledInOrder'
  BY <1>0, <1>1 DEF RepeatsWereSpilled, UnspilledInOrder
<1> QED BY <1>3, <1>4, <1>5, <1>6 DEF OrderInv
-----------------------------------------------------------------------------
LEMMA InitOrder == Init => OrderInv
<1> SUFFICES ASSUME Init PROVE OrderInv
  OBVIOUS
<1>1. /\ Range(memory) = {} /\ Range(batch) = {} /\ Range(arrived) = {}
      /\ Increasing(memory) /\ Increasing(batch)
  BY RangeEmpty, IncreasingEmpty DEF Init
<1>2. InLine /\ Taken
  BY <1>1 DEF Init, InLine, Below, Taken
<1>3. FromDisk
  <2>1. \A p \in Flushers : Range(scan[p].lines) = {} BY RangeEmpty DEF Init, Idle
  <2> QED BY <2>1 DEF Init, FromDisk, OnDisk, Lines, InFlight
<1>4. RepeatsWereSpilled /\ UnspilledInOrder
  BY DEF Init, RepeatsWereSpilled, UnspilledInOrder
<1> QED BY <1>2, <1>3, <1>4 DEF OrderInv

LEMMA NextOrder == IInv /\ OrderInv /\ [Next]_vars => OrderInv'
<1> SUFFICES ASSUME IInv, OrderInv, [Next]_vars PROVE OrderInv'
  OBVIOUS
<1>1. CASE Send BY <1>1, SendOrder
<1>2. CASE TimerFire BY <1>2, TimerFireOrder
<1>3. ASSUME NEW c \in Callers, Flush(c) \/ Close(c) PROVE OrderInv'
  BY <1>3, BeginFlushOrder DEF Flush, Close
<1>4. ASSUME NEW o \in Outcomes, MemoryPost(o) PROVE OrderInv'
  BY <1>4, MemoryPostOrder
<1>5. ASSUME NEW t \in Ticks, Tick(t) PROVE OrderInv'
  BY <1>5, TickOrder
<1>6. ASSUME NEW p \in Flushers, NEW o \in Outcomes, DiskPost(p, o) PROVE OrderInv'
  BY <1>6, DiskPostOrder
<1>7. CASE Restart BY <1>7, RestartOrder
<1>8. CASE UNCHANGED vars
  <2>1. UNCHANGED <<sent, memory, batch, owner, disk, spilled, scan, arrived, dups, barrier>>
    BY <1>8 DEF vars, queueDir, ingest
  <2>2. InLine' /\ Taken'
    BY <2>1 DEF OrderInv, InLine, Taken
  <2>3. FromDisk'
    BY <2>1 DEF OrderInv, FromDisk, OnDisk, InFlight
  <2>4. RepeatsWereSpilled' /\ UnspilledInOrder'
    BY <2>1 DEF OrderInv, RepeatsWereSpilled, UnspilledInOrder
  <2> QED BY <2>2, <2>3, <2>4 DEF OrderInv
<1> QED BY <1>1, <1>2, <1>3, <1>4, <1>5, <1>6, <1>7, <1>8 DEF Next

(* The invariant of the line: the batch before memory, what arrived        *)
(* unspilled before both, and nothing read back that was not written.      *)
THEOREM OrderInductive == Spec => []OrderInv
BY InitOrder, NextOrder, Inductive, PTL DEF Spec

(* Requests that never touched the disk reach the ingest in the order of   *)
(* their send(), whatever flushes, timers, scans and restarts overlap.     *)
THEOREM ArrivesInOrder == Spec => []UnspilledInOrder
<1>1. OrderInv => UnspilledInOrder BY DEF OrderInv
<1> QED BY <1>1, OrderInductive, PTL

(* A request that reached the ingest twice had been written to a file.     *)
THEOREM OnlyDiskRepeats == Spec => []RepeatsWereSpilled
<1>1. OrderInv => RepeatsWereSpilled BY DEF OrderInv
<1> QED BY <1>1, OrderInductive, PTL

(* A flush() that met no other one returns only when what was sent before  *)
(* it has left memory and the wire.                                        *)
THEOREM LoneFlushDrains == Spec => []FlushAloneDrains
<1>1. OrderInv => FlushAloneDrains
  BY DEF OrderInv, Taken, FlushAloneDrains, Busy
<1> QED BY <1>1, OrderInductive, PTL
=============================================================================
