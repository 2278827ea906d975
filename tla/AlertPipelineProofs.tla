------------------------- MODULE AlertPipelineProofs -------------------------
(***************************************************************************)
(* Proofs about AlertWorker and AlertPipeline.  The worker, for every size *)
(* of the queue and every number of batches: the queue keeps its order and *)
(* its bound, no batch vanishes, and a thread that was told to end left    *)
(* nothing behind.  The pipeline: it uses the worker as AlertWorker says,  *)
(* so the worker's theorems hold of it; the SMS budget is overrun by at    *)
(* most one message of each other sender; and the monitor alone keeps      *)
(* every cooldown.                                                         *)
(***************************************************************************)
EXTENDS AlertPipeline, SequenceTheorems, FiniteSetTheorems, TLAPS

-----------------------------------------------------------------------------
(* The worker *)

Entry == Batch \cup {Sentinel}

\* The queue is in order and only its last entry may be the sentinel.
Ordered ==
  \A i, j \in 1..Len(queue) :
    i < j => /\ queue[i] # Sentinel
             /\ queue[j] # Sentinel => queue[i].id < queue[j].id

Newer ==
  \A i \in 1..Len(queue) :
    queue[i] # Sentinel => last < queue[i].id /\ queue[i].id <= submitted

\* The sentinel is put once, when shutdown is past making room.
SentinelInTime ==
  /\ SentinelQueued \/ worker = "ended" => stop \in {"joining", "gone"}
  /\ worker = "ended" => queue = <<>>

\* Room is made once, in a queue that was full.
RoomInTime ==
  /\ stop \in {"no", "stopping", "refused"} => drained = 0
  /\ stop = "refused" => taken + Len(queue) >= QueueSize
  /\ stop # "no" /\ drained > 0 => submitted - dropped >= QueueSize
  /\ drained <= 1

Counted ==
  submitted = taken + dropped + drained
              + (IF SentinelQueued THEN Len(queue) - 1 ELSE Len(queue))

WInv ==
  /\ WorkerTypeOK
  /\ Ordered
  /\ Newer
  /\ SentinelInTime
  /\ RoomInTime
  /\ Counted
  /\ last <= submitted

-----------------------------------------------------------------------------
(* The entries of the queue *)

LEMMA Entries ==
  /\ \A b \in Batch : b # Sentinel /\ b.id \in 1..MaxBatches
  /\ Sentinel \notin Batch
BY DEF Batch, Sentinel

\* In an ordered queue the sentinel, if there is one, is the last entry.
LEMMA SentinelIsLast ==
  ASSUME WorkerTypeOK, Ordered
  PROVE  SentinelQueued <=> Len(queue) > 0 /\ queue[Len(queue)] = Sentinel
<1>1. Len(queue) \in Nat
  BY LenProperties DEF WorkerTypeOK
<1>2. ASSUME NEW i \in 1..Len(queue), queue[i] = Sentinel
      PROVE  Len(queue) > 0 /\ queue[Len(queue)] = Sentinel
  <2>1. i = Len(queue) \/ i < Len(queue)
    BY <1>1
  <2>2. i < Len(queue) => queue[i] # Sentinel
    BY <1>1 DEF Ordered
  <2> QED
    BY <1>1, <1>2, <2>1, <2>2
<1> QED
  BY <1>1, <1>2 DEF SentinelQueued

\* A batch appended behind an ordered queue without a sentinel.
LEMMA AppendBatch ==
  ASSUME WInv, NEW b \in Batch, ~SentinelQueued, b.id = submitted + 1,
         queue' = Append(queue, b), submitted' = submitted + 1,
         UNCHANGED last
  PROVE  /\ queue' \in Seq(Entry)
         /\ Len(queue') = Len(queue) + 1
         /\ Ordered' /\ Newer' /\ ~SentinelQueued'
<1>0. Len(queue) \in Nat /\ queue \in Seq(Entry) /\ {last, submitted} \subseteq Nat
  BY LenProperties DEF WInv, WorkerTypeOK, Entry
<1>1. /\ queue' \in Seq(Entry)
      /\ Len(queue') = Len(queue) + 1
      /\ \A i \in 1..Len(queue) : queue'[i] = queue[i]
      /\ queue'[Len(queue) + 1] = b
  <2>1. b \in Entry
    BY DEF Entry
  <2> QED
    BY <1>0, <2>1, AppendProperties
<1>2. b # Sentinel
  BY Entries
<1>3. \A i \in 1..Len(queue) : queue[i] # Sentinel
  BY DEF SentinelQueued
<1>4. \A i \in 1..Len(queue') : i \in 1..Len(queue) \/ i = Len(queue) + 1
  BY <1>0, <1>1
<1>5. \A i \in 1..Len(queue) : queue[i] \in Batch /\ queue[i].id \in 1..MaxBatches
  BY <1>0, <1>3, ElementOfSeq, Entries DEF Entry
<1>6. Ordered'
  BY <1>0, <1>1, <1>2, <1>3, <1>4, <1>5 DEF Ordered, Newer, WInv
<1>7. Newer'
  BY <1>0, <1>1, <1>2, <1>3, <1>4, <1>5 DEF Newer, WInv
<1>8. ~SentinelQueued'
  BY <1>1, <1>2, <1>3, <1>4 DEF SentinelQueued
<1> QED
  BY <1>1, <1>6, <1>7, <1>8

\* The sentinel appended behind such a queue.
LEMMA AppendSentinel ==
  ASSUME WInv, ~SentinelQueued, queue' = Append(queue, Sentinel),
         UNCHANGED <<last, submitted>>
  PROVE  /\ queue' \in Seq(Entry)
         /\ Len(queue') = Len(queue) + 1
         /\ Ordered' /\ Newer' /\ SentinelQueued'
<1>0. Len(queue) \in Nat /\ queue \in Seq(Entry)
  BY LenProperties DEF WInv, WorkerTypeOK, Entry
<1>1. /\ queue' \in Seq(Entry)
      /\ Len(queue') = Len(queue) + 1
      /\ \A i \in 1..Len(queue) : queue'[i] = queue[i]
      /\ queue'[Len(queue) + 1] = Sentinel
  <2>1. Sentinel \in Entry
    BY DEF Entry
  <2> QED
    BY <1>0, <2>1, AppendProperties
<1>2. \A i \in 1..Len(queue) : queue[i] # Sentinel
  BY DEF SentinelQueued
<1>3. \A i \in 1..Len(queue') : i \in 1..Len(queue) \/ i = Len(queue) + 1
  BY <1>0, <1>1
<1>4. Ordered'
  BY <1>0, <1>1, <1>2, <1>3 DEF Ordered, WInv
<1>5. Newer'
  BY <1>0, <1>1, <1>2, <1>3 DEF Newer, WInv
<1>6. SentinelQueued'
  BY <1>0, <1>1 DEF SentinelQueued
<1> QED
  BY <1>1, <1>4, <1>5, <1>6

\* The oldest entry removed.
LEMMA RemoveHead ==
  ASSUME WInv, queue # <<>>, queue' = Tail(queue), UNCHANGED submitted
  PROVE  /\ queue' \in Seq(Entry)
         /\ Len(queue') = Len(queue) - 1 /\ Len(queue) \in Nat \ {0}
         /\ Ordered'
         /\ Head(queue) \in Entry
         /\ UNCHANGED last => Newer'
         /\ Head(queue) = Sentinel => queue' = <<>> /\ SentinelQueued
         /\ Head(queue) # Sentinel =>
              /\ SentinelQueued' <=> SentinelQueued
              /\ last' = Head(queue).id => Newer'
              /\ Head(queue).id <= submitted
<1>0. /\ queue \in Seq(Entry)
      /\ Len(queue) \in Nat \ {0}
  BY LenProperties, EmptySeq DEF WInv, WorkerTypeOK, Entry
<1>1. /\ Head(queue) \in Entry
      /\ queue' \in Seq(Entry)
      /\ Len(queue') = Len(queue) - 1
      /\ \A i \in 1..Len(queue') : queue'[i] = queue[i + 1]
  BY <1>0, HeadTailProperties
<1>2. Head(queue) = queue[1]
  BY <1>0
<1>3. \A i \in 1..Len(queue') : i + 1 \in 1..Len(queue) /\ i \in 1..Len(queue)
  BY <1>0, <1>1
<1>4. Ordered'
  BY <1>0, <1>1, <1>3 DEF Ordered, WInv
<1>5. ASSUME UNCHANGED last
      PROVE  Newer'
  BY <1>0, <1>1, <1>3, <1>5 DEF Newer, WInv
<1>6. ASSUME Head(queue) = Sentinel
      PROVE  queue' = <<>> /\ SentinelQueued
  <2>1. Len(queue) = 1
    <3>1. ASSUME Len(queue) > 1
          PROVE  queue[1] # Sentinel
      <4>1. 1 \in 1..Len(queue) /\ 2 \in 1..Len(queue) /\ 1 < 2
        BY <1>0, <3>1
      <4> QED
        BY <4>1 DEF Ordered, WInv
    <3>2. queue[1] = Sentinel
      BY <1>2, <1>6
    <3>3. ~(Len(queue) > 1)
      BY <3>1, <3>2
    <3>4. \A n \in Nat \ {0} : ~(n > 1) => n = 1
      OBVIOUS
    <3> QED
      BY <1>0, <3>3, <3>4
  <2>2. Len(queue') = 0
    BY <1>1, <2>1
  <2>3. queue' = <<>>
    BY <1>1, <2>2, EmptySeq
  <2> QED
    BY <1>0, <1>2, <1>6, <2>3 DEF SentinelQueued
<1>7. ASSUME Head(queue) # Sentinel
      PROVE  /\ SentinelQueued' <=> SentinelQueued
             /\ last' = Head(queue).id => Newer'
             /\ Head(queue).id <= submitted
  <2>1. SentinelQueued' => SentinelQueued
    BY <1>1, <1>3 DEF SentinelQueued
  <2>2. ASSUME NEW i \in 1..Len(queue), queue[i] = Sentinel
        PROVE  SentinelQueued'
    <3>1. i # 1
      BY <1>2, <1>7, <2>2
    <3>2. i - 1 \in 1..Len(queue')
      BY <1>0, <1>1, <3>1
    <3>3. queue'[i - 1] = queue[i]
      BY <1>0, <1>1, <3>2
    <3> QED
      BY <2>2, <3>2, <3>3 DEF SentinelQueued
  <2>3. ASSUME last' = Head(queue).id
        PROVE  Newer'
    BY <1>0, <1>1, <1>2, <1>3, <1>7, <2>3 DEF Newer, Ordered, WInv
  <2>4. Head(queue).id <= submitted
    BY <1>0, <1>2, <1>7 DEF Newer, WInv
  <2> QED
    BY <2>1, <2>2, <2>3, <2>4 DEF SentinelQueued
<1> QED
  BY <1>0, <1>1, <1>4, <1>5, <1>6, <1>7

-----------------------------------------------------------------------------
(* The invariant is inductive *)

LEMMA Initially == InitWorker => WInv
<1> SUFFICES ASSUME InitWorker
             PROVE  WInv
  OBVIOUS
<1>1. Len(queue) = 0 /\ queue \in Seq(Entry) /\ 1..0 = {}
  BY EmptySeq DEF InitWorker
<1>2. ~SentinelQueued
  BY <1>1 DEF SentinelQueued
<1>3. WorkerTypeOK
  BY <1>1, QueueAssumption DEF InitWorker, WorkerTypeOK, Entry
<1>4. Ordered /\ Newer
  BY <1>1 DEF Ordered, Newer
<1> QED
  BY <1>1, <1>2, <1>3, <1>4
  DEF WInv, InitWorker, SentinelInTime, RoomInTime, Counted

\* A batch is queued or, in a full queue, counted.
LEMMA SubmitKeeps ==
  ASSUME WInv, NEW fs \in SUBSET Findings, Submit(fs)
  PROVE  WInv'
<1> USE QueueAssumption
<1>0. /\ Len(queue) \in Nat /\ queue \in Seq(Entry)
      /\ {dropped, submitted, taken, last, drained} \subseteq Nat
      /\ ~SentinelQueued /\ worker # "ended" /\ drained = 0
  BY LenProperties
  DEF WInv, WorkerTypeOK, Entry, SentinelInTime, RoomInTime, Submit
<1>1. CASE Full
  <2>1. UNCHANGED <<queue, stop, taken, drained, last, worker, inHand>> /\ ~SentinelQueued'
    BY <1>0, <1>1 DEF Submit, SentinelQueued
  <2>2. WorkerTypeOK'
    BY <1>0, <1>1, <2>1 DEF WInv, WorkerTypeOK, Submit
  <2>3. Ordered' /\ Newer'
    <3>1. \A i \in 1..Len(queue) : queue[i] \in Batch /\ queue[i].id \in Nat
      BY <1>0, ElementOfSeq, Entries DEF Entry, SentinelQueued
    <3> QED
      BY <1>0, <1>1, <2>1, <3>1 DEF WInv, Ordered, Newer, Submit
  <2> QED
    BY <1>0, <1>1, <2>1, <2>2, <2>3
    DEF WInv, Submit, SentinelInTime, RoomInTime, Counted
<1>2. CASE ~Full
  <2> DEFINE b == [id |-> submitted + 1, findings |-> fs]
  <2>1. b \in Batch
    BY <1>0 DEF Batch, Submit
  <2>2. /\ queue' \in Seq(Entry)
        /\ Len(queue') = Len(queue) + 1
        /\ Ordered' /\ Newer' /\ ~SentinelQueued'
    BY <1>0, <1>2, <2>1, AppendBatch DEF Submit
  <2>3. WorkerTypeOK'
    BY <1>0, <1>2, <2>2 DEF WInv, WorkerTypeOK, Submit, Full, Entry
  <2> QED
    BY <1>0, <1>2, <2>2, <2>3
    DEF WInv, Submit, SentinelInTime, RoomInTime, Counted
<1> QED
  BY <1>1, <1>2

\* The sentinel goes behind what is queued.
LEMMA PutSentinelKeeps ==
  ASSUME WInv, PutSentinel
  PROVE  WInv'
<1> USE QueueAssumption
<1>0. /\ Len(queue) \in Nat /\ queue \in Seq(Entry)
      /\ {dropped, submitted, taken, last, drained} \subseteq Nat
      /\ ~SentinelQueued /\ worker # "ended"
  BY LenProperties
  DEF WInv, WorkerTypeOK, Entry, SentinelInTime, PutSentinel
<1>1. CASE Full
  <2>1. UNCHANGED <<queue, submitted, last, drained, taken, dropped, worker, inHand>>
    BY <1>1 DEF PutSentinel
  <2>2. Ordered' /\ Newer' /\ ~SentinelQueued'
    BY <1>0, <2>1 DEF WInv, Ordered, Newer, SentinelQueued
  <2>3. WorkerTypeOK'
    BY <2>1 DEF WInv, WorkerTypeOK, PutSentinel
  <2> QED
    BY <1>0, <2>1, <2>2, <2>3
    DEF WInv, PutSentinel, SentinelInTime, RoomInTime, Counted
<1>2. CASE ~Full
  <2>1. /\ queue' \in Seq(Entry)
        /\ Len(queue') = Len(queue) + 1
        /\ Ordered' /\ Newer' /\ SentinelQueued'
    BY <1>0, <1>2, AppendSentinel DEF PutSentinel
  <2>2. WorkerTypeOK'
    BY <1>0, <1>2, <2>1 DEF WInv, WorkerTypeOK, PutSentinel, Full, Entry
  <2> QED
    BY <1>0, <1>2, <2>1, <2>2
    DEF WInv, PutSentinel, SentinelInTime, RoomInTime, Counted
<1> QED
  BY <1>1, <1>2

\* Room is made by removing the oldest batch.
LEMMA MakeRoomKeeps ==
  ASSUME WInv, MakeRoom
  PROVE  WInv'
<1> USE QueueAssumption
<1>0. /\ Len(queue) \in Nat /\ queue \in Seq(Entry)
      /\ {dropped, submitted, taken, last, drained} \subseteq Nat
      /\ ~SentinelQueued /\ worker # "ended" /\ drained = 0
      /\ taken + Len(queue) >= QueueSize
  BY LenProperties
  DEF WInv, WorkerTypeOK, Entry, SentinelInTime, RoomInTime, MakeRoom
<1>1. CASE queue = <<>>
  <2>1. UNCHANGED <<queue, submitted, last, drained, taken, dropped, worker, inHand>>
    BY <1>1 DEF MakeRoom
  <2>2. Ordered' /\ Newer' /\ ~SentinelQueued'
    BY <1>0, <2>1 DEF WInv, Ordered, Newer, SentinelQueued
  <2>3. WorkerTypeOK'
    BY <2>1 DEF WInv, WorkerTypeOK, MakeRoom
  <2> QED
    BY <1>0, <2>1, <2>2, <2>3
    DEF WInv, MakeRoom, SentinelInTime, RoomInTime, Counted
<1>2. CASE queue # <<>>
  <2>1. /\ queue' = Tail(queue)
        /\ UNCHANGED <<submitted, last>>
    BY <1>2 DEF MakeRoom
  <2>2. /\ queue' \in Seq(Entry)
        /\ Len(queue') = Len(queue) - 1 /\ Len(queue) \in Nat \ {0}
        /\ Ordered' /\ Newer' /\ ~SentinelQueued'
    BY <1>0, <1>2, <2>1, RemoveHead
  <2>3. WorkerTypeOK'
    BY <1>0, <1>2, <2>2 DEF WInv, WorkerTypeOK, MakeRoom, Entry
  <2>4. RoomInTime'
    BY <1>0, <1>2, <2>2 DEF WInv, MakeRoom, RoomInTime, Counted
  <2> QED
    BY <1>0, <1>2, <2>2, <2>3, <2>4
    DEF WInv, MakeRoom, SentinelInTime, Counted
<1> QED
  BY <1>1, <1>2

\* The thread takes the oldest batch, or ends at the sentinel.
LEMMA TakeKeeps ==
  ASSUME WInv, Take
  PROVE  WInv'
<1> USE QueueAssumption
<1>0. /\ Len(queue) \in Nat /\ queue \in Seq(Entry)
      /\ {dropped, submitted, taken, last, drained} \subseteq Nat
      /\ worker = "waiting"
  BY LenProperties DEF WInv, WorkerTypeOK, Entry, Take
<1>1. /\ queue # <<>> /\ queue' = Tail(queue)
      /\ UNCHANGED <<stop, dropped, submitted, drained, starts>>
  BY DEF Take
<1>2. /\ queue' \in Seq(Entry)
      /\ Len(queue') = Len(queue) - 1 /\ Len(queue) \in Nat \ {0}
      /\ Ordered'
      /\ Head(queue) \in Entry
  BY <1>1, RemoveHead
<1>3. CASE Head(queue) = Sentinel
  <2>1. /\ UNCHANGED <<inHand, taken, last>> /\ worker' = "ended"
        /\ Newer'
        /\ queue' = <<>> /\ SentinelQueued
    BY <1>1, <1>3, RemoveHead DEF Take
  <2>2. Len(queue') = 0 /\ ~SentinelQueued' /\ 1..0 = {}
    BY <2>1 DEF SentinelQueued
  <2>3. WorkerTypeOK'
    BY <1>0, <1>1, <1>2, <2>1 DEF WInv, WorkerTypeOK, Entry
  <2> QED
    BY <1>0, <1>1, <1>2, <2>1, <2>2, <2>3
    DEF WInv, SentinelInTime, RoomInTime, Counted
<1>4. CASE Head(queue) # Sentinel
  <2>1. /\ worker' = "busy" /\ inHand' = Head(queue)
        /\ taken' = taken + 1 /\ last' = Head(queue).id
    BY <1>4 DEF Take
  <2>2. /\ Newer'
        /\ SentinelQueued' <=> SentinelQueued
        /\ last' <= submitted'
    BY <1>1, <1>4, <2>1, RemoveHead
  <2>3. Head(queue) \in Batch /\ last' \in Nat
    BY <1>2, <1>4, <2>1, Entries, QueueAssumption DEF Entry
  <2>4. WorkerTypeOK'
    BY <1>0, <1>1, <1>2, <2>1, <2>3 DEF WInv, WorkerTypeOK, Entry
  <2>5. SentinelInTime'
    BY <1>0, <1>1, <2>1, <2>2 DEF WInv, SentinelInTime
  <2>6. RoomInTime'
    BY <1>0, <1>1, <1>2, <2>1 DEF WInv, RoomInTime
  <2>7. Counted'
    BY <1>0, <1>1, <1>2, <2>1, <2>2 DEF WInv, Counted
  <2> QED
    BY <1>2, <2>2, <2>4, <2>5, <2>6, <2>7 DEF WInv
<1> QED
  BY <1>3, <1>4

\* The other steps leave the queue alone, or begin with an empty one.
LEMMA OtherKeeps ==
  ASSUME WInv,
         \/ BeginShutdown \/ SentinelRefused \/ Join \/ Kill \/ StartAgain
         \/ Open \/ Finish \/ UNCHANGED workerVars
  PROVE  WInv'
<1>0. /\ Len(queue) \in Nat /\ queue \in Seq(Entry)
      /\ {dropped, submitted, taken, last, drained, starts} \subseteq Nat
  BY LenProperties DEF WInv, WorkerTypeOK, Entry
<1>1. CASE StartAgain
  <2>1. Len(queue') = 0 /\ queue' \in Seq(Entry) /\ 1..0 = {}
    BY <1>1, EmptySeq DEF StartAgain
  <2>2. ~SentinelQueued' /\ Ordered' /\ Newer'
    BY <2>1 DEF SentinelQueued, Ordered, Newer
  <2>3. WorkerTypeOK'
    BY <1>0, <1>1, <2>1, QueueAssumption DEF StartAgain, WorkerTypeOK, Entry
  <2> QED
    BY <1>1, <2>1, <2>2, <2>3
    DEF WInv, StartAgain, SentinelInTime, RoomInTime, Counted
<1>2. CASE ~StartAgain
  <2>1. UNCHANGED <<queue, dropped, submitted, taken, last, drained>>
    BY <1>2 DEF BeginShutdown, SentinelRefused, Join, Kill, Open, Finish,
                workerVars
  <2>2. /\ SentinelQueued' <=> SentinelQueued
        /\ Ordered' /\ Newer' /\ Counted' /\ last' <= submitted'
    BY <2>1 DEF SentinelQueued, WInv, Ordered, Newer, Counted
  <2>3. WorkerTypeOK'
    BY <1>0, <1>2, <2>1
    DEF WInv, WorkerTypeOK, BeginShutdown, SentinelRefused, Join, Kill, Open,
        Finish, workerVars
  <2>4. SentinelInTime'
    BY <1>2, <2>1, <2>2
    DEF WInv, SentinelInTime, BeginShutdown, SentinelRefused, Join, Kill, Open,
        Finish, workerVars
  <2>5. RoomInTime'
    BY <1>0, <1>2, <2>1, QueueAssumption
    DEF WInv, RoomInTime, Counted, BeginShutdown, SentinelRefused, Join, Kill,
        Open, Finish, workerVars, Full
  <2> QED
    BY <2>2, <2>3, <2>4, <2>5 DEF WInv
<1> QED
  BY <1>1, <1>2

LEMMA StepKeeps == WInv /\ [NextWorker]_workerVars => WInv'
BY SubmitKeeps, PutSentinelKeeps, MakeRoomKeeps, TakeKeeps, OtherKeeps
DEF NextWorker, ShutdownStep

-----------------------------------------------------------------------------
(* Theorems *)

\* WInv holds in every behaviour of the worker.
THEOREM WorkerInductive == SpecWorker => []WInv
<1>1. InitWorker => WInv
  BY Initially
<1>2. WInv /\ [NextWorker]_workerVars => WInv'
  BY StepKeeps
<1> QED
  BY <1>1, <1>2, PTL DEF SpecWorker

\* What the invariant says of the properties the runs check.
LEMMA WInvImplies == WInv => WorkerTypeOK /\ InOrder /\ Accounted /\ NothingLeftBehind
<1> SUFFICES ASSUME WInv
             PROVE  WorkerTypeOK /\ InOrder /\ Accounted /\ NothingLeftBehind
  OBVIOUS
<1>1. InOrder
  BY DEF WInv, Ordered, Newer, InOrder
<1>2. Accounted
  BY DEF WInv, Counted, Accounted
<1>3. NothingLeftBehind
  BY DEF WInv, SentinelInTime, RoomInTime, NothingLeftBehind
<1> QED
  BY <1>1, <1>2, <1>3 DEF WInv

-----------------------------------------------------------------------------
(* The types of the pipeline *)

\* A charge is only pending for a message still to be sent, and one that
\* read a row finds a row.
ChargesWellFormed ==
  \A s \in Senders :
    /\ disp[s].read # "no" => disp[s].left > 0
    /\ disp[s].read = "row" /\ disp[s].today => smsUsed # NoRow

PipelineTypeOK ==
  /\ alertLog \in [Keys -> LogRow]
  /\ window \in [age: 0..AgeCap, count: Nat]
  /\ smsUsed \in Nat \cup {NoRow}
  /\ snoozed \subseteq Subjects
  /\ pc \in [Senders -> {"idle", "gate", "log", "cap", "open", "count", "pass",
                         "sending"}]
  /\ pending \in [Senders -> SUBSET Findings]
  /\ item \in [Senders -> SUBSET Findings]
  /\ passed \in [Senders -> SUBSET Findings]
  /\ refused \in [Senders -> SUBSET Findings]
  /\ disp \in [Senders -> [batch: SUBSET Findings, channel: 0..Pushes,
                           left: 0..Recipients, read: {"no", "none", "row"},
                           today: BOOLEAN]]
  /\ sent \in [Keys -> LogRow]
  /\ recent \in [0..AgeCap -> Nat]
  /\ ChargesWellFormed

Dispatch == [batch: SUBSET Findings, channel: 0..Pushes, left: 0..Recipients,
             read: {"no", "none", "row"}, today: BOOLEAN]

LEMMA FindingFacts ==
  ASSUME NEW f \in Findings
  PROVE  /\ Key(f) \in Keys
         /\ f.sev \in Severities /\ f.sev \in Nat /\ f.sev \in Int
         /\ f.cooldown \in 0..AgeCap /\ f.cooldown \in Nat /\ f.cooldown <= AgeCap
         /\ [age |-> 0, sev |-> f.sev] \in LogRow
<1>1. f.sev \in Severities /\ f.cooldown \in 0..AgeCap
  BY FindingAssumption
<1>2. /\ f.sev \in Nat /\ f.sev \in Int
      /\ f.cooldown \in Nat /\ f.cooldown <= AgeCap
  BY <1>1, LimitAssumption DEF Severities
<1>3. [age |-> 0, sev |-> f.sev] \in LogRow
  BY <1>1, LimitAssumption DEF LogRow
<1> QED
  BY <1>1, <1>2, <1>3 DEF Keys

LEMMA AgedRows ==
  /\ Never \in LogRow
  /\ \A row \in LogRow : Aged(row) \in LogRow
<1>1. Never \in LogRow
  BY DEF LogRow
<1>2. ASSUME NEW row \in [age: 0..AgeCap, sev: Severities]
      PROVE  Aged(row) \in LogRow
  BY LimitAssumption DEF Aged, Older, LogRow
<1>3. Aged(Never) = Never
  BY DEF Aged, Older, Never
<1> QED
  BY <1>1, <1>2, <1>3 DEF LogRow

LEMMA DeliveryType ==
  ASSUME NEW fs \in SUBSET Findings
  PROVE  /\ Delivery(fs) \in Dispatch /\ Delivery(fs).read = "no"
         /\ Idle \in Dispatch /\ Idle.read = "no"
<1>1. Idle \in Dispatch /\ Idle.read = "no"
  BY LimitAssumption DEF Idle, Dispatch
<1>2. Delivery(fs) \in Dispatch /\ Delivery(fs).read = "no"
  BY LimitAssumption DEF Delivery, Dispatch
<1> QED
  BY <1>1, <1>2

\* Delivery steps, whatever sender takes them.
LEMMA EndKeepsTypes ==
  ASSUME PipelineTypeOK, NEW s \in Senders, EndDelivery(s), UNCHANGED smsUsed
  PROVE  PipelineTypeOK'
<1>1. Idle \in Dispatch /\ Idle.read = "no"
  BY DeliveryType
<1>2. pc' \in [Senders -> {"idle", "gate", "log", "cap", "open", "count", "pass",
                           "sending"}]
  BY DEF EndDelivery, PipelineTypeOK
<1>3. disp' \in [Senders -> Dispatch]
  BY <1>1 DEF EndDelivery, PipelineTypeOK, Dispatch
<1>4. ChargesWellFormed'
  BY <1>1 DEF EndDelivery, PipelineTypeOK, ChargesWellFormed
<1> QED
  BY <1>2, <1>3, <1>4 DEF EndDelivery, PipelineTypeOK, limits, ghosts, Dispatch

LEMMA GateKeepsTypes ==
  ASSUME PipelineTypeOK, NEW s \in Senders, GateStep(s)
  PROVE  PipelineTypeOK'
<1> USE DEF PipelineTypeOK
<1>1. CASE \E f \in Findings : Suppress(s, f) \/ FindDue(s, f)
  <2>1. PICK f \in Findings : Suppress(s, f) \/ FindDue(s, f)
    BY <1>1
  <2>2. pc' \in [Senders -> {"idle", "gate", "log", "cap", "open", "count",
                             "pass", "sending"}]
    BY <2>1 DEF Suppress, FindDue
  <2>3. /\ pending' \in [Senders -> SUBSET Findings]
        /\ item' \in [Senders -> SUBSET Findings]
    <3>1. {f} \in SUBSET Findings /\ pending[s] \ {f} \in SUBSET Findings
      OBVIOUS
    <3>2. CASE Suppress(s, f)
      BY <3>1, <3>2 DEF Suppress
    <3>3. CASE FindDue(s, f)
      BY <3>1, <3>3 DEF FindDue
    <3> QED
      BY <2>1, <3>2, <3>3
  <2>4. UNCHANGED <<limits, smsUsed, passed, refused, disp, ghosts>>
    BY <2>1 DEF Suppress, FindDue
  <2> QED
    BY <2>2, <2>3, <2>4 DEF limits, ghosts, ChargesWellFormed
<1>2. CASE LogAlert(s)
  <2>1. alertLog' \in [Keys -> LogRow]
    <3>1. PICK f \in item[s] :
            alertLog' = [alertLog EXCEPT ![Key(f)] = [age |-> 0, sev |-> f.sev]]
      BY <1>2 DEF LogAlert
    <3>2. f \in Findings
      OBVIOUS
    <3> QED
      BY <3>1, <3>2, FindingFacts
  <2>2. pc' \in [Senders -> {"idle", "gate", "log", "cap", "open", "count",
                             "pass", "sending"}]
    BY <1>2 DEF LogAlert
  <2> QED
    BY <1>2, <2>1, <2>2 DEF LogAlert, ghosts, ChargesWellFormed
<1>3. CASE ReadWindow(s)
  <2>1. pc' \in [Senders -> {"idle", "gate", "log", "cap", "open", "count",
                             "pass", "sending"}]
    BY <1>3 DEF ReadWindow
  <2>2. /\ refused' \in [Senders -> SUBSET Findings]
        /\ item' \in [Senders -> SUBSET Findings]
    BY <1>3 DEF ReadWindow
  <2> QED
    BY <1>3, <2>1, <2>2 DEF ReadWindow, limits, ghosts, ChargesWellFormed
<1>4. CASE LetThrough(s)
  <2>1. window' \in [age: 0..AgeCap, count: Nat]
    <3>1. pc[s] \in {"open", "count", "pass"} /\ window' = NextWindow(pc[s])
      BY <1>4 DEF LetThrough
    <3>2. CASE pc[s] = "open"
      BY <3>1, <3>2, LimitAssumption DEF NextWindow
    <3>3. CASE pc[s] = "count"
      BY <3>1, <3>3 DEF NextWindow
    <3>4. CASE pc[s] = "pass"
      BY <3>1, <3>4 DEF NextWindow
    <3> QED
      BY <3>1, <3>2, <3>3, <3>4
  <2>2. /\ pc' \in [Senders -> {"idle", "gate", "log", "cap", "open", "count",
                                "pass", "sending"}]
        /\ passed' \in [Senders -> SUBSET Findings]
        /\ item' \in [Senders -> SUBSET Findings]
    BY <1>4 DEF LetThrough
  <2>3. sent' \in [Keys -> LogRow]
    <3>1. PICK f \in item[s] :
            \/ sent' = [sent EXCEPT ![Key(f)] = [age |-> 0, sev |-> f.sev]]
            \/ sent' = sent
      BY <1>4 DEF LetThrough
    <3>2. f \in Findings
      OBVIOUS
    <3> QED
      BY <3>1, <3>2, FindingFacts
  <2>4. recent' \in [0..AgeCap -> Nat]
    <3>1. \/ recent' = [a \in 0..AgeCap |-> recent[a] + 1]
          \/ recent' = recent
      BY <1>4 DEF LetThrough
    <3> QED
      BY <3>1
  <2> QED
    BY <1>4, <2>1, <2>2, <2>3, <2>4 DEF LetThrough, ChargesWellFormed
<1>5. ASSUME GateDone(s)
      PROVE  /\ passed' \in [Senders -> SUBSET Findings]
             /\ refused' \in [Senders -> SUBSET Findings]
             /\ UNCHANGED <<limits, smsUsed, pending, item, ghosts>>
  BY <1>5 DEF GateDone
<1>6. CASE SendNothing(s)
  <2>1. pc' \in [Senders -> {"idle", "gate", "log", "cap", "open", "count",
                             "pass", "sending"}]
    BY <1>6 DEF SendNothing
  <2> QED
    BY <1>5, <1>6, <2>1 DEF SendNothing, limits, ghosts, ChargesWellFormed
<1>7. CASE SendInline(s)
  <2>1. /\ pc' \in [Senders -> {"idle", "gate", "log", "cap", "open", "count",
                                "pass", "sending"}]
        /\ disp' \in [Senders -> Dispatch]
    BY <1>7, DeliveryType DEF SendInline, Dispatch
  <2>2. ChargesWellFormed'
    BY <1>5, <1>7, DeliveryType DEF SendInline, ChargesWellFormed
  <2> QED
    BY <1>5, <1>7, <2>1, <2>2 DEF SendInline, limits, ghosts, Dispatch
<1>8. CASE s = Monitor /\ HandOver
  <2>1. pc' \in [Senders -> {"idle", "gate", "log", "cap", "open", "count",
                             "pass", "sending"}]
    BY <1>8 DEF HandOver
  <2> QED
    BY <1>5, <1>8, <2>1 DEF HandOver, limits, ghosts, ChargesWellFormed
<1> QED
  BY <1>1, <1>2, <1>3, <1>4, <1>6, <1>7, <1>8 DEF GateStep

LEMMA DeliveryKeepsTypes ==
  ASSUME PipelineTypeOK, NEW s \in Senders, DeliveryStep(s)
  PROVE  PipelineTypeOK'
<1>0. /\ disp \in [Senders -> Dispatch]
      /\ smsUsed \in Nat \cup {NoRow} /\ NoRow \notin Nat
      /\ Segments \in Nat /\ Pushes \in Nat /\ Recipients \in Nat
  BY LimitAssumption DEF PipelineTypeOK, Dispatch, NoRow
<1>1. ASSUME disp' \in [Senders -> Dispatch], smsUsed' \in Nat \cup {NoRow},
             ChargesWellFormed', UNCHANGED <<limits, gate, ghosts>>
      PROVE  PipelineTypeOK'
  BY <1>1 DEF PipelineTypeOK, Dispatch, limits, gate, ghosts
<1>2. CASE Push(s)
  <2>1. disp' \in [Senders -> Dispatch]
    BY <1>0, <1>2 DEF Push, Dispatch
  <2>2. ChargesWellFormed'
    BY <1>0, <1>2 DEF Push, ChargesWellFormed, PipelineTypeOK, Dispatch
  <2> QED
    BY <1>0, <1>1, <1>2, <2>1, <2>2 DEF Push
<1>3. CASE ReadSms(s)
  <2>1. disp' \in [Senders -> Dispatch]
    <3>1. disp[s] \in Dispatch /\ disp[s].left > 0
      BY <1>0, <1>3 DEF ReadSms
    <3>2. disp[s].left - 1 \in 0..Recipients /\ 0 \in 0..Recipients
      BY <1>0, <3>1 DEF Dispatch
    <3>3. CASE disp' = [disp EXCEPT ![s].left = @ - 1]
      BY <1>0, <3>2, <3>3 DEF Dispatch
    <3>4. CASE disp' = [disp EXCEPT ![s].left = 0]
      BY <1>0, <3>2, <3>4 DEF Dispatch
    <3> DEFINE r == [disp[s] EXCEPT !.read = IF smsUsed = NoRow THEN "none" ELSE "row",
                                    !.today = TRUE]
    <3>5. CASE disp' = [disp EXCEPT ![s] = r]
      <4>1. r \in Dispatch
        BY <3>1 DEF Dispatch
      <4> HIDE DEF r
      <4> QED
        BY <1>0, <3>5, <4>1
    <3> QED
      BY <1>3, <3>3, <3>4, <3>5 DEF ReadSms
  <2>2. ChargesWellFormed'
    <3>1. disp[s] \in Dispatch /\ disp[s].left > 0 /\ disp[s].read = "no"
      BY <1>0, <1>3 DEF ReadSms
    <3>2. \A t \in Senders \ {s} : disp'[t] = disp[t]
      BY <1>0, <1>3 DEF ReadSms
    <3>3. /\ disp'[s].read # "no" => disp'[s].left > 0
          /\ disp'[s].read = "row" => smsUsed # NoRow
      <4>1. CASE disp' = [disp EXCEPT ![s].left = @ - 1]
        BY <1>0, <3>1, <4>1 DEF Dispatch
      <4>2. CASE disp' = [disp EXCEPT ![s].left = 0]
        BY <1>0, <3>1, <4>2 DEF Dispatch
      <4>3. CASE disp' = [disp EXCEPT
              ![s] = [@ EXCEPT !.read = IF smsUsed = NoRow THEN "none" ELSE "row",
                               !.today = TRUE]]
        BY <1>0, <3>1, <4>3 DEF Dispatch
      <4> QED
        BY <1>3, <4>1, <4>2, <4>3 DEF ReadSms
    <3>4. smsUsed' = smsUsed
      BY <1>3 DEF ReadSms
    <3> QED
      BY <3>2, <3>3, <3>4 DEF ChargesWellFormed, PipelineTypeOK
  <2> QED
    BY <1>0, <1>1, <1>3, <2>1, <2>2 DEF ReadSms
<1>4. CASE ChargeSms(s)
  <2>1. disp[s].left > 0
    BY <1>4 DEF ChargeSms, ChargesWellFormed, PipelineTypeOK
  <2>2. disp' \in [Senders -> Dispatch]
    BY <1>0, <1>4, <2>1 DEF ChargeSms, Dispatch
  <2>3. smsUsed' \in Nat \cup {NoRow} /\ (smsUsed # NoRow => smsUsed' # NoRow)
    BY <1>0, <1>4 DEF ChargeSms, ChargesWellFormed, PipelineTypeOK, Dispatch
  <2>4. ChargesWellFormed'
    BY <1>0, <1>4, <2>3 DEF ChargeSms, ChargesWellFormed, PipelineTypeOK, Dispatch
  <2> QED
    BY <1>1, <1>4, <2>2, <2>3, <2>4 DEF ChargeSms
<1> QED
  BY <1>2, <1>3, <1>4, EndKeepsTypes
  DEF DeliveryStep, PushRaises, ChargeRaises, SmsRaises, DeliveryDone

\* The batch and the charges of a sender that is gone are forgotten.
LEMMA ResetKeepsTypes ==
  ASSUME PipelineTypeOK, NEW s \in Senders, GateReset(s),
         disp' = disp \/ disp' = [disp EXCEPT ![s] = Idle],
         UNCHANGED <<limits, smsUsed, ghosts>>
  PROVE  PipelineTypeOK'
<1>1. Idle \in Dispatch /\ Idle.read = "no" /\ {} \in SUBSET Findings
  BY DeliveryType
<1>2. disp' \in [Senders -> Dispatch]
  BY <1>1 DEF PipelineTypeOK, Dispatch
<1>3. ChargesWellFormed'
  BY <1>1 DEF PipelineTypeOK, ChargesWellFormed
<1>4. /\ pc' \in [Senders -> {"idle", "gate", "log", "cap", "open", "count",
                              "pass", "sending"}]
      /\ pending' \in [Senders -> SUBSET Findings]
      /\ item' \in [Senders -> SUBSET Findings]
      /\ passed' \in [Senders -> SUBSET Findings]
      /\ refused' \in [Senders -> SUBSET Findings]
  BY <1>1 DEF GateReset, PipelineTypeOK
<1> QED
  BY <1>2, <1>3, <1>4 DEF PipelineTypeOK, limits, ghosts, Dispatch

LEMMA OutsideKeepsTypes ==
  ASSUME PipelineTypeOK,
         \/ \E d \in Devices : ChangeSnooze(d) \/ DeleteDevice(d)
         \/ ResetAll \/ Tick \/ NewDay
  PROVE  PipelineTypeOK'
<1>0. Devices \subseteq Subjects
  BY FindingAssumption DEF Devices
<1>1. ASSUME NEW d \in Devices, ChangeSnooze(d)
      PROVE  PipelineTypeOK'
  BY <1>0, <1>1 DEF ChangeSnooze, PipelineTypeOK, gate, ghosts, ChargesWellFormed
<1>2. ASSUME NEW d \in Devices, DeleteDevice(d)
      PROVE  PipelineTypeOK'
  BY <1>2, AgedRows DEF DeleteDevice, PipelineTypeOK, gate, ChargesWellFormed
<1>3. CASE ResetAll
  BY <1>3, AgedRows, LimitAssumption
  DEF ResetAll, PipelineTypeOK, NoWindow, ChargesWellFormed
<1>4. CASE Tick
  <2>1. window' \in [age: 0..AgeCap, count: Nat]
    <3>1. window \in [age: 0..AgeCap, count: Nat] /\ window' = Aged(window)
      BY <1>4 DEF Tick, PipelineTypeOK
    <3>2. Older(window.age) \in 0..AgeCap
      BY <3>1, LimitAssumption DEF Older
    <3> QED
      BY <3>1, <3>2 DEF Aged
  <2>2. recent' \in [0..AgeCap -> Nat]
    <3>1. \A a \in 0..AgeCap : a # 0 /\ a # AgeCap => a - 1 \in 0..AgeCap
      BY LimitAssumption
    <3> QED
      BY <1>4, <3>1, LimitAssumption DEF Tick, PipelineTypeOK
  <2>3. alertLog' \in [Keys -> LogRow] /\ sent' \in [Keys -> LogRow]
    BY <1>4, AgedRows DEF Tick, PipelineTypeOK
  <2> QED
    BY <1>4, <2>1, <2>2, <2>3 DEF Tick, PipelineTypeOK, gate, ChargesWellFormed
<1>5. CASE NewDay
  <2>1. disp' \in [Senders -> Dispatch] /\ ChargesWellFormed'
    <3>1. disp' = [s \in Senders |-> [disp[s] EXCEPT !.today = FALSE]]
      BY <1>5 DEF NewDay
    <3>2. ASSUME NEW s \in Senders
          PROVE  /\ [disp[s] EXCEPT !.today = FALSE] \in Dispatch
                 /\ disp'[s].read = disp[s].read /\ disp'[s].left = disp[s].left
                 /\ disp'[s].today = FALSE
      <4>1. disp[s] \in Dispatch
        BY DEF PipelineTypeOK, Dispatch
      <4> QED
        BY <3>1, <4>1 DEF Dispatch
    <3>3. ChargesWellFormed
      BY DEF PipelineTypeOK
    <3> QED
      BY <3>1, <3>2, <3>3 DEF ChargesWellFormed
  <2> QED
    BY <1>5, <2>1 DEF NewDay, PipelineTypeOK, gate, limits, ghosts, Dispatch
<1> QED
  BY <1>1, <1>2, <1>3, <1>4, <1>5

LEMMA TypesInitially == Init => PipelineTypeOK
<1> SUFFICES ASSUME Init
             PROVE  PipelineTypeOK
  OBVIOUS
<1>1. Idle \in Dispatch /\ Idle.read = "no"
  BY DeliveryType
<1>2. disp \in [Senders -> Dispatch] /\ ChargesWellFormed
  BY <1>1 DEF Init, ChargesWellFormed
<1> QED
  BY <1>2, AgedRows, LimitAssumption DEF Init, PipelineTypeOK, NoWindow, Dispatch

\* To the worker, the pipeline is one of its main threads.
LEMMA WorkerStep == PipelineTypeOK /\ [Next]_vars => [NextWorker]_workerVars
<1> SUFFICES ASSUME PipelineTypeOK, Next
             PROVE  NextWorker \/ UNCHANGED workerVars
  BY DEF vars
<1>0. Monitor \in Senders /\ passed[Monitor] \in SUBSET Findings
  BY DEF Senders, PipelineTypeOK
<1>1. ASSUME NEW s \in Senders, GateStep(s)
      PROVE  NextWorker \/ UNCHANGED workerVars
  BY <1>0, <1>1
  DEF GateStep, Suppress, FindDue, LogAlert, ReadWindow, LetThrough,
      SendNothing, SendInline, HandOver, NextWorker
<1>2. ASSUME NEW s \in Senders, DeliveryStep(s)
      PROVE  NextWorker \/ UNCHANGED workerVars
  BY <1>2
  DEF DeliveryStep, Push, PushRaises, ReadSms, ChargeSms, ChargeRaises,
      SmsRaises, DeliveryDone, EndDelivery, NextWorker
<1> QED
  BY <1>1, <1>2
  DEF Next, BeginBatch, ScanDies, TakeBatch, StopThread, OpenStore,
      NextMonitor, Interrupt, MonitorExits, ChangeSnooze, DeleteDevice,
      ResetAll, Tick, NewDay, NextWorker

LEMMA TypesKept == PipelineTypeOK /\ WorkerTypeOK' /\ [Next]_vars => PipelineTypeOK'
<1> SUFFICES ASSUME PipelineTypeOK, WorkerTypeOK', [Next]_vars
             PROVE  PipelineTypeOK'
  OBVIOUS
<1>0. Monitor \in Senders
  BY DEF Senders
<1>1. ASSUME NEW s \in Senders, NEW fs \in SUBSET Findings, BeginBatch(s, fs)
      PROVE  PipelineTypeOK'
  <2>1. NotSnoozed(fs) \in SUBSET Findings
    BY DEF NotSnoozed
  <2> QED
    BY <1>1, <2>1 DEF BeginBatch, PipelineTypeOK, limits, ghosts, ChargesWellFormed
<1>2. ASSUME NEW s \in Senders, GateStep(s) \/ DeliveryStep(s)
      PROVE  PipelineTypeOK'
  BY <1>2, GateKeepsTypes, DeliveryKeepsTypes
<1>3. ASSUME NEW s \in Senders, ScanDies(s)
      PROVE  PipelineTypeOK'
  BY <1>3, ResetKeepsTypes DEF ScanDies
<1>4. CASE TakeBatch
  <2>1. inHand'.findings \in SUBSET Findings
    BY DEF WorkerTypeOK, Batch, Nothing
  <2>2. disp' \in [Senders -> Dispatch] /\ ChargesWellFormed'
    BY <1>0, <1>4, <2>1, DeliveryType
    DEF TakeBatch, PipelineTypeOK, Dispatch, ChargesWellFormed
  <2> QED
    BY <1>4, <2>2 DEF TakeBatch, PipelineTypeOK, limits, gate, ghosts, Dispatch
<1>5. CASE StopThread \/ OpenStore \/ NextMonitor \/ UNCHANGED vars
  BY <1>5
  DEF StopThread, OpenStore, NextMonitor, Elsewhere, vars, PipelineTypeOK,
      limits, gate, ghosts, ChargesWellFormed
<1>6. CASE Interrupt \/ MonitorExits
  BY <1>0, <1>6, ResetKeepsTypes DEF Interrupt, MonitorExits
<1>7. CASE \/ \E d \in Devices : ChangeSnooze(d) \/ DeleteDevice(d)
           \/ ResetAll \/ Tick \/ NewDay
  BY <1>7, OutsideKeepsTypes
<1> QED
  BY <1>1, <1>2, <1>3, <1>4, <1>5, <1>6, <1>7 DEF Next

-----------------------------------------------------------------------------
(* The worker's invariant, and the types *)

PInv == WInv /\ PipelineTypeOK

LEMMA PInvStep == PInv /\ [Next]_vars => PInv'
<1> SUFFICES ASSUME PInv, [Next]_vars
             PROVE  PInv'
  OBVIOUS
<1>1. WInv'
  BY WorkerStep, StepKeeps DEF PInv
<1>2. WorkerTypeOK'
  BY <1>1 DEF WInv
<1> QED
  BY <1>1, <1>2, TypesKept DEF PInv

THEOREM PInvHolds == Spec => []PInv
<1>1. Init => PInv
  BY Initially, TypesInitially DEF Init, PInv
<1>2. PInv /\ [Next]_vars => PInv'
  BY PInvStep
<1> QED
  BY <1>1, <1>2, PTL DEF Spec

\* Every variable keeps its type, for all limits, senders and findings.
THEOREM TypeCorrect == Spec => []TypeOK
<1>1. PInv => TypeOK
  BY DEF PInv, WInv, PipelineTypeOK, TypeOK
<1> QED
  BY <1>1, PInvHolds, PTL

\* The pipeline drives the worker only as AlertWorker allows.
THEOREM ImplementsWorker == Spec => SpecWorker
<1>1. Init => InitWorker
  BY DEF Init
<1>2. PInv /\ [Next]_vars => [NextWorker]_workerVars
  BY WorkerStep DEF PInv
<1> QED
  BY <1>1, <1>2, PInvHolds, PTL DEF Spec, SpecWorker

\* Batches are taken in the order they were submitted, none of them twice.
THEOREM OrderKept == Spec => []InOrder
BY ImplementsWorker, WorkerInductive, WInvImplies, PTL

\* Every batch submitted is accounted for.
THEOREM NoBatchVanishes == Spec => []Accounted
BY ImplementsWorker, WorkerInductive, WInvImplies, PTL

\* A thread that was told to end left no batch behind, and shutdown itself
\* removed at most one.
THEOREM DrainedFirst == Spec => []NothingLeftBehind
BY ImplementsWorker, WorkerInductive, WInvImplies, PTL

-----------------------------------------------------------------------------
(* The SMS budget *)

\* Who has read today's budget and not charged it yet.
Charging == {s \in Senders : disp[s].read # "no" /\ disp[s].today}
Used == IF smsUsed = NoRow THEN 0 ELSE smsUsed

\* Each pending charge is reserved by nobody, but there is at most one for
\* each sender, and the last to read saw room for its own.
SmsInv ==
  MaxSegments > 0 =>
    Used + Segments * Cardinality(Charging)
      <= MaxSegments + Segments * Cardinality(Scans)

LEMMA Times ==
  \A k, a, b \in Nat :
    /\ k * a \in Nat
    /\ k * (a + 1) = k * a + k
    /\ a <= b => k * a <= k * b
OBVIOUS

LEMMA SenderCount ==
  /\ IsFiniteSet(Senders) /\ Cardinality(Scans) \in Nat
  /\ \A s \in Senders : Cardinality(Senders \ {s}) = Cardinality(Scans)
  /\ \A S \in SUBSET Senders : IsFiniteSet(S) /\ Cardinality(S) \in Nat
<1>1. /\ IsFiniteSet(Senders) /\ Cardinality(Scans) \in Nat
      /\ Cardinality(Senders) = Cardinality(Scans) + 1
  <2>1. Senders = Scans \cup {Monitor}
    BY DEF Senders
  <2> QED
    BY <2>1, SenderAssumption, FS_AddElement, FS_CardinalityType
<1>2. \A s \in Senders : Cardinality(Senders \ {s}) = Cardinality(Scans)
  BY <1>1, FS_RemoveElement
<1>3. \A S \in SUBSET Senders : IsFiniteSet(S) /\ Cardinality(S) \in Nat
  BY <1>1, FS_Subset, FS_CardinalityType
<1> QED
  BY <1>1, <1>2, <1>3

\* Nobody new is charging and no more is used.
LEMMA ChargingShrinks ==
  ASSUME PipelineTypeOK, PipelineTypeOK', SmsInv,
         Charging' \subseteq Charging, Used' <= Used
  PROVE  SmsInv'
<1>1. /\ Cardinality(Charging) \in Nat /\ Cardinality(Charging') \in Nat
      /\ Cardinality(Charging') <= Cardinality(Charging)
  <2>1. Charging \in SUBSET Senders /\ Charging' \in SUBSET Senders
    BY DEF Charging
  <2> QED
    BY <2>1, SenderCount, FS_Subset
<1>2. Used \in Nat /\ Used' \in Nat /\ Segments \in Nat /\ MaxSegments \in Nat
  BY LimitAssumption DEF Used, PipelineTypeOK
<1>3. /\ Segments * Cardinality(Charging') <= Segments * Cardinality(Charging)
      /\ Segments * Cardinality(Charging') \in Nat
      /\ Segments * Cardinality(Charging) \in Nat
      /\ Segments * Cardinality(Scans) \in Nat
  BY <1>1, <1>2, Times, SenderCount
<1> HIDE DEF Used
<1> QED
  BY <1>2, <1>3 DEF SmsInv

\* One more is about to charge what it found room for.
LEMMA ReadKeepsBudget ==
  ASSUME PipelineTypeOK, PipelineTypeOK', SmsInv, NEW s \in Senders, ReadSms(s)
  PROVE  SmsInv'
<1>1. s \notin Charging /\ smsUsed' = smsUsed
  BY DEF ReadSms, Charging
<1>2. \A t \in Senders \ {s} : disp'[t] = disp[t]
  BY DEF ReadSms, PipelineTypeOK
<1>3. CASE SmsAffordable /\ MaxSegments > 0
  <2>1. Charging' \subseteq Charging \cup {s}
    BY <1>2 DEF Charging
  <2>2. /\ Charging \in SUBSET (Senders \ {s})
        /\ IsFiniteSet(Senders \ {s})
    BY <1>1, SenderCount DEF Charging
  <2>3. Cardinality(Charging) <= Cardinality(Scans)
    BY <2>2, SenderCount, FS_Subset
  <2>4. IsFiniteSet(Charging) /\ Cardinality(Charging) \in Nat
    BY SenderCount DEF Charging
  <2>5. /\ IsFiniteSet(Charging \cup {s})
        /\ Cardinality(Charging \cup {s}) = Cardinality(Charging) + 1
    BY <1>1, <2>4, FS_AddElement
  <2>6. /\ Cardinality(Charging') \in Nat
        /\ Cardinality(Charging') <= Cardinality(Scans) + 1
    <3>1. Charging' \in SUBSET Senders
      BY DEF Charging
    <3>2. Cardinality(Charging') <= Cardinality(Charging \cup {s})
      BY <2>1, <2>5, FS_Subset
    <3> QED
      BY <3>1, <3>2, <2>3, <2>4, <2>5, SenderCount
  <2>7. /\ Segments * Cardinality(Charging') <= Segments * (Cardinality(Scans) + 1)
        /\ Segments * (Cardinality(Scans) + 1) = Segments * Cardinality(Scans) + Segments
        /\ Segments * Cardinality(Charging') \in Nat
        /\ Segments * Cardinality(Scans) \in Nat
    BY <2>6, Times, SenderCount, LimitAssumption
  <2>8. Used' = Used /\ Used \in Nat /\ Used + Segments <= MaxSegments
    BY <1>1, <1>3 DEF Used, SmsAffordable, PipelineTypeOK
  <2> QED
    BY <2>7, <2>8, LimitAssumption DEF SmsInv
<1>4. CASE ~(SmsAffordable /\ MaxSegments > 0)
  <2>1. disp'[s].read = "no"
    <3>1. disp[s] \in Dispatch /\ disp[s].read = "no"
      BY DEF ReadSms, PipelineTypeOK, Dispatch
    <3> QED
      BY <1>4, <3>1 DEF ReadSms, PipelineTypeOK, Dispatch
  <2>2. Charging' \subseteq Charging
    BY <1>2, <2>1 DEF Charging
  <2>3. Used' <= Used
    BY <1>1 DEF Used, PipelineTypeOK
  <2> QED
    BY <2>2, <2>3, ChargingShrinks
<1> QED
  BY <1>3, <1>4

\* A charge is booked: what was pending is used.
LEMMA ChargeKeepsBudget ==
  ASSUME PipelineTypeOK, PipelineTypeOK', SmsInv, NEW s \in Senders, ChargeSms(s)
  PROVE  SmsInv'
<1>1. /\ disp'[s].read = "no" /\ disp[s].read # "no"
      /\ \A t \in Senders \ {s} : disp'[t] = disp[t]
  BY DEF ChargeSms, PipelineTypeOK
<1>2. CASE ~disp[s].today
  <2>1. Charging' \subseteq Charging
    BY <1>1 DEF Charging
  <2>2. Used' <= Used
    BY <1>2 DEF ChargeSms, Used, PipelineTypeOK
  <2> QED
    BY <2>1, <2>2, ChargingShrinks
<1>3. CASE disp[s].today
  <2>1. s \in Charging /\ Charging' \subseteq Charging \ {s}
    BY <1>1, <1>3 DEF Charging
  <2>2. IsFiniteSet(Charging) /\ Cardinality(Charging) \in Nat
    BY SenderCount DEF Charging
  <2>3. /\ IsFiniteSet(Charging \ {s})
        /\ Cardinality(Charging \ {s}) = Cardinality(Charging) - 1
    BY <2>1, <2>2, FS_RemoveElement
  <2>4. /\ Cardinality(Charging') \in Nat
        /\ Cardinality(Charging') + 1 <= Cardinality(Charging)
    <3>1. Charging' \in SUBSET Senders
      BY DEF Charging
    <3>2. Cardinality(Charging') <= Cardinality(Charging \ {s})
      BY <2>1, <2>3, FS_Subset
    <3> QED
      BY <3>1, <3>2, <2>2, <2>3, SenderCount
  <2>5. /\ Segments * (Cardinality(Charging') + 1) <= Segments * Cardinality(Charging)
        /\ Segments * (Cardinality(Charging') + 1)
             = Segments * Cardinality(Charging') + Segments
        /\ Segments * Cardinality(Charging') \in Nat
        /\ Segments * Cardinality(Charging) \in Nat
        /\ Segments * Cardinality(Scans) \in Nat
    BY <2>2, <2>4, Times, SenderCount, LimitAssumption
  <2>6. Used' = Used + Segments /\ Used \in Nat
    <3>1. disp[s].read = "none" => smsUsed = NoRow
      BY <1>3 DEF ChargeSms
    <3>2. disp[s].read # "none" => disp[s].read = "row" /\ smsUsed # NoRow
      BY <1>1, <1>3 DEF PipelineTypeOK, ChargesWellFormed
    <3>3. smsUsed \in Nat \cup {NoRow} /\ NoRow \notin Nat /\ Segments \in Nat
      BY LimitAssumption DEF PipelineTypeOK, NoRow
    <3>4. CASE disp[s].read = "none"
      <4>1. smsUsed' = Segments
        BY <1>3, <3>4 DEF ChargeSms
      <4> QED
        BY <3>1, <3>3, <3>4, <4>1 DEF Used
    <3>5. CASE disp[s].read # "none"
      <4>1. smsUsed' = smsUsed + Segments
        BY <1>3, <3>5 DEF ChargeSms
      <4>2. smsUsed \in Nat /\ smsUsed' \in Nat
        BY <3>2, <3>3, <3>5, <4>1
      <4> QED
        BY <3>2, <3>3, <3>5, <4>1, <4>2 DEF Used
    <3> QED
      BY <3>4, <3>5
  <2> QED
    BY <2>5, <2>6, LimitAssumption DEF SmsInv
<1> QED
  BY <1>2, <1>3

\* No other step lets a sender begin to charge, or charges anything.
LEMMA OthersKeepBudget ==
  ASSUME PInv, PInv', SmsInv, Next,
         \A s \in Senders : ~ReadSms(s) /\ ~ChargeSms(s)
  PROVE  SmsInv'
<1>0. /\ PipelineTypeOK /\ PipelineTypeOK'
      /\ Monitor \in Senders
      /\ Idle.read = "no" /\ \A fs \in SUBSET Findings : Delivery(fs).read = "no"
  BY DeliveryType DEF PInv, Senders
<1>1. smsUsed' \in {smsUsed, NoRow} => Used' <= Used
  BY <1>0 DEF Used, PipelineTypeOK, NoRow
<1>2. ASSUME smsUsed' \in {smsUsed, NoRow},
             \A s \in Senders :
               disp'[s].read # "no" /\ disp'[s].today =>
                 disp[s].read # "no" /\ disp[s].today
      PROVE  SmsInv'
  <2>1. Charging' \subseteq Charging
    BY <1>2 DEF Charging
  <2> QED
    BY <1>0, <1>1, <1>2, <2>1, ChargingShrinks
<1>3. ASSUME UNCHANGED <<smsUsed, disp>>
      PROVE  SmsInv'
  BY <1>2, <1>3
<1>4. ASSUME NEW s \in Senders, smsUsed' = smsUsed,
             \A t \in Senders \ {s} : disp'[t] = disp[t],
             disp'[s].read = "no"
      PROVE  SmsInv'
  BY <1>2, <1>4
<1>5. ASSUME NEW s \in Senders, NEW fs \in SUBSET Findings, BeginBatch(s, fs)
      PROVE  SmsInv'
  BY <1>3, <1>5 DEF BeginBatch
<1>6. ASSUME NEW s \in Senders, GateStep(s), ~SendInline(s)
      PROVE  SmsInv'
  BY <1>3, <1>6
  DEF GateStep, Suppress, FindDue, LogAlert, ReadWindow, LetThrough, GateDone,
      SendNothing, HandOver
<1>7. ASSUME NEW s \in Senders, SendInline(s)
      PROVE  SmsInv'
  <2>1. disp'[s].read = "no" /\ \A t \in Senders \ {s} : disp'[t] = disp[t]
    BY <1>0, <1>7 DEF SendInline, PipelineTypeOK
  <2> QED
    BY <1>4, <1>7, <2>1 DEF SendInline, GateDone
<1>8. ASSUME NEW s \in Senders, EndDelivery(s), smsUsed' = smsUsed
      PROVE  SmsInv'
  <2>1. disp'[s].read = "no" /\ \A t \in Senders \ {s} : disp'[t] = disp[t]
    BY <1>0, <1>8 DEF EndDelivery, PipelineTypeOK
  <2> QED
    BY <1>4, <1>8, <2>1
<1>9. ASSUME NEW s \in Senders, Push(s)
      PROVE  SmsInv'
  <2>1. /\ disp'[s].read = disp[s].read /\ disp'[s].today = disp[s].today
        /\ \A t \in Senders \ {s} : disp'[t] = disp[t]
    <3>1. disp \in [Senders -> Dispatch]
      BY <1>0 DEF PipelineTypeOK, Dispatch
    <3>2. disp' = [disp EXCEPT ![s].channel = @ + 1]
      BY <1>9 DEF Push
    <3>3. /\ disp'[s] = [disp[s] EXCEPT !.channel = disp[s].channel + 1]
          /\ \A t \in Senders \ {s} : disp'[t] = disp[t]
      BY <3>1, <3>2
    <3>4. disp[s] \in Dispatch
      BY <3>1
    <3>5. disp'[s].read = disp[s].read
      BY <3>3, <3>4 DEF Dispatch
    <3>6. disp'[s].today = disp[s].today
      BY <3>3, <3>4 DEF Dispatch
    <3> QED
      BY <3>3, <3>5, <3>6
  <2> QED
    BY <1>2, <1>9, <2>1 DEF Push
<1>10. CASE TakeBatch
  <2>1. inHand'.findings \in SUBSET Findings
    <3>1. inHand' \in Batch \cup {Nothing}
      BY DEF PInv, WInv, WorkerTypeOK
    <3> QED
      BY <3>1 DEF Batch, Nothing
  <2>2. disp'[Monitor].read = "no" /\ \A t \in Senders \ {Monitor} : disp'[t] = disp[t]
    BY <1>0, <1>10, <2>1 DEF TakeBatch, PipelineTypeOK
  <2> QED
    BY <1>0, <1>4, <1>10, <2>2 DEF TakeBatch
<1>11. ASSUME NEW s \in Senders,
              disp' = disp \/ disp' = [disp EXCEPT ![s] = Idle], smsUsed' = smsUsed
       PROVE  SmsInv'
  <2>1. CASE disp' = disp
    BY <1>3, <1>11, <2>1
  <2>2. CASE disp' = [disp EXCEPT ![s] = Idle]
    <3>1. disp'[s].read = "no" /\ \A t \in Senders \ {s} : disp'[t] = disp[t]
      BY <1>0, <2>2 DEF PipelineTypeOK
    <3> QED
      BY <1>4, <1>11, <3>1
  <2> QED
    BY <1>11, <2>1, <2>2
<1>12. CASE NewDay
  <2>1. \A t \in Senders : disp'[t].today = FALSE
    <3>1. disp \in [Senders -> Dispatch]
      BY <1>0 DEF PipelineTypeOK, Dispatch
    <3> QED
      BY <1>12, <3>1 DEF NewDay, Dispatch
  <2> QED
    BY <1>2, <1>12, <2>1 DEF NewDay
<1>13. ASSUME NEW s \in Senders, DeliveryStep(s)
       PROVE  SmsInv'
  BY <1>8, <1>9, <1>13 DEF DeliveryStep, PushRaises, ChargeRaises, SmsRaises, DeliveryDone
<1>14. ASSUME NEW s \in Senders, ScanDies(s)
       PROVE  SmsInv'
  BY <1>11, <1>14 DEF ScanDies
<1>15. CASE Interrupt \/ MonitorExits
  BY <1>0, <1>11, <1>15 DEF Interrupt, MonitorExits
<1>16. CASE StopThread \/ OpenStore \/ NextMonitor
  BY <1>3, <1>16 DEF StopThread, OpenStore, NextMonitor, Elsewhere
<1>17. CASE \/ \E d \in Devices : ChangeSnooze(d) \/ DeleteDevice(d)
            \/ ResetAll \/ Tick
  BY <1>3, <1>17 DEF ChangeSnooze, DeleteDevice, ResetAll, Tick
<1> QED
  BY <1>5, <1>6, <1>7, <1>10, <1>12, <1>13, <1>14, <1>15, <1>16, <1>17 DEF Next

\* The SMS budget of a day is overrun by at most one message of each sender
\* but one: the monitor alone never overruns it.
THEOREM BudgetOverrun == Spec => []SmsOverrunBounded
<1>1. Init => SmsInv
  <2> SUFFICES ASSUME Init
               PROVE  SmsInv
    OBVIOUS
  <2>1. Charging = {}
    BY DEF Init, Charging, Idle
  <2>2. Used = 0 /\ Segments * Cardinality(Charging) = 0
    BY <2>1, FS_EmptySet, LimitAssumption DEF Init, Used
  <2>3. Segments * Cardinality(Scans) \in Nat
    BY Times, SenderCount, LimitAssumption
  <2> QED
    BY <2>2, <2>3, LimitAssumption DEF SmsInv
<1>2. PInv /\ PInv' /\ SmsInv /\ [Next]_vars => SmsInv'
  <2> SUFFICES ASSUME PInv, PInv', SmsInv, [Next]_vars
               PROVE  SmsInv'
    OBVIOUS
  <2>1. PipelineTypeOK /\ PipelineTypeOK'
    BY DEF PInv
  <2>2. CASE UNCHANGED vars
    BY <2>2 DEF vars, SmsInv, Used, Charging
  <2>3. CASE \E s \in Senders : ReadSms(s) \/ ChargeSms(s)
    BY <2>1, <2>3, ReadKeepsBudget, ChargeKeepsBudget
  <2> QED
    BY <2>2, <2>3, OthersKeepBudget
<1>3. PInv /\ SmsInv => SmsOverrunBounded
  <2> SUFFICES ASSUME PInv, SmsInv, MaxSegments > 0
               PROVE  smsUsed <= MaxSegments + Segments * Cardinality(Scans)
    BY DEF SmsOverrunBounded
  <2>1. /\ Segments * Cardinality(Charging) \in Nat
        /\ Segments * Cardinality(Scans) \in Nat
    BY Times, SenderCount, LimitAssumption DEF Charging
  <2>2. smsUsed <= Used /\ smsUsed \in Int /\ Used \in Nat
    BY DEF PInv, PipelineTypeOK, Used, NoRow
  <2> QED
    BY <2>1, <2>2, LimitAssumption DEF SmsInv
<1> QED
  BY <1>1, <1>2, <1>3, PInvHolds, PTL DEF Spec

-----------------------------------------------------------------------------
(* The cooldown, when the monitor is the only sender *)

Later == {"cap", "open", "count", "pass"}

\* What was let through last under the key of f allows f.
MaySend(f) ==
  sent[Key(f)].age >= f.cooldown \/ sent[Key(f)].sev < f.sev

\* The row of a key is at least as new as what was let through last, and
\* within the cooldown at least as severe.
RowCovers ==
  /\ \A k \in Keys : alertLog[k].age <= sent[k].age
  /\ \A f \in Findings :
       sent[Key(f)].age < f.cooldown => sent[Key(f)].sev <= alertLog[Key(f)].sev

\* The finding the monitor is deciding about may be sent, and from where it
\* is recorded the row says so, unless the operator made it be forgotten.
ItemDue ==
  /\ pc[Monitor] \in {"log"} \cup Later =>
       \A f \in item[Monitor] : f.cooldown > 0 => MaySend(f)
  /\ pc[Monitor] = "log" => \A f \in item[Monitor] : f.cooldown > 0
  /\ pc[Monitor] \in Later =>
       \A f \in item[Monitor] :
         f.cooldown > 0 => alertLog[Key(f)] \in {Never, [age |-> 0, sev |-> f.sev]}

\* It decides about one finding at a time.
OneItem == \A f, g \in item[Monitor] : f = g

CInv == RowCovers /\ ItemDue /\ OneItem

OneSender == Scans = {}
OneCooldown ==
  \A f, g \in Findings : Key(f) = Key(g) => f.cooldown = g.cooldown

LEMMA RowFacts ==
  ASSUME PipelineTypeOK, NEW k \in Keys
  PROVE  /\ alertLog[k].age \in 0..AgeCap /\ alertLog[k].sev \in Int
         /\ sent[k].age \in 0..AgeCap /\ sent[k].sev \in Int
         /\ alertLog[k] \in LogRow /\ sent[k] \in LogRow
         /\ Never.age = AgeCap /\ Never.sev = -1
<1>1. \A row \in LogRow : row.age \in 0..AgeCap /\ row.sev \in Int
  BY LimitAssumption DEF LogRow, Never, Severities, NoRow
<1> QED
  BY <1>1 DEF PipelineTypeOK, Never, NoRow

\* Steps that leave both tables alone and begin no decision.
LEMMA QuietKeepsCooldown ==
  ASSUME CInv, UNCHANGED <<alertLog, sent>>,
         \/ item'[Monitor] = {}
         \/ /\ pc'[Monitor] \notin {"log"} \cup Later
            /\ item'[Monitor] \subseteq item[Monitor]
         \/ /\ item'[Monitor] = item[Monitor]
            /\ \/ pc'[Monitor] = pc[Monitor]
               \/ pc[Monitor] \in Later /\ pc'[Monitor] \in Later
  PROVE  CInv'
<1>1. RowCovers'
  BY DEF CInv, RowCovers
<1>2. \A f : MaySend(f)' <=> MaySend(f)
  BY DEF MaySend
<1>3. ItemDue'
  BY <1>2 DEF CInv, ItemDue, Later
<1> QED
  BY <1>1, <1>3 DEF CInv, OneItem

LEMMA GateKeepsCooldown ==
  ASSUME PInv, CInv, OneCooldown, GateStep(Monitor)
  PROVE  CInv'
<1>0. PipelineTypeOK /\ Monitor \in Senders
  BY DEF PInv, Senders
<1>1. ASSUME NEW f \in Findings, Suppress(Monitor, f)
      PROVE  CInv'
  BY <1>1, QuietKeepsCooldown DEF Suppress, limits, ghosts
<1>2. ASSUME NEW f \in Findings, FindDue(Monitor, f)
      PROVE  CInv'
  <2>1. /\ UNCHANGED <<alertLog, sent>>
        /\ item'[Monitor] = {f}
        /\ pc'[Monitor] = IF f.cooldown = 0 THEN "cap" ELSE "log"
        /\ ~InCooldown(f)
    BY <1>0, <1>2 DEF FindDue, PipelineTypeOK, limits, ghosts
  <2>2. f.cooldown > 0 => MaySend(f)
    <3>1. /\ Key(f) \in Keys /\ f.sev \in Int /\ f.cooldown \in Nat
      BY FindingFacts
    <3>2. /\ alertLog[Key(f)].age \in Int /\ alertLog[Key(f)].sev \in Int
          /\ sent[Key(f)].age \in Int /\ sent[Key(f)].sev \in Int
      BY <1>0, <3>1, RowFacts
    <3>3. /\ alertLog[Key(f)].age <= sent[Key(f)].age
          /\ sent[Key(f)].age < f.cooldown => sent[Key(f)].sev <= alertLog[Key(f)].sev
      BY <3>1 DEF CInv, RowCovers
    <3> QED
      BY <2>1, <3>1, <3>2, <3>3 DEF InCooldown, MaySend
  <2>3. RowCovers'
    BY <2>1 DEF CInv, RowCovers
  <2>4. MaySend(f)' <=> MaySend(f)
    BY <2>1 DEF MaySend
  <2>5. f.cooldown \in Nat
    BY FindingFacts
  <2>6. ItemDue'
    BY <2>1, <2>2, <2>4, <2>5 DEF ItemDue, Later
  <2> QED
    BY <2>1, <2>3, <2>6 DEF CInv, OneItem
<1>3. CASE LogAlert(Monitor)
  <2>1. PICK f \in item[Monitor] :
          alertLog' = [alertLog EXCEPT ![Key(f)] = [age |-> 0, sev |-> f.sev]]
    BY <1>3 DEF LogAlert
  <2>2. f \in Findings /\ Key(f) \in Keys /\ f.sev \in Int /\ f.cooldown \in Nat
    BY <1>0, FindingFacts DEF PipelineTypeOK
  <2>3. /\ alertLog'[Key(f)] = [age |-> 0, sev |-> f.sev]
        /\ \A k \in Keys \ {Key(f)} : alertLog'[k] = alertLog[k]
        /\ sent' = sent
    BY <1>0, <1>3, <2>1, <2>2 DEF PipelineTypeOK, LogAlert, ghosts
  <2>4. MaySend(f) /\ f.cooldown > 0
    BY <1>3 DEF CInv, ItemDue, LogAlert
  <2>5. RowCovers'
    <3>1. ASSUME NEW k \in Keys
          PROVE  alertLog'[k].age <= sent'[k].age
      <4>1. sent[k].age \in 0..AgeCap /\ alertLog[k].age <= sent[k].age
        BY <1>0, RowFacts DEF CInv, RowCovers
      <4> QED
        BY <2>3, <4>1, LimitAssumption
    <3>2. ASSUME NEW g \in Findings, sent'[Key(g)].age < g.cooldown
          PROVE  sent'[Key(g)].sev <= alertLog'[Key(g)].sev
      <4>0. Key(g) \in Keys /\ g.cooldown \in 0..AgeCap
        BY FindingFacts
      <4>1. CASE Key(g) = Key(f)
        <5>1. g.cooldown = f.cooldown
          BY <2>2, <4>1 DEF OneCooldown
        <5>2. sent[Key(f)].age \in Int /\ sent[Key(f)].sev \in Int
          BY <1>0, <2>2, RowFacts
        <5>3. sent[Key(f)].sev < f.sev
          BY <2>2, <2>3, <2>4, <3>2, <4>1, <5>1, <5>2 DEF MaySend
        <5> QED
          BY <2>2, <2>3, <4>1, <5>2, <5>3
      <4>2. CASE Key(g) # Key(f)
        BY <2>3, <3>2, <4>0, <4>2 DEF CInv, RowCovers
      <4> QED
        BY <4>1, <4>2
    <3> QED
      BY <3>1, <3>2 DEF RowCovers
  <2>6. ItemDue'
    <3>1. item' = item /\ pc'[Monitor] = "cap" /\ pc[Monitor] = "log"
      BY <1>0, <1>3 DEF LogAlert, PipelineTypeOK
    <3>2. ASSUME NEW g \in item[Monitor], g.cooldown > 0
          PROVE  MaySend(g)'
      BY <2>3, <3>1, <3>2 DEF CInv, ItemDue, MaySend
    <3>3. ASSUME NEW g \in item[Monitor]
          PROVE  alertLog'[Key(g)] \in {Never, [age |-> 0, sev |-> g.sev]}
      BY <2>3, <3>1, <3>3 DEF CInv, OneItem
    <3> QED
      BY <3>1, <3>2, <3>3 DEF ItemDue, Later
  <2> QED
    BY <1>3, <2>5, <2>6 DEF CInv, OneItem, LogAlert
<1>4. CASE ReadWindow(Monitor)
  <2>1. /\ UNCHANGED <<alertLog, sent>>
        /\ pc[Monitor] = "cap"
        /\ \/ pc'[Monitor] = "gate" /\ item'[Monitor] = {}
           \/ pc'[Monitor] \in Later /\ item'[Monitor] = item[Monitor]
    BY <1>0, <1>4 DEF ReadWindow, PipelineTypeOK, Later, limits, ghosts
  <2>2. "gate" \notin {"log"} \cup Later /\ "cap" \in Later
    BY DEF Later
  <2> QED
    BY <2>1, <2>2, QuietKeepsCooldown
<1>5. CASE LetThrough(Monitor)
  <2>1. /\ pc[Monitor] \in Later
        /\ pc'[Monitor] = "gate" /\ alertLog' = alertLog
        /\ item'[Monitor] = {}
    BY <1>0, <1>5 DEF LetThrough, PipelineTypeOK, Later
  <2>2. PICK f \in item[Monitor] :
          sent' = IF f.cooldown > 0 /\ alertLog[Key(f)] # Never
                  THEN [sent EXCEPT ![Key(f)] = [age |-> 0, sev |-> f.sev]]
                  ELSE sent
    BY <1>5 DEF LetThrough
  <2>3. ItemDue' /\ OneItem'
    BY <2>1 DEF ItemDue, OneItem, Later
  <2>4. CASE sent' = sent
    BY <2>1, <2>3, <2>4 DEF CInv, RowCovers
  <2>5. CASE f.cooldown > 0 /\ alertLog[Key(f)] # Never
    <3>1. f \in Findings /\ Key(f) \in Keys /\ f.sev \in Int
      BY <1>0, FindingFacts DEF PipelineTypeOK
    <3>2. alertLog[Key(f)] = [age |-> 0, sev |-> f.sev]
      BY <2>1, <2>5 DEF CInv, ItemDue
    <3>3. /\ sent'[Key(f)] = [age |-> 0, sev |-> f.sev]
          /\ \A k \in Keys \ {Key(f)} : sent'[k] = sent[k]
      BY <1>0, <2>2, <2>5, <3>1 DEF PipelineTypeOK
    <3>4. \A g \in Findings : Key(g) \in Keys
      BY FindingFacts
    <3>5. RowCovers'
      BY <2>1, <3>1, <3>2, <3>3, <3>4 DEF CInv, RowCovers
    <3> QED
      BY <2>3, <3>5 DEF CInv
  <2> QED
    BY <2>2, <2>4, <2>5
<1>6. CASE SendNothing(Monitor) \/ HandOver
  <2>1. /\ UNCHANGED <<alertLog, sent>>
        /\ pc'[Monitor] = "idle" /\ item' = item
    BY <1>0, <1>6
    DEF SendNothing, HandOver, GateDone, PipelineTypeOK, limits, ghosts
  <2> QED
    BY <2>1, QuietKeepsCooldown DEF Later
<1> QED
  BY <1>1, <1>2, <1>3, <1>4, <1>5, <1>6 DEF GateStep, SendInline

\* What the operator forgets, and time, in both tables alike.
LEMMA OutsideKeepsCooldown ==
  ASSUME PInv, CInv, OneSender,
         \/ \E d \in Devices : ChangeSnooze(d) \/ DeleteDevice(d)
         \/ ResetAll \/ Tick \/ NewDay
  PROVE  CInv'
<1>0. /\ PipelineTypeOK /\ Monitor \in Senders
      /\ \A f \in Findings : Key(f) \in Keys /\ f.cooldown \in Nat /\ f.cooldown <= AgeCap
      /\ AgeCap \in Nat
      /\ Never.age = AgeCap /\ Never.sev = -1
  BY FindingFacts, LimitAssumption DEF PInv, Senders, Never, NoRow
<1>1. CASE NewDay \/ \E d \in Devices : ChangeSnooze(d)
  BY <1>1, QuietKeepsCooldown DEF NewDay, ChangeSnooze, limits, gate, ghosts
<1>2. ASSUME NEW forgotten \in SUBSET Keys, UNCHANGED <<pc, item>>,
             alertLog' = [k \in Keys |-> IF k \in forgotten THEN Never ELSE alertLog[k]],
             sent' = [k \in Keys |-> IF k \in forgotten THEN Never ELSE sent[k]]
      PROVE  CInv'
  <2>1. RowCovers'
    BY <1>0, <1>2 DEF CInv, RowCovers
  <2>2. ASSUME NEW f \in Findings, MaySend(f)
        PROVE  MaySend(f)'
    BY <1>0, <1>2, <2>2 DEF MaySend
  <2>3. item[Monitor] \subseteq Findings
    BY <1>0 DEF PipelineTypeOK
  <2>4. ItemDue'
    BY <1>0, <1>2, <2>2, <2>3 DEF CInv, ItemDue
  <2> QED
    BY <1>2, <2>1, <2>4 DEF CInv, OneItem
<1>3. ASSUME NEW d \in Devices, DeleteDevice(d)
      PROVE  CInv'
  <2>1. /\ UNCHANGED <<pc, item>>
        /\ alertLog' = [k \in Keys |-> IF k \in {<<"device", d, 0>>} \cap Keys
                                       THEN Never ELSE alertLog[k]]
        /\ sent' = [k \in Keys |-> IF k \in {<<"device", d, 0>>} \cap Keys
                                   THEN Never ELSE sent[k]]
    BY <1>3 DEF DeleteDevice, gate
  <2> QED
    BY <1>2, <2>1
<1>4. CASE ResetAll
  <2>1. /\ UNCHANGED <<pc, item>>
        /\ alertLog' = [k \in Keys |-> IF k \in Keys THEN Never ELSE alertLog[k]]
        /\ sent' = [k \in Keys |-> IF k \in Keys THEN Never ELSE sent[k]]
    BY <1>4 DEF ResetAll
  <2> QED
    BY <1>2, <2>1
<1>5. CASE Tick
  <2>1. pc[Monitor] \notin {"log"} \cup Later /\ UNCHANGED <<pc, item>>
    BY <1>0, <1>5 DEF Tick, Later, gate
  <2>2. ASSUME NEW k \in Keys
        PROVE  /\ alertLog'[k].age = Older(alertLog[k].age)
               /\ alertLog'[k].sev = alertLog[k].sev
               /\ sent'[k].age = Older(sent[k].age)
               /\ sent'[k].sev = sent[k].sev
    <3>1. \A row \in LogRow : Aged(row).age = Older(row.age) /\ Aged(row).sev = row.sev
      BY DEF Aged, LogRow, Never
    <3>2. alertLog[k] \in LogRow /\ sent[k] \in LogRow
      BY <1>0, RowFacts
    <3>3. alertLog'[k] = Aged(alertLog[k]) /\ sent'[k] = Aged(sent[k])
      BY <1>5 DEF Tick
    <3> QED
      BY <3>1, <3>2, <3>3
  <2>3. \A a, b \in 0..AgeCap : a <= b => Older(a) <= Older(b)
    BY <1>0 DEF Older
  <2>4. \A a \in 0..AgeCap, c \in Nat : c <= AgeCap /\ Older(a) < c => a < c
    BY <1>0 DEF Older
  <2>5. \A k \in Keys : alertLog[k].age \in 0..AgeCap /\ sent[k].age \in 0..AgeCap
    BY <1>0, RowFacts
  <2>6. RowCovers'
    BY <1>0, <2>2, <2>3, <2>4, <2>5 DEF CInv, RowCovers
  <2>7. ItemDue'
    BY <2>1 DEF ItemDue, Later
  <2> QED
    BY <2>1, <2>6, <2>7 DEF CInv, OneItem
<1> QED
  BY <1>1, <1>3, <1>4, <1>5

LEMMA StepKeepsCooldown == PInv /\ CInv /\ OneSender /\ OneCooldown /\ [Next]_vars => CInv'
<1> SUFFICES ASSUME PInv, CInv, OneSender, OneCooldown, [Next]_vars
             PROVE  CInv'
  OBVIOUS
<1>0. PipelineTypeOK /\ Senders = {Monitor}
  BY DEF PInv, Senders, OneSender
<1>1. ASSUME NEW fs \in SUBSET Findings, BeginBatch(Monitor, fs)
      PROVE  CInv'
  <2>1. pc'[Monitor] = "gate" /\ UNCHANGED <<alertLog, sent, item>>
    BY <1>0, <1>1 DEF BeginBatch, PipelineTypeOK, limits, ghosts
  <2> QED
    BY <2>1, QuietKeepsCooldown DEF Later
<1>2. CASE GateStep(Monitor)
  BY <1>2, GateKeepsCooldown
<1>3. CASE DeliveryStep(Monitor)
  <2>1. UNCHANGED <<alertLog, sent, pc, item>>
    BY <1>3
    DEF DeliveryStep, Push, PushRaises, ReadSms, ChargeSms, ChargeRaises,
        SmsRaises, DeliveryDone, EndDelivery, limits, gate, ghosts
  <2> QED
    BY <2>1, QuietKeepsCooldown
<1>4. CASE TakeBatch \/ StopThread \/ OpenStore \/ NextMonitor \/ UNCHANGED vars
  <2>1. UNCHANGED <<alertLog, sent, pc, item>>
    BY <1>4
    DEF TakeBatch, StopThread, OpenStore, NextMonitor, Elsewhere, vars, limits,
        gate, ghosts
  <2> QED
    BY <2>1, QuietKeepsCooldown
<1>5. CASE Interrupt \/ MonitorExits
  <2>1. UNCHANGED <<alertLog, sent>> /\ item'[Monitor] = {}
    BY <1>0, <1>5
    DEF Interrupt, MonitorExits, GateReset, PipelineTypeOK, limits, ghosts
  <2> QED
    BY <2>1, QuietKeepsCooldown
<1>6. CASE \/ \E d \in Devices : ChangeSnooze(d) \/ DeleteDevice(d)
           \/ ResetAll \/ Tick \/ NewDay
  BY <1>6, OutsideKeepsCooldown
<1>7. ~ScanDies(Monitor)
  BY DEF ScanDies
<1> QED
  BY <1>0, <1>1, <1>2, <1>3, <1>4, <1>5, <1>6, <1>7 DEF Next

\* Only LetThrough lets anything through, and what it does was due.
LEMMA OnlyWhatIsDue ==
  ASSUME PInv, CInv, OneSender, Next,
         NEW s \in Senders, NEW f \in passed'[s] \ passed[s], f.cooldown > 0
  PROVE  MaySend(f)
<1>0. PipelineTypeOK /\ s = Monitor /\ Senders = {Monitor}
  BY DEF PInv, Senders, OneSender
<1>1. CASE LetThrough(Monitor)
  <2>1. passed'[Monitor] = passed[Monitor] \cup item[Monitor]
    BY <1>0, <1>1 DEF LetThrough, PipelineTypeOK
  <2>2. f \in item[Monitor]
    BY <1>0, <2>1
  <2> QED
    BY <1>1, <2>2 DEF CInv, ItemDue, LetThrough, Later
<1>2. CASE ~LetThrough(Monitor)
  <2>1. passed'[Monitor] \in {passed[Monitor], {}}
    <3>1. ASSUME NEW fs \in SUBSET Findings, BeginBatch(Monitor, fs)
          PROVE  passed'[Monitor] \in {passed[Monitor], {}}
      BY <1>0, <3>1 DEF BeginBatch, PipelineTypeOK
    <3>2. CASE GateStep(Monitor)
      BY <1>0, <1>2, <3>2
      DEF GateStep, Suppress, FindDue, LogAlert, ReadWindow, SendNothing,
          SendInline, HandOver, GateDone, PipelineTypeOK
    <3>3. CASE DeliveryStep(Monitor)
      BY <3>3
      DEF DeliveryStep, Push, PushRaises, ReadSms, ChargeSms, ChargeRaises,
          SmsRaises, DeliveryDone, EndDelivery, gate
    <3>4. CASE TakeBatch \/ StopThread \/ OpenStore \/ NextMonitor
      BY <3>4 DEF TakeBatch, StopThread, OpenStore, NextMonitor, Elsewhere, gate
    <3>5. CASE Interrupt \/ MonitorExits
      BY <1>0, <3>5 DEF Interrupt, MonitorExits, GateReset, PipelineTypeOK
    <3>6. CASE \/ \E d \in Devices : ChangeSnooze(d) \/ DeleteDevice(d)
               \/ ResetAll \/ Tick \/ NewDay
      BY <3>6 DEF ChangeSnooze, DeleteDevice, ResetAll, Tick, NewDay, gate
    <3>7. ~ScanDies(Monitor)
      BY DEF ScanDies
    <3> QED
      BY <1>0, <3>1, <3>2, <3>3, <3>4, <3>5, <3>6, <3>7 DEF Next
  <2> QED
    BY <1>0, <2>1
<1> QED
  BY <1>1, <1>2

\* The monitor alone keeps every cooldown, whatever its restarts, as long as
\* the findings of one key have one cooldown.
THEOREM CooldownCorrect ==
  ASSUME OneSender, OneCooldown
  PROVE  Spec => CooldownKept
<1>1. Init => CInv
  <2> SUFFICES ASSUME Init
               PROVE  CInv
    OBVIOUS
  <2>1. \A f \in Findings : Key(f) \in Keys
    BY FindingFacts
  <2>2. Monitor \in Senders /\ Never.age \in Int /\ Never.sev \in Int
    BY LimitAssumption DEF Senders, Never, NoRow
  <2> QED
    BY <2>1, <2>2 DEF Init, CInv, RowCovers, ItemDue, OneItem
<1>2. PInv /\ CInv /\ [Next]_vars => CInv'
  BY StepKeepsCooldown
<1>3. PInv /\ CInv /\ [Next]_vars =>
        [\A s \in Senders : \A f \in passed'[s] \ passed[s] :
           \/ f.cooldown = 0
           \/ sent[Key(f)].age >= f.cooldown
           \/ sent[Key(f)].sev < f.sev]_vars
  <2> SUFFICES ASSUME PInv, CInv, Next,
                      NEW s \in Senders, NEW f \in passed'[s] \ passed[s],
                      f.cooldown # 0
               PROVE  MaySend(f)
    BY DEF MaySend
  <2>1. PipelineTypeOK'
    BY PInvStep DEF PInv
  <2>2. f \in Findings
    BY <2>1 DEF PipelineTypeOK
  <2>3. f.cooldown > 0
    <3>1. f.cooldown \in Nat
      BY <2>2, FindingFacts
    <3>2. \A n \in Nat : n # 0 => n > 0
      OBVIOUS
    <3> QED
      BY <3>1, <3>2
  <2> QED
    BY <2>3, OnlyWhatIsDue
<1> QED
  BY <1>1, <1>2, <1>3, PInvHolds, PTL DEF Spec, CooldownKept

-----------------------------------------------------------------------------
(* The global cap *)

Deciding == {"gate", "log", "cap"}

\* What the current window knows is all that was let through since it began,
\* and one before it was full at most; a window that is over begins anew only
\* in a later tick.
WindowKnows ==
  MaxPerWindow > 0 =>
    /\ window.count <= MaxPerWindow
    /\ \A a \in 0..AgeCap : a <= window.age => recent[a] <= window.count
    /\ \A a \in 0..Window : recent[a] <= window.count + MaxPerWindow
    /\ window.age >= Window => recent[0] = 0

\* The window is as it was read, unless everything was reset since.
WindowAsRead ==
  MaxPerWindow > 0 =>
    /\ pc[Monitor] = "count" =>
         window = NoWindow \/ (window.age < Window /\ window.count < MaxPerWindow)
    /\ pc[Monitor] = "open" => window.age >= Window

\* Once it has refused a finding, the cap refuses the rest of the batch.
StaysFull ==
  refused[Monitor] # {} =>
    /\ MaxPerWindow > 0 /\ window.age < Window /\ window.count >= MaxPerWindow
    /\ pc[Monitor] \in Deciding

\* A batch is gone through from the highest severity down.
Descending ==
  /\ \A f \in passed[Monitor], g \in pending[Monitor] \cup item[Monitor] \cup refused[Monitor] :
       g.sev <= f.sev
  /\ \A f \in item[Monitor], g \in pending[Monitor] : g.sev <= f.sev

\* Between decisions there is no finding in hand.
EmptyHanded == pc[Monitor] \in {"idle", "gate", "sending"} => item[Monitor] = {}

CapInv == WindowKnows /\ WindowAsRead /\ StaysFull /\ Descending /\ EmptyHanded

LEMMA CapFacts ==
  ASSUME PipelineTypeOK
  PROVE  /\ Monitor \in Senders
         /\ AgeCap \in Nat /\ MaxPerWindow \in Nat /\ Window \in Nat
         /\ 0 < Window /\ Window < AgeCap
         /\ window.age \in 0..AgeCap /\ window.count \in Nat
         /\ \A a \in 0..AgeCap : recent[a] \in Nat
         /\ NoWindow.age = AgeCap /\ NoWindow.count = 0
BY LimitAssumption DEF PipelineTypeOK, Senders, NoWindow

\* Steps after which the monitor decides nothing.
LEMMA IdleKeepsCap ==
  ASSUME CapInv, UNCHANGED <<window, recent>>,
         pc'[Monitor] \notin {"count", "open"},
         item'[Monitor] = {}, passed'[Monitor] = {}, refused'[Monitor] = {}
  PROVE  CapInv'
<1>1. WindowKnows' /\ WindowAsRead' /\ StaysFull'
  BY DEF CapInv, WindowKnows, WindowAsRead, StaysFull
<1>2. Descending' /\ EmptyHanded'
  BY DEF CapInv, Descending, EmptyHanded
<1> QED
  BY <1>1, <1>2 DEF CapInv

\* Steps that leave all of it alone.
LEMMA OtherKeepsCap ==
  ASSUME CapInv, UNCHANGED <<window, recent, gate>>
  PROVE  CapInv'
BY DEF CapInv, WindowKnows, WindowAsRead, StaysFull, Descending, EmptyHanded, gate

LEMMA GateKeepsCap ==
  ASSUME PipelineTypeOK, CapInv, GateStep(Monitor)
  PROVE  CapInv'
<1>0. Monitor \in Senders
  BY CapFacts
<1>s. \A f \in Findings : f.sev \in Int
  BY FindingFacts
<1>1. ASSUME NEW f \in Findings, Suppress(Monitor, f)
      PROVE  CapInv'
  <2>1. /\ pending'[Monitor] \subseteq pending[Monitor]
        /\ UNCHANGED <<window, recent, pc, item, passed, refused>>
    BY <1>0, <1>1 DEF Suppress, PipelineTypeOK, limits, ghosts
  <2>2. WindowKnows' /\ WindowAsRead' /\ StaysFull'
    BY <2>1 DEF CapInv, WindowKnows, WindowAsRead, StaysFull
  <2>3. Descending' /\ EmptyHanded'
    BY <2>1 DEF CapInv, Descending, EmptyHanded
  <2> QED
    BY <2>2, <2>3 DEF CapInv
<1>2. ASSUME NEW f \in Findings, FindDue(Monitor, f)
      PROVE  CapInv'
  <2>1. /\ pending'[Monitor] \subseteq pending[Monitor] /\ item'[Monitor] = {f}
        /\ f \in pending[Monitor] /\ \A g \in pending[Monitor] : g.sev <= f.sev
        /\ UNCHANGED <<window, recent, passed, refused>>
        /\ pc'[Monitor] \in {"log", "cap"}
    BY <1>0, <1>2 DEF FindDue, Foremost, PipelineTypeOK, limits, ghosts
  <2>2. WindowKnows' /\ WindowAsRead' /\ StaysFull'
    BY <2>1 DEF CapInv, WindowKnows, WindowAsRead, StaysFull, Deciding
  <2>3. Descending' /\ EmptyHanded'
    BY <2>1 DEF CapInv, Descending, EmptyHanded
  <2> QED
    BY <2>2, <2>3 DEF CapInv
<1>3. CASE LogAlert(Monitor)
  <2>1. /\ UNCHANGED <<window, recent, pending, item, passed, refused>>
        /\ pc'[Monitor] = "cap"
    BY <1>0, <1>3 DEF LogAlert, PipelineTypeOK, ghosts
  <2>2. WindowKnows' /\ WindowAsRead' /\ StaysFull'
    BY <2>1 DEF CapInv, WindowKnows, WindowAsRead, StaysFull, Deciding
  <2> QED
    BY <2>1, <2>2 DEF CapInv, Descending, EmptyHanded
<1>4. CASE ReadWindow(Monitor)
  <2>0. /\ UNCHANGED <<window, recent, pending, passed>>
        /\ pc[Monitor] = "cap"
        /\ MaxPerWindow \in Nat /\ Window \in Nat
        /\ window.age \in Nat /\ window.count \in Nat
    BY <1>4, CapFacts DEF ReadWindow, limits, ghosts
  <2>1. WindowKnows'
    BY <2>0 DEF CapInv, WindowKnows
  <2>2. CASE pc'[Monitor] = "gate"
    <3>1. /\ refused'[Monitor] = refused[Monitor] \cup item[Monitor] /\ item'[Monitor] = {}
          /\ MaxPerWindow > 0 /\ window.age < Window /\ window.count >= MaxPerWindow
      BY <1>0, <1>4, <2>0, <2>2 DEF ReadWindow, PipelineTypeOK
    <3>2. WindowAsRead' /\ StaysFull'
      BY <2>0, <2>2, <3>1 DEF CapInv, WindowAsRead, StaysFull, Deciding
    <3>3. Descending' /\ EmptyHanded'
      BY <2>0, <3>1 DEF CapInv, Descending, EmptyHanded
    <3> QED
      BY <2>1, <3>2, <3>3 DEF CapInv
  <2>3. CASE pc'[Monitor] # "gate"
    <3>1. refused'[Monitor] = refused[Monitor] /\ item'[Monitor] = item[Monitor]
      BY <1>0, <1>4, <2>0, <2>3 DEF ReadWindow, PipelineTypeOK
    <3>2. /\ pc'[Monitor] = "open" => window.age >= Window
          /\ pc'[Monitor] = "count" => window.age < Window /\ window.count < MaxPerWindow
          /\ ~(MaxPerWindow > 0 /\ window.age < Window /\ window.count >= MaxPerWindow)
          /\ pc'[Monitor] \in {"open", "count", "pass"}
      BY <1>0, <1>4, <2>0, <2>3 DEF ReadWindow, PipelineTypeOK
    <3>3. WindowAsRead' /\ StaysFull'
      BY <2>0, <3>1, <3>2 DEF CapInv, WindowAsRead, StaysFull
    <3>4. Descending' /\ EmptyHanded'
      BY <2>0, <3>1, <3>2 DEF CapInv, Descending, EmptyHanded
    <3> QED
      BY <2>1, <3>3, <3>4 DEF CapInv
  <2> QED
    BY <2>2, <2>3
<1>5. CASE LetThrough(Monitor)
  <2>0. /\ pc[Monitor] \in {"open", "count", "pass"} /\ pc'[Monitor] = "gate"
        /\ window' = NextWindow(pc[Monitor])
        /\ passed'[Monitor] = passed[Monitor] \cup item[Monitor]
        /\ item'[Monitor] = {} /\ UNCHANGED <<pending, refused>>
        /\ recent' = IF pc[Monitor] = "open" \/ (pc[Monitor] = "count" /\ window # NoWindow)
                     THEN [a \in 0..AgeCap |-> recent[a] + 1] ELSE recent
    BY <1>0, <1>5 DEF LetThrough, PipelineTypeOK
  <2>1. refused[Monitor] = {}
    BY <2>0 DEF CapInv, StaysFull, Deciding
  <2>2. Descending' /\ EmptyHanded'
    BY <2>0, <2>1 DEF CapInv, Descending, EmptyHanded
  <2>3. WindowAsRead' /\ StaysFull'
    BY <2>0, <2>1 DEF WindowAsRead, StaysFull
  <2>4. WindowKnows'
    <3> SUFFICES ASSUME MaxPerWindow > 0
                 PROVE  /\ window'.count <= MaxPerWindow
                        /\ \A a \in 0..AgeCap : a <= window'.age => recent'[a] <= window'.count
                        /\ \A a \in 0..Window : recent'[a] <= window'.count + MaxPerWindow
                        /\ window'.age >= Window => recent'[0] = 0
      BY DEF WindowKnows
    <3>1. /\ window.count <= MaxPerWindow
          /\ \A a \in 0..AgeCap : a <= window.age => recent[a] <= window.count
          /\ \A a \in 0..Window : recent[a] <= window.count + MaxPerWindow
          /\ window.age >= Window => recent[0] = 0
      BY DEF CapInv, WindowKnows
    <3>2. CASE pc[Monitor] = "open"
      <4>1. window'.age = 0 /\ window'.count = 1 /\ window.age >= Window
        BY <2>0, <3>2 DEF NextWindow, CapInv, WindowAsRead
      <4>2. \A a \in 0..AgeCap : recent'[a] = recent[a] + 1
        BY <2>0, <3>2
      <4>3. \A a \in 0..Window : a \in 0..AgeCap /\ recent[a] <= MaxPerWindow /\ recent[a] \in Nat
        BY <3>1, <4>1, CapFacts
      <4>4. \A a \in 0..AgeCap : a <= 0 => a = 0
        BY CapFacts
      <4> QED
        BY <3>1, <4>1, <4>2, <4>3, <4>4, CapFacts
    <3>3. CASE pc[Monitor] = "count" /\ window # NoWindow
      <4>1. window.age < Window /\ window.count < MaxPerWindow
        BY <3>3 DEF CapInv, WindowAsRead
      <4>2. window'.age = window.age /\ window'.count = window.count + 1
        BY <2>0, <3>3 DEF NextWindow, PipelineTypeOK
      <4>3. \A a \in 0..AgeCap : recent'[a] = recent[a] + 1
        BY <2>0, <3>3
      <4>4. \A a \in 0..Window : a \in 0..AgeCap
        BY CapFacts
      <4> QED
        BY <3>1, <4>1, <4>2, <4>3, <4>4, CapFacts
    <3>4. CASE pc[Monitor] # "open" /\ ~(pc[Monitor] = "count" /\ window # NoWindow)
      <4>1. window' = window /\ recent' = recent
        BY <2>0, <3>4 DEF NextWindow
      <4> QED
        BY <3>1, <4>1
    <3> QED
      BY <3>2, <3>3, <3>4
  <2> QED
    BY <2>2, <2>3, <2>4 DEF CapInv
<1>6. CASE SendNothing(Monitor) \/ HandOver
  <2>1. /\ UNCHANGED <<window, recent, item>> /\ pc[Monitor] = "gate"
        /\ pc'[Monitor] = "idle" /\ passed'[Monitor] = {} /\ refused'[Monitor] = {}
    BY <1>0, <1>6
    DEF SendNothing, HandOver, GateDone, PipelineTypeOK, limits, ghosts
  <2>2. item'[Monitor] = {}
    BY <2>1 DEF CapInv, EmptyHanded
  <2> QED
    BY <2>1, <2>2, IdleKeepsCap
<1> QED
  BY <1>1, <1>2, <1>3, <1>4, <1>5, <1>6 DEF GateStep, SendInline

\* What the operator does, and time.
LEMMA OutsideKeepsCap ==
  ASSUME PipelineTypeOK, CapInv,
         \/ \E d \in Devices : ChangeSnooze(d) \/ DeleteDevice(d)
         \/ ResetAll \/ Tick \/ NewDay
  PROVE  CapInv'
<1>1. CASE NewDay \/ \E d \in Devices : ChangeSnooze(d) \/ DeleteDevice(d)
  BY <1>1, OtherKeepsCap DEF NewDay, ChangeSnooze, DeleteDevice, limits, ghosts
<1>2. CASE ResetAll
  <2>1. /\ UNCHANGED <<pc, pending, item, passed>>
        /\ window' = NoWindow /\ recent' = [a \in 0..AgeCap |-> 0]
        /\ refused'[Monitor] = {}
    BY <1>2, CapFacts DEF ResetAll
  <2>2. Descending' /\ StaysFull' /\ EmptyHanded'
    BY <2>1 DEF CapInv, Descending, StaysFull, EmptyHanded
  <2>3. WindowAsRead'
    BY <2>1, CapFacts DEF CapInv, WindowAsRead
  <2>4. WindowKnows'
    <3>1. \A a \in 0..AgeCap : recent'[a] = 0
      BY <2>1
    <3>2. 0 \in 0..AgeCap /\ \A a \in 0..Window : a \in 0..AgeCap
      BY CapFacts
    <3> QED
      BY <2>1, <3>1, <3>2, CapFacts DEF WindowKnows
  <2> QED
    BY <2>2, <2>3, <2>4 DEF CapInv
<1>3. CASE Tick
  <2>1. /\ UNCHANGED <<pc, pending, item, passed, refused>>
        /\ pc[Monitor] \in {"idle", "sending"}
        /\ window' = Aged(window)
        /\ recent' = [a \in 0..AgeCap |-> IF a = 0 THEN 0 ELSE recent[a - 1]]
    BY <1>3, CapFacts DEF Tick, gate
  <2>2. Descending' /\ StaysFull' /\ WindowAsRead' /\ EmptyHanded'
    BY <2>1 DEF CapInv, Descending, StaysFull, WindowAsRead, EmptyHanded, Deciding
  <2>3. WindowKnows'
    <3> SUFFICES ASSUME MaxPerWindow > 0
                 PROVE  /\ window'.count <= MaxPerWindow
                        /\ \A a \in 0..AgeCap : a <= window'.age => recent'[a] <= window'.count
                        /\ \A a \in 0..Window : recent'[a] <= window'.count + MaxPerWindow
                        /\ recent'[0] = 0
      BY DEF WindowKnows
    <3>1. /\ window.count <= MaxPerWindow
          /\ \A a \in 0..AgeCap : a <= window.age => recent[a] <= window.count
          /\ \A a \in 0..Window : recent[a] <= window.count + MaxPerWindow
      BY DEF CapInv, WindowKnows
    <3>2. window'.count = window.count /\ window'.age <= window.age + 1
      BY <2>1, CapFacts DEF Aged, Older, PipelineTypeOK
    <3>3. recent'[0] = 0 /\ \A a \in 0..AgeCap : a # 0 => recent'[a] = recent[a - 1]
      BY <2>1, CapFacts
    <3>4. ASSUME NEW a \in 0..AgeCap, a <= window'.age
          PROVE  recent'[a] <= window'.count
      <4>1. CASE a = 0
        BY <3>2, <3>3, <4>1, CapFacts
      <4>2. CASE a # 0
        <5>1. a - 1 \in 0..AgeCap /\ a - 1 <= window.age
          <6>1. window'.age \in Int
            BY <2>1, CapFacts DEF Aged, Older, PipelineTypeOK
          <6> QED
            BY <3>2, <3>4, <4>2, <6>1, CapFacts
        <5> QED
          BY <3>1, <3>2, <3>3, <4>2, <5>1
      <4> QED
        BY <4>1, <4>2
    <3>5. ASSUME NEW a \in 0..Window
          PROVE  recent'[a] <= window'.count + MaxPerWindow
      <4>1. CASE a = 0
        BY <3>2, <3>3, <4>1, CapFacts
      <4>2. CASE a # 0
        <5>1. a - 1 \in 0..Window /\ a \in 0..AgeCap
          BY <4>2, CapFacts
        <5> QED
          BY <3>1, <3>2, <3>3, <4>2, <5>1
      <4> QED
        BY <4>1, <4>2
    <3> QED
      BY <3>1, <3>2, <3>3, <3>4, <3>5
  <2> QED
    BY <2>2, <2>3 DEF CapInv
<1> QED
  BY <1>1, <1>2, <1>3

LEMMA StepKeepsCap == PipelineTypeOK /\ CapInv /\ OneSender /\ [Next]_vars => CapInv'
<1> SUFFICES ASSUME PipelineTypeOK, CapInv, OneSender, [Next]_vars
             PROVE  CapInv'
  OBVIOUS
<1>0. Senders = {Monitor}
  BY DEF Senders, OneSender
<1>1. ASSUME NEW fs \in SUBSET Findings, BeginBatch(Monitor, fs)
      PROVE  CapInv'
  <2>1. /\ UNCHANGED <<window, recent, item>>
        /\ pc'[Monitor] = "gate" /\ pc[Monitor] = "idle"
        /\ passed'[Monitor] = {} /\ refused'[Monitor] = {}
    BY <1>0, <1>1 DEF BeginBatch, PipelineTypeOK, limits, ghosts
  <2>2. item'[Monitor] = {} /\ pc'[Monitor] \notin {"count", "open"}
    BY <2>1 DEF CapInv, EmptyHanded
  <2> QED
    BY <2>1, <2>2, IdleKeepsCap
<1>2. CASE GateStep(Monitor)
  BY <1>2, GateKeepsCap
<1>3. CASE DeliveryStep(Monitor)
  <2>1. UNCHANGED <<window, recent, gate>>
    BY <1>3
    DEF DeliveryStep, Push, PushRaises, ReadSms, ChargeSms, ChargeRaises,
        SmsRaises, DeliveryDone, EndDelivery, limits, gate, ghosts
  <2> QED
    BY <2>1, OtherKeepsCap
<1>4. CASE TakeBatch \/ StopThread \/ OpenStore \/ NextMonitor \/ UNCHANGED vars
  <2>1. UNCHANGED <<window, recent, gate>>
    BY <1>4
    DEF TakeBatch, StopThread, OpenStore, NextMonitor, Elsewhere, vars, limits,
        gate, ghosts
  <2> QED
    BY <2>1, OtherKeepsCap
<1>5. CASE Interrupt \/ MonitorExits
  <2>1. /\ UNCHANGED <<window, recent>> /\ pc'[Monitor] = "idle"
        /\ item'[Monitor] = {} /\ passed'[Monitor] = {} /\ refused'[Monitor] = {}
    BY <1>0, <1>5
    DEF Interrupt, MonitorExits, GateReset, PipelineTypeOK, limits, ghosts
  <2> QED
    BY <2>1, IdleKeepsCap
<1>6. CASE \/ \E d \in Devices : ChangeSnooze(d) \/ DeleteDevice(d)
           \/ ResetAll \/ Tick \/ NewDay
  BY <1>6, OutsideKeepsCap
<1>7. ~ScanDies(Monitor)
  BY DEF ScanDies
<1> QED
  BY <1>0, <1>1, <1>2, <1>3, <1>4, <1>5, <1>6, <1>7 DEF Next

LEMMA CapHolds == OneSender => (Spec => []CapInv)
<1>1. Init => CapInv
  <2> SUFFICES ASSUME Init
               PROVE  CapInv
    OBVIOUS
  <2>1. PipelineTypeOK
    BY TypesInitially
  <2>2. /\ window = NoWindow /\ \A a \in 0..AgeCap : recent[a] = 0
        /\ pc[Monitor] = "idle" /\ refused[Monitor] = {}
        /\ passed[Monitor] = {} /\ item[Monitor] = {}
    BY <2>1, CapFacts DEF Init
  <2>3. 0 \in 0..AgeCap /\ \A a \in 0..Window : a \in 0..AgeCap
    BY <2>1, CapFacts
  <2> QED
    BY <2>1, <2>2, <2>3, CapFacts
    DEF CapInv, WindowKnows, WindowAsRead, StaysFull, Descending, EmptyHanded
<1>2. PInv /\ CapInv /\ OneSender /\ [Next]_vars => CapInv'
  BY StepKeepsCap DEF PInv
<1>3. ASSUME OneSender
      PROVE  Spec => []CapInv
  <2>1. Init => CapInv
    BY <1>1
  <2>2. PInv /\ CapInv /\ [Next]_vars => CapInv'
    BY <1>2, <1>3
  <2> QED
    BY <2>1, <2>2, PInvHolds, PTL DEF Spec
<1> QED
  BY <1>3

\* The monitor alone lets no more through in a stretch as long as the window
\* than two windows allow, for any cap and any window, a reset in the middle
\* of a decision included.
THEOREM VolumeCorrect ==
  ASSUME OneSender
  PROVE  Spec => []VolumeBounded
<1>1. PInv /\ CapInv => VolumeBounded
  <2> SUFFICES ASSUME PInv, CapInv, MaxPerWindow > 0
               PROVE  recent[Window] <= 2 * MaxPerWindow
    BY DEF VolumeBounded
  <2>1. PipelineTypeOK
    BY DEF PInv
  <2>2. /\ recent[Window] <= window.count + MaxPerWindow
        /\ window.count <= MaxPerWindow
    BY <2>1, CapFacts DEF CapInv, WindowKnows
  <2>3. recent[Window] \in Nat
    BY <2>1, CapFacts
  <2> QED
    BY <2>1, <2>2, <2>3, CapFacts
<1>2. Spec => []CapInv
  BY CapHolds
<1> QED
  BY <1>1, <1>2, PInvHolds, PTL

\* What the cap spares of the monitor's batch is at least as severe as what it
\* refuses of it: once full the window stays full until the batch is through.
THEOREM SevereSpared ==
  ASSUME OneSender
  PROVE  Spec => []CapSparesSevere
<1>1. CapInv => CapSparesSevere
  <2>1. Senders = {Monitor}
    BY DEF Senders, OneSender
  <2> QED
    BY <2>1 DEF CapInv, Descending, CapSparesSevere
<1>2. Spec => []CapInv
  BY CapHolds
<1> QED
  BY <1>1, <1>2, PTL


=============================================================================
