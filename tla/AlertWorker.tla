---------------------------- MODULE AlertWorker ----------------------------
(***************************************************************************)
(* The background delivery of alerts in lanfence/alert_worker.py: the      *)
(* monitor's main thread submits batches of findings to a bounded queue    *)
(* and never waits, a daemon thread takes them one by one, and shutdown    *)
(* ends the thread with a sentinel behind the batches already queued.      *)
(*                                                                         *)
(* What is done with a batch between Take and Finish is AlertPipeline's.   *)
(* Batches are numbered from 1 as they are submitted by one process.       *)
(***************************************************************************)
EXTENDS Integers, Sequences

CONSTANTS
  Findings,    \* the findings an alert may be about
  QueueSize,   \* _DEFAULT_MAXSIZE
  MaxBatches,  \* bound: batches one process submits
  MaxStarts    \* bound: how often the monitor is started again

ASSUME QueueAssumption ==
  QueueSize \in Nat \ {0} /\ MaxBatches \in Nat /\ MaxStarts \in Nat

VARIABLES
  queue,      \* the bounded queue
  inHand,     \* the batch the thread is delivering
  worker,     \* the thread
  stop,       \* how far the main thread is with shutting down
  dropped,    \* batches refused because the queue was full
  submitted,  \* history: batches submitted so far
  taken,      \* history: batches the thread took
  last,       \* history: the number of the last one
  drained,    \* history: batches that shutdown removed to make room
  starts      \* history: how often the monitor was started again

workerVars ==
  <<queue, inHand, worker, stop, dropped, submitted, taken, last, drained,
    starts>>

Batch == [id: 1..MaxBatches, findings: SUBSET Findings]
Sentinel == [id |-> 0, findings |-> {}]
Nothing == [id |-> -1, findings |-> {}]

InitWorker ==
  /\ queue = <<>>
  /\ inHand = Nothing
  /\ worker = "opening"
  /\ stop = "no"
  /\ dropped = 0
  /\ submitted = 0
  /\ taken = 0
  /\ last = 0
  /\ drained = 0
  /\ starts = 0

Full == Len(queue) >= QueueSize

-----------------------------------------------------------------------------
(* The main thread *)

\* Faulty variant of Submit: the oldest batch makes room, unnoticed.
SubmitOverwrites(fs) ==
  /\ stop = "no"
  /\ submitted < MaxBatches
  /\ submitted' = submitted + 1
  /\ queue' = Append(IF Full THEN Tail(queue) ELSE queue,
                     [id |-> submitted + 1, findings |-> fs])
  /\ UNCHANGED <<inHand, worker, stop, dropped, taken, last, drained, starts>>

\* A full queue costs the batch, never the time of the main thread.
Submit(fs) ==
  /\ stop = "no"
  /\ submitted < MaxBatches
  /\ submitted' = submitted + 1
  /\ IF Full
     THEN dropped' = dropped + 1 /\ UNCHANGED queue
     ELSE /\ queue' = Append(queue, [id |-> submitted + 1, findings |-> fs])
          /\ UNCHANGED dropped
  /\ UNCHANGED <<inHand, worker, stop, taken, last, drained, starts>>

\* Ctrl-C, or an error that leaves the loop.
BeginShutdown ==
  /\ stop = "no"
  /\ stop' = "stopping"
  /\ UNCHANGED <<queue, inHand, worker, dropped, submitted, taken, last,
                 drained, starts>>

\* Faulty variant of PutSentinel: it overtakes the batches queued before it.
PutSentinelFirst ==
  /\ (stop = "stopping" /\ ~Full) \/ stop = "roomy"
  /\ queue' = IF Full THEN queue ELSE <<Sentinel>> \o queue
  /\ stop' = "joining"
  /\ UNCHANGED <<inHand, worker, dropped, submitted, taken, last,
                 drained, starts>>

\* The sentinel goes to the end, at once or after room was made.
PutSentinel ==
  /\ (stop = "stopping" /\ ~Full) \/ stop = "roomy"
  /\ queue' = IF Full THEN queue ELSE Append(queue, Sentinel)
  /\ stop' = "joining"
  /\ UNCHANGED <<inHand, worker, dropped, submitted, taken, last,
                 drained, starts>>

SentinelRefused ==
  /\ stop = "stopping"
  /\ Full
  /\ stop' = "refused"
  /\ UNCHANGED <<queue, inHand, worker, dropped, submitted, taken, last,
                 drained, starts>>

\* The oldest batch makes room, if the thread has not taken it meanwhile.
MakeRoom ==
  /\ stop = "refused"
  /\ IF queue = <<>> THEN UNCHANGED <<queue, drained>>
     ELSE queue' = Tail(queue) /\ drained' = drained + 1
  /\ stop' = "roomy"
  /\ UNCHANGED <<inHand, worker, dropped, submitted, taken, last, starts>>

\* Faulty variant of Join: no limit on how long to wait for the thread.
JoinForever ==
  /\ stop = "joining"
  /\ worker \in {"ended", "failed"}
  /\ stop' = "gone"
  /\ UNCHANGED <<queue, inHand, worker, dropped, submitted, taken, last,
                 drained, starts>>

\* The thread has ended or the wait for it times out; the process exits and
\* a daemon thread goes with it.
Join ==
  /\ stop = "joining"
  /\ stop' = "gone"
  /\ UNCHANGED <<queue, inHand, worker, dropped, submitted, taken, last,
                 drained, starts>>

\* The process is killed.
Kill ==
  /\ stop # "gone"
  /\ stop' = "gone"
  /\ UNCHANGED <<queue, inHand, worker, dropped, submitted, taken, last,
                 drained, starts>>

\* The next monitor process begins with a queue and a thread of its own.
StartAgain ==
  /\ stop = "gone"
  /\ starts < MaxStarts
  /\ stop' = "no"
  /\ queue' = <<>>
  /\ inHand' = Nothing
  /\ worker' = "opening"
  /\ dropped' = 0
  /\ submitted' = 0
  /\ taken' = 0
  /\ last' = 0
  /\ drained' = 0
  /\ starts' = starts + 1

-----------------------------------------------------------------------------
(* The delivery thread *)

\* It opens a database connection of its own; if that fails it is gone, and
\* nobody notices.
Open ==
  /\ worker = "opening"
  /\ stop # "gone"
  /\ worker' \in {"waiting", "failed"}
  /\ UNCHANGED <<queue, inHand, stop, dropped, submitted, taken, last,
                 drained, starts>>

Take ==
  /\ worker = "waiting"
  /\ stop # "gone"
  /\ queue # <<>>
  /\ queue' = Tail(queue)
  /\ IF Head(queue) = Sentinel
     THEN worker' = "ended" /\ UNCHANGED <<inHand, taken, last>>
     ELSE /\ worker' = "busy"
          /\ inHand' = Head(queue)
          /\ taken' = taken + 1
          /\ last' = Head(queue).id
  /\ UNCHANGED <<stop, dropped, submitted, drained, starts>>

\* Faulty variant of Finish: an error in a delivery is not caught.
FinishDies ==
  /\ worker = "busy"
  /\ stop # "gone"
  /\ inHand' = Nothing
  /\ worker' \in {"waiting", "ended"}
  /\ UNCHANGED <<queue, stop, dropped, submitted, taken, last,
                 drained, starts>>

\* Delivered, or failed and logged: the thread goes on either way.
Finish ==
  /\ worker = "busy"
  /\ stop # "gone"
  /\ inHand' = Nothing
  /\ worker' = "waiting"
  /\ UNCHANGED <<queue, stop, dropped, submitted, taken, last,
                 drained, starts>>

-----------------------------------------------------------------------------

ShutdownStep == PutSentinel \/ SentinelRefused \/ MakeRoom

NextWorker ==
  \/ \E fs \in SUBSET Findings : Submit(fs)
  \/ BeginShutdown
  \/ ShutdownStep
  \/ Join
  \/ Kill
  \/ StartAgain
  \/ Open
  \/ Take
  \/ Finish

SpecWorker == InitWorker /\ [][NextWorker]_workerVars

-----------------------------------------------------------------------------
(* Properties *)

SentinelQueued == \E i \in 1..Len(queue) : queue[i] = Sentinel

WorkerTypeOK ==
  /\ queue \in Seq(Batch \cup {Sentinel})
  /\ Len(queue) <= QueueSize
  /\ inHand \in Batch \cup {Nothing}
  /\ worker \in {"opening", "waiting", "busy", "ended", "failed"}
  /\ stop \in {"no", "stopping", "refused", "roomy", "joining", "gone"}
  /\ {dropped, submitted, taken, last, drained, starts} \subseteq Nat
  /\ submitted <= MaxBatches

\* Batches are delivered in the order they were submitted and none of them
\* twice: those queued are in order and newer than any the thread took.
InOrder ==
  /\ \A i, j \in 1..Len(queue) :
       i < j /\ queue[j] # Sentinel =>
         queue[i] # Sentinel /\ queue[i].id < queue[j].id
  /\ \A i \in 1..Len(queue) :
       queue[i] # Sentinel => last < queue[i].id /\ queue[i].id <= submitted

\* No batch vanishes: each one submitted was taken by the thread, is queued,
\* was counted as dropped, or made room for the sentinel.
Accounted ==
  submitted = taken + dropped + drained
              + (IF SentinelQueued THEN Len(queue) - 1 ELSE Len(queue))

\* "Stop after draining what's already queued": a thread that was told to
\* end left no batch behind; at most one batch made room for the sentinel,
\* and only in a queue that had been full.
NothingLeftBehind ==
  /\ worker = "ended" => queue = <<>>
  /\ drained <= 1
  /\ drained = 1 => submitted - dropped >= QueueSize

\* Shutting down ends, even when a delivery hangs for ever.
ShutdownEnds == stop = "stopping" ~> stop \in {"gone", "no"}

\* Unless a delivery hangs for ever, a queued batch is taken up, as long as
\* the process lives, the thread was able to start and shutdown did not
\* remove the batch.
QueuedIsTaken ==
  []<>(worker # "busy") =>
    \A n \in 1..MaxBatches :
      (\E i \in 1..Len(queue) : queue[i].id = n)
        ~> (last >= n \/ stop = "gone" \/ worker = "failed" \/ drained > 0)

=============================================================================
