------------------------- MODULE MonitorLoopProofs -------------------------
(***************************************************************************)
(* Proofs about MonitorLoop, for any servers, packets, queues and times: a *)
(* server makes one finding per cooldown, and is passed over only within   *)
(* one.  Both are so because replies are handled in the order of their     *)
(* capture, so that no reply is newer than the times that were logged for  *)
(* the replies before it.                                                  *)
(***************************************************************************)
EXTENDS MonitorLoop, SequenceTheorems, TLAPS

\* A reply is in hand only while its queue is drained.
HandInPhase == hand # Nothing => up /\ phase = "dhcp"

\* The replies that wait are in the order of their capture, after the one in
\* hand, and after every reply that was found.
RepliesInOrder ==
  LET replies == queue["dhcp"]
  IN /\ \A i, j \in DOMAIN replies : i < j => replies[j].lag <= replies[i].lag
     /\ \A i \in DOMAIN replies : hand # Nothing => replies[i].lag <= hand.item.lag
     /\ \A s \in Servers :
          /\ \A i \in DOMAIN replies : replies[i].lag <= found[s]
          /\ hand # Nothing => hand.item.lag <= found[s]

\* The reply in hand is to be found, or to be handed on.
FoundNow(s) == hand # Nothing /\ hand.item.server = s /\ hand.step \in {"find", "emit"}

\* What is logged for a server is the reply in hand, or one after the newest
\* finding and after what was handed on, if no crash came between.
LoggedLast ==
  \A s \in Servers :
    cooldown[s] # Never =>
      /\ Cooldown # 0
      /\ cooldown[s] <= found[s]
      /\ FoundNow(s) => cooldown[s] = hand.item.lag
      /\ FoundNow(s) \/ s \in cut \/ alerted[s] <= cooldown[s]

IInv == TypeOK /\ HandInPhase /\ RepliesInOrder /\ LoggedLast

-----------------------------------------------------------------------------
(* Helpers *)

LEMMA Constants ==
  /\ QueueSize \in Nat \ {0} /\ DrainLimit \in Nat \ {0} /\ Interval \in Nat \ {0}
  /\ MaxDropped \in Nat /\ Cooldown \in Nat /\ MaxLag \in Nat /\ AgeCap \in Nat
  /\ MaxLag <= AgeCap /\ Nothing \notin Servers /\ Nothing \notin Replies
BY QueueAssumption, TimeAssumption

LEMMA PhaseTypes ==
  \A ph \in {"passive", "dhcp", "mdns", "ssdp", "report"} :
    After(ph) \in {"dhcp", "mdns", "ssdp", "report", "sweep"}
<1> SUFFICES ASSUME NEW ph \in {"passive", "dhcp", "mdns", "ssdp", "report"}
             PROVE  After(ph) \in {"dhcp", "mdns", "ssdp", "report", "sweep"}
  OBVIOUS
<1> DEFINE here == CHOOSE i \in DOMAIN Phases : Phases[i] = ph
           ahead == {i \in DOMAIN Phases : i > here /\ Phases[i] \notin Kinds \ Captured}
           first == CHOOSE i \in ahead : \A j \in ahead : i <= j
<1>1. DOMAIN Phases = 1..7
  BY DEF Phases
<1>2. here \in 1..5 /\ Phases[here] = ph
  BY <1>1 DEF Phases
<1>3. 6 \in ahead /\ ahead \subseteq {2, 3, 4, 5, 6, 7}
  BY <1>1, <1>2 DEF Phases, Kinds
<1>4. \E i \in ahead : \A j \in ahead : i <= j
  <2> HIDE DEF ahead
  <2>1. CASE 2 \in ahead
    BY <1>3, <2>1
  <2>2. CASE 2 \notin ahead /\ 3 \in ahead
    BY <1>3, <2>2
  <2>3. CASE 2 \notin ahead /\ 3 \notin ahead /\ 4 \in ahead
    BY <1>3, <2>3
  <2>4. CASE 2 \notin ahead /\ 3 \notin ahead /\ 4 \notin ahead /\ 5 \in ahead
    BY <1>3, <2>4
  <2>5. CASE 2 \notin ahead /\ 3 \notin ahead /\ 4 \notin ahead /\ 5 \notin ahead
    BY <1>3, <2>5
  <2> QED BY <2>1, <2>2, <2>3, <2>4, <2>5
<1>5. first \in ahead /\ first <= 6
  BY <1>3, <1>4
<1>6. Phases[first] \in {"dhcp", "mdns", "ssdp", "report", "sweep"}
  <2>1. first \in {2, 3, 4, 5, 6}
    BY <1>3, <1>5
  <2> HIDE DEF first
  <2> QED BY <2>1 DEF Phases
<1> QED BY <1>6 DEF After

\* Ages do not overtake each other, and the longest wait is within their range.
LEMMA Ageing ==
  ASSUME NEW a \in Ages \cup {Never}, NEW b \in Ages \cup {Never}
  PROVE  /\ Older(a) \in Ages \cup {Never}
         /\ Older(a) = Never <=> a = Never
         /\ a <= b => Older(a) <= Older(b)
         /\ a < MaxLag /\ a <= b => a + 1 <= Older(b)
BY Constants DEF Older, Ages, Never

LEMMA QueueTypes ==
  ASSUME TypeOK
  PROVE  /\ \A k \in Kinds : queue[k] \in Seq(Items)
         /\ DOMAIN queue["dhcp"] = 1..Len(queue["dhcp"])
         /\ Len(queue["dhcp"]) \in Nat
         /\ \A i \in DOMAIN queue["dhcp"] :
              queue["dhcp"][i].lag \in 0..MaxLag /\ queue["dhcp"][i].server \in Servers
<1>1. queue \in [Kinds -> Seq(Items)] /\ \A k \in Kinds : queue[k] \in Seq(Items)
  BY DEF TypeOK
<1>2. queue["dhcp"] \in Seq(Items)
  BY <1>1 DEF Kinds
<1>3. DOMAIN queue["dhcp"] = 1..Len(queue["dhcp"]) /\ Len(queue["dhcp"]) \in Nat
  BY <1>2
<1>4. \A i \in DOMAIN queue["dhcp"] : queue["dhcp"][i] \in Items
  BY <1>2, <1>3
<1> QED BY <1>1, <1>3, <1>4 DEF TypeOK, Items

-----------------------------------------------------------------------------
(* The steps. Kept says that a step keeps the invariant. *)

Kept == TypeOK' /\ HandInPhase' /\ RepliesInOrder' /\ LoggedLast'

\* A step that leaves the replies alone.
LEMMA Aside ==
  ASSUME IInv, UNCHANGED <<hand, store>>, queue'["dhcp"] = queue["dhcp"], TypeOK', HandInPhase'
  PROVE  Kept
BY DEF Kept, IInv, RepliesInOrder, LoggedLast, FoundNow, store

LEMMA CaptureKept ==
  ASSUME IInv, NEW p \in Packets, Capture(p)
  PROVE  Kept
<1>1. PICK h \in Heard(p) : h[1] \in Captured /\ PutDropping(h[1], [server |-> h[2], lag |-> 0])
  BY DEF Capture
<1> DEFINE k == h[1]
           item == [server |-> h[2], lag |-> 0]
<1>2. /\ TypeOK /\ k \in Kinds /\ item \in Items /\ (k = "dhcp" => h[2] \in Servers)
      /\ UNCHANGED <<up, told, lost, loop, approved, store>>
  BY PacketAssumption, Constants DEF IInv, Items, Capture
<1>3. HandInPhase'
  BY <1>2 DEF IInv, HandInPhase, loop
<1>4. CASE Len(queue[k]) >= QueueSize
  <2>1. UNCHANGED queue /\ dropped' \in 0..MaxDropped
    BY <1>1, <1>2, <1>4, QueueTypes, Constants DEF PutDropping, TypeOK
  <2>2. TypeOK'
    BY <1>2, <2>1 DEF TypeOK, loop, store
  <2> QED BY <1>2, <1>3, <2>1, <2>2, Aside DEF loop
<1>5. CASE Len(queue[k]) < QueueSize
  <2>1. /\ queue' = [queue EXCEPT ![k] = Append(queue[k], item)] /\ UNCHANGED dropped
    BY <1>1, <1>5 DEF PutDropping
  <2>2. queue[k] \in Seq(Items) /\ Append(queue[k], item) \in Seq(Items)
        /\ Len(Append(queue[k], item)) = Len(queue[k]) + 1
        /\ \A i \in 1..Len(queue[k]) : Append(queue[k], item)[i] = queue[k][i]
        /\ Append(queue[k], item)[Len(queue[k]) + 1] = item
    BY <1>2, QueueTypes
  <2>3. queue' \in [Kinds -> Seq(Items)] /\ \A j \in Kinds : queue'[j] = IF j = k THEN Append(queue[k], item) ELSE queue[j]
    BY <1>2, <2>1, <2>2 DEF TypeOK
  <2>4. \A j \in Kinds : Len(queue'[j]) <= QueueSize
    BY <1>2, <1>5, <2>2, <2>3, Constants DEF TypeOK
  <2>5. CASE k # "dhcp"
    <3>1. queue'["dhcp"] = queue["dhcp"]
      BY <2>3, <2>5 DEF Kinds
    <3>2. TypeOK'
      BY <1>2, <2>1, <2>3, <2>4, <3>1 DEF TypeOK, loop, store
    <3> QED BY <1>2, <1>3, <3>1, <3>2, Aside DEF loop
  <2>6. CASE k = "dhcp"
    <3>1. /\ DOMAIN queue["dhcp"] = 1..Len(queue["dhcp"])
          /\ DOMAIN queue'["dhcp"] = 1..(Len(queue["dhcp"]) + 1)
          /\ \A i \in DOMAIN queue["dhcp"] : queue'["dhcp"][i] = queue["dhcp"][i]
          /\ queue'["dhcp"][Len(queue["dhcp"]) + 1] = item
      <4>0. "dhcp" \in Kinds
        BY DEF Kinds
      <4> HIDE DEF item, k
      <4>1. /\ queue["dhcp"] \in Seq(Items) /\ queue'["dhcp"] = Append(queue["dhcp"], item)
            /\ queue'["dhcp"] \in Seq(Items) /\ Len(queue'["dhcp"]) = Len(queue["dhcp"]) + 1
            /\ \A i \in 1..Len(queue["dhcp"]) : Append(queue["dhcp"], item)[i] = queue["dhcp"][i]
            /\ Append(queue["dhcp"], item)[Len(queue["dhcp"]) + 1] = item
        BY <2>2, <2>3, <2>6, <4>0
      <4>2. DOMAIN queue["dhcp"] = 1..Len(queue["dhcp"])
        BY <4>1
      <4>3. DOMAIN queue'["dhcp"] = 1..Len(queue'["dhcp"])
        BY <4>1
      <4> QED BY <4>1, <4>2, <4>3
    <3>2. \A i \in DOMAIN queue'["dhcp"] : i \in DOMAIN queue["dhcp"] \/ i = Len(queue["dhcp"]) + 1
      BY <1>2, <3>1, QueueTypes
    <3>3. TypeOK'
      BY <1>2, <2>1, <2>3, <2>4, <2>6, <3>1, <3>2 DEF TypeOK, loop, store
    <3>4. RepliesInOrder'
      <4>1. /\ \A i, j \in DOMAIN queue["dhcp"] : i < j => queue["dhcp"][j].lag <= queue["dhcp"][i].lag
            /\ \A i \in DOMAIN queue["dhcp"] : hand # Nothing => queue["dhcp"][i].lag <= hand.item.lag
            /\ \A s \in Servers :
                 /\ \A i \in DOMAIN queue["dhcp"] : queue["dhcp"][i].lag <= found[s]
                 /\ hand # Nothing => hand.item.lag <= found[s]
        BY DEF IInv, RepliesInOrder
      <4>2. hand' = hand /\ found' = found
        BY <1>2 DEF loop, store
      <4>3. /\ \A i \in DOMAIN queue["dhcp"] : 0 <= queue["dhcp"][i].lag
            /\ \A s \in Servers : 0 <= found[s]
            /\ hand # Nothing => 0 <= hand.item.lag
        <5>1. \A i \in DOMAIN queue["dhcp"] : 0 <= queue["dhcp"][i].lag
          <6>1. \A i \in DOMAIN queue["dhcp"] : queue["dhcp"][i].lag \in 0..MaxLag
            BY <1>2, QueueTypes
          <6> QED BY <6>1, Constants
        <5>2. \A s \in Servers : 0 <= found[s]
          <6>1. found \in [Servers -> Ages \cup {Never}]
            BY <1>2 DEF TypeOK
          <6>2. \A a \in Ages \cup {Never} : 0 <= a
            BY Constants DEF Ages, Never
          <6> QED BY <6>1, <6>2
        <5>3. ASSUME hand # Nothing PROVE 0 <= hand.item.lag
          <6>1. hand \in Replies
            BY <1>2, <5>3 DEF TypeOK
          <6>2. hand.item.lag \in 0..MaxLag
            BY <6>1 DEF Replies
          <6> QED BY <6>2, Constants
        <5> QED BY <5>1, <5>2, <5>3
      <4>4. item.lag = 0
        OBVIOUS
      <4>5. /\ \A i, j \in DOMAIN queue'["dhcp"] : i < j => queue'["dhcp"][j].lag <= queue'["dhcp"][i].lag
            /\ \A i \in DOMAIN queue'["dhcp"] : hand # Nothing => queue'["dhcp"][i].lag <= hand.item.lag
            /\ \A s \in Servers : \A i \in DOMAIN queue'["dhcp"] : queue'["dhcp"][i].lag <= found[s]
        <5> DEFINE q == queue["dhcp"]
                   r == queue'["dhcp"]
        <5>1. Len(q) \in Nat /\ DOMAIN q = 1..Len(q) /\ \A i \in DOMAIN q : q[i].lag \in 0..MaxLag
          BY <1>2, QueueTypes
        <5>2. \A i \in DOMAIN r : (i \in DOMAIN q /\ r[i] = q[i]) \/ (i = Len(q) + 1 /\ r[i].lag = 0)
          BY <3>1, <3>2, <4>4
        <5> HIDE DEF item, q, r
        <5>3. ASSUME NEW i \in DOMAIN r, NEW j \in DOMAIN r, i < j PROVE r[j].lag <= r[i].lag
          BY <4>1, <4>3, <5>1, <5>2, <5>3 DEF q
        <5>4. ASSUME NEW i \in DOMAIN r PROVE hand # Nothing => r[i].lag <= hand.item.lag
          BY <4>1, <4>3, <5>2 DEF q
        <5>5. ASSUME NEW s \in Servers, NEW i \in DOMAIN r PROVE r[i].lag <= found[s]
          BY <4>1, <4>3, <5>2 DEF q
        <5> QED BY <5>3, <5>4, <5>5 DEF r
      <4> QED BY <4>1, <4>2, <4>5 DEF RepliesInOrder
    <3>5. LoggedLast'
      BY <1>2 DEF IInv, LoggedLast, FoundNow, loop, store
    <3> QED BY <1>3, <3>3, <3>4, <3>5 DEF Kept
  <2> QED BY <2>5, <2>6
<1>6. Len(queue[k]) \in Nat /\ QueueSize \in Nat
  BY <1>2, QueueTypes, Constants
<1> QED BY <1>4, <1>5, <1>6

LEMMA DrainKept ==
  ASSUME IInv, NEW k \in Kinds, Drain(k)
  PROVE  Kept
<1> DEFINE q == queue[k]
           r == queue'[k]
<1>1. /\ TypeOK /\ up /\ phase = k /\ hand = Nothing /\ q # <<>> /\ drained # DrainLimit
      /\ queue' = [queue EXCEPT ![k] = Tail(q)]
      /\ UNCHANGED <<up, dropped, told, lost, phase, sweptAgo, approved, store>>
  BY DEF IInv, Drain, DrainedEnough
<1>2. q \in Seq(Items) /\ queue \in [Kinds -> Seq(Items)]
  BY <1>1 DEF TypeOK
<1>3. /\ r = Tail(q) /\ \A j \in Kinds \ {k} : queue'[j] = queue[j]
  BY <1>1, <1>2
<1>4. /\ r \in Seq(Items) /\ Len(q) \in Nat /\ Len(q) >= 1 /\ Len(r) = Len(q) - 1
      /\ DOMAIN q = 1..Len(q) /\ DOMAIN r = 1..(Len(q) - 1)
      /\ \A i \in DOMAIN r : r[i] = q[i + 1]
      /\ Head(q) = q[1]
  <2> HIDE DEF q, r
  <2> QED BY <1>1, <1>2, <1>3
<1>5. queue' \in [Kinds -> Seq(Items)]
  BY <1>1, <1>2, <1>3, <1>4
<1>6. \A j \in Kinds : Len(queue'[j]) <= QueueSize
  BY <1>1, <1>3, <1>4, Constants DEF TypeOK
<1>7. drained' \in 0..DrainLimit
  BY <1>1, Constants DEF TypeOK, Drain, Counted
<1>8. CASE k # "dhcp"
  <2>1. queue'["dhcp"] = queue["dhcp"] /\ hand' = hand
    BY <1>1, <1>3, <1>8 DEF Drain, Kinds
  <2>2. TypeOK'
    BY <1>1, <1>5, <1>6, <1>7, <2>1 DEF TypeOK, store
  <2>3. HandInPhase'
    BY <1>1, <2>1 DEF HandInPhase
  <2> QED BY <1>1, <2>1, <2>2, <2>3, Aside
<1>9. CASE k = "dhcp"
  <2>1. PICK item : item = q[1]
    OBVIOUS
  <2>2. hand' = [item |-> item, step |-> "observe"]
    BY <1>4, <1>9, <2>1 DEF Drain
  <2>3. \A i \in DOMAIN q : q[i].lag \in 0..MaxLag /\ q[i].server \in Servers
    BY <1>1, <1>9, QueueTypes
  <2>4. q[1] \in Items /\ item.server \in Servers /\ item.lag \in 0..MaxLag /\ 1 \in DOMAIN q
    <3> HIDE DEF q, r
    <3> QED BY <1>2, <1>4, <2>1, <2>3
  <2>5. item \in [server : Servers, lag : 0..MaxLag]
    <3>1. item \in Items
      BY <2>1, <2>4
    <3> HIDE DEF q, r
    <3> QED BY <2>4, <3>1 DEF Items
  <2>6. hand' \in Replies
    BY <2>2, <2>5 DEF Replies
  <2>7. TypeOK'
    <3>1. \A i \in DOMAIN r : r[i].server \in Servers
      <4>1. \A i \in DOMAIN r : i + 1 \in DOMAIN q /\ r[i] = q[i + 1]
        <5> HIDE DEF q, r
        <5> QED BY <1>4
      <4> HIDE DEF q, r
      <4> QED BY <2>3, <4>1
    <3> QED BY <1>1, <1>5, <1>6, <1>7, <1>9, <2>6, <3>1 DEF TypeOK, store
  <2>8. HandInPhase'
    BY <1>1, <1>9 DEF HandInPhase
  <2>9. RepliesInOrder'
    <3>1. /\ \A i, j \in DOMAIN q : i < j => q[j].lag <= q[i].lag
          /\ \A s \in Servers : \A i \in DOMAIN q : q[i].lag <= found[s]
      BY <1>9 DEF IInv, RepliesInOrder
    <3>2. /\ hand'.item = item /\ item = q[1] /\ found' = found
      BY <1>1, <2>1, <2>2 DEF store
    <3> HIDE DEF q, r
    <3>3. \A i \in DOMAIN r : i + 1 \in DOMAIN q /\ r[i] = q[i + 1] /\ 1 < i + 1
      BY <1>4
    <3>4. ASSUME NEW i \in DOMAIN r, NEW j \in DOMAIN r, i < j PROVE r[j].lag <= r[i].lag
      BY <1>4, <3>1, <3>3, <3>4
    <3>5. \A i \in DOMAIN r : r[i].lag <= hand'.item.lag
      BY <2>4, <3>1, <3>2, <3>3
    <3>6. \A s \in Servers : hand'.item.lag <= found'[s] /\ \A i \in DOMAIN r : r[i].lag <= found'[s]
      BY <2>4, <3>1, <3>2, <3>3
    <3> QED BY <1>9, <3>4, <3>5, <3>6 DEF RepliesInOrder, r
  <2>10. LoggedLast'
    BY <1>1, <2>2 DEF IInv, LoggedLast, FoundNow, store
  <2> QED BY <2>7, <2>8, <2>9, <2>10 DEF Kept
<1> QED BY <1>8, <1>9

LEMMA LoopTypes ==
  {Phases[i] : i \in DOMAIN Phases} = Kinds \cup {"report", "sweep", "sleep"}
<1>1. DOMAIN Phases = 1..7
  BY DEF Phases
<1> QED BY <1>1 DEF Phases, Kinds

\* The steps that go to the next phase.
LEMMA PhaseKept ==
  ASSUME IInv,
         \/ CaptureFails
         \/ \E k \in Kinds : NextQueue(k)
         \/ Report \/ Sweep \/ NoSweepYet
  PROVE  Kept
<1>1. /\ TypeOK /\ up' = up /\ UNCHANGED <<hand, store>> /\ UNCHANGED queue
      /\ UNCHANGED <<dropped, approved>>
  BY DEF IInv, CaptureFails, NextQueue, Report, Sweep, NoSweepYet, loop
<1>2. CaptureFails \/ hand = Nothing
  BY <1>1 DEF IInv, HandInPhase, NextQueue, Report, Sweep, NoSweepYet
<1>3. HandInPhase'
  BY <1>1, <1>2 DEF IInv, HandInPhase, CaptureFails, loop
<1>4. phase' \in Kinds \cup {"report", "sweep", "sleep"}
  BY <1>1, LoopTypes, PhaseTypes DEF TypeOK, CaptureFails, NextQueue, Report, Sweep, NoSweepYet,
                                     loop, Kinds
<1>5. /\ drained' \in 0..DrainLimit /\ sweptAgo' \in 0..Interval
      /\ told' \in 0..MaxDropped /\ lost' \in {"no", "failed", "told"}
  BY <1>1, Constants DEF TypeOK, CaptureFails, NextQueue, Report, Sweep, NoSweepYet, loop, Told
<1>6. TypeOK'
  BY <1>1, <1>4, <1>5, LoopTypes DEF TypeOK, store
<1> QED BY <1>1, <1>3, <1>6, Aside

\* What is known of the reply in hand.
LEMMA InHand ==
  ASSUME IInv, hand # Nothing
  PROVE  /\ TypeOK /\ up /\ phase = "dhcp" /\ hand \in Replies
         /\ hand.item.server \in Servers /\ hand.item.lag \in 0..MaxLag
         /\ hand.item.lag \in Ages \cup {Never}
         /\ \A s \in Servers : hand.item.lag <= found[s]
         /\ \A step \in {"observe", "judge", "find", "emit"} :
              /\ [hand EXCEPT !.step = step] \in Replies
              /\ [hand EXCEPT !.step = step].item = hand.item
              /\ [hand EXCEPT !.step = step].step = step
<1>1. TypeOK /\ hand \in Replies
  BY DEF IInv, TypeOK
<1>2. hand.item.server \in Servers /\ hand.item.lag \in 0..MaxLag
  BY <1>1 DEF Replies
<1>3. hand.item.lag \in Ages \cup {Never}
  BY <1>2, Constants DEF Ages
<1>4. \A step \in {"observe", "judge", "find", "emit"} :
        /\ [hand EXCEPT !.step = step] \in Replies
        /\ [hand EXCEPT !.step = step].item = hand.item
        /\ [hand EXCEPT !.step = step].step = step
  BY <1>1 DEF Replies
<1> QED BY <1>1, <1>2, <1>3, <1>4 DEF IInv, HandInPhase, RepliesInOrder

\* A step on the reply in hand keeps the order of the replies, if what it
\* finds is that reply.
LEMMA HandlingKept ==
  ASSUME IInv, hand # Nothing, UNCHANGED monitor,
         hand' = Nothing \/ (hand' \in Replies /\ hand'.item = hand.item),
         found' = found \/ found' = [found EXCEPT ![hand.item.server] = hand.item.lag],
         {cooldown', alerted'} \subseteq [Servers -> Ages \cup {Never}],
         inventory' \subseteq Servers, cut' \subseteq Servers
  PROVE  TypeOK' /\ HandInPhase' /\ RepliesInOrder'
<1>1. /\ TypeOK /\ up /\ phase = "dhcp" /\ hand \in Replies /\ hand.item.server \in Servers
      /\ hand.item.lag \in 0..MaxLag /\ hand.item.lag \in Ages \cup {Never}
  BY InHand
<1>2. found' \in [Servers -> Ages \cup {Never}]
  BY <1>1 DEF TypeOK
<1>3. TypeOK' /\ HandInPhase'
  BY <1>1, <1>2 DEF TypeOK, HandInPhase, monitor
<1>4. \A s \in Servers : found'[s] = found[s] \/ found'[s] = hand.item.lag
  BY <1>1 DEF TypeOK
<1>5. queue' = queue
  BY DEF monitor
<1>6. RepliesInOrder'
  <2>1. /\ \A i, j \in DOMAIN queue["dhcp"] : i < j => queue["dhcp"][j].lag <= queue["dhcp"][i].lag
        /\ \A i \in DOMAIN queue["dhcp"] : queue["dhcp"][i].lag <= hand.item.lag
        /\ \A s \in Servers :
             /\ \A i \in DOMAIN queue["dhcp"] : queue["dhcp"][i].lag <= found[s]
             /\ hand.item.lag <= found[s]
    BY DEF IInv, RepliesInOrder
  <2>2. \A s \in Servers : \A i \in DOMAIN queue["dhcp"] : queue["dhcp"][i].lag <= found'[s]
    BY <1>4, <2>1
  <2>3. \A s \in Servers : hand.item.lag <= found'[s]
    BY <1>1, <1>4, <2>1
  <2>4. hand' # Nothing => hand'.item = hand.item
    OBVIOUS
  <2> QED BY <1>5, <2>1, <2>2, <2>3, <2>4 DEF RepliesInOrder
<1> QED BY <1>3, <1>6

LEMMA ObserveKept ==
  ASSUME IInv, Observe
  PROVE  Kept
<1>1. hand # Nothing /\ hand.step = "observe" /\ UNCHANGED <<monitor, cooldown, found, alerted, cut>>
  BY DEF Observe, Step
<1>2. hand' \in Replies /\ hand'.item = hand.item /\ hand'.step = "judge"
  BY <1>1, InHand DEF Observe
<1>3. {cooldown', alerted'} \subseteq [Servers -> Ages \cup {Never}] /\ cut' \subseteq Servers
      /\ inventory' \subseteq Servers
  BY <1>1, InHand DEF TypeOK, Observe
<1>4. LoggedLast'
  BY <1>1, <1>2 DEF IInv, LoggedLast, FoundNow
<1> QED BY <1>1, <1>2, <1>3, <1>4, HandlingKept DEF Kept

LEMMA JudgeKept ==
  ASSUME IInv, Judge
  PROVE  Kept
<1> DEFINE server == hand.item.server
           lag == hand.item.lag
<1>1. /\ hand # Nothing /\ hand.step = "judge" /\ UNCHANGED <<monitor, inventory, found, alerted, cut>>
      /\ cooldown' = IF Logged(server, lag) /\ Cooldown # 0
                     THEN [cooldown EXCEPT ![server] = lag] ELSE cooldown
      /\ hand' = IF server \notin approved /\ Due(server, lag)
                 THEN [hand EXCEPT !.step = "find"] ELSE Nothing
  BY DEF Judge, Step
<1>2. /\ TypeOK /\ server \in Servers /\ lag \in Ages \cup {Never}
      /\ lag <= found[server] /\ [hand EXCEPT !.step = "find"] \in Replies
      /\ [hand EXCEPT !.step = "find"].item = hand.item /\ [hand EXCEPT !.step = "find"].step = "find"
  BY <1>1, InHand
<1>3. hand' = Nothing \/ (hand' \in Replies /\ hand'.item = hand.item /\ hand'.step = "find")
  BY <1>1, <1>2
<1>4. cooldown' \in [Servers -> Ages \cup {Never}]
  BY <1>1, <1>2 DEF TypeOK
<1>5. ASSUME NEW s \in Servers, cooldown'[s] # Never
      PROVE  /\ Cooldown # 0
             /\ cooldown'[s] <= found[s]
             /\ FoundNow(s)' => cooldown'[s] = hand'.item.lag
             /\ FoundNow(s)' \/ s \in cut \/ alerted[s] <= cooldown'[s]
  <2>1. ~FoundNow(s)
    BY <1>1 DEF FoundNow
  <2>2. CASE s = server /\ Logged(server, lag) /\ Cooldown # 0
    <3>1. cooldown'[s] = lag
      BY <1>1, <1>2, <2>2 DEF TypeOK
    <3>2. hand' = [hand EXCEPT !.step = "find"]
      BY <1>1, <2>2 DEF Logged
    <3>3. FoundNow(s)' /\ hand'.item.lag = lag
      BY <1>2, <2>2, <3>2, Constants DEF FoundNow
    <3> QED BY <1>2, <2>2, <3>1, <3>3
  <2>3. CASE ~(s = server /\ Logged(server, lag) /\ Cooldown # 0)
    <3>1. cooldown'[s] = cooldown[s]
      BY <1>1, <1>2, <2>3 DEF TypeOK
    <3>2. Cooldown # 0 /\ cooldown[s] <= found[s] /\ (s \in cut \/ alerted[s] <= cooldown[s])
      BY <1>5, <2>1, <3>1 DEF IInv, LoggedLast
    <3>3. ~FoundNow(s)'
      BY <1>1, <1>3, <2>3, <3>2 DEF FoundNow, Logged
    <3> QED BY <3>1, <3>2, <3>3
  <2> QED BY <2>2, <2>3
<1>6. LoggedLast'
  BY <1>1, <1>5 DEF LoggedLast
<1>7. /\ {cooldown', alerted'} \subseteq [Servers -> Ages \cup {Never}]
      /\ inventory' \subseteq Servers /\ cut' \subseteq Servers
  BY <1>1, <1>2, <1>4 DEF TypeOK
<1> QED BY <1>1, <1>3, <1>6, <1>7, HandlingKept DEF Kept

LEMMA FindKept ==
  ASSUME IInv, Find
  PROVE  Kept
<1>1. /\ hand # Nothing /\ hand.step = "find" /\ UNCHANGED <<monitor, inventory, cooldown, alerted, cut>>
      /\ found' = [found EXCEPT ![hand.item.server] = hand.item.lag]
      /\ hand' = [hand EXCEPT !.step = "emit"]
  BY DEF Find, Step
<1>2. /\ TypeOK /\ hand' \in Replies /\ hand'.item = hand.item /\ hand'.step = "emit"
      /\ hand.item.lag \in 0..MaxLag
  BY <1>1, InHand
<1>3. \A s \in Servers : FoundNow(s)' <=> FoundNow(s)
  BY <1>1, <1>2, Constants DEF FoundNow
<1>4. ASSUME NEW s \in Servers, cooldown[s] # Never PROVE cooldown[s] <= found'[s]
  <2>1. cooldown[s] <= found[s] /\ (FoundNow(s) => cooldown[s] = hand.item.lag)
    BY <1>4 DEF IInv, LoggedLast
  <2>2. CASE s = hand.item.server
    BY <1>1, <1>2, <2>1, <2>2 DEF FoundNow, TypeOK
  <2>3. CASE s # hand.item.server
    BY <1>1, <1>2, <2>1, <2>3 DEF TypeOK
  <2> QED BY <2>2, <2>3
<1>5. LoggedLast'
  BY <1>1, <1>2, <1>3, <1>4 DEF IInv, LoggedLast
<1>6. /\ {cooldown', alerted'} \subseteq [Servers -> Ages \cup {Never}]
      /\ inventory' \subseteq Servers /\ cut' \subseteq Servers
  BY <1>1, <1>2 DEF TypeOK
<1> QED BY <1>1, <1>2, <1>5, <1>6, HandlingKept DEF Kept

LEMMA EmitKept ==
  ASSUME IInv, Emit
  PROVE  Kept
<1>1. /\ hand # Nothing /\ hand.step = "emit" /\ UNCHANGED <<monitor, inventory, cooldown, found>>
      /\ alerted' = [alerted EXCEPT ![hand.item.server] = hand.item.lag]
      /\ cut' = cut \ {hand.item.server} /\ hand' = Nothing
  BY DEF Emit, Step
<1>2. /\ TypeOK /\ hand.item.server \in Servers /\ hand.item.lag \in 0..MaxLag
      /\ hand.item.lag \in Ages \cup {Never}
  BY <1>1, InHand
<1>3. ASSUME NEW s \in Servers, cooldown[s] # Never
      PROVE  s \in cut' \/ alerted'[s] <= cooldown[s]
  <2>1. CASE s = hand.item.server
    BY <1>1, <1>2, <1>3, <2>1 DEF FoundNow, TypeOK, IInv, LoggedLast
  <2>2. CASE s # hand.item.server
    <3>1. ~FoundNow(s) /\ alerted'[s] = alerted[s]
      BY <1>1, <1>2, <2>2 DEF FoundNow, TypeOK
    <3> QED BY <1>1, <1>3, <2>2, <3>1 DEF IInv, LoggedLast
  <2> QED BY <2>1, <2>2
<1>4. LoggedLast'
  BY <1>1, <1>3 DEF IInv, LoggedLast, FoundNow
<1>5. /\ {cooldown', alerted'} \subseteq [Servers -> Ages \cup {Never}]
      /\ inventory' \subseteq Servers /\ cut' \subseteq Servers
  BY <1>1, <1>2 DEF TypeOK
<1> QED BY <1>1, <1>4, <1>5, HandlingKept DEF Kept

LEMMA TickKept ==
  ASSUME IInv, Sleep \/ Down
  PROVE  Kept
<1> DEFINE q == queue["dhcp"]
           r == queue'["dhcp"]
<1>1. /\ TypeOK /\ TickPasses /\ hand = Nothing /\ hand' = Nothing
      /\ UNCHANGED <<up, dropped, told, lost, drained, inventory, approved, cut>>
  BY DEF IInv, HandInPhase, Sleep, Down, TickPasses
<1>2. /\ phase' \in Kinds \cup {"report", "sweep", "sleep"} /\ sweptAgo' \in 0..Interval
  <2>1. /\ phase \in Kinds \cup {"report", "sweep", "sleep"}
        /\ sweptAgo \in 0..Interval /\ Interval \in Nat
    BY <1>1, LoopTypes, Constants DEF TypeOK
  <2>2. CASE Sleep
    BY <2>1, <2>2 DEF Sleep, Kinds
  <2>3. CASE Down
    BY <2>1, <2>3 DEF Down
  <2> QED BY <2>2, <2>3
<1>3. /\ q \in Seq(Items) /\ Len(q) \in Nat /\ DOMAIN q = 1..Len(q)
      /\ \A i \in DOMAIN q : /\ q[i] \in Items /\ q[i].lag \in 0..MaxLag /\ q[i].lag < MaxLag
                             /\ q[i].server \in Servers
  <2>1. /\ q \in Seq(Items) /\ Len(q) \in Nat /\ DOMAIN q = 1..Len(q)
        /\ \A i \in DOMAIN q : q[i].lag \in 0..MaxLag /\ q[i].server \in Servers
    BY <1>1, QueueTypes DEF Kinds
  <2>2. \A i \in DOMAIN q : q[i].lag < MaxLag
    BY <1>1 DEF TickPasses
  <2> HIDE DEF q
  <2> QED BY <2>1, <2>2
<1>4. /\ r = [i \in DOMAIN q |-> [q[i] EXCEPT !.lag = q[i].lag + 1]]
      /\ queue' = [queue EXCEPT !["dhcp"] = r]
  BY <1>1 DEF TickPasses, TypeOK, Kinds
<1>5. ASSUME NEW i \in DOMAIN q
      PROVE  /\ [q[i] EXCEPT !.lag = q[i].lag + 1] \in Items
             /\ [q[i] EXCEPT !.lag = q[i].lag + 1].lag = q[i].lag + 1
             /\ [q[i] EXCEPT !.lag = q[i].lag + 1].server = q[i].server
  <2>1. q[i] \in Items /\ q[i].lag \in 0..MaxLag /\ q[i].lag < MaxLag
    BY <1>3
  <2>2. q[i].lag + 1 \in 0..MaxLag
    BY <2>1, Constants
  <2> HIDE DEF q
  <2> QED BY <2>1, <2>2 DEF Items
<1>6. /\ DOMAIN r = DOMAIN q
      /\ \A i \in DOMAIN q : r[i] \in Items /\ r[i].lag = q[i].lag + 1 /\ r[i].server = q[i].server
  <2> HIDE DEF q, r
  <2> QED BY <1>4, <1>5
<1>7. r \in Seq(Items) /\ Len(r) = Len(q)
  <2>1. r \in [1..Len(q) -> Items]
    <3> HIDE DEF q
    <3> QED BY <1>3, <1>4, <1>5
  <2> HIDE DEF q, r
  <2> QED BY <1>3, <2>1, SeqDef
<1>8. /\ cooldown' = [s \in Servers |-> Older(cooldown[s])]
      /\ found' = [s \in Servers |-> Older(found[s])]
      /\ alerted' = [s \in Servers |-> Older(alerted[s])]
  BY <1>1 DEF TickPasses
<1>9. /\ {cooldown', found', alerted'} \subseteq [Servers -> Ages \cup {Never}]
      /\ \A s \in Servers : {cooldown[s], found[s], alerted[s]} \subseteq Ages \cup {Never}
  BY <1>1, <1>8, Ageing DEF TypeOK
<1>10. TypeOK'
  <2>1. queue' \in [Kinds -> Seq(Items)] /\ \A k \in Kinds : Len(queue'[k]) <= QueueSize
    <3>1. queue \in [Kinds -> Seq(Items)] /\ \A k \in Kinds : Len(queue[k]) <= QueueSize
      BY <1>1 DEF TypeOK
    <3>2. \A k \in Kinds : queue'[k] = IF k = "dhcp" THEN r ELSE queue[k]
      BY <1>4, <3>1
    <3> HIDE DEF r
    <3> QED BY <1>4, <1>7, <3>1, <3>2
  <2>2. \A i \in DOMAIN r : r[i].server \in Servers
    <3> HIDE DEF q, r
    <3> QED BY <1>3, <1>6
  <2> QED BY <1>1, <1>2, <1>9, <2>1, <2>2, LoopTypes DEF TypeOK
<1>11. HandInPhase'
  BY <1>1 DEF HandInPhase
<1>12. RepliesInOrder'
  <2>1. /\ \A i, j \in DOMAIN q : i < j => q[j].lag <= q[i].lag
        /\ \A s \in Servers : \A i \in DOMAIN q : q[i].lag <= found[s]
    BY DEF IInv, RepliesInOrder
  <2>2. ASSUME NEW i \in DOMAIN r, NEW j \in DOMAIN r, i < j PROVE r[j].lag <= r[i].lag
    <3> HIDE DEF q, r
    <3> QED BY <1>3, <1>6, <2>1, <2>2, Constants
  <2>3. ASSUME NEW s \in Servers, NEW i \in DOMAIN r PROVE r[i].lag <= found'[s]
    <3>1. found[s] \in Ages \cup {Never} /\ found'[s] = Older(found[s])
      BY <1>8, <1>9
    <3>2. /\ q[i].lag \in Ages \cup {Never} /\ q[i].lag < MaxLag /\ q[i].lag <= found[s]
          /\ r[i].lag = q[i].lag + 1
      <4> HIDE DEF q, r
      <4> QED BY <1>3, <1>6, <2>1, <2>3, Constants DEF Ages
    <3> QED BY <3>1, <3>2, Ageing
  <2> QED BY <1>1, <2>2, <2>3 DEF RepliesInOrder
<1>13. LoggedLast'
  <2>1. ASSUME NEW s \in Servers, cooldown'[s] # Never
        PROVE  /\ Cooldown # 0
               /\ cooldown'[s] <= found'[s]
               /\ s \in cut \/ alerted'[s] <= cooldown'[s]
    <3>1. cooldown[s] # Never
      BY <1>8, <1>9, <2>1, Ageing
    <3>2. Cooldown # 0 /\ cooldown[s] <= found[s] /\ (s \in cut \/ alerted[s] <= cooldown[s])
      BY <1>1, <3>1 DEF IInv, LoggedLast, FoundNow
    <3> QED BY <1>8, <1>9, <3>2, Ageing
  <2> QED BY <1>1, <2>1 DEF LoggedLast, FoundNow
<1> QED BY <1>10, <1>11, <1>12, <1>13 DEF Kept

\* The process ends, or starts again, or everything is forgotten.
LEMMA OutsideKept ==
  ASSUME IInv, Crash \/ ResetAll \/ \E as \in SUBSET Servers : Restart(as)
  PROVE  Kept
<1>1. TypeOK
  BY DEF IInv
<1>2. CASE Crash
  <2>1. queue' = [k \in Kinds |-> <<>>] /\ queue'["dhcp"] = <<>> /\ hand' = Nothing
    BY <1>2 DEF Crash, Kinds
  <2>2. queue' \in [Kinds -> Seq(Items)] /\ \A k \in Kinds : Len(queue'[k]) <= QueueSize
    BY <2>1, Constants
  <2>3. DOMAIN queue'["dhcp"] = {}
    BY <2>1
  <2>4. TypeOK'
    <3>1. phase' \in {Phases[i] : i \in DOMAIN Phases}
      BY <1>2, LoopTypes DEF Crash, Kinds
    <3>2. /\ dropped' \in 0..MaxDropped /\ told' \in 0..MaxDropped
          /\ drained' \in 0..DrainLimit /\ sweptAgo' \in 0..Interval
      BY <1>2, Constants DEF Crash
    <3>3. /\ UNCHANGED <<approved, inventory, cooldown, found, alerted>> /\ cut' \subseteq Servers
          /\ up' = FALSE /\ lost' = "no"
      BY <1>1, <1>2 DEF Crash, TypeOK
    <3> QED BY <1>1, <2>1, <2>2, <2>3, <3>1, <3>2, <3>3 DEF TypeOK
  <2>5. HandInPhase' /\ RepliesInOrder'
    BY <2>1, <2>3 DEF HandInPhase, RepliesInOrder
  <2>6. LoggedLast'
    BY <1>2, <2>1 DEF IInv, LoggedLast, FoundNow, Crash
  <2> QED BY <2>4, <2>5, <2>6 DEF Kept
<1>3. CASE ResetAll
  <2>1. /\ cooldown' = [s \in Servers |-> Never] /\ found' = [s \in Servers |-> Never]
        /\ UNCHANGED <<monitor, hand, alerted, cut>> /\ inventory' = {}
    BY <1>3 DEF ResetAll
  <2>2. TypeOK' /\ HandInPhase'
    BY <1>1, <2>1 DEF TypeOK, IInv, HandInPhase, monitor
  <2>3. RepliesInOrder'
    <3>1. \A i \in DOMAIN queue["dhcp"] : queue["dhcp"][i].lag <= Never
      BY <1>1, QueueTypes, Constants DEF Never
    <3>2. hand # Nothing => hand.item.lag <= Never
      BY InHand, Constants DEF Never
    <3> QED BY <2>1, <3>1, <3>2 DEF IInv, RepliesInOrder, monitor
  <2>4. LoggedLast'
    BY <2>1 DEF LoggedLast
  <2> QED BY <2>2, <2>3, <2>4 DEF Kept
<1>4. ASSUME NEW as \in SUBSET Servers, Restart(as) PROVE Kept
  <2>1. UNCHANGED <<hand, store, queue>> /\ hand = Nothing
    BY <1>4 DEF Restart, loop, IInv, HandInPhase
  <2>2. TypeOK' /\ HandInPhase'
    BY <1>1, <1>4, <2>1 DEF TypeOK, Restart, loop, store, HandInPhase
  <2> QED BY <2>1, <2>2, Aside
<1> QED BY <1>2, <1>3, <1>4

LEMMA StepKept ==
  ASSUME IInv, [Next]_vars
  PROVE  Kept
<1>1. CASE UNCHANGED vars
  <2>1. TypeOK' /\ HandInPhase'
    BY <1>1 DEF vars, loop, store, IInv, TypeOK, HandInPhase
  <2> QED BY <1>1, <2>1, Aside DEF vars, loop
<1> QED BY <1>1, CaptureKept, DrainKept, PhaseKept, ObserveKept, JudgeKept, FindKept, EmitKept,
           TickKept, OutsideKept DEF Next, Loop

-----------------------------------------------------------------------------
(* Theorems *)

\* The order of the replies and of what is logged about them holds at the
\* start and is kept by every step.
THEOREM Inductive ==
  /\ Init => IInv
  /\ IInv /\ [Next]_vars => IInv'
<1>1. ASSUME Init PROVE IInv
  <2>1. queue["dhcp"] = <<>> /\ hand = Nothing
    BY <1>1 DEF Init, Kinds
  <2>2. queue \in [Kinds -> Seq(Items)] /\ \A k \in Kinds : Len(queue[k]) <= QueueSize
    BY <1>1, Constants DEF Init
  <2>3. DOMAIN queue["dhcp"] = {}
    BY <2>1
  <2>4. TypeOK
    <3>1. phase \in {Phases[i] : i \in DOMAIN Phases}
      BY <1>1, LoopTypes DEF Init, Kinds
    <3>2. /\ dropped \in 0..MaxDropped /\ told \in 0..MaxDropped
          /\ drained \in 0..DrainLimit /\ sweptAgo \in 0..Interval
      BY <1>1, Constants DEF Init
    <3>3. {cooldown, found, alerted} \subseteq [Servers -> Ages \cup {Never}]
      BY <1>1 DEF Init
    <3>4. /\ up \in BOOLEAN /\ lost \in {"no", "failed", "told"} /\ hand \in Replies \cup {Nothing}
          /\ approved \subseteq Servers /\ inventory \subseteq Servers /\ cut \subseteq Servers
      BY <1>1 DEF Init
    <3> QED BY <2>2, <2>3, <3>1, <3>2, <3>3, <3>4 DEF TypeOK
  <2> QED BY <1>1, <2>1, <2>3, <2>4 DEF Init, IInv, HandInPhase, RepliesInOrder, LoggedLast
<1>2. ASSUME IInv, [Next]_vars PROVE IInv'
  BY <1>2, StepKept DEF Kept, IInv
<1> QED BY <1>1, <1>2

\* The queues, the counts and the ages keep their types.
THEOREM TypeCorrect == Spec => []TypeOK
<1>1. IInv => TypeOK
  BY DEF IInv
<1> QED BY Inductive, <1>1, PTL DEF Spec

\* A judged reply goes to be found, or is passed over, only in Judge.
LEMMA OnlyJudge ==
  ASSUME IInv, Next, Step("judge"), hand' # hand, up'
  PROVE  Judge
BY DEF Next, Loop, Step, Capture, CaptureFails, Drain, NextQueue, Observe, Find, Emit, Report, Sweep,
       NoSweepYet, Sleep, TickPasses, Down, Crash, ResetAll, Restart, loop

\* One server makes no two findings within a cooldown, by the times of its
\* replies (process_dhcp_server_sighting).
THEOREM FoundOncePerCooldown == Spec => OncePerCooldown
<1>1. ASSUME IInv, [Next]_vars, NEW s \in Servers, Step("judge"), hand.item.server = s,
             hand' = [hand EXCEPT !.step = "find"]
      PROVE  \/ cooldown[s] = Never
             \/ found[s] = Never
             \/ found[s] - hand.item.lag >= Cooldown
  <2>1. /\ hand # Nothing /\ hand.step = "judge" /\ hand' \in Replies /\ hand'.step = "find"
        /\ TypeOK /\ hand.item.lag \in 0..MaxLag
    BY <1>1, InHand DEF Step
  <2>2. hand' # hand /\ hand' # Nothing
    BY <2>1, Constants
  <2>3. Next /\ up'
    BY <1>1, <2>2 DEF vars, loop, Next, Loop, Crash, Capture, CaptureFails, Drain, NextQueue, Observe,
                      Judge, Find, Emit, Report, Sweep, NoSweepYet, Sleep, Down, ResetAll, Restart,
                      Step, monitor
  <2>4. Judge
    BY <1>1, <2>2, <2>3, OnlyJudge
  <2>5. Due(s, hand.item.lag)
    BY <1>1, <2>2, <2>4 DEF Judge
  <2>6. cooldown[s] # Never => Cooldown # 0 /\ cooldown[s] <= found[s]
    BY <1>1 DEF IInv, LoggedLast
  <2>7. cooldown[s] \in Ages \cup {Never} /\ found[s] \in Ages \cup {Never}
    BY <2>1 DEF TypeOK
  <2> QED BY <2>1, <2>5, <2>6, <2>7, Constants DEF Due, Ages, Never
<1>2. IInv /\ [Next]_vars =>
        [\A s \in Servers :
           Step("judge") /\ hand.item.server = s /\ hand' = [hand EXCEPT !.step = "find"] =>
             \/ cooldown[s] = Never
             \/ found[s] = Never
             \/ found[s] - hand.item.lag >= Cooldown]_vars
  BY <1>1
<1> QED BY Inductive, <1>2, PTL DEF Spec, OncePerCooldown

\* A server that is not approved is passed over only within the cooldown of a
\* finding that was handed on, a crash before that excepted
\* (process_dhcp_server_sighting).
THEOREM PassedOverOnlyAfterReport == Spec => UnexpectedIsReported
<1>1. ASSUME IInv, [Next]_vars, NEW s \in Servers \ approved,
             Step("judge"), hand.item.server = s, hand' = Nothing, up'
      PROVE  s \in cut \/ alerted[s] - hand.item.lag < Cooldown
  <2>1. hand # Nothing /\ hand.step = "judge" /\ TypeOK /\ hand.item.lag \in 0..MaxLag
    BY <1>1, InHand DEF Step
  <2>2. Next
    BY <1>1, <2>1 DEF vars, loop
  <2>3. Judge
    BY <1>1, <2>1, <2>2, OnlyJudge
  <2>4. ~Due(s, hand.item.lag)
    <3>1. [hand EXCEPT !.step = "find"] \in Replies
      BY <1>1, <2>1, InHand
    <3> QED BY <1>1, <2>3, <3>1, Constants DEF Judge
  <2>5. cooldown[s] # Never => s \in cut \/ alerted[s] <= cooldown[s]
    BY <1>1, <2>1 DEF IInv, LoggedLast, FoundNow
  <2>6. cooldown[s] \in Ages \cup {Never} /\ alerted[s] \in Ages \cup {Never}
    BY <2>1 DEF TypeOK
  <2> QED BY <2>1, <2>4, <2>5, <2>6, Constants DEF Due, Ages, Never
<1>2. IInv /\ [Next]_vars =>
        [\A s \in Servers \ approved :
           Step("judge") /\ hand.item.server = s /\ hand' = Nothing /\ up' =>
             s \in cut \/ alerted[s] - hand.item.lag < Cooldown]_vars
  BY <1>1
<1> QED BY Inductive, <1>2, PTL DEF Spec, UnexpectedIsReported

=============================================================================
