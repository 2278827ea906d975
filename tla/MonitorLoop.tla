---------------------------- MODULE MonitorLoop ----------------------------
(***************************************************************************)
(* The loop of "lanfence monitor" (cli.py) and the watch on DHCP servers   *)
(* (dhcp_server.py): a capture thread puts what it hears into bounded      *)
(* queues and drops what does not fit; the loop drains each queue up to a  *)
(* limit, reports what was dropped, sweeps when a sweep is due, and sleeps.*)
(* A DHCP reply is handled in several commits, and a crash may fall        *)
(* between any two. What a sighting or a sweep does to the devices is in   *)
(* DeviceLifecycle, what becomes of a finding in AlertPipeline, what an    *)
(* advertisement becomes in DiscoveryEvidence.                             *)
(***************************************************************************)
EXTENDS Integers, Sequences, FiniteSets

CONSTANTS
  Packets,    \* what may pass on the network
  Servers,    \* DHCP servers, an identifier on an interface each
  Nothing,    \* no server, nothing in hand
  Captured,   \* the queues in use: "passive", and what the settings add
  QueueSize,  \* passive_queue_maxsize
  DrainLimit, \* items taken from a queue before the loop goes on (200)
  Interval,   \* ticks between the starts of two sweeps
  Cooldown,   \* ticks between two findings about one server
  MaxLag,     \* bound: how long a reply may wait in its queue
  AgeCap,     \* bound: ages saturate here
  MaxDropped  \* bound: items dropped in one run of the monitor

Kinds == {"passive", "dhcp", "mdns", "ssdp"}

\* One round of the loop, in this order.
Phases == <<"passive", "dhcp", "mdns", "ssdp", "report", "sweep", "sleep">>

Ages == 0..AgeCap
Never == AgeCap + 1

\* A DHCP reply in hand, and the commit that is next.
Replies == [item : [server : Servers, lag : 0..MaxLag],
            step : {"observe", "judge", "find", "emit"}]

ASSUME QueueAssumption ==
  /\ {"passive"} \subseteq Captured /\ Captured \subseteq Kinds
  /\ {QueueSize, DrainLimit, Interval} \subseteq Nat \ {0}
  /\ MaxDropped \in Nat /\ Nothing \notin Servers \cup Replies
ASSUME TimeAssumption ==
  /\ {Cooldown, MaxLag, AgeCap} \subseteq Nat
  /\ Cooldown + MaxLag <= AgeCap

VARIABLES
  up,        \* whether the monitor runs, and its capture thread
  queue,     \* the bounded queues; a DHCP reply is [server, lag]
  dropped,   \* items that did not fit, over all queues
  told,      \* how many of them the operator was told of
  lost,      \* whether capture has failed: "no", "failed", "told"
  phase,     \* what the loop does
  drained,   \* items taken from the present queue
  sweptAgo,  \* ticks since the last sweep began
  hand,      \* the DHCP reply in hand: [server, lag, step], or Nothing
  approved,  \* the approved servers, as read when the monitor started
  inventory, \* dhcp_servers
  cooldown,  \* alert_log: ticks since the time logged
  found,     \* dhcp_server_findings: ticks since the reply of the newest
  alerted,   \* ticks since the reply of the last finding handed on
  cut        \* servers whose last finding a crash kept from being handed on

monitor == <<up, queue, dropped, told, lost, phase, drained, sweptAgo, approved>>
loop == <<phase, drained, sweptAgo, hand>>
store == <<inventory, cooldown, found, alerted, cut>>
vars == <<up, queue, dropped, told, lost, loop, approved, store>>

-----------------------------------------------------------------------------
(* Capture. *)

\* The queue a packet goes to and what is put there. ARP, neighbour discovery
\* with an address, and a DHCP request with one are sightings. A DHCP reply
\* counts by its server identifier, if it is of a kind that leases.
Heard(p) ==
  CASE p.proto = "arp" /\ p.op \in {1, 2} -> {<<"passive", Nothing>>}
    [] p.proto = "nd" /\ p.address -> {<<"passive", Nothing>>}
    [] p.proto = "dhcp" /\ p.op = 1 /\ p.address -> {<<"passive", Nothing>>}
    [] p.proto = "dhcp" /\ p.op = 2 /\ p.type \in {"offer", "ack", "nak"}
         /\ p.server # Nothing -> {<<"dhcp", p.server>>}
    [] p.proto \in {"mdns", "ssdp"} /\ p.parses -> {<<p.proto, Nothing>>}
    [] OTHER -> {}

ASSUME PacketAssumption ==
  \A p \in Packets : \A h \in Heard(p) :
    h[1] \in Kinds /\ h[2] \in IF h[1] = "dhcp" THEN Servers ELSE {Nothing}

\* The put never blocks: what does not fit is counted.
PutDropping(kind, item) ==
  IF Len(queue[kind]) < QueueSize
  THEN /\ queue' = [queue EXCEPT ![kind] = Append(@, item)]
       /\ UNCHANGED dropped
  ELSE /\ dropped < MaxDropped
       /\ dropped' = dropped + 1
       /\ UNCHANGED queue

Capture(p) ==
  /\ up /\ lost = "no"
  /\ \E h \in Heard(p) :
       /\ h[1] \in Captured
       /\ PutDropping(h[1], [server |-> h[2], lag |-> 0])
  /\ UNCHANGED <<up, told, lost, loop, approved, store>>

\* Capture ends with an error, and the rest goes on without it.
CaptureFails ==
  /\ up /\ lost = "no"
  /\ lost' = "failed"
  /\ UNCHANGED <<up, queue, dropped, told, loop, approved, store>>

-----------------------------------------------------------------------------
(* Draining. *)

\* The next phase, past the queues that are not in use.
After(ph) ==
  LET here == CHOOSE i \in DOMAIN Phases : Phases[i] = ph
      ahead == {i \in DOMAIN Phases : i > here /\ Phases[i] \notin Kinds \ Captured}
  IN Phases[CHOOSE i \in ahead : \A j \in ahead : i <= j]

\* Faulty: nothing is counted, and the queue is drained to the bottom.
Uncounted == drained

Counted == drained + 1

\* One queue may not keep the loop from the others, nor from sweeping.
DrainedEnough(kind) == queue[kind] = <<>> \/ drained = DrainLimit

\* The next item of the present queue is taken. A sighting or a message is
\* handled at once, a DHCP reply in steps.
Drain(kind) ==
  /\ up /\ phase = kind /\ hand = Nothing
  /\ ~DrainedEnough(kind)
  /\ queue' = [queue EXCEPT ![kind] = Tail(@)]
  /\ drained' = Counted
  /\ hand' = IF kind = "dhcp" THEN [item |-> Head(queue[kind]), step |-> "observe"] ELSE Nothing
  /\ UNCHANGED <<up, dropped, told, lost, phase, sweptAgo, approved, store>>

NextQueue(kind) ==
  /\ up /\ phase = kind /\ hand = Nothing
  /\ DrainedEnough(kind)
  /\ phase' = After(kind)
  /\ drained' = 0
  /\ UNCHANGED <<up, queue, dropped, told, lost, sweptAgo, hand, approved, store>>

-----------------------------------------------------------------------------
(* A DHCP reply, commit by commit. The times are those of its capture. *)

Step(step) == up /\ hand # Nothing /\ hand.step = step

\* The inventory takes every reply, and with an ACK the client's lease.
Observe ==
  /\ Step("observe")
  /\ inventory' = inventory \cup {hand.item.server}
  /\ hand' = [hand EXCEPT !.step = "judge"]
  /\ UNCHANGED <<monitor, cooldown, found, alerted, cut>>

\* Faulty: the time of handling counts, not that of the reply.
DueByNow(server, lag) == cooldown[server] = Never \/ cooldown[server] >= Cooldown

\* The last finding is long enough past, by the times of the two replies.
Due(server, lag) ==
  \/ Cooldown = 0
  \/ cooldown[server] = Never
  \/ cooldown[server] - lag >= Cooldown

\* Faulty: the cooldown is asked, and so recorded, for approved servers too.
LoggedFirst(server, lag) == Due(server, lag)

\* A cooldown is recorded for what is not approved and due.
Logged(server, lag) == server \notin approved /\ Due(server, lag)

Judge ==
  /\ Step("judge")
  /\ LET server == hand.item.server
         lag == hand.item.lag
     IN /\ cooldown' = IF Logged(server, lag) /\ Cooldown # 0
                       THEN [cooldown EXCEPT ![server] = lag] ELSE cooldown
        /\ hand' = IF server \notin approved /\ Due(server, lag)
                   THEN [hand EXCEPT !.step = "find"] ELSE Nothing
  /\ UNCHANGED <<monitor, inventory, found, alerted, cut>>

\* The finding is stored,
Find ==
  /\ Step("find")
  /\ found' = [found EXCEPT ![hand.item.server] = hand.item.lag]
  /\ hand' = [hand EXCEPT !.step = "emit"]
  /\ UNCHANGED <<monitor, inventory, cooldown, alerted, cut>>

\* then handed on to the alert gate.
Emit ==
  /\ Step("emit")
  /\ alerted' = [alerted EXCEPT ![hand.item.server] = hand.item.lag]
  /\ cut' = cut \ {hand.item.server}
  /\ hand' = Nothing
  /\ UNCHANGED <<monitor, inventory, cooldown, found>>

-----------------------------------------------------------------------------
(* The rest of the round. *)

\* Faulty: a single item is not worth a word.
ToldLate == IF dropped > told + 1 THEN dropped ELSE told

\* All that was dropped up to now.
Told == IF dropped > told THEN dropped ELSE told

Report ==
  /\ up /\ phase = "report"
  /\ told' = Told
  /\ lost' = IF lost = "failed" THEN "told" ELSE lost
  /\ phase' = After(phase)
  /\ UNCHANGED <<up, queue, dropped, drained, sweptAgo, hand, approved, store>>

Older(age) == IF age >= AgeCap THEN age ELSE age + 1

\* A tick passes; no reply waits longer than MaxLag.
TickPasses ==
  /\ \A i \in DOMAIN queue["dhcp"] : queue["dhcp"][i].lag < MaxLag
  /\ queue' = [queue EXCEPT !["dhcp"] =
                 [i \in DOMAIN queue["dhcp"] |->
                    [queue["dhcp"][i] EXCEPT !.lag = queue["dhcp"][i].lag + 1]]]
  /\ cooldown' = [s \in Servers |-> Older(cooldown[s])]
  /\ found' = [s \in Servers |-> Older(found[s])]
  /\ alerted' = [s \in Servers |-> Older(alerted[s])]
  /\ UNCHANGED <<dropped, told, lost, drained, hand, inventory, approved, cut>>

\* A sweep blocks the loop, with the alerts and the change detection that
\* follow it. Its time counts with that of the sleep.
Sweep ==
  /\ up /\ phase = "sweep"
  /\ sweptAgo >= Interval
  /\ sweptAgo' = 0
  /\ phase' = "sleep"
  /\ UNCHANGED <<up, queue, dropped, told, lost, drained, hand, approved, store>>

NoSweepYet ==
  /\ up /\ phase = "sweep"
  /\ sweptAgo < Interval
  /\ phase' = "sleep"
  /\ UNCHANGED <<up, queue, dropped, told, lost, drained, sweptAgo, hand, approved, store>>

Sleep ==
  /\ up /\ phase = "sleep"
  /\ TickPasses
  /\ sweptAgo' = IF sweptAgo < Interval THEN sweptAgo + 1 ELSE sweptAgo
  /\ phase' = "passive"
  /\ UNCHANGED up

-----------------------------------------------------------------------------

Init ==
  /\ up = TRUE
  /\ queue = [k \in Kinds |-> <<>>]
  /\ dropped = 0 /\ told = 0 /\ lost = "no"
  /\ phase = "passive" /\ drained = 0 /\ sweptAgo = Interval /\ hand = Nothing
  /\ approved \in SUBSET Servers
  /\ inventory = {}
  /\ cooldown = [s \in Servers |-> Never]
  /\ found = [s \in Servers |-> Never]
  /\ alerted = [s \in Servers |-> Never]
  /\ cut = {}

\* The process ends, by a signal or by an error that nothing catches. What
\* was queued is gone, and so are the counts.
Crash ==
  /\ up
  /\ up' = FALSE
  /\ queue' = [k \in Kinds |-> <<>>]
  /\ dropped' = 0 /\ told' = 0 /\ lost' = "no"
  /\ phase' = "passive" /\ drained' = 0 /\ sweptAgo' = Interval
  /\ hand' = Nothing
  /\ cut' = cut \cup {s \in Servers : /\ hand # Nothing /\ hand.item.server = s
                                     /\ hand.step \in {"find", "emit"}}
  /\ UNCHANGED <<approved, inventory, cooldown, found, alerted>>

\* Time passes while nothing runs.
Down ==
  /\ ~up
  /\ TickPasses
  /\ UNCHANGED <<up, phase, sweptAgo>>

\* The operator has everything forgotten, cooldowns included.
ResetAll ==
  /\ inventory' = {}
  /\ cooldown' = [s \in Servers |-> Never]
  /\ found' = [s \in Servers |-> Never]
  /\ UNCHANGED <<monitor, hand, alerted, cut>>

\* Started again, perhaps with other approvals.
Restart(as) ==
  /\ ~up
  /\ up' = TRUE
  /\ approved' = as
  /\ UNCHANGED <<queue, dropped, told, lost, loop, store>>

Loop ==
  \/ \E k \in Kinds : Drain(k) \/ NextQueue(k)
  \/ Observe \/ Judge \/ Find \/ Emit
  \/ Report \/ Sweep \/ NoSweepYet \/ Sleep

Next ==
  \/ \E p \in Packets : Capture(p)
  \/ CaptureFails
  \/ Loop
  \/ Crash
  \/ Down
  \/ ResetAll
  \/ \E as \in SUBSET Servers : Restart(as)

Spec == Init /\ [][Next]_vars

\* The loop goes on whatever is captured; nothing else is promised.
FairSpec == Spec /\ WF_vars(Loop)

-----------------------------------------------------------------------------

Items == [server : Servers \cup {Nothing}, lag : 0..MaxLag]

\* Queues, counts and ages keep their types.
TypeOK ==
  /\ up \in BOOLEAN /\ lost \in {"no", "failed", "told"}
  /\ queue \in [Kinds -> Seq(Items)]
  /\ \A k \in Kinds : Len(queue[k]) <= QueueSize
  /\ \A i \in DOMAIN queue["dhcp"] : queue["dhcp"][i].server \in Servers
  /\ dropped \in 0..MaxDropped /\ told \in 0..MaxDropped
  /\ phase \in {Phases[i] : i \in DOMAIN Phases}
  /\ drained \in 0..DrainLimit /\ sweptAgo \in 0..Interval
  /\ hand \in Replies \cup {Nothing}
  /\ approved \subseteq Servers /\ inventory \subseteq Servers /\ cut \subseteq Servers
  /\ {cooldown, found, alerted} \subseteq [Servers -> Ages \cup {Never}]

\* However much is captured, the monitor goes on sweeping (the comments on the
\* bounded drains, cli.py).
SweepsGoOn == []<>(~up \/ phase = "sweep")

\* Whatever is lost, the operator is told: each item that did not fit, and that
\* capture has failed.
LossIsTold ==
  /\ \A n \in 1..MaxDropped : (dropped >= n) ~> (told >= n \/ ~up)
  /\ (lost = "failed") ~> (lost = "told" \/ ~up)

\* A reply of a server that is not approved is passed over only if the operator
\* was told of that server within the cooldown, whatever was approved before; a
\* crash between the commits excepted (process_dhcp_server_sighting).
UnexpectedIsReported ==
  [][\A s \in Servers \ approved :
       Step("judge") /\ hand.item.server = s /\ hand' = Nothing /\ up' =>
         s \in cut \/ alerted[s] - hand.item.lag < Cooldown]_vars

\* One server makes no two findings within a cooldown, by the times of its
\* replies, however late they are handled and whatever crashes in between; a
\* reset that forgets the cooldown excepted.
OncePerCooldown ==
  [][\A s \in Servers :
       Step("judge") /\ hand.item.server = s /\ hand' = [hand EXCEPT !.step = "find"] =>
         \/ cooldown[s] = Never
         \/ found[s] = Never
         \/ found[s] - hand.item.lag >= Cooldown]_vars

=============================================================================
