--------------------------- MODULE AlertPipeline ---------------------------
(***************************************************************************)
(* From findings to alerts: the snooze filter, the cooldown of each        *)
(* subject and the global cap (engine.py, db.py), the hand-over to the     *)
(* delivery thread (AlertWorker) and the delivery itself with its daily    *)
(* SMS budget (alerts.py).                                                 *)
(*                                                                         *)
(* Senders share the database: the monitor and one-off scans run from      *)
(* other terminals. A scan delivers inline, the monitor's thread for it,   *)
(* each over a connection of its own. A table is read and written in two   *)
(* statements, so another sender may act between them. Times are ages, as  *)
(* in DeviceLifecycle.                                                     *)
(***************************************************************************)
EXTENDS AlertWorker, FiniteSets

CONSTANTS
  Monitor,       \* the sender that owns the delivery thread
  Scans,         \* one-off scans that may run beside it
  Subjects,      \* devices and DHCP servers a finding may be about
  MaxPerWindow,  \* alerts.global_rate_limit_max, 0 for none
  Window,        \* alerts.global_rate_limit_window_seconds, in ticks
  MinSeverity,   \* alerts.min_severity
  Pushes,        \* the channels delivered before Twilio
  Recipients,    \* the numbers Twilio sends to
  Segments,      \* the SMS segments of a message
  MaxSegments,   \* alerts.twilio.max_segments_per_day, 0 for none
  AgeCap         \* bound: ages saturate here

Senders == {Monitor} \cup Scans
Severities == 0..3   \* info, medium, high, critical
Kinds == {"device", "change", "availability", "network"}
NoRow == -1

ASSUME FindingAssumption ==
  Findings \subseteq [subject: Subjects, kind: Kinds, sev: Severities,
                      cooldown: 0..AgeCap]
ASSUME SenderAssumption == IsFiniteSet(Scans) /\ Monitor \notin Scans
ASSUME LimitAssumption ==
  /\ AgeCap \in Nat
  /\ MaxPerWindow \in Nat
  /\ Window \in 1..(AgeCap - 1)
  /\ MinSeverity \in Severities
  /\ Pushes \in Nat /\ Recipients \in Nat
  /\ Segments \in Nat \ {0} /\ MaxSegments \in Nat

VARIABLES
  alertLog,   \* alert_log table: age and severity by cooldown key
  window,     \* alert_global_window table: age and count
  smsUsed,    \* sms_budget table: the row of the current day
  snoozed,    \* device_review table: the devices snoozed right now
  pc,         \* where each sender is
  pending,    \* findings each sender has not decided about
  item,       \* the finding it is deciding about
  passed,     \* findings of the batch it may send
  refused,    \* findings of the batch that the global cap refused
  disp,       \* the delivery of each sender
  sent,       \* history: what was last let through under a cooldown, by
              \* key, unless the operator made the key be forgotten since
  recent      \* history: how many the global cap let through and counted
              \* during the last so many ticks, since everything was reset

gate == <<pc, pending, item, passed, refused>>
limits == <<alertLog, window, snoozed>>
ghosts == <<sent, recent>>
vars == <<workerVars, limits, smsUsed, gate, disp, ghosts>>

-----------------------------------------------------------------------------
(* Cooldown keys *)

\* _alert_cooldown_key: absence and recovery of a device each have a lane of
\* their own, a policy's change alerts another; the rest share the device's.
Key(f) ==
  CASE f.kind = "availability" -> <<"availability", f.subject, f.sev>>
    [] f.kind = "network"      -> <<"network", f.subject, f.sev>>
    [] f.kind = "change"       -> <<"change", f.subject, 0>>
    [] OTHER                   -> <<"device", f.subject, 0>>

Keys == {Key(f) : f \in Findings}
Devices == {f.subject : f \in {g \in Findings : g.kind # "network"}}
Never == [age |-> AgeCap, sev |-> NoRow]
LogRow == [age: 0..AgeCap, sev: Severities] \cup {Never}
NoWindow == [age |-> AgeCap, count |-> 0]

Older(a) == IF a = AgeCap THEN AgeCap ELSE a + 1
Aged(row) == [row EXCEPT !.age = Older(@)]

-----------------------------------------------------------------------------
(* filter_snoozed and filter_rate_limited *)

\* A finding about no device passes: only devices are snoozed.
NotSnoozed(fs) == {f \in fs : f.kind = "network" \/ f.subject \notin snoozed}

BeginBatch(s, fs) ==
  /\ pc[s] = "idle"
  /\ s = Monitor => stop = "no" /\ submitted < MaxBatches
  /\ fs # {}
  /\ pending' = [pending EXCEPT ![s] = NotSnoozed(fs)]
  /\ passed' = [passed EXCEPT ![s] = {}]
  /\ refused' = [refused EXCEPT ![s] = {}]
  /\ pc' = [pc EXCEPT ![s] = "gate"]
  /\ UNCHANGED <<workerVars, limits, smsUsed, item, disp, ghosts>>

\* Faulty variant of Foremost: findings are taken as they come.
ForemostAny(s, f) == f \in pending[s]

\* The batch is gone through from the highest severity down.
Foremost(s, f) == f \in pending[s] /\ \A g \in pending[s] : g.sev <= f.sev

\* Faulty variant of InCooldown: the cooldown is over one tick early.
InCooldownShort(f) ==
  /\ f.cooldown > 0
  /\ alertLog[Key(f)].age + 1 < f.cooldown
  /\ f.sev <= alertLog[Key(f)].sev

\* due_for_alert says no: an alert of this key, at least as severe, is newer
\* than the cooldown.
InCooldown(f) ==
  /\ f.cooldown > 0
  /\ alertLog[Key(f)].age < f.cooldown
  /\ f.sev <= alertLog[Key(f)].sev

Suppress(s, f) ==
  /\ pc[s] = "gate"
  /\ Foremost(s, f)
  /\ InCooldown(f)
  /\ pending' = [pending EXCEPT ![s] = @ \ {f}]
  /\ UNCHANGED <<workerVars, limits, smsUsed, pc, item, passed, refused, disp,
                 ghosts>>

FindDue(s, f) ==
  /\ pc[s] = "gate"
  /\ Foremost(s, f)
  /\ ~InCooldown(f)
  /\ pending' = [pending EXCEPT ![s] = @ \ {f}]
  /\ item' = [item EXCEPT ![s] = {f}]
  /\ pc' = [pc EXCEPT ![s] = IF f.cooldown = 0 THEN "cap" ELSE "log"]
  /\ UNCHANGED <<workerVars, limits, smsUsed, passed, refused, disp, ghosts>>

\* due_for_alert says yes and has recorded so, whatever happens next.
LogAlert(s) ==
  /\ pc[s] = "log"
  /\ \E f \in item[s] :
       alertLog' = [alertLog EXCEPT ![Key(f)] = [age |-> 0, sev |-> f.sev]]
  /\ pc' = [pc EXCEPT ![s] = "cap"]
  /\ UNCHANGED <<workerVars, window, snoozed, smsUsed, pending, item, passed,
                 refused, disp, ghosts>>

\* consume_global_alert_budget reads its window.
ReadWindow(s) ==
  /\ pc[s] = "cap"
  /\ LET answer == CASE MaxPerWindow = 0             -> "pass"
                     [] MaxPerWindow > 0 /\ window.age >= Window -> "open"
                     [] MaxPerWindow > 0 /\ window.age < Window /\
                          window.count >= MaxPerWindow -> "gate"
                     [] OTHER                        -> "count"
     IN /\ pc' = [pc EXCEPT ![s] = answer]
        /\ refused' = [refused EXCEPT ![s] =
                         IF answer = "gate" THEN @ \cup item[s] ELSE @]
        /\ item' = [item EXCEPT ![s] = IF answer = "gate" THEN {} ELSE @]
  /\ UNCHANGED <<workerVars, limits, smsUsed, pending, passed, disp, ghosts>>

\* Faulty variant of NextWindow: a new window begins with a count of zero.
NextWindowFromZero(answer) ==
  CASE answer = "open" -> [age |-> 0, count |-> 0]
    [] answer = "count" /\ window # NoWindow -> [window EXCEPT !.count = @ + 1]
    [] OTHER -> window

\* An UPDATE of a window that was deleted meanwhile changes nothing.
NextWindow(answer) ==
  CASE answer = "open" -> [age |-> 0, count |-> 1]
    [] answer = "count" /\ window # NoWindow -> [window EXCEPT !.count = @ + 1]
    [] OTHER -> window

\* ... and writes it: the finding may be sent.
LetThrough(s) ==
  /\ pc[s] \in {"open", "count", "pass"}
  /\ window' = NextWindow(pc[s])
  /\ passed' = [passed EXCEPT ![s] = @ \cup item[s]]
  /\ item' = [item EXCEPT ![s] = {}]
  /\ pc' = [pc EXCEPT ![s] = "gate"]
  /\ \E f \in item[s] :
       sent' = IF f.cooldown > 0 /\ alertLog[Key(f)] # Never
               THEN [sent EXCEPT ![Key(f)] = [age |-> 0, sev |-> f.sev]]
               ELSE sent
  /\ recent' = IF pc[s] = "open" \/ (pc[s] = "count" /\ window # NoWindow)
               THEN [a \in 0..AgeCap |-> recent[a] + 1] ELSE recent
  /\ UNCHANGED <<workerVars, alertLog, snoozed, smsUsed, pending, refused, disp>>

-----------------------------------------------------------------------------
(* Delivery *)

Idle == [batch |-> {}, channel |-> 0, left |-> 0, read |-> "no", today |-> TRUE]

\* dispatch drops what is below min_severity only here.
Delivery(fs) ==
  LET worth == {f \in fs : f.sev >= MinSeverity}
  IN [batch |-> worth,
      channel |-> IF worth = {} THEN Pushes ELSE 0,
      left |-> IF worth = {} THEN 0 ELSE Recipients,
      read |-> "no", today |-> TRUE]

GateDone(s) ==
  /\ pc[s] = "gate"
  /\ pending[s] = {}
  /\ passed' = [passed EXCEPT ![s] = {}]
  /\ refused' = [refused EXCEPT ![s] = {}]
  /\ UNCHANGED <<limits, smsUsed, pending, item, ghosts>>

\* Nothing is left to send.
SendNothing(s) ==
  /\ GateDone(s)
  /\ passed[s] = {}
  /\ pc' = [pc EXCEPT ![s] = "idle"]
  /\ UNCHANGED <<workerVars, disp>>

\* The monitor hands its batch to the delivery thread and goes on, whether
\* there was room or not.
HandOver ==
  /\ GateDone(Monitor)
  /\ passed[Monitor] # {}
  /\ Submit(passed[Monitor])
  /\ pc' = [pc EXCEPT ![Monitor] = "idle"]
  /\ UNCHANGED disp

SendInline(s) ==
  /\ s # Monitor
  /\ GateDone(s)
  /\ passed[s] # {}
  /\ disp' = [disp EXCEPT ![s] = Delivery(passed[s])]
  /\ pc' = [pc EXCEPT ![s] = "sending"]
  /\ UNCHANGED workerVars

TakeBatch ==
  /\ Take
  /\ disp' = [disp EXCEPT ![Monitor] = Delivery(inHand'.findings)]
  /\ UNCHANGED <<limits, smsUsed, gate, ghosts>>

Sending(s) == IF s = Monitor THEN worker = "busy" /\ stop # "gone"
              ELSE pc[s] = "sending"

\* The delivery of s is over, complete or not.
EndDelivery(s) ==
  /\ disp' = [disp EXCEPT ![s] = Idle]
  /\ IF s = Monitor THEN Finish /\ UNCHANGED pc
     ELSE pc' = [pc EXCEPT ![s] = "idle"] /\ UNCHANGED workerVars
  /\ UNCHANGED <<limits, pending, item, passed, refused, ghosts>>

\* One channel after the other is sent to, or skipped, or fails in a way
\* that is caught and logged.
Push(s) ==
  /\ Sending(s)
  /\ disp[s].channel < Pushes
  /\ disp' = [disp EXCEPT ![s].channel = @ + 1]
  /\ UNCHANGED <<workerVars, limits, smsUsed, gate, ghosts>>

\* An answer that is no HTTP raises what no channel catches.
PushRaises(s) ==
  /\ Sending(s)
  /\ disp[s].channel < Pushes
  /\ EndDelivery(s)
  /\ UNCHANGED smsUsed

\* Faulty variant of SmsAffordable: only a spent budget stops.
SmsAffordableLate == smsUsed = NoRow \/ smsUsed < MaxSegments

SmsAffordable ==
  (IF smsUsed = NoRow THEN 0 ELSE smsUsed) + Segments <= MaxSegments

\* consume_sms_budget reads what the day has used, for the next recipient.
ReadSms(s) ==
  /\ Sending(s)
  /\ disp[s].channel = Pushes
  /\ disp[s].left > 0
  /\ disp[s].read = "no"
  /\ \/ MaxSegments = 0 /\ disp' = [disp EXCEPT ![s].left = @ - 1]
     \/ MaxSegments > 0 /\ ~SmsAffordable /\ disp' = [disp EXCEPT ![s].left = 0]
     \/ /\ MaxSegments > 0 /\ SmsAffordable
        /\ disp' = [disp EXCEPT
             ![s] = [@ EXCEPT !.read = IF smsUsed = NoRow THEN "none" ELSE "row",
                              !.today = TRUE]]
  /\ UNCHANGED <<workerVars, limits, smsUsed, gate, ghosts>>

\* ... and charges it to the day it read; then the message is sent.
ChargeSms(s) ==
  /\ Sending(s)
  /\ disp[s].read # "no"
  /\ disp[s].read = "none" /\ disp[s].today => smsUsed = NoRow
  /\ smsUsed' = CASE ~disp[s].today       -> smsUsed
                  [] disp[s].today /\ disp[s].read = "none" -> Segments
                  [] OTHER                -> smsUsed + Segments
  /\ disp' = [disp EXCEPT ![s].read = "no", ![s].left = @ - 1]
  /\ UNCHANGED <<workerVars, limits, gate, ghosts>>

\* Another sender has inserted the row of that day meanwhile: the INSERT
\* raises.
ChargeRaises(s) ==
  /\ Sending(s)
  /\ disp[s].read = "none"
  /\ disp[s].today => smsUsed # NoRow
  /\ EndDelivery(s)
  /\ UNCHANGED smsUsed

\* The same answers to a message that was charged skip the recipients left.
SmsRaises(s) ==
  /\ Sending(s)
  /\ disp[s].channel = Pushes
  /\ disp[s].read = "no"
  /\ disp[s].left \in 1..(Recipients - 1)
  /\ EndDelivery(s)
  /\ UNCHANGED smsUsed

DeliveryDone(s) ==
  /\ Sending(s)
  /\ disp[s].channel = Pushes
  /\ disp[s].left = 0
  /\ EndDelivery(s)
  /\ UNCHANGED smsUsed

-----------------------------------------------------------------------------
(* Processes that end *)

GateReset(s) ==
  /\ pc' = [pc EXCEPT ![s] = "idle"]
  /\ pending' = [pending EXCEPT ![s] = {}]
  /\ item' = [item EXCEPT ![s] = {}]
  /\ passed' = [passed EXCEPT ![s] = {}]
  /\ refused' = [refused EXCEPT ![s] = {}]

\* Ctrl-C may hit the main thread anywhere, also within a batch.
Interrupt ==
  /\ BeginShutdown
  /\ GateReset(Monitor)
  /\ UNCHANGED <<limits, smsUsed, disp, ghosts>>

MonitorExits ==
  /\ Join \/ Kill
  /\ GateReset(Monitor)
  /\ disp' = [disp EXCEPT ![Monitor] = Idle]
  /\ UNCHANGED <<limits, smsUsed, ghosts>>

ScanDies(s) ==
  /\ s # Monitor
  /\ pc[s] # "idle"
  /\ GateReset(s)
  /\ disp' = [disp EXCEPT ![s] = Idle]
  /\ UNCHANGED <<workerVars, limits, smsUsed, ghosts>>

Elsewhere == UNCHANGED <<limits, smsUsed, gate, disp, ghosts>>
StopThread == ShutdownStep /\ Elsewhere
OpenStore == Open /\ Elsewhere
NextMonitor == StartAgain /\ Elsewhere

-----------------------------------------------------------------------------
(* The operator and the clock *)

\* A snooze is set, lifted or expires.
ChangeSnooze(d) ==
  /\ snoozed' \in {snoozed \cup {d}, snoozed \ {d}}
  /\ UNCHANGED <<workerVars, alertLog, window, smsUsed, gate, disp, ghosts>>

\* delete_device forgets the device's own key, not its other lanes.
DeleteDevice(d) ==
  /\ alertLog' = [k \in Keys |-> IF k = <<"device", d, 0>> THEN Never
                                 ELSE alertLog[k]]
  /\ sent' = [k \in Keys |-> IF k = <<"device", d, 0>> THEN Never ELSE sent[k]]
  /\ snoozed' = snoozed \ {d}
  /\ UNCHANGED <<workerVars, window, smsUsed, gate, disp, recent>>

\* reset_all spares the SMS budget only.
ResetAll ==
  /\ alertLog' = [k \in Keys |-> Never]
  /\ window' = NoWindow
  /\ snoozed' = {}
  /\ sent' = [k \in Keys |-> Never]
  /\ recent' = [a \in 0..AgeCap |-> 0]
  /\ refused' = [s \in Senders |-> {}]
  /\ UNCHANGED <<workerVars, smsUsed, pc, pending, item, passed, disp>>

\* Time passes while messages are sent and between batches; going through a
\* batch takes no time that matters.
Tick ==
  /\ \A s \in Senders : pc[s] \in {"idle", "sending"}
  /\ alertLog' = [k \in Keys |-> Aged(alertLog[k])]
  /\ sent' = [k \in Keys |-> Aged(sent[k])]
  /\ window' = Aged(window)
  /\ recent' = [a \in 0..AgeCap |-> IF a = 0 THEN 0 ELSE recent[a - 1]]
  /\ UNCHANGED <<workerVars, snoozed, smsUsed, gate, disp>>

\* Midnight UTC: another row of the budget counts, but what was read today
\* is charged to today.
NewDay ==
  /\ smsUsed' = NoRow
  /\ disp' = [s \in Senders |-> [disp[s] EXCEPT !.today = FALSE]]
  /\ UNCHANGED <<workerVars, limits, gate, ghosts>>

-----------------------------------------------------------------------------

Init ==
  /\ InitWorker
  /\ alertLog = [k \in Keys |-> Never]
  /\ window = NoWindow
  /\ smsUsed = NoRow
  /\ snoozed = {}
  /\ pc = [s \in Senders |-> "idle"]
  /\ pending = [s \in Senders |-> {}]
  /\ item = [s \in Senders |-> {}]
  /\ passed = [s \in Senders |-> {}]
  /\ refused = [s \in Senders |-> {}]
  /\ disp = [s \in Senders |-> Idle]
  /\ sent = [k \in Keys |-> Never]
  /\ recent = [a \in 0..AgeCap |-> 0]

GateStep(s) ==
  \/ \E f \in Findings : Suppress(s, f) \/ FindDue(s, f)
  \/ LogAlert(s)
  \/ ReadWindow(s)
  \/ LetThrough(s)
  \/ SendNothing(s)
  \/ SendInline(s)
  \/ s = Monitor /\ HandOver

DeliveryStep(s) ==
  \/ Push(s) \/ PushRaises(s)
  \/ ReadSms(s) \/ ChargeSms(s) \/ ChargeRaises(s) \/ SmsRaises(s)
  \/ DeliveryDone(s)

Next ==
  \/ \E s \in Senders :
       \/ \E fs \in SUBSET Findings : BeginBatch(s, fs)
       \/ GateStep(s)
       \/ DeliveryStep(s)
       \/ ScanDies(s)
  \/ TakeBatch
  \/ StopThread \/ OpenStore \/ NextMonitor
  \/ Interrupt
  \/ MonitorExits
  \/ \E d \in Devices : ChangeSnooze(d) \/ DeleteDevice(d)
  \/ ResetAll
  \/ Tick
  \/ NewDay

Spec == Init /\ [][Next]_vars

\* The main thread goes on while its process lives, and its wait for the
\* other thread has a timeout. That thread takes a batch when it can; that a
\* delivery ends is not assumed, since nothing limits a name lookup or an
\* answer that trickles in.
Fairness ==
  /\ WF_vars(GateStep(Monitor))
  /\ WF_vars(TakeBatch)
  /\ WF_vars(OpenStore)
  /\ WF_vars(StopThread)
  /\ WF_vars(Join /\ MonitorExits)

FairSpec == Spec /\ Fairness

-----------------------------------------------------------------------------
(* Properties *)

TypeOK ==
  /\ WorkerTypeOK
  /\ alertLog \in [Keys -> LogRow]
  /\ window \in [age: 0..AgeCap, count: Nat]
  /\ smsUsed \in Nat \cup {NoRow}
  /\ snoozed \subseteq Subjects
  /\ pc \in [Senders -> {"idle", "gate", "log", "cap", "open", "count", "pass",
                         "sending"}]
  /\ {pending, item, passed, refused} \subseteq [Senders -> SUBSET Findings]
  /\ disp \in [Senders -> [batch: SUBSET Findings, channel: 0..Pushes,
                           left: 0..Recipients, read: {"no", "none", "row"},
                           today: BOOLEAN]]
  /\ sent \in [Keys -> LogRow]
  /\ recent \in [0..AgeCap -> Nat]

\* An alert is let through at least its cooldown after the last one of its
\* key, unless it is more severe, whatever restarts happened in between.
CooldownKept ==
  [][\A s \in Senders : \A f \in passed'[s] \ passed[s] :
       \/ f.cooldown = 0
       \/ sent[Key(f)].age >= f.cooldown
       \/ sent[Key(f)].sev < f.sev]_vars

\* The cap is a fixed window, not a sliding one: any stretch as long as one
\* meets at most two, so no more is let through in it than two allow, except
\* an alert that was being decided while everything was reset.
VolumeBounded == MaxPerWindow > 0 => recent[Window] <= 2 * MaxPerWindow

\* What the cap lets through of a batch is at least as severe as what it
\* refuses of it.
CapSparesSevere ==
  \A s \in Senders : \A f \in passed[s], g \in refused[s] : g.sev <= f.sev

\* A budget checked by several senders is overrun by at most one message
\* of each other sender: not at all by the monitor alone.
SmsOverrunBounded ==
  MaxSegments > 0 =>
    smsUsed <= MaxSegments + Segments * Cardinality(Scans)

=============================================================================
