--------------------------- MODULE DeviceLifecycle ---------------------------
(***************************************************************************)
(* Online/offline tracking of LAN devices: the devices, events and         *)
(* device_presence tables of lanfence/db.py and the active sweep of        *)
(* lanfence/engine.py that folds sightings into them, confirms absences    *)
(* and raises the availability findings of always-on devices.              *)
(*                                                                         *)
(* One process (monitor or scan) owns the sweep. It reads and commits      *)
(* SQLite rows several times on the way: it may die between any two        *)
(* commits, and an operator, editing the same database from another        *)
(* terminal, may come between a read and the write that relies on it. So   *)
(* every statement of one process that a commit of the other can tell from *)
(* its neighbours is an action here.                                       *)
(*                                                                         *)
(* Times are ages: how long ago a time stamp lies, saturating at AgeCap.   *)
(* The code only ever compares ages with Grace, with a delay or with each  *)
(* other, so nothing beyond AgeCap can be told apart.                      *)
(***************************************************************************)
EXTENDS Integers, FiniteSets

CONSTANTS
  Macs,          \* MAC addresses that may appear on the network
  Ifaces,        \* interfaces the active sweep is run on
  Subnets,       \* IPv4 subnets a sweep may be run over
  Unknown,       \* an interface or subnet nobody recorded (None, SQL NULL)
  Targets,       \* the pairs of interface and subnet that are swept
  MissedAfter,   \* scan.offline_after_missed_scans
  Grace,         \* scan.offline_grace_seconds, in clock ticks
  Overrides,     \* the --offline-after delays an operator may choose
  AgeCap,        \* bound: ages saturate here
  MaxLag,        \* bound: how late a passive sighting may be processed
  MaxCrashes,    \* bound: how often the sweeping process may die
  PassiveEnabled, \* scan.passive
  Ipv6Enabled,   \* scan.ipv6
  RetryProbe,    \* scan.offline_retry_probe
  AlwaysOnPing,  \* scan.always_on_ping
  AddressReuse   \* the address of a device that left may be given away

ASSUME UnknownAssumption == Unknown \notin Subnets
ASSUME TargetAssumption ==
  Targets \subseteq (Ifaces \cup {Unknown}) \X (Subnets \cup {Unknown})
ASSUME ThresholdAssumption ==
  /\ MissedAfter \in Nat \ {0}
  /\ Grace \in Nat
  /\ Overrides \subseteq Nat \ {0}
ASSUME BoundAssumption ==
  /\ AgeCap \in Nat
  /\ Grace <= AgeCap
  /\ \A o \in Overrides : o <= AgeCap
  /\ MaxLag \in 0..AgeCap
  /\ MaxCrashes \in Nat
ASSUME ConfigAssumption ==
  {PassiveEnabled, Ipv6Enabled, RetryProbe, AlwaysOnPing, AddressReuse}
    \subseteq BOOLEAN

VARIABLES
  dev,        \* devices table, by MAC
  presence,   \* device_presence table, by MAC
  event,      \* kind of the newest row of the events table, by MAC
  phase,      \* where the process is in its sweep
  sweep,      \* what the sweep in progress covers
  replies,    \* answers of the scan not folded in yet
  heard,      \* still_online: MACs seen by the sweep in progress
  due,        \* devices about to go offline that are probed once more
  missing,    \* rows mark_offline selected and has not committed yet
  absentees,  \* rows evaluate_availability selected and has not marked yet
  hand,       \* the sighting or mark in progress, at most one
  findings,   \* availability findings raised and not handed over yet
  edit,       \* an operator's edit that has read its row, at most one
  onLan,      \* environment: the devices really connected
  reused,     \* environment: those gone whose IPv4 address another took over
  reported,   \* history: the last notice handed over was an absence
  absences,   \* history: absence findings raised since the last sighting,
              \* counted up to two
  silent,     \* history: covering sweeps that missed it since then
  muddled,    \* history: devices whose presence row was written back from
              \* an outdated copy, or kept the mark of an absence that ended
  torn,       \* history: devices whose row and newest event were torn apart
  crashes     \* history: how often the process died

tables == <<dev, presence, event>>
memory ==
  <<phase, sweep, replies, heard, due, missing, absentees, hand, findings>>
history == <<reported, absences, silent, muddled, torn>>
lan == <<onLan, reused>>
vars == <<tables, memory, edit, lan, history, crashes>>

-----------------------------------------------------------------------------
(* The tables *)

Families == {"v4", "v6"}
NoOverride == -1
Ages == 0..AgeCap

DeviceRow ==
  [status: {"none", "online", "offline"}, age: Ages, missed: 0..MissedAfter,
   seen4: BOOLEAN, seen6: BOOLEAN,
   iface: Ifaces \cup {Unknown}, subnet: Subnets \cup {Unknown}]

NoRow == [status |-> "none", age |-> AgeCap, missed |-> 0, seen4 |-> FALSE,
          seen6 |-> FALSE, iface |-> Unknown, subnet |-> Unknown]

\* A row written before discovery paths were recorded.
LegacyRow == [NoRow EXCEPT !.status = "online"]

\* Of the policies, always-on is watched; nothing here tells the others apart.
PresenceRow == [watched: BOOLEAN, override: Overrides \cup {NoOverride},
                alerted: BOOLEAN]
DefaultPresence == [watched |-> FALSE, override |-> NoOverride,
                    alerted |-> FALSE]

EventKinds == {"none", "new_device", "reappeared", "disconnected"}

Finding == [mac: Macs, about: {"absent", "recovered"}]
Absent(m) == [mac |-> m, about |-> "absent"]
Recovered(m) == [mac |-> m, about |-> "recovered"]

\* mac's row as selected for a miss, and whether that miss is its last.
MissingRow == [mac: Macs, gone: BOOLEAN]

\* What is done to mac next, with the presence row read for it if any.
HandRow == [mac: Macs, step: {"assert", "event", "presence", "clear", "mark"},
            kind: {"none", "new_device", "reappeared"}, row: PresenceRow]

\* The presence row an edit has read and the one it is going to write.
EditRow == [mac: Macs, read: PresenceRow, write: PresenceRow]

SweepRow == [iface: Ifaces \cup {Unknown}, subnet: Subnets \cup {Unknown},
             cov4: BOOLEAN, cov6: BOOLEAN]
NoSweep == [iface |-> Unknown, subnet |-> Unknown, cov4 |-> FALSE,
            cov6 |-> FALSE]

Older(a) == IF a = AgeCap THEN AgeCap ELSE a + 1
Coalesce(x, y) == IF x = Unknown THEN y ELSE x
Compatible(x, y) == x = Unknown \/ y = Unknown \/ x = y

-----------------------------------------------------------------------------
(* What one sighting does to the tables *)

\* Faulty variant of Observed: a sighting leaves the miss count alone.
ObservedKeepsMisses(d, f, lag, i, n) ==
  [status |-> "online", age |-> IF lag <= d.age THEN lag ELSE d.age,
   missed |-> d.missed,
   seen4 |-> d.seen4 \/ f = "v4", seen6 |-> d.seen6 \/ f = "v6",
   iface |-> Coalesce(i, d.iface),
   subnet |-> IF f = "v4" THEN Coalesce(n, d.subnet) ELSE d.subnet]

\* The row after a sighting lag ago over family f; last_seen never moves back.
Observed(d, f, lag, i, n) ==
  [status |-> "online",
   age    |-> IF lag <= d.age THEN lag ELSE d.age,
   missed |-> 0,
   seen4  |-> d.seen4 \/ f = "v4",
   seen6  |-> d.seen6 \/ f = "v6",
   iface  |-> Coalesce(i, d.iface),
   subnet |-> IF f = "v4" THEN Coalesce(n, d.subnet) ELSE d.subnet]

\* Faulty variant of Transition: a return passes for a routine refresh.
TransitionIgnoresReturn(d) == IF d.status = "none" THEN "new_device" ELSE "none"

\* The event a sighting of the device is, "none" for a routine refresh.
Transition(d) ==
  CASE d.status = "none"    -> "new_device"
    [] d.status = "offline" -> "reappeared"
    [] OTHER                -> "none"

Known(m) == dev[m].status # "none"

\* observe up to the commit of the device row. Its read of the row needs no
\* step apart: only DeleteDevice and ResetAll write the row besides, and
\* either leaves the same tables right after the commit.
Observe(m, f, lag, i, n) ==
  /\ hand = {}
  /\ dev' = [dev EXCEPT ![m] = Observed(@, f, lag, i, n)]
  /\ hand' = {[mac |-> m, step |-> "assert", kind |-> Transition(dev[m]),
               row |-> DefaultPresence]}
  /\ absences' = [absences EXCEPT ![m] = 0]
  /\ silent' = [silent EXCEPT ![m] = 0]
  /\ UNCHANGED <<presence, event, missing, absentees, findings, edit, lan,
                 reported, muddled, torn, crashes>>

\* A sighting from the passive capture, handled between two sweeps. That a
\* device may leave before it is handled needs no case of its own: a device
\* still there may be as silent as one that left.
PassiveSighting(m, f, lag, i, n) ==
  /\ PassiveEnabled
  /\ phase = "idle"
  /\ m \in onLan
  /\ Observe(m, f, lag, i, n)
  /\ UNCHANGED <<phase, sweep, replies, heard, due>>

\* observe reads its device again and asserts that it is there.
DeviceIsThere(h) ==
  /\ h.step = "assert"
  /\ Known(h.mac)
  /\ hand' = IF h.kind = "none" THEN {} ELSE {[h EXCEPT !.step = "event"]}
  /\ UNCHANGED <<tables, phase, sweep, replies, heard, due, missing,
                 absentees, findings, edit, lan, history, crashes>>

\* ... then commits the event, which a deletion meanwhile leaves alone.
RecordEvent(h) ==
  /\ h.step = "event"
  /\ event' = [event EXCEPT ![h.mac] = h.kind]
  /\ torn' = IF Known(h.mac) THEN torn \ {h.mac} ELSE torn \cup {h.mac}
  /\ hand' = IF h.kind = "reappeared" THEN {[h EXCEPT !.step = "presence"]}
             ELSE {}
  /\ UNCHANGED <<dev, presence, phase, sweep, replies, heard, due, missing,
                 absentees, findings, edit, lan, reported, absences, silent,
                 muddled, crashes>>

\* A return ends an announced absence: process_sighting reads the mark and
\* tells it, set_availability_alerted reads the row it will write back. The
\* two reads are one step: what the operator commits between them leaves the
\* same rows if it comes before both or after the write.
ReadPresence(h) ==
  /\ h.step = "presence"
  /\ IF presence[h.mac].alerted
     THEN /\ findings' = findings \cup {Recovered(h.mac)}
          /\ hand' = {[h EXCEPT !.step = "clear", !.row = presence[h.mac]]}
          /\ phase' = IF phase = "idle" THEN "emit" ELSE phase
     ELSE hand' = {} /\ UNCHANGED <<findings, phase>>
  /\ UNCHANGED <<tables, sweep, replies, heard, due, missing, absentees, edit,
                 lan, history, crashes>>

\* Whether the row differs from the copy that is about to be written back.
Outdated(m, copy) == presence[m] # copy

\* The whole row is written back, with the mark cleared.
ClearMark(h) ==
  /\ h.step = "clear"
  /\ presence' = [presence EXCEPT ![h.mac] = [h.row EXCEPT !.alerted = FALSE]]
  /\ muddled' = IF Outdated(h.mac, h.row) THEN muddled \cup {h.mac} ELSE muddled
  /\ hand' = {}
  /\ UNCHANGED <<dev, event, phase, sweep, replies, heard, due, missing,
                 absentees, findings, edit, lan, reported, absences, silent,
                 torn, crashes>>

-----------------------------------------------------------------------------
(* The active sweep *)

\* Whether sweep s examined every path the device is known on.
PathCovered(d, s) ==
  /\ d.seen4 \/ d.seen6
  /\ d.seen4 => /\ s.cov4
                /\ Compatible(s.iface, d.iface)
                /\ Compatible(s.subnet, d.subnet)
  /\ d.seen6 => s.cov6 /\ Compatible(s.iface, d.iface)

\* The scans are run on interface i, of subnet n if one is known; either
\* may fail, and IPv4 needs a subnet. A device that is there may still fail
\* to answer.
StartSweep(i, n, ok4, ok6, answers) ==
  /\ phase = "idle"
  /\ hand = {}
  /\ ok4 => n # Unknown
  /\ ok6 => Ipv6Enabled
  /\ \A a \in answers : a[1] \in onLan /\ (IF a[2] = "v4" THEN ok4 ELSE ok6)
  /\ sweep' = [iface |-> i, subnet |-> n, cov4 |-> ok4, cov6 |-> ok6]
  /\ replies' = answers
  /\ heard' = {}
  /\ phase' = "scan"
  /\ UNCHANGED <<tables, due, missing, absentees, hand, findings, edit, lan,
                 history, crashes>>

HandleReply(m, f) ==
  /\ phase = "scan"
  /\ <<m, f>> \in replies
  /\ Observe(m, f, 0, sweep.iface, sweep.subnet)
  /\ replies' = replies \ {<<m, f>>}
  /\ heard' = heard \cup {m}
  /\ UNCHANGED <<phase, sweep, due>>

\* Faulty variant of Missed: forgets who was heard in this sweep.
MissedDespiteReply ==
  {m \in Macs : dev[m].status = "online" /\ PathCovered(dev[m], sweep)}

\* The devices this sweep misses, and those of them it gives up.
Missed == {m \in Macs : /\ dev[m].status = "online"
                        /\ m \notin heard
                        /\ PathCovered(dev[m], sweep)}
GivenUp(d) == d.missed + 1 >= MissedAfter /\ d.age >= Grace

Candidate(m) == [mac |-> m, v4 |-> dev[m].seen4, v6 |-> dev[m].seen6]

\* Faulty variant of EndScan: misses count only if both families were swept.
EndScanWantsBoth ==
  /\ phase = "scan"
  /\ replies = {}
  /\ hand = {}
  /\ phase' = IF sweep.cov4 /\ sweep.cov6 THEN "retry" ELSE "emit"
  /\ due' = {}
  /\ UNCHANGED <<tables, sweep, replies, heard, missing, absentees, hand,
                 findings, edit, lan, history, crashes>>

\* All replies are folded in: look for devices to probe before they go.
EndScan ==
  /\ phase = "scan"
  /\ replies = {}
  /\ hand = {}
  /\ IF sweep.cov4 \/ sweep.cov6
     THEN /\ phase' = "retry"
          /\ due' = IF (sweep.cov4 /\ RetryProbe) \/ AlwaysOnPing
                    THEN {Candidate(m) : m \in {x \in Missed : GivenUp(dev[x])}}
                    ELSE {}
     ELSE phase' = "emit" /\ due' = {}
  /\ UNCHANGED <<tables, sweep, replies, heard, missing, absentees, hand,
                 findings, edit, lan, history, crashes>>

\* Whoever holds the IPv4 address of c answers an ARP request for it; only
\* an always-on device is pinged, and only it can answer that.
ArpAnswers(c) == sweep.cov4 /\ RetryProbe /\ c.mac \in onLan \cup reused
PingAnswers(c) ==
  AlwaysOnPing /\ presence[c.mac].watched /\ c.mac \in onLan

\* A probe of c over family f is answered: that counts as a sighting of c.
ProbeAnswered(c, f) ==
  /\ phase = "retry"
  /\ c \in due
  /\ IF f = "v4" THEN c.v4 ELSE c.v6
  /\ (f = "v4" /\ ArpAnswers(c)) \/ PingAnswers(c)
  /\ Observe(c.mac, f, 0, sweep.iface, sweep.subnet)
  /\ heard' = heard \cup {c.mac}
  /\ due' = due \ {c}
  /\ UNCHANGED <<phase, sweep, replies>>

\* No probe of c is answered, or probing fails and the rest is skipped.
ProbeSilent(c) ==
  /\ phase = "retry"
  /\ hand = {}
  /\ c \in due
  /\ due' \in {due \ {c}, {}}
  /\ UNCHANGED <<tables, phase, sweep, replies, heard, missing, absentees, hand,
                 findings, edit, lan, history, crashes>>

OneMore(misses) == IF misses < MissedAfter THEN misses + 1 ELSE misses

\* mark_offline selects the rows that are online and works on these copies.
SelectMissing ==
  /\ phase = "retry"
  /\ due = {}
  /\ hand = {}
  /\ missing' = {[mac |-> m, gone |-> GivenUp(dev[m])] : m \in Missed}
  /\ phase' = "miss"
  /\ UNCHANGED <<tables, sweep, replies, heard, due, absentees, hand, findings,
                 edit, lan, history, crashes>>

\* The row after a miss; a count past MissedAfter is not told apart from it.
AfterMiss(d, gone) ==
  IF gone THEN [d EXCEPT !.status = "offline", !.missed = 0]
  ELSE [d EXCEPT !.missed = OneMore(@)]

\* The misses of S are committed: with the event of the one device given up
\* among them, or as the last of the loop. A row deleted meanwhile takes no
\* miss, but the event of its loss is inserted.
CommitMisses(S) ==
  LET gone == {r.mac : r \in {q \in S : q.gone}}
      hit  == {r.mac : r \in {q \in S : Known(q.mac)}}
  IN /\ phase = "miss"
     /\ S # {}
     /\ S \subseteq missing
     /\ (gone = {} /\ S = missing) \/ \E m \in gone : gone = {m}
     /\ dev' = [m \in Macs |-> IF m \in hit THEN AfterMiss(dev[m], m \in gone)
                               ELSE dev[m]]
     /\ event' = [m \in Macs |-> IF m \in gone THEN "disconnected" ELSE event[m]]
     /\ silent' = [m \in Macs |-> IF m \in hit THEN OneMore(silent[m])
                                  ELSE silent[m]]
     /\ torn' = (torn \ gone) \cup (gone \ hit)
     /\ missing' = missing \ S
     /\ UNCHANGED <<presence, phase, sweep, replies, heard, due, absentees, hand,
                    findings, edit, lan, reported, absences, muddled, crashes>>

Effective(p) == IF p.override = NoOverride THEN Grace ELSE p.override

\* Faulty variants of AbsenceDue: the mark is not looked at; nor is the
\* status; or only a sweep of both families counts.
AbsenceDueAgain == {m \in Macs : /\ dev[m].status = "offline"
                                 /\ presence[m].watched
                                 /\ PathCovered(dev[m], sweep)
                                 /\ dev[m].age >= Effective(presence[m])}
AbsenceDueOnline == {m \in Macs : /\ presence[m].watched
                                  /\ ~presence[m].alerted
                                  /\ PathCovered(dev[m], sweep)
                                  /\ dev[m].age >= Effective(presence[m])}
AbsenceDueWantsBoth == {m \in AbsenceDueAgain : /\ ~presence[m].alerted
                                                 /\ sweep.cov4 /\ sweep.cov6}

AbsenceDue == {m \in Macs : /\ dev[m].status = "offline"
                            /\ presence[m].watched
                            /\ ~presence[m].alerted
                            /\ PathCovered(dev[m], sweep)
                            /\ dev[m].age >= Effective(presence[m])}

\* evaluate_availability selects the rows that are due ...
SelectAbsentees ==
  /\ phase = "miss"
  /\ missing = {}
  /\ absentees' = AbsenceDue
  /\ phase' = "mark"
  /\ UNCHANGED <<tables, sweep, replies, heard, due, missing, hand, findings,
                 edit, lan, history, crashes>>

\* ... reads the presence row of each once more ...
ReadMark(m) ==
  /\ phase = "mark"
  /\ hand = {}
  /\ m \in absentees
  /\ absentees' = absentees \ {m}
  /\ hand' = {[mac |-> m, step |-> "mark", kind |-> "none",
               row |-> presence[m]]}
  /\ UNCHANGED <<tables, phase, sweep, replies, heard, due, missing, findings,
                 edit, lan, history, crashes>>

\* ... and writes it back whole, with the mark set, even if the device was
\* deleted or is no longer watched.
WriteMark(h) ==
  /\ h.step = "mark"
  /\ presence' = [presence EXCEPT ![h.mac] = [h.row EXCEPT !.alerted = TRUE]]
  /\ muddled' = IF \/ Outdated(h.mac, h.row)
                   \/ ~h.row.watched
                   \/ ~Known(h.mac)
                THEN muddled \cup {h.mac} ELSE muddled
  /\ absences' = [absences EXCEPT ![h.mac] = IF @ = 0 THEN 1 ELSE 2]
  /\ findings' = findings \cup {Absent(h.mac)}
  /\ hand' = {}
  /\ UNCHANGED <<dev, event, phase, sweep, replies, heard, due, missing,
                 absentees, edit, lan, reported, silent, torn, crashes>>

\* The findings of the sweep, or of one passive sighting, are handed over.
EmitFindings ==
  /\ phase = "emit" \/ (phase = "mark" /\ absentees = {})
  /\ hand = {}
  /\ reported' = [m \in Macs |-> CASE Absent(m) \in findings    -> TRUE
                                   [] Recovered(m) \in findings -> FALSE
                                   [] OTHER                     -> reported[m]]
  /\ findings' = {}
  /\ phase' = "idle"
  /\ sweep' = NoSweep
  /\ heard' = {}
  /\ UNCHANGED <<tables, replies, due, missing, absentees, hand, edit, lan,
                 absences, silent, muddled, torn, crashes>>

-----------------------------------------------------------------------------
(* The process ends, and another one is started *)

\* The sightings cut short before their event, or before the mark is cleared.
Unrecorded == {m \in Macs : Known(m) /\ \E h \in hand :
                 h.mac = m /\ h.step \in {"assert", "event"} /\ h.kind # "none"}
Uncleared == {m \in Macs : presence[m].alerted /\ \E h \in hand :
                h.mac = m /\ h.step \in {"assert", "event", "presence", "clear"}}

ProcessEnds ==
  /\ phase' = "idle"
  /\ sweep' = NoSweep
  /\ replies' = {}
  /\ heard' = {}
  /\ due' = {}
  /\ missing' = {}
  /\ absentees' = {}
  /\ hand' = {}
  /\ findings' = {}
  /\ muddled' = muddled \cup Uncleared
  /\ torn' = torn \cup Unrecorded
  /\ UNCHANGED <<tables, edit, lan, reported, absences, silent>>

\* It dies, between any two of its commits.
Crash ==
  /\ phase # "idle" \/ hand # {}
  /\ crashes < MaxCrashes
  /\ crashes' = crashes + 1
  /\ ProcessEnds

\* The device was deleted since its row was committed: the assertion of
\* observe fails, which nothing up to the end of the monitor catches.
DeviceIsGone(h) ==
  /\ h.step = "assert"
  /\ ~Known(h.mac)
  /\ ProcessEnds
  /\ UNCHANGED crashes

-----------------------------------------------------------------------------
(* The operator, from another process *)

\* Faulty variant of StopWatching: the alert mark outlives the watch.
StopWatchingKeepsMark(m) ==
  /\ Known(m)
  /\ presence' = [presence EXCEPT ![m].watched = FALSE, ![m].override = NoOverride]
  /\ absences' = [absences EXCEPT ![m] = 0]
  /\ muddled' = muddled \ {m}
  /\ UNCHANGED <<dev, event, memory, edit, lan, reported, silent, torn, crashes>>

\* set_presence_policy away from always-on writes the row without reading it.
StopWatching(m) ==
  /\ Known(m)
  /\ presence' = [presence EXCEPT ![m] = DefaultPresence]
  /\ absences' = [absences EXCEPT ![m] = 0]
  /\ muddled' = muddled \ {m}
  /\ UNCHANGED <<dev, event, memory, edit, lan, reported, silent, torn, crashes>>

\* Every other edit reads the row and writes all of it back.
ReadForEdit(m, row) ==
  /\ edit = {}
  /\ Known(m)
  /\ edit' = {[mac |-> m, read |-> presence[m], write |-> row]}
  /\ UNCHANGED <<tables, memory, lan, history, crashes>>

Watch(m) == ReadForEdit(m, [presence[m] EXCEPT !.watched = TRUE])

\* --offline-after is refused unless the device is watched, which another
\* command may change before the row is read; --clear-offline-after is not.
SetOfflineAfter(m, o) == ReadForEdit(m, [presence[m] EXCEPT !.override = o])

WriteEdit(e) ==
  /\ presence' = [presence EXCEPT ![e.mac] = e.write]
  /\ muddled' = IF Outdated(e.mac, e.read) THEN muddled \cup {e.mac} ELSE muddled
  /\ edit' = {}
  /\ UNCHANGED <<dev, event, memory, lan, reported, absences, silent, torn,
                 crashes>>

Forget(S) ==
  /\ dev' = [m \in Macs |-> IF m \in S THEN NoRow ELSE dev[m]]
  /\ presence' = [m \in Macs |-> IF m \in S THEN DefaultPresence
                                 ELSE presence[m]]
  /\ event' = [m \in Macs |-> IF m \in S THEN "none" ELSE event[m]]
  /\ absences' = [m \in Macs |-> IF m \in S THEN 0 ELSE absences[m]]
  /\ silent' = [m \in Macs |-> IF m \in S THEN 0 ELSE silent[m]]
  /\ muddled' = muddled \ S
  /\ torn' = torn \ S
  /\ UNCHANGED <<memory, edit, lan, reported, crashes>>

DeleteDevice(m) == Known(m) /\ Forget({m})
ResetAll == Forget(Macs)

-----------------------------------------------------------------------------
(* The environment *)

Join(m) ==
  /\ m \notin onLan
  /\ onLan' = onLan \cup {m}
  /\ reused' = reused \ {m}
  /\ UNCHANGED <<tables, memory, edit, history, crashes>>

Leave(m) ==
  /\ m \in onLan
  /\ onLan' = onLan \ {m}
  /\ UNCHANGED <<tables, memory, edit, reused, history, crashes>>

\* The DHCP server gives the address of a device that left to another one.
GiveAway(m) ==
  /\ AddressReuse
  /\ m \notin onLan
  /\ reused' = reused \cup {m}
  /\ UNCHANGED <<tables, memory, edit, onLan, history, crashes>>

\* Time passes between sweeps; within one it is too short to matter.
Tick ==
  /\ phase = "idle"
  /\ hand = {}
  /\ dev' = [m \in Macs |-> [dev[m] EXCEPT !.age = Older(@)]]
  /\ UNCHANGED <<event, presence, memory, edit, lan, history, crashes>>

-----------------------------------------------------------------------------

Init ==
  /\ dev \in [Macs -> {NoRow, LegacyRow}]
  /\ presence = [m \in Macs |-> DefaultPresence]
  /\ event = [m \in Macs |-> IF dev[m].status = "none" THEN "none"
                             ELSE "new_device"]
  /\ phase = "idle"
  /\ sweep = NoSweep
  /\ replies = {}
  /\ heard = {}
  /\ due = {}
  /\ missing = {}
  /\ absentees = {}
  /\ hand = {}
  /\ findings = {}
  /\ edit = {}
  /\ onLan \in SUBSET Macs
  /\ reused = {}
  /\ reported = [m \in Macs |-> FALSE]
  /\ absences = [m \in Macs |-> 0]
  /\ silent = [m \in Macs |-> 0]
  /\ muddled = {}
  /\ torn = {}
  /\ crashes = 0

\* A captured packet names its interface, which decides the subnet; or none.
Paths == Targets \cup {<<Unknown, Unknown>>}

PassiveSees ==
  \E m \in Macs, f \in Families, lag \in 0..MaxLag, p \in Paths :
    PassiveSighting(m, f, lag, p[1], p[2])

HandStep ==
  \E h \in hand : \/ DeviceIsThere(h) \/ DeviceIsGone(h) \/ RecordEvent(h)
                 \/ ReadPresence(h) \/ ClearMark(h) \/ WriteMark(h)

SweepStep ==
  \/ \E m \in Macs, f \in Families : HandleReply(m, f)
  \/ HandStep
  \/ EndScan
  \/ \E c \in due, f \in Families : ProbeAnswered(c, f)
  \/ \E c \in due : ProbeSilent(c)
  \/ SelectMissing
  \/ \E S \in SUBSET missing : CommitMisses(S)
  \/ SelectAbsentees
  \/ \E m \in absentees : ReadMark(m)
  \/ EmitFindings

SweepBegins ==
  \E t \in Targets, ok4, ok6 \in BOOLEAN,
     answers \in SUBSET (onLan \X Families) :
    StartSweep(t[1], t[2], ok4, ok6, answers)

OperatorActs ==
  \/ \E m \in Macs : StopWatching(m) \/ Watch(m)
  \/ \E m \in Macs, o \in Overrides \cup {NoOverride} : SetOfflineAfter(m, o)
  \/ \E e \in edit : WriteEdit(e)
  \/ \E m \in Macs : DeleteDevice(m)
  \/ ResetAll

EnvironmentActs == Tick \/ \E m \in Macs : Join(m) \/ Leave(m) \/ GiveAway(m)

Next ==
  \/ SweepBegins
  \/ SweepStep
  \/ PassiveSees
  \/ Crash
  \/ OperatorActs
  \/ EnvironmentActs

Spec == Init /\ [][Next]_vars

\* The loop keeps running, and every target is again and again swept
\* successfully in each enabled family.
FullSweep(t) == \E answers \in SUBSET (onLan \X Families) :
                  StartSweep(t[1], t[2], t[2] # Unknown, Ipv6Enabled, answers)

Fairness ==
  /\ WF_vars(SweepStep)
  /\ SF_vars(Tick)
  /\ \A t \in Targets : SF_vars(FullSweep(t))

FairSpec == Spec /\ Fairness

-----------------------------------------------------------------------------
(* Properties *)

\* Every variable holds a value of its kind.
TypeOK ==
  /\ dev \in [Macs -> DeviceRow]
  /\ presence \in [Macs -> PresenceRow]
  /\ event \in [Macs -> EventKinds]
  /\ phase \in {"idle", "scan", "retry", "miss", "mark", "emit"}
  /\ sweep \in SweepRow
  /\ replies \subseteq Macs \X Families
  /\ heard \subseteq Macs
  /\ due \subseteq [mac: Macs, v4: BOOLEAN, v6: BOOLEAN]
  /\ missing \subseteq MissingRow
  /\ absentees \subseteq Macs
  /\ hand \subseteq HandRow
  /\ findings \subseteq Finding
  /\ edit \subseteq EditRow
  /\ onLan \subseteq Macs
  /\ reused \subseteq Macs
  /\ reported \in [Macs -> BOOLEAN]
  /\ absences \in [Macs -> 0..2]
  /\ silent \in [Macs -> 0..MissedAfter]
  /\ muddled \subseteq Macs
  /\ torn \subseteq Macs
  /\ crashes \in 0..MaxCrashes

\* The device whose row is committed and whose event is not yet.
Untold == {h.mac : h \in {g \in hand : /\ g.step \in {"assert", "event"}
                                       /\ g.kind # "none"}}

\* The events table explains the devices table. mark_offline commits a
\* disconnect and its event together, so an offline device always has it as
\* its newest event; and an event outlives its device, or is missing, only
\* where the process died or the device was deleted between the two commits.
LogTellsStatus ==
  \A m \in Macs :
    /\ dev[m].status = "offline" => event[m] = "disconnected"
    /\ m \notin torn => (event[m] # "none" => dev[m].status # "none")
    /\ m \notin torn \cup Untold =>
         /\ event[m] = "disconnected" => dev[m].status = "offline"
         /\ dev[m].status # "none" => event[m] # "none"

\* "Missed by this many consecutive eligible sweeps, and at least this long
\* ago": an offline device was missed by MissedAfter covering sweeps without
\* any sighting, in a sweep or passive, in between.
OfflineIsEarned ==
  \A m \in Macs : dev[m].status = "offline" =>
    silent[m] >= MissedAfter /\ dev[m].age >= Grace

\* A device that answered this sweep, in the scan or only when probed, is
\* neither offline at its end nor charged a miss.
HeardIsNotMissed ==
  \A m \in heard : dev[m].status # "offline" /\ dev[m].missed = 0

\* "Can never double-fire even across a restart": one absence raises one
\* finding, unless a presence row was written back over a newer one.
NoDoubleFire == \A m \in Macs \ muddled : absences[m] <= 1

\* The device whose return is committed and whose mark is not cleared yet.
Returning ==
  {h.mac : h \in {g \in hand :
             g.step \in {"assert", "event", "presence", "clear"}}}

\* Only a watched device is marked as alerted and only while it is absent,
\* so that its next absence fires again: over restarts, operator edits and
\* deletions at any moment, unless one of these muddled its row.
AlertedMeansAbsent ==
  \A m \in Macs \ (muddled \cup Returning) :
    presence[m].alerted => presence[m].watched /\ dev[m].status = "offline"

\* A full sweep of some target examines every path the device is known on.
WithinReach(m) ==
  \E t \in Targets :
    PathCovered(dev[m], [iface |-> t[1], subnet |-> t[2],
                         cov4 |-> t[2] # Unknown, cov6 |-> Ipv6Enabled])

\* A device that left for good is marked offline, provided a full sweep can
\* examine where it was last heard; none can once it moved, over IPv6 only,
\* from one interface to another. If its IPv4 address is given away, who has
\* it now may answer for it for ever.
GoneGoesOffline ==
  \A m \in Macs :
    (/\ phase = "idle"
     /\ m \notin onLan
     /\ dev[m].status = "online"
     /\ WithinReach(m))
      ~> (m \in onLan \cup reused \/ dev[m].status # "online")

\* A watched device that left for good gets its absence notice handed over,
\* unless it comes back, its address is given away, it is no longer watched
\* or is deleted, or its presence row was written back over a newer one.
GoneIsReported ==
  \A m \in Macs :
    (/\ phase = "idle"
     /\ m \notin onLan
     /\ presence[m].watched
     /\ WithinReach(m))
      ~> (m \in onLan \cup reused \cup muddled \/ ~presence[m].watched \/ reported[m])

\* Presence tracking keeps its contract, over restarts, edits and deletions,
\* for every device whose presence row nothing muddled.
ShownAs(m) ==
  CASE dev[m].status = "none"                           -> "unknown"
    [] dev[m].status = "online"                         -> "present"
    [] dev[m].status = "offline" /\ presence[m].alerted -> "announced"
    [] OTHER                                            -> "absent"

\* A committed return whose mark is still set is going to be told.
ToBeTold(m) ==
  /\ presence[m].alerted
  /\ \E h \in hand : /\ h.mac = m
                     /\ h.kind = "reappeared"
                     /\ h.step \in {"assert", "event", "presence"}

Notices(m) ==
  {a \in {"absent", "recovered"} :
     \/ [mac |-> m, about |-> a] \in findings
     \/ a = "recovered" /\ ToBeTold(m)}

Shown == [m \in Macs |-> ShownAs(m)]
Outbox == [m \in Macs |-> Notices(m)]

Contract == INSTANCE PresenceContract
              WITH st <- Shown, outbox <- Outbox, doubtful <- muddled

KeepsContract == Contract!Spec

=============================================================================
