------------------------ MODULE DeviceLifecycleProofs ------------------------
(***************************************************************************)
(* Proofs about DeviceLifecycle: its safety invariants for every set of    *)
(* devices and networks, every setting and any number of crashes, and its  *)
(* implementation of PresenceContract.                                     *)
(***************************************************************************)
EXTENDS DeviceLifecycle, TLAPS

(***************************************************************************)
(* The inductive invariant: the invariants to be proved, and what connects *)
(* them to the copies the process and the operator work on.                *)
(***************************************************************************)
MissesAreSilent == \A m \in Macs : dev[m].missed <= silent[m]

\* An absence has been raised at most once and only if the mark is set.
MarkCountsAbsence ==
  \A m \in Macs \ muddled :
    absences[m] <= 1 /\ (~presence[m].alerted => absences[m] = 0)

\* What is in hand is one thing; a sighting is of a device that is not
\* offline, a mark is set on one that is not online and has none.
HandInOrder ==
  \A h \in hand :
    /\ \A g \in hand : g = h
    /\ h.step = "mark" =>
         /\ phase = "mark" /\ h.mac \notin absentees
         /\ dev[h.mac].status # "online"
         /\ h.mac \in muddled \/ ~presence[h.mac].alerted
    /\ h.step # "mark" =>
         /\ phase \in {"idle", "scan", "retry", "emit"}
         /\ dev[h.mac].status # "offline" /\ absences[h.mac] = 0
    /\ h.step = "event" => h.kind # "none"
    /\ h.step \in {"presence", "clear"} => h.kind = "reappeared"
    /\ h.step \in {"assert", "event"} /\ h.kind # "reappeared"
         => h.mac \in muddled \/ ~presence[h.mac].alerted

\* The copies of mark_offline still tell what their rows are.
MissingInOrder ==
  /\ missing # {} => phase = "miss"
  /\ \A r \in missing :
       /\ \A q \in missing : q.mac = r.mac => q = r
       /\ r.mac \notin heard /\ dev[r.mac].status # "offline"
       /\ Known(r.mac) /\ r.gone => GivenUp(dev[r.mac])

\* So do those of evaluate_availability, unless the row was muddled.
AbsenteesInOrder ==
  /\ absentees # {} => phase = "mark"
  /\ \A m \in absentees :
       /\ dev[m].status # "online"
       /\ m \in muddled \/ ~presence[m].alerted

\* No edit changes the mark it read, or stops the watch.
EditInOrder ==
  \A e \in edit : /\ e.write.alerted = e.read.alerted
                  /\ e.read.watched => e.write.watched

TableInv ==
  LogTellsStatus /\ MissesAreSilent /\ OfflineIsEarned /\ HeardIsNotMissed
MarkInv == MarkCountsAbsence /\ AlertedMeansAbsent
OrderInv == HandInOrder /\ MissingInOrder /\ AbsenteesInOrder /\ EditInOrder

IInv == TypeOK /\ TableInv /\ MarkInv /\ OrderInv

-----------------------------------------------------------------------------
(* Type correctness *)

\* The environment is only ever a frame condition here.
USE DEF lan

\* What a sighting, a miss and a tick write is a row again.
LEMMA RowTypes ==
  ASSUME NEW d \in DeviceRow, NEW f \in Families, NEW lag \in 0..MaxLag,
         NEW i \in Ifaces \cup {Unknown}, NEW n \in Subnets \cup {Unknown}
  PROVE  /\ Observed(d, f, lag, i, n) \in DeviceRow
         /\ [d EXCEPT !.age = Older(@)] \in DeviceRow
         /\ Transition(d) \in {"none", "new_device", "reappeared"}
<1>. USE ThresholdAssumption, BoundAssumption DEF DeviceRow, Ages
<1>1. Observed(d, f, lag, i, n) \in DeviceRow
  BY DEF Observed, Coalesce
<1>2. [d EXCEPT !.age = Older(@)] \in DeviceRow
  BY DEF Older
<1>3. Transition(d) \in {"none", "new_device", "reappeared"}
  BY DEF Transition
<1>. QED  BY <1>1, <1>2, <1>3

LEMMA MissTypes ==
  ASSUME NEW d \in DeviceRow, NEW gone \in BOOLEAN
  PROVE  AfterMiss(d, gone) \in DeviceRow
<1>. USE ThresholdAssumption DEF DeviceRow
<1>1. OneMore(d.missed) \in 0..MissedAfter
  BY DEF OneMore
<1>2. [d EXCEPT !.missed = OneMore(@)] \in DeviceRow
  BY <1>1
<1>3. [d EXCEPT !.status = "offline", !.missed = 0] \in DeviceRow
  <2>1. [d EXCEPT !.status = "offline"] \in DeviceRow
    OBVIOUS
  <2>2. \A e \in DeviceRow : [e EXCEPT !.missed = 0] \in DeviceRow
    OBVIOUS
  <2>. QED  BY <2>1, <2>2
<1>. QED  BY <1>2, <1>3 DEF AfterMiss

\* A passive sighting is made on an interface and subnet the rows can hold.
LEMMA PathTypes ==
  ASSUME NEW p \in Paths
  PROVE  p[1] \in Ifaces \cup {Unknown} /\ p[2] \in Subnets \cup {Unknown}
BY TargetAssumption DEF Paths

LEMMA ConstantRowTypes ==
  /\ NoRow \in DeviceRow /\ LegacyRow \in DeviceRow
  /\ NoSweep \in SweepRow
  /\ DefaultPresence \in PresenceRow
<1>. USE ThresholdAssumption, BoundAssumption
<1>1. NoRow \in DeviceRow
  BY DEF NoRow, DeviceRow, Ages
<1>2. LegacyRow \in DeviceRow
  BY <1>1 DEF LegacyRow, DeviceRow
<1>3. NoSweep \in SweepRow
  BY DEF NoSweep, SweepRow
<1>4. DefaultPresence \in PresenceRow
  BY DEF DefaultPresence, PresenceRow
<1>. QED  BY <1>1, <1>2, <1>3, <1>4

\* A presence row stays one whatever is edited.
LEMMA PresenceTypes ==
  ASSUME NEW p \in PresenceRow
  PROVE  /\ [p EXCEPT !.alerted = TRUE] \in PresenceRow
         /\ [p EXCEPT !.alerted = FALSE] \in PresenceRow
         /\ [p EXCEPT !.watched = TRUE] \in PresenceRow
         /\ \A o \in Overrides \cup {NoOverride} :
              [p EXCEPT !.override = o] \in PresenceRow
BY DEF PresenceRow

LEMMA InitType == Init => TypeOK
<1>. SUFFICES ASSUME Init PROVE TypeOK
  OBVIOUS
<1>1. dev \in [Macs -> DeviceRow] /\ presence \in [Macs -> PresenceRow]
  BY ConstantRowTypes DEF Init
<1>2. event \in [Macs -> EventKinds]
  BY DEF Init, EventKinds
<1>3. silent \in [Macs -> 0..MissedAfter] /\ crashes \in 0..MaxCrashes
  BY ThresholdAssumption, BoundAssumption DEF Init
<1>4. sweep \in SweepRow /\ phase = "idle"
  BY ConstantRowTypes DEF Init
<1>5. reported \in [Macs -> BOOLEAN] /\ absences \in [Macs -> 0..2]
  BY DEF Init
<1>6. /\ replies = {} /\ heard = {} /\ due = {} /\ findings = {}
      /\ missing = {} /\ absentees = {} /\ hand = {} /\ edit = {}
      /\ muddled = {} /\ torn = {}
      /\ onLan \subseteq Macs /\ reused \subseteq Macs
  BY DEF Init
<1>. QED  BY <1>1, <1>2, <1>3, <1>4, <1>5, <1>6 DEF TypeOK

LEMMA ObserveType ==
  ASSUME TypeOK, NEW m \in Macs, NEW f \in Families, NEW lag \in 0..MaxLag,
         NEW i \in Ifaces \cup {Unknown}, NEW n \in Subnets \cup {Unknown},
         Observe(m, f, lag, i, n)
  PROVE  /\ dev' \in [Macs -> DeviceRow]
         /\ hand' \subseteq HandRow
         /\ absences' \in [Macs -> 0..2]
         /\ silent' \in [Macs -> 0..MissedAfter]
<1>0. dev[m] \in DeviceRow
  BY DEF TypeOK
<1>1. dev' \in [Macs -> DeviceRow]
  BY <1>0, RowTypes DEF TypeOK, Observe
<1>2. hand' \subseteq HandRow
  <2>1. Transition(dev[m]) \in {"none", "new_device", "reappeared"}
    BY <1>0, RowTypes
  <2>. QED  BY <2>1, ConstantRowTypes DEF Observe, HandRow
<1>3. absences' \in [Macs -> 0..2]
  BY DEF TypeOK, Observe
<1>4. silent' \in [Macs -> 0..MissedAfter]
  BY ThresholdAssumption DEF TypeOK, Observe
<1>. QED  BY <1>1, <1>2, <1>3, <1>4

LEMMA SightingType ==
  ASSUME TypeOK, NEW m \in Macs, NEW f \in Families, NEW lag \in 0..MaxLag,
         NEW i \in Ifaces \cup {Unknown}, NEW n \in Subnets \cup {Unknown},
         Observe(m, f, lag, i, n),
         \/ PassiveSighting(m, f, lag, i, n)
         \/ HandleReply(m, f)
         \/ \E c \in due : c.mac = m /\ ProbeAnswered(c, f)
  PROVE  TypeOK'
<1>1. /\ dev' \in [Macs -> DeviceRow]
      /\ hand' \subseteq HandRow
      /\ absences' \in [Macs -> 0..2]
      /\ silent' \in [Macs -> 0..MissedAfter]
  BY ObserveType
<1>2. /\ presence' \in [Macs -> PresenceRow]
      /\ event' \in [Macs -> EventKinds]
      /\ missing' \subseteq MissingRow
      /\ absentees' \subseteq Macs
      /\ findings' \subseteq Finding
      /\ edit' \subseteq EditRow
      /\ onLan' \subseteq Macs /\ reused' \subseteq Macs
      /\ reported' \in [Macs -> BOOLEAN]
      /\ muddled' \subseteq Macs /\ torn' \subseteq Macs
      /\ crashes' \in 0..MaxCrashes
  BY DEF Observe, TypeOK
<1>3. /\ phase' \in {"idle", "scan", "retry", "miss", "mark", "emit"}
      /\ sweep' \in SweepRow
      /\ replies' \subseteq Macs \X Families
      /\ heard' \subseteq Macs
      /\ due' \subseteq [mac: Macs, v4: BOOLEAN, v6: BOOLEAN]
  BY DEF TypeOK, PassiveSighting, HandleReply, ProbeAnswered
<1>. QED  BY <1>1, <1>2, <1>3 DEF TypeOK

\* The three ways a sighting is folded in.
LEMMA SightingCases ==
  ASSUME TypeOK,
         \/ PassiveSees
         \/ \E m \in Macs, f \in Families : HandleReply(m, f)
         \/ \E c \in due, f \in Families : ProbeAnswered(c, f)
  PROVE  \E m \in Macs, f \in Families, lag \in 0..MaxLag,
            i \in Ifaces \cup {Unknown}, n \in Subnets \cup {Unknown} :
           /\ Observe(m, f, lag, i, n)
           /\ \/ PassiveSighting(m, f, lag, i, n)
              \/ HandleReply(m, f)
              \/ \E c \in due : c.mac = m /\ ProbeAnswered(c, f)
<1>0. /\ 0 \in 0..MaxLag
      /\ sweep.iface \in Ifaces \cup {Unknown}
      /\ sweep.subnet \in Subnets \cup {Unknown}
  BY BoundAssumption DEF TypeOK, SweepRow
<1>1. CASE PassiveSees
  <2>1. PICK m \in Macs, f \in Families, lag \in 0..MaxLag, p \in Paths :
          PassiveSighting(m, f, lag, p[1], p[2])
    BY <1>1 DEF PassiveSees
  <2>2. p[1] \in Ifaces \cup {Unknown} /\ p[2] \in Subnets \cup {Unknown}
    BY PathTypes
  <2>. QED  BY <2>1, <2>2 DEF PassiveSighting
<1>2. CASE \E m \in Macs, f \in Families : HandleReply(m, f)
  BY <1>0, <1>2 DEF HandleReply
<1>3. CASE \E c \in due, f \in Families : ProbeAnswered(c, f)
  <2>1. PICK c \in due : \E f \in Families : ProbeAnswered(c, f)
    BY <1>3
  <2>2. PICK f \in Families : ProbeAnswered(c, f)
    BY <2>1
  <2>3. c.mac \in Macs
    BY DEF TypeOK
  <2>4. Observe(c.mac, f, 0, sweep.iface, sweep.subnet)
    BY <2>2 DEF ProbeAnswered
  <2>. QED  BY <1>0, <2>2, <2>3, <2>4
<1>. QED  BY <1>1, <1>2, <1>3

LEMMA HandStepType == TypeOK /\ HandStep => TypeOK'
<1>. SUFFICES ASSUME TypeOK, NEW h \in hand,
                     \/ DeviceIsThere(h) \/ DeviceIsGone(h) \/ RecordEvent(h)
                     \/ ReadPresence(h) \/ ClearMark(h) \/ WriteMark(h)
              PROVE  TypeOK'
  BY DEF HandStep
<1>0. h \in HandRow /\ h.mac \in Macs /\ h.row \in PresenceRow
  BY DEF TypeOK, HandRow
<1>1. CASE DeviceIsThere(h)
  <2>1. hand' \subseteq HandRow
    BY <1>0, <1>1 DEF DeviceIsThere, HandRow
  <2>. QED  BY <1>1, <2>1 DEF DeviceIsThere, TypeOK, tables, history
<1>2. CASE DeviceIsGone(h)
  <2>1. muddled' \subseteq Macs /\ torn' \subseteq Macs
    BY <1>2 DEF DeviceIsGone, ProcessEnds, Uncleared, Unrecorded, TypeOK
  <2>. QED  BY <1>2, <2>1, ConstantRowTypes
            DEF DeviceIsGone, ProcessEnds, TypeOK, tables
<1>3. CASE RecordEvent(h)
  <2>1. hand' \subseteq HandRow
    BY <1>0, <1>3 DEF RecordEvent, HandRow
  <2>2. event' \in [Macs -> EventKinds]
    BY <1>0, <1>3 DEF RecordEvent, TypeOK, HandRow, EventKinds
  <2>3. torn' \subseteq Macs
    BY <1>0, <1>3 DEF RecordEvent, TypeOK
  <2>. QED  BY <1>3, <2>1, <2>2, <2>3 DEF RecordEvent, TypeOK
<1>4. CASE ReadPresence(h)
  <2>1. presence[h.mac] \in PresenceRow
    BY <1>0 DEF TypeOK
  <2>2. hand' \subseteq HandRow
    <3>1. [h EXCEPT !.step = "clear"] \in HandRow
      BY <1>0 DEF HandRow
    <3>2. \A g \in HandRow : [g EXCEPT !.row = presence[h.mac]] \in HandRow
      BY <2>1 DEF HandRow
    <3>3. [h EXCEPT !.step = "clear", !.row = presence[h.mac]] \in HandRow
      BY <3>1, <3>2
    <3>. QED  BY <1>4, <3>3 DEF ReadPresence
  <2>3. findings' \subseteq Finding
    BY <1>0, <1>4 DEF ReadPresence, TypeOK, Finding, Recovered
  <2>4. phase' \in {"idle", "scan", "retry", "miss", "mark", "emit"}
    BY <1>4 DEF ReadPresence, TypeOK
  <2>. QED  BY <1>4, <2>2, <2>3, <2>4 DEF ReadPresence, TypeOK, tables, history
<1>5. CASE ClearMark(h)
  <2>1. presence' \in [Macs -> PresenceRow]
    BY <1>0, <1>5, PresenceTypes DEF ClearMark, TypeOK
  <2>2. muddled' \subseteq Macs /\ hand' = {}
    BY <1>0, <1>5 DEF ClearMark, TypeOK
  <2>. QED  BY <1>5, <2>1, <2>2 DEF ClearMark, TypeOK
<1>6. CASE WriteMark(h)
  <2>1. presence' \in [Macs -> PresenceRow]
    BY <1>0, <1>6, PresenceTypes DEF WriteMark, TypeOK
  <2>2. muddled' \subseteq Macs /\ hand' = {}
    BY <1>0, <1>6 DEF WriteMark, TypeOK
  <2>3. absences' \in [Macs -> 0..2]
    BY <1>0, <1>6 DEF WriteMark, TypeOK
  <2>4. findings' \subseteq Finding
    BY <1>0, <1>6 DEF WriteMark, TypeOK, Finding, Absent
  <2>. QED  BY <1>6, <2>1, <2>2, <2>3, <2>4 DEF WriteMark, TypeOK
<1>. QED  BY <1>1, <1>2, <1>3, <1>4, <1>5, <1>6

LEMMA CommitMissesType ==
  ASSUME TypeOK, NEW S \in SUBSET missing, CommitMisses(S)
  PROVE  TypeOK'
<1>. DEFINE gone == {r.mac : r \in {q \in S : q.gone}}
            hit  == {r.mac : r \in {q \in S : Known(q.mac)}}
<1>1. gone \subseteq Macs /\ hit \subseteq Macs
  BY DEF TypeOK, MissingRow
<1>2. /\ dev' = [m \in Macs |-> IF m \in hit THEN AfterMiss(dev[m], m \in gone)
                                ELSE dev[m]]
      /\ event' = [m \in Macs |-> IF m \in gone THEN "disconnected" ELSE event[m]]
      /\ silent' = [m \in Macs |-> IF m \in hit THEN OneMore(silent[m])
                                   ELSE silent[m]]
      /\ torn' = (torn \ gone) \cup (gone \ hit)
      /\ missing' = missing \ S
      /\ UNCHANGED <<presence, phase, sweep, replies, heard, due, absentees,
                     hand, findings, edit, lan, reported, absences, muddled,
                     crashes>>
  BY DEF CommitMisses
<1>. HIDE DEF gone, hit
<1>3. dev' \in [Macs -> DeviceRow]
  <2>1. \A m \in Macs : AfterMiss(dev[m], m \in gone) \in DeviceRow
    <3>. SUFFICES ASSUME NEW m \in Macs
                  PROVE  AfterMiss(dev[m], m \in gone) \in DeviceRow
      OBVIOUS
    <3>. DEFINE b == m \in gone
    <3>1. b \in BOOLEAN /\ dev[m] \in DeviceRow
      BY DEF TypeOK
    <3>. HIDE DEF b
    <3>2. AfterMiss(dev[m], b) \in DeviceRow
      BY <3>1, MissTypes
    <3>. QED  BY <3>2 DEF b
  <2>2. \A m \in Macs : dev[m] \in DeviceRow
    BY DEF TypeOK
  <2>. QED  BY <1>2, <2>1, <2>2
<1>4. event' \in [Macs -> EventKinds]
  BY <1>2 DEF TypeOK, EventKinds
<1>5. silent' \in [Macs -> 0..MissedAfter]
  BY <1>2, ThresholdAssumption DEF TypeOK, OneMore
<1>6. torn' \subseteq Macs /\ missing' \subseteq MissingRow
  BY <1>1, <1>2 DEF TypeOK
<1>. QED  BY <1>2, <1>3, <1>4, <1>5, <1>6 DEF TypeOK

LEMMA SweepStepType == TypeOK /\ SweepStep => TypeOK'
<1>. SUFFICES ASSUME TypeOK, SweepStep PROVE TypeOK'
  OBVIOUS
<1>1. ASSUME \/ \E m \in Macs, f \in Families : HandleReply(m, f)
             \/ \E c \in due, f \in Families : ProbeAnswered(c, f)
      PROVE  TypeOK'
  BY <1>1, SightingCases, SightingType
<1>2. CASE EndScan
  <2>1. \A m \in Macs : Candidate(m) \in [mac: Macs, v4: BOOLEAN, v6: BOOLEAN]
    BY DEF Candidate, TypeOK, DeviceRow
  <2>2. due' \subseteq [mac: Macs, v4: BOOLEAN, v6: BOOLEAN]
    BY <1>2, <2>1 DEF EndScan, Missed
  <2>3. phase' \in {"retry", "emit"}
    BY <1>2 DEF EndScan
  <2>. QED  BY <1>2, <2>2, <2>3 DEF EndScan, TypeOK, tables, history
<1>3. ASSUME NEW c \in due, ProbeSilent(c) PROVE TypeOK'
  BY <1>3 DEF ProbeSilent, TypeOK, tables, history
<1>4. CASE SelectMissing
  <2>1. missing' \subseteq MissingRow
    <3>1. \A m \in Macs : GivenUp(dev[m]) \in BOOLEAN
      BY DEF GivenUp
    <3>2. \A m \in Macs :
            [mac |-> m, gone |-> GivenUp(dev[m])] \in MissingRow
      <4>. SUFFICES ASSUME NEW m \in Macs
                    PROVE  [mac |-> m, gone |-> GivenUp(dev[m])] \in MissingRow
        OBVIOUS
      <4>. DEFINE b == GivenUp(dev[m])
      <4>1. b \in BOOLEAN
        BY <3>1
      <4>. HIDE DEF b
      <4>2. [mac |-> m, gone |-> b] \in MissingRow
        BY <4>1 DEF MissingRow
      <4>. QED  BY <4>2 DEF b
    <3>. QED  BY <1>4, <3>2 DEF SelectMissing, Missed
  <2>. QED  BY <1>4, <2>1 DEF SelectMissing, TypeOK, tables, history
<1>5. ASSUME NEW S \in SUBSET missing, CommitMisses(S) PROVE TypeOK'
  BY <1>5, CommitMissesType
<1>6. CASE SelectAbsentees
  BY <1>6 DEF SelectAbsentees, AbsenceDue, TypeOK, tables, history
<1>7. ASSUME NEW m \in absentees, ReadMark(m) PROVE TypeOK'
  <2>1. hand' \subseteq HandRow
    BY <1>7 DEF ReadMark, HandRow, TypeOK
  <2>. QED  BY <1>7, <2>1 DEF ReadMark, TypeOK, tables, history
<1>8. CASE EmitFindings
  <2>1. reported' \in [Macs -> BOOLEAN]
    BY <1>8 DEF EmitFindings, TypeOK
  <2>. QED  BY <1>8, <2>1, ConstantRowTypes DEF EmitFindings, TypeOK, tables
<1>. QED  BY <1>1, <1>2, <1>3, <1>4, <1>5, <1>6, <1>7, <1>8, HandStepType
          DEF SweepStep

LEMMA OperatorType == TypeOK /\ OperatorActs => TypeOK'
<1>. SUFFICES ASSUME TypeOK, OperatorActs PROVE TypeOK'
  OBVIOUS
<1>1. ASSUME NEW m \in Macs, StopWatching(m) PROVE TypeOK'
  <2>1. presence' \in [Macs -> PresenceRow] /\ absences' \in [Macs -> 0..2]
    BY <1>1, ConstantRowTypes DEF StopWatching, TypeOK
  <2>. QED  BY <1>1, <2>1 DEF StopWatching, TypeOK, memory
<1>2. ASSUME NEW m \in Macs, NEW row \in PresenceRow, ReadForEdit(m, row)
      PROVE  TypeOK'
  <2>1. edit' \subseteq EditRow
    BY <1>2 DEF ReadForEdit, EditRow, TypeOK
  <2>. QED  BY <1>2, <2>1 DEF ReadForEdit, TypeOK, tables, memory, history
<1>3. ASSUME NEW m \in Macs, Watch(m) PROVE TypeOK'
  <2>1. [presence[m] EXCEPT !.watched = TRUE] \in PresenceRow
    BY PresenceTypes DEF TypeOK
  <2>. QED  BY <1>2, <1>3, <2>1 DEF Watch
<1>4. ASSUME NEW m \in Macs, NEW o \in Overrides \cup {NoOverride},
             SetOfflineAfter(m, o)
      PROVE  TypeOK'
  <2>1. [presence[m] EXCEPT !.override = o] \in PresenceRow
    BY PresenceTypes DEF TypeOK
  <2>. QED  BY <1>2, <1>4, <2>1 DEF SetOfflineAfter
<1>5. ASSUME NEW e \in edit, WriteEdit(e) PROVE TypeOK'
  <2>1. e.mac \in Macs /\ e.write \in PresenceRow
    BY DEF TypeOK, EditRow
  <2>2. presence' \in [Macs -> PresenceRow] /\ muddled' \subseteq Macs
    BY <1>5, <2>1 DEF WriteEdit, TypeOK
  <2>. QED  BY <1>5, <2>2 DEF WriteEdit, TypeOK, memory
<1>6. ASSUME NEW S \in SUBSET Macs, Forget(S) PROVE TypeOK'
  <2>1. dev' \in [Macs -> DeviceRow] /\ presence' \in [Macs -> PresenceRow]
    BY <1>6, ConstantRowTypes DEF Forget, TypeOK
  <2>2. silent' \in [Macs -> 0..MissedAfter] /\ absences' \in [Macs -> 0..2]
    BY <1>6, ThresholdAssumption DEF Forget, TypeOK
  <2>3. event' \in [Macs -> EventKinds]
    BY <1>6 DEF Forget, TypeOK, EventKinds
  <2>. QED  BY <1>6, <2>1, <2>2, <2>3 DEF Forget, TypeOK, memory
<1>. QED  BY <1>1, <1>3, <1>4, <1>5, <1>6
          DEF OperatorActs, DeleteDevice, ResetAll

LEMMA OtherStepType ==
  TypeOK /\ (SweepBegins \/ Crash \/ EnvironmentActs) => TypeOK'
<1>. SUFFICES ASSUME TypeOK, SweepBegins \/ Crash \/ EnvironmentActs
              PROVE  TypeOK'
  OBVIOUS
<1>1. CASE SweepBegins
  <2>1. PICK t \in Targets, ok4 \in BOOLEAN, ok6 \in BOOLEAN,
             answers \in SUBSET (onLan \X Families) :
          StartSweep(t[1], t[2], ok4, ok6, answers)
    BY <1>1 DEF SweepBegins
  <2>2. sweep' \in SweepRow
    BY <2>1, TargetAssumption DEF StartSweep, SweepRow
  <2>3. replies' \subseteq Macs \X Families
    BY <2>1 DEF StartSweep, TypeOK
  <2>. QED  BY <2>1, <2>2, <2>3 DEF StartSweep, TypeOK, tables, history
<1>2. CASE Crash
  <2>1. muddled' \subseteq Macs /\ torn' \subseteq Macs
    BY <1>2 DEF Crash, ProcessEnds, Uncleared, Unrecorded, TypeOK
  <2>2. crashes' \in 0..MaxCrashes
    BY <1>2, BoundAssumption DEF Crash, TypeOK
  <2>. QED  BY <1>2, <2>1, <2>2, ConstantRowTypes
            DEF Crash, ProcessEnds, TypeOK, tables
<1>3. CASE Tick
  <2>1. dev' \in [Macs -> DeviceRow]
    <3>1. "v4" \in Families /\ 0 \in 0..MaxLag /\ Unknown \in Ifaces \cup {Unknown}
            /\ Unknown \in Subnets \cup {Unknown}
      BY BoundAssumption DEF Families
    <3>2. \A d \in DeviceRow : [d EXCEPT !.age = Older(@)] \in DeviceRow
      BY <3>1, RowTypes
    <3>. QED  BY <1>3, <3>2 DEF Tick, TypeOK
  <2>. QED  BY <1>3, <2>1 DEF Tick, TypeOK, memory, history
<1>4. CASE EnvironmentActs
  BY <1>3, <1>4
     DEF EnvironmentActs, Join, Leave, GiveAway, TypeOK, tables, memory, history
<1>. QED  BY <1>1, <1>2, <1>4

LEMMA TypeStep == TypeOK /\ [Next]_vars => TypeOK'
<1>. SUFFICES ASSUME TypeOK, [Next]_vars PROVE TypeOK'
  OBVIOUS
<1>1. CASE PassiveSees
  BY <1>1, SightingCases, SightingType
<1>2. CASE UNCHANGED vars
  BY <1>2 DEF vars, tables, memory, history, TypeOK
<1>. QED  BY <1>1, <1>2, SweepStepType, OperatorType, OtherStepType DEF Next

\* Type correctness, for every set of devices and networks and every setting.
THEOREM TypeCorrect == Spec => []TypeOK
BY InitType, TypeStep, PTL DEF Spec

-----------------------------------------------------------------------------
(* The inductive invariant, action by action *)

\* What is in hand, unfolded once.
LEMMA HandFacts ==
  ASSUME TypeOK, NEW h \in hand
  PROVE  /\ h.mac \in Macs /\ h.row \in PresenceRow
         /\ h.step \in {"assert", "event", "presence", "clear", "mark"}
         /\ h.kind \in {"none", "new_device", "reappeared"}
         /\ dev[h.mac].status \in {"none", "online", "offline"}
BY DEF TypeOK, HandRow, DeviceRow

\* A sighting only disturbs what is known of its own device.
LEMMA ObserveInv ==
  ASSUME IInv, NEW m \in Macs, NEW f \in Families, NEW lag \in 0..MaxLag,
         NEW i \in Ifaces \cup {Unknown}, NEW n \in Subnets \cup {Unknown},
         Observe(m, f, lag, i, n), phase \in {"idle", "scan", "retry"},
         phase' = phase, heard' \in {heard, heard \cup {m}}
  PROVE  TableInv' /\ MarkInv' /\ OrderInv'
<1>. DEFINE h == [mac |-> m, step |-> "assert", kind |-> Transition(dev[m]),
                  row |-> DefaultPresence]
<1>0. TypeOK /\ hand = {} /\ hand' = {h}
  BY DEF IInv, Observe
<1>1. dev' = [dev EXCEPT ![m] = Observed(@, f, lag, i, n)]
  BY DEF Observe
<1>2. /\ dev'[m].status = "online" /\ dev'[m].missed = 0
      /\ \A x \in Macs \ {m} : dev'[x] = dev[x]
  BY <1>0, <1>1 DEF TypeOK, Observed
<1>3. /\ silent'[m] = 0 /\ \A x \in Macs \ {m} : silent'[x] = silent[x]
      /\ absences'[m] = 0 /\ \A x \in Macs \ {m} : absences'[x] = absences[x]
  BY <1>0 DEF Observe, TypeOK
<1>4. /\ UNCHANGED <<presence, event, missing, absentees, edit, muddled, torn>>
  BY DEF Observe
<1>5. /\ h.mac = m /\ h.step = "assert"
      /\ dev[m].status = "none" => h.kind = "new_device"
      /\ dev[m].status = "offline" => h.kind = "reappeared"
      /\ dev[m].status = "online" => h.kind = "none"
      /\ dev[m].status \in {"none", "online", "offline"}
  BY <1>0 DEF Transition, TypeOK, DeviceRow
<1>6. missing = {} /\ absentees = {}
  BY DEF IInv, OrderInv, MissingInOrder, AbsenteesInOrder
<1>. HIDE DEF h
<1>7. LogTellsStatus'
  <2>1. Untold = {}
    BY <1>0 DEF Untold
  <2>2. \A x \in Macs : h.kind # "none" \/ x # m => 
          (x \in Untold' <=> x = m)
    BY <1>0, <1>5 DEF Untold
  <2>3. LogTellsStatus
    BY DEF IInv, TableInv
  <2>4. ASSUME NEW x \in Macs, x # m
        PROVE  /\ dev'[x].status = "offline" => event'[x] = "disconnected"
               /\ x \notin torn' => (event'[x] # "none" => dev'[x].status # "none")
               /\ x \notin torn' \cup Untold' =>
                    /\ event'[x] = "disconnected" => dev'[x].status = "offline"
                    /\ dev'[x].status # "none" => event'[x] # "none"
    BY <1>2, <1>4, <2>1, <2>3, <2>4 DEF LogTellsStatus
  <2>5. /\ dev'[m].status = "offline" => event'[m] = "disconnected"
        /\ m \notin torn' => (event'[m] # "none" => dev'[m].status # "none")
        /\ m \notin torn' \cup Untold' =>
             /\ event'[m] = "disconnected" => dev'[m].status = "offline"
             /\ dev'[m].status # "none" => event'[m] # "none"
    BY <1>2, <1>4, <1>5, <2>1, <2>2, <2>3 DEF LogTellsStatus
  <2>. QED  BY <2>4, <2>5 DEF LogTellsStatus
<1>8. MissesAreSilent' /\ OfflineIsEarned' /\ HeardIsNotMissed'
  BY <1>0, <1>2, <1>3
     DEF IInv, TableInv, TypeOK, MissesAreSilent, OfflineIsEarned, HeardIsNotMissed
<1>9. MarkCountsAbsence'
  BY <1>3, <1>4 DEF IInv, MarkInv, MarkCountsAbsence
<1>10. AlertedMeansAbsent'
  <2>1. Returning = {} /\ Returning' = {m}
    BY <1>0, <1>5 DEF Returning
  <2>. QED  BY <1>2, <1>4, <2>1 DEF IInv, MarkInv, AlertedMeansAbsent
<1>11. HandInOrder'
  <2>1. h.kind # "reappeared" => m \in muddled \/ ~presence[m].alerted
    <3>1. Returning = {}
      BY <1>0 DEF Returning
    <3>. QED  BY <1>5, <3>1 DEF IInv, MarkInv, AlertedMeansAbsent
  <2>. QED  BY <1>0, <1>2, <1>3, <1>4, <1>5, <2>1 DEF HandInOrder
<1>12. MissingInOrder' /\ AbsenteesInOrder' /\ EditInOrder'
  BY <1>4, <1>6 DEF IInv, OrderInv, MissingInOrder, AbsenteesInOrder, EditInOrder
<1>. QED  BY <1>7, <1>8, <1>9, <1>10, <1>11, <1>12
          DEF TableInv, MarkInv, OrderInv

LEMMA SightingInv ==
  ASSUME IInv,
         \/ PassiveSees
         \/ \E m \in Macs, f \in Families : HandleReply(m, f)
         \/ \E c \in due, f \in Families : ProbeAnswered(c, f)
  PROVE  TableInv' /\ MarkInv' /\ OrderInv'
<1>1. PICK m \in Macs, f \in Families, lag \in 0..MaxLag,
           i \in Ifaces \cup {Unknown}, n \in Subnets \cup {Unknown} :
        /\ Observe(m, f, lag, i, n)
        /\ \/ PassiveSighting(m, f, lag, i, n)
           \/ HandleReply(m, f)
           \/ \E c \in due : c.mac = m /\ ProbeAnswered(c, f)
  BY SightingCases DEF IInv
<1>2. /\ phase \in {"idle", "scan", "retry"} /\ phase' = phase
      /\ heard' \in {heard, heard \cup {m}}
  BY <1>1 DEF PassiveSighting, HandleReply, ProbeAnswered
<1>. QED  BY <1>1, <1>2, ObserveInv

\* The assertion holds: a routine refresh is over, an event is to be recorded.
LEMMA DeviceIsThereInv ==
  ASSUME IInv, NEW h \in hand, DeviceIsThere(h)
  PROVE  TableInv' /\ MarkInv' /\ OrderInv'
<1>0. /\ TypeOK /\ TableInv /\ MarkInv /\ OrderInv
      /\ h.mac \in Macs /\ h.step = "assert"
      /\ hand = {h}
      /\ h.step # "mark" /\ phase \in {"idle", "scan", "retry", "emit"}
      /\ dev[h.mac].status # "offline" /\ absences[h.mac] = 0
      /\ h.kind # "reappeared" => h.mac \in muddled \/ ~presence[h.mac].alerted
  BY HandFacts DEF IInv, OrderInv, HandInOrder, DeviceIsThere
<1>1. /\ UNCHANGED <<dev, presence, event, phase, heard, missing, absentees,
                     edit, absences, silent, muddled, torn>>
      /\ h.kind = "none" => hand' = {}
      /\ h.kind # "none" => hand' = {[h EXCEPT !.step = "event"]}
  BY DEF DeviceIsThere, tables, history
<1>. DEFINE g == [h EXCEPT !.step = "event"]
<1>2. g.mac = h.mac /\ g.step = "event" /\ g.kind = h.kind
  BY <1>0, HandFacts DEF TypeOK, HandRow
<1>3. h.kind = "none" \/ hand' = {g}
  BY <1>1
<1>. HIDE DEF g
<1>4. Untold' = Untold
  BY <1>0, <1>1, <1>2, <1>3 DEF Untold
<1>5. TableInv'
  BY <1>0, <1>1, <1>4 DEF TableInv, LogTellsStatus, MissesAreSilent,
                          OfflineIsEarned, HeardIsNotMissed
<1>6. MarkInv'
  <2>1. \A m \in Macs : m \in Returning => m \in Returning' \/ m \in muddled
                                             \/ ~presence[m].alerted
    BY <1>0, <1>1, <1>2, <1>3 DEF Returning
  <2>. QED  BY <1>0, <1>1, <2>1 DEF MarkInv, MarkCountsAbsence, AlertedMeansAbsent
<1>7. HandInOrder'
  BY <1>0, <1>1, <1>2, <1>3 DEF HandInOrder
<1>8. MissingInOrder' /\ AbsenteesInOrder' /\ EditInOrder'
  BY <1>0, <1>1
     DEF OrderInv, MissingInOrder, AbsenteesInOrder, EditInOrder, Known, GivenUp
<1>. QED  BY <1>5, <1>6, <1>7, <1>8 DEF OrderInv

\* The process ends: what it had in hand is torn or muddled.
LEMMA ProcessEndsInv ==
  ASSUME IInv, ProcessEnds
  PROVE  TableInv' /\ MarkInv' /\ OrderInv'
<1>0. /\ TypeOK /\ TableInv /\ MarkInv /\ OrderInv
      /\ UNCHANGED <<dev, presence, event, edit, absences, silent>>
      /\ hand' = {} /\ missing' = {} /\ absentees' = {} /\ heard' = {}
      /\ muddled' = muddled \cup Uncleared
      /\ torn' = torn \cup Unrecorded
  BY DEF IInv, ProcessEnds, tables
<1>1. LogTellsStatus'
  <2>1. Untold' = {}
    BY <1>0 DEF Untold
  <2>2. \A m \in Macs : m \in Untold => m \in Unrecorded \/ dev[m].status = "none"
    BY DEF Untold, Unrecorded, Known
  <2>3. ASSUME NEW m \in Macs, m \notin torn', m \in Untold
        PROVE  dev[m].status = "none" /\ event[m] = "none"
    BY <1>0, <2>2, <2>3 DEF TableInv, LogTellsStatus
  <2>4. ASSUME NEW m \in Macs
        PROVE  /\ dev'[m].status = "offline" => event'[m] = "disconnected"
               /\ m \notin torn' => (event'[m] # "none" => dev'[m].status # "none")
               /\ m \notin torn' \cup Untold' =>
                    /\ event'[m] = "disconnected" => dev'[m].status = "offline"
                    /\ dev'[m].status # "none" => event'[m] # "none"
    <3>1. CASE m \in Untold
      BY <1>0, <2>1, <2>3, <3>1 DEF TableInv, LogTellsStatus
    <3>2. CASE m \notin Untold
      BY <1>0, <2>1, <3>2 DEF TableInv, LogTellsStatus
    <3>. QED  BY <3>1, <3>2
  <2>. QED  BY <2>4 DEF LogTellsStatus
<1>2. MissesAreSilent' /\ OfflineIsEarned' /\ HeardIsNotMissed'
  BY <1>0 DEF TableInv, MissesAreSilent, OfflineIsEarned, HeardIsNotMissed
<1>3. MarkCountsAbsence'
  BY <1>0 DEF MarkInv, MarkCountsAbsence
<1>4. AlertedMeansAbsent'
  <2>1. \A m \in Macs : m \in Returning /\ presence[m].alerted => m \in Uncleared
    BY DEF Returning, Uncleared
  <2>. QED  BY <1>0, <2>1 DEF MarkInv, AlertedMeansAbsent
<1>5. OrderInv'
  BY <1>0 DEF OrderInv, HandInOrder, MissingInOrder, AbsenteesInOrder, EditInOrder
<1>. QED  BY <1>1, <1>2, <1>3, <1>4, <1>5 DEF TableInv, MarkInv

\* The event is recorded, for a device that is there or one that is gone.
LEMMA RecordEventInv ==
  ASSUME IInv, NEW h \in hand, RecordEvent(h)
  PROVE  TableInv' /\ MarkInv' /\ OrderInv'
<1>0. /\ TypeOK /\ TableInv /\ MarkInv /\ OrderInv
      /\ h.mac \in Macs /\ h.step = "event" /\ h.kind # "none"
      /\ h.kind \in {"none", "new_device", "reappeared"}
      /\ hand = {h}
      /\ phase \in {"idle", "scan", "retry", "emit"}
      /\ dev[h.mac].status # "offline" /\ absences[h.mac] = 0
      /\ h.kind # "reappeared" => h.mac \in muddled \/ ~presence[h.mac].alerted
  BY HandFacts DEF IInv, OrderInv, HandInOrder, RecordEvent
<1>1. /\ UNCHANGED <<dev, presence, phase, heard, missing, absentees,
                     edit, absences, silent, muddled>>
      /\ event' = [event EXCEPT ![h.mac] = h.kind]
      /\ Known(h.mac) => torn' = torn \ {h.mac}
      /\ ~Known(h.mac) => torn' = torn \cup {h.mac}
      /\ h.kind # "reappeared" => hand' = {}
      /\ h.kind = "reappeared" => hand' = {[h EXCEPT !.step = "presence"]}
  BY DEF RecordEvent
<1>. DEFINE g == [h EXCEPT !.step = "presence"]
<1>2. g.mac = h.mac /\ g.step = "presence" /\ g.kind = h.kind
  BY <1>0 DEF TypeOK, HandRow
<1>3. h.kind # "reappeared" \/ hand' = {g}
  BY <1>1
<1>. HIDE DEF g
<1>4. LogTellsStatus'
  <2>1. Untold' = {} /\ Untold = {h.mac}
    BY <1>0, <1>1, <1>2, <1>3 DEF Untold
  <2>2. /\ event'[h.mac] = h.kind
        /\ \A x \in Macs \ {h.mac} : event'[x] = event[x]
    BY <1>0, <1>1 DEF TypeOK
  <2>3. \A x \in Macs \ {h.mac} : x \in torn' <=> x \in torn
    BY <1>1
  <2>4. h.mac \in torn' <=> dev[h.mac].status = "none"
    BY <1>1 DEF Known
  <2>. QED  BY <1>0, <1>1, <2>1, <2>2, <2>3, <2>4 DEF TableInv, LogTellsStatus
<1>5. MissesAreSilent' /\ OfflineIsEarned' /\ HeardIsNotMissed'
  BY <1>0, <1>1 DEF TableInv, MissesAreSilent, OfflineIsEarned, HeardIsNotMissed
<1>6. MarkInv'
  <2>1. \A m \in Macs : m \in Returning => m \in Returning' \/ m \in muddled
                                             \/ ~presence[m].alerted
    BY <1>0, <1>1, <1>2, <1>3 DEF Returning
  <2>. QED  BY <1>0, <1>1, <2>1 DEF MarkInv, MarkCountsAbsence, AlertedMeansAbsent
<1>7. HandInOrder'
  BY <1>0, <1>1, <1>2, <1>3 DEF HandInOrder
<1>8. MissingInOrder' /\ AbsenteesInOrder' /\ EditInOrder'
  BY <1>0, <1>1
     DEF OrderInv, MissingInOrder, AbsenteesInOrder, EditInOrder, Known, GivenUp
<1>. QED  BY <1>4, <1>5, <1>6, <1>7, <1>8 DEF TableInv, OrderInv

LEMMA ReadPresenceInv ==
  ASSUME IInv, NEW h \in hand, ReadPresence(h)
  PROVE  TableInv' /\ MarkInv' /\ OrderInv'
<1>0. /\ TypeOK /\ TableInv /\ MarkInv /\ OrderInv
      /\ h.mac \in Macs /\ h.step = "presence" /\ h.kind = "reappeared"
      /\ hand = {h}
      /\ phase \in {"idle", "scan", "retry", "emit"}
      /\ dev[h.mac].status # "offline" /\ absences[h.mac] = 0
  BY HandFacts DEF IInv, OrderInv, HandInOrder, ReadPresence
<1>1. /\ UNCHANGED <<dev, presence, event, heard, missing, absentees,
                     edit, absences, silent, muddled, torn>>
      /\ phase' \in {phase, "emit"}
      /\ ~presence[h.mac].alerted => hand' = {}
      /\ presence[h.mac].alerted =>
           hand' = {[h EXCEPT !.step = "clear", !.row = presence[h.mac]]}
  BY DEF ReadPresence, tables, history
<1>. DEFINE g == [h EXCEPT !.step = "clear", !.row = presence[h.mac]]
<1>2. g.mac = h.mac /\ g.step = "clear" /\ g.kind = h.kind
  BY <1>0 DEF TypeOK, HandRow
<1>3. ~presence[h.mac].alerted \/ hand' = {g}
  BY <1>1
<1>. HIDE DEF g
<1>4. Untold' = {} /\ Untold = {}
  BY <1>0, <1>1, <1>2, <1>3 DEF Untold
<1>5. TableInv'
  BY <1>0, <1>1, <1>4 DEF TableInv, LogTellsStatus, MissesAreSilent,
                          OfflineIsEarned, HeardIsNotMissed
<1>6. MarkInv'
  <2>1. \A m \in Macs : m \in Returning => m \in Returning' \/ ~presence[m].alerted
    BY <1>0, <1>1, <1>2, <1>3 DEF Returning
  <2>. QED  BY <1>0, <1>1, <2>1 DEF MarkInv, MarkCountsAbsence, AlertedMeansAbsent
<1>7. HandInOrder'
  BY <1>0, <1>1, <1>2, <1>3 DEF HandInOrder
<1>8. missing = {} /\ absentees = {}
  BY <1>0 DEF OrderInv, MissingInOrder, AbsenteesInOrder
<1>9. MissingInOrder' /\ AbsenteesInOrder' /\ EditInOrder'
  BY <1>0, <1>1, <1>8 DEF OrderInv, MissingInOrder, AbsenteesInOrder, EditInOrder
<1>. QED  BY <1>5, <1>6, <1>7, <1>9 DEF OrderInv

\* Written over a row that is still what was read, the mark is just cleared.
LEMMA ClearMarkInv ==
  ASSUME IInv, NEW h \in hand, ClearMark(h)
  PROVE  TableInv' /\ MarkInv' /\ OrderInv'
<1>0. /\ TypeOK /\ TableInv /\ MarkInv /\ OrderInv
      /\ h.mac \in Macs /\ h.step = "clear" /\ h.row \in PresenceRow
      /\ hand = {h}
      /\ phase \in {"idle", "scan", "retry", "emit"}
      /\ absences[h.mac] = 0
  BY HandFacts DEF IInv, OrderInv, HandInOrder, ClearMark
<1>1. /\ UNCHANGED <<dev, event, phase, heard, missing, absentees,
                     edit, absences, silent, torn>>
      /\ presence' = [presence EXCEPT ![h.mac] = [h.row EXCEPT !.alerted = FALSE]]
      /\ muddled' = muddled \/ muddled' = muddled \cup {h.mac}
      /\ hand' = {}
  BY DEF ClearMark
<1>2. /\ ~presence'[h.mac].alerted
      /\ \A x \in Macs \ {h.mac} : presence'[x] = presence[x]
  BY <1>0, <1>1 DEF TypeOK, PresenceRow
<1>3. Untold' = {} /\ Untold = {}
  BY <1>0, <1>1 DEF Untold
<1>4. TableInv'
  BY <1>0, <1>1, <1>3 DEF TableInv, LogTellsStatus, MissesAreSilent,
                          OfflineIsEarned, HeardIsNotMissed
<1>5. MarkInv'
  <2>1. Returning = {h.mac} /\ Returning' = {}
    BY <1>0, <1>1 DEF Returning
  <2>. QED  BY <1>0, <1>1, <1>2, <2>1
            DEF MarkInv, MarkCountsAbsence, AlertedMeansAbsent
<1>6. missing = {} /\ absentees = {}
  BY <1>0 DEF OrderInv, MissingInOrder, AbsenteesInOrder
<1>7. OrderInv'
  BY <1>0, <1>1, <1>6 DEF OrderInv, HandInOrder, MissingInOrder,
                          AbsenteesInOrder, EditInOrder
<1>. QED  BY <1>4, <1>5, <1>7

\* The mark of an absence that is still due counts one absence.
LEMMA WriteMarkInv ==
  ASSUME IInv, NEW h \in hand, WriteMark(h)
  PROVE  TableInv' /\ MarkInv' /\ OrderInv'
<1>0. /\ TypeOK /\ TableInv /\ MarkInv /\ OrderInv
      /\ h.mac \in Macs /\ h.step = "mark" /\ h.row \in PresenceRow
      /\ hand = {h}
      /\ phase = "mark" /\ h.mac \notin absentees
      /\ dev[h.mac].status # "online"
      /\ dev[h.mac].status \in {"none", "online", "offline"}
      /\ h.mac \in muddled \/ ~presence[h.mac].alerted
  BY HandFacts DEF IInv, OrderInv, HandInOrder, WriteMark
<1>1. /\ UNCHANGED <<dev, event, phase, heard, missing, absentees,
                     edit, silent, torn>>
      /\ presence' = [presence EXCEPT ![h.mac] = [h.row EXCEPT !.alerted = TRUE]]
      /\ absences' = [absences EXCEPT ![h.mac] = IF @ = 0 THEN 1 ELSE 2]
      /\ muddled' = muddled \/ muddled' = muddled \cup {h.mac}
      /\ h.mac \notin muddled' => /\ h.mac \notin muddled
                                  /\ h.row.watched
                                  /\ dev[h.mac].status # "none"
      /\ hand' = {}
  BY DEF WriteMark, Known
<1>2. /\ presence'[h.mac].alerted
      /\ presence'[h.mac].watched = h.row.watched
      /\ \A x \in Macs \ {h.mac} : presence'[x] = presence[x]
  BY <1>0, <1>1 DEF TypeOK, PresenceRow
<1>3. Untold' = {} /\ Untold = {} /\ Returning = {} /\ Returning' = {}
  BY <1>0, <1>1 DEF Untold, Returning
<1>4. TableInv'
  BY <1>0, <1>1, <1>3 DEF TableInv, LogTellsStatus, MissesAreSilent,
                          OfflineIsEarned, HeardIsNotMissed
<1>5. MarkCountsAbsence'
  <2>1. h.mac \notin muddled => absences'[h.mac] = 1
    BY <1>0, <1>1 DEF MarkInv, MarkCountsAbsence, TypeOK
  <2>2. \A x \in Macs \ {h.mac} : absences'[x] = absences[x]
    BY <1>0, <1>1 DEF TypeOK
  <2>. QED  BY <1>0, <1>1, <1>2, <2>1, <2>2 DEF MarkInv, MarkCountsAbsence
<1>6. AlertedMeansAbsent'
  BY <1>0, <1>1, <1>2, <1>3 DEF MarkInv, AlertedMeansAbsent
<1>7. HandInOrder' /\ EditInOrder'
  BY <1>0, <1>1 DEF OrderInv, HandInOrder, EditInOrder
<1>8. MissingInOrder' /\ AbsenteesInOrder'
  BY <1>0, <1>1, <1>2 DEF OrderInv, MissingInOrder, AbsenteesInOrder, Known,
                          GivenUp, TypeOK
<1>. QED  BY <1>4, <1>5, <1>6, <1>7, <1>8 DEF MarkInv, OrderInv

LEMMA HandStepInv ==
  ASSUME IInv, HandStep
  PROVE  TableInv' /\ MarkInv' /\ OrderInv'
<1>1. PICK h \in hand :
        \/ DeviceIsThere(h) \/ DeviceIsGone(h) \/ RecordEvent(h)
        \/ ReadPresence(h) \/ ClearMark(h) \/ WriteMark(h)
  BY DEF HandStep
<1>2. CASE DeviceIsGone(h)
  BY <1>2, ProcessEndsInv DEF DeviceIsGone
<1>. QED  BY <1>1, <1>2, DeviceIsThereInv, RecordEventInv, ReadPresenceInv,
             ClearMarkInv, WriteMarkInv


\* A step that writes no table and no history of it, and answers no device.
LEMMA QuietInv ==
  ASSUME IInv, Untold' = Untold, Returning' = Returning, heard' \subseteq heard,
         UNCHANGED <<dev, presence, event, absences, silent, muddled, torn>>
  PROVE  TableInv' /\ MarkInv'
BY DEF IInv, TableInv, MarkInv, LogTellsStatus, MissesAreSilent,
       OfflineIsEarned, HeardIsNotMissed, MarkCountsAbsence, AlertedMeansAbsent

\* The sweep between two commits.
LEMMA QuietSweepInv ==
  ASSUME IInv, hand = {},
         \/ SweepBegins \/ EndScan \/ SelectMissing \/ SelectAbsentees
         \/ EmitFindings \/ \E c \in due : ProbeSilent(c)
  PROVE  TableInv' /\ MarkInv' /\ OrderInv'
<1>1. /\ TypeOK /\ OrderInv
      /\ UNCHANGED <<dev, presence, event, edit, absences, silent, muddled, torn>>
      /\ hand' = {} /\ heard' \subseteq heard
  BY DEF IInv, SweepBegins, StartSweep, EndScan, SelectMissing, SelectAbsentees,
         EmitFindings, ProbeSilent, tables, history
<1>2. Untold' = Untold /\ Returning' = Returning
  BY <1>1 DEF Untold, Returning
<1>3. TableInv' /\ MarkInv'
  BY <1>1, <1>2, QuietInv
<1>4. HandInOrder' /\ EditInOrder'
  BY <1>1 DEF OrderInv, HandInOrder, EditInOrder
<1>5. CASE SelectMissing
  <2>1. /\ phase = "retry" /\ phase' = "miss" /\ heard' = heard
        /\ missing' = {[mac |-> m, gone |-> GivenUp(dev[m])] : m \in Missed}
        /\ absentees = {} /\ absentees' = {}
    BY <1>1, <1>5 DEF SelectMissing, OrderInv, AbsenteesInOrder
  <2>2. ASSUME NEW m \in Missed
        PROVE  m \notin heard /\ dev[m].status # "offline"
    BY DEF Missed
  <2>3. MissingInOrder'
    <3>1. ASSUME NEW r \in missing' PROVE
            /\ \A q \in missing' : q.mac = r.mac => q = r
            /\ r.mac \notin heard' /\ dev'[r.mac].status # "offline"
            /\ Known(r.mac)' /\ r.gone => GivenUp(dev[r.mac])'
      <4>1. PICK m \in Missed : r = [mac |-> m, gone |-> GivenUp(dev[m])]
        BY <2>1
      <4>2. r.mac = m /\ r.gone = GivenUp(dev[m])
        BY <4>1
      <4>3. ASSUME NEW q \in missing', q.mac = r.mac PROVE q = r
        <5>1. PICK x \in Missed : q = [mac |-> x, gone |-> GivenUp(dev[x])]
          BY <2>1
        <5>. QED  BY <4>1, <4>2, <4>3, <5>1
      <4>. QED  BY <1>1, <2>1, <2>2, <4>2, <4>3 DEF GivenUp
    <3>. QED  BY <2>1, <3>1 DEF MissingInOrder
  <2>. QED  BY <1>3, <1>4, <2>1, <2>3 DEF OrderInv, AbsenteesInOrder
<1>6. CASE SelectAbsentees
  <2>1. /\ missing = {} /\ missing' = {} /\ phase' = "mark"
        /\ absentees' = AbsenceDue
    BY <1>6 DEF SelectAbsentees
  <2>2. AbsenteesInOrder'
    BY <1>1, <2>1 DEF AbsenteesInOrder, AbsenceDue
  <2>. QED  BY <1>3, <1>4, <2>1, <2>2 DEF OrderInv, MissingInOrder
<1>7. ASSUME \/ SweepBegins \/ EndScan \/ EmitFindings
             \/ \E c \in due : ProbeSilent(c)
      PROVE  MissingInOrder' /\ AbsenteesInOrder'
  <2>1. missing = {} /\ absentees = {}
    BY <1>1, <1>7 DEF SweepBegins, StartSweep, EndScan, EmitFindings, ProbeSilent,
                      OrderInv, MissingInOrder, AbsenteesInOrder
  <2>2. missing' = {} /\ absentees' = {}
    BY <1>7, <2>1 DEF SweepBegins, StartSweep, EndScan, EmitFindings, ProbeSilent
  <2>. QED  BY <2>2 DEF MissingInOrder, AbsenteesInOrder
<1>. QED  BY <1>3, <1>4, <1>5, <1>6, <1>7 DEF OrderInv

LEMMA ReadMarkInv ==
  ASSUME IInv, NEW m \in absentees, ReadMark(m)
  PROVE  TableInv' /\ MarkInv' /\ OrderInv'
<1>. DEFINE h == [mac |-> m, step |-> "mark", kind |-> "none",
                  row |-> presence[m]]
<1>1. /\ TypeOK /\ OrderInv
      /\ UNCHANGED <<dev, presence, event, edit, absences, silent, muddled, torn,
                     phase, heard, missing>>
      /\ phase = "mark" /\ hand = {} /\ hand' = {h}
      /\ absentees' = absentees \ {m}
  BY DEF IInv, ReadMark, tables, history
<1>2. h.mac = m /\ h.step = "mark"
  OBVIOUS
<1>. HIDE DEF h
<1>3. Untold' = Untold /\ Returning' = Returning
  BY <1>1, <1>2 DEF Untold, Returning
<1>4. TableInv' /\ MarkInv'
  BY <1>1, <1>3, QuietInv
<1>5. HandInOrder'
  BY <1>1, <1>2 DEF OrderInv, HandInOrder, AbsenteesInOrder
<1>6. MissingInOrder' /\ AbsenteesInOrder' /\ EditInOrder'
  BY <1>1 DEF OrderInv, MissingInOrder, AbsenteesInOrder, EditInOrder
<1>. QED  BY <1>4, <1>5, <1>6 DEF OrderInv

\* The misses committed are of devices that are still as selected, or deleted.
LEMMA CommitMissesInv ==
  ASSUME IInv, NEW S \in SUBSET missing, CommitMisses(S)
  PROVE  TableInv' /\ MarkInv' /\ OrderInv'
<1>. DEFINE gone == {r.mac : r \in {q \in S : q.gone}}
            hit  == {r.mac : r \in {q \in S : Known(q.mac)}}
<1>0. TypeOK /\ TableInv /\ MarkInv /\ OrderInv
  BY DEF IInv
<1>1. /\ phase = "miss" /\ S \subseteq missing
      /\ dev' = [m \in Macs |-> IF m \in hit THEN AfterMiss(dev[m], m \in gone)
                                ELSE dev[m]]
      /\ event' = [m \in Macs |-> IF m \in gone THEN "disconnected" ELSE event[m]]
      /\ silent' = [m \in Macs |-> IF m \in hit THEN OneMore(silent[m])
                                   ELSE silent[m]]
      /\ torn' = (torn \ gone) \cup (gone \ hit)
      /\ missing' = missing \ S
      /\ UNCHANGED <<presence, phase, heard, absentees, hand, edit, absences,
                     muddled>>
  BY DEF CommitMisses
<1>2. ASSUME NEW m \in Macs, m \in hit
      PROVE  /\ Known(m) /\ dev[m].status # "offline" /\ m \notin heard
             /\ m \in gone => GivenUp(dev[m])
  <2>1. PICK r \in S : Known(r.mac) /\ r.mac = m
    BY <1>2
  <2>2. r \in missing
    BY <1>1
  <2>3. m \in gone => r.gone
    BY <1>0, <1>1, <2>1, <2>2 DEF OrderInv, MissingInOrder
  <2>. QED  BY <1>0, <2>1, <2>2, <2>3 DEF OrderInv, MissingInOrder
<1>3. ASSUME NEW m \in gone
      PROVE  m \in hit <=> dev[m].status # "none"
  BY DEF Known
<1>3a. \A m \in gone : dev[m].status # "offline"
  BY <1>0, <1>1 DEF OrderInv, MissingInOrder
<1>4. \A r \in missing' : r.mac \notin hit
  BY <1>0, <1>1 DEF OrderInv, MissingInOrder
<1>5. hand = {} /\ hand' = {}
  BY <1>0, <1>1 DEF OrderInv, HandInOrder
<1>. HIDE DEF gone, hit
<1>6. ASSUME NEW m \in Macs
      PROVE  /\ m \notin hit => dev'[m] = dev[m] /\ silent'[m] = silent[m]
             /\ m \in hit /\ m \in gone => /\ dev'[m].status = "offline"
                                           /\ dev'[m].missed = 0
             /\ m \in hit /\ m \notin gone =>
                  /\ dev'[m].status = dev[m].status
                  /\ dev'[m].missed = OneMore(dev[m].missed)
             /\ m \in hit => /\ dev'[m].age = dev[m].age
                             /\ silent'[m] = OneMore(silent[m])
             /\ event'[m] = IF m \in gone THEN "disconnected" ELSE event[m]
             /\ dev[m] \in DeviceRow /\ silent[m] \in 0..MissedAfter
             /\ dev[m].missed \in 0..MissedAfter
  <2>0. dev[m] \in DeviceRow /\ silent[m] \in 0..MissedAfter
        /\ dev[m].missed \in 0..MissedAfter
    BY <1>0 DEF TypeOK, DeviceRow
  <2>1. m \notin hit => dev'[m] = dev[m] /\ silent'[m] = silent[m]
    BY <1>1
  <2>2. CASE m \in hit /\ m \in gone
    <3>1. dev'[m] = [dev[m] EXCEPT !.status = "offline", !.missed = 0]
      BY <1>1, <2>2 DEF AfterMiss
    <3>2. /\ dev'[m].status = "offline" /\ dev'[m].missed = 0
          /\ dev'[m].age = dev[m].age
      BY <2>0, <3>1 DEF DeviceRow
    <3>. QED  BY <1>1, <2>0, <2>2, <3>2
  <2>3. CASE m \in hit /\ m \notin gone
    <3>1. dev'[m] = [dev[m] EXCEPT !.missed = OneMore(@)]
      BY <1>1, <2>3 DEF AfterMiss
    <3>2. /\ dev'[m].status = dev[m].status
          /\ dev'[m].missed = OneMore(dev[m].missed)
          /\ dev'[m].age = dev[m].age
      BY <2>0, <3>1 DEF DeviceRow
    <3>. QED  BY <1>1, <2>0, <2>3, <3>2
  <2>4. CASE m \notin hit
    BY <1>1, <2>0, <2>1, <2>4
  <2>. QED  BY <2>2, <2>3, <2>4
<1>7. LogTellsStatus'
  <2>1. Untold = {} /\ Untold' = {}
    BY <1>5 DEF Untold
  <2>2. ASSUME NEW m \in Macs
        PROVE  /\ dev'[m].status = "offline" => event'[m] = "disconnected"
               /\ m \notin torn' => (event'[m] # "none" => dev'[m].status # "none")
               /\ m \notin torn' \cup Untold' =>
                    /\ event'[m] = "disconnected" => dev'[m].status = "offline"
                    /\ dev'[m].status # "none" => event'[m] # "none"
    <3>1. CASE m \in gone /\ m \in hit
      BY <1>6, <3>1
    <3>2. CASE m \in gone /\ m \notin hit
      BY <1>1, <1>3, <1>6, <3>2
    <3>3. CASE m \notin gone /\ m \in hit
      BY <1>0, <1>1, <1>2, <1>6, <2>1, <3>3 DEF TableInv, LogTellsStatus
    <3>4. CASE m \notin gone /\ m \notin hit
      BY <1>0, <1>1, <1>6, <2>1, <3>4 DEF TableInv, LogTellsStatus
    <3>. QED  BY <3>1, <3>2, <3>3, <3>4
  <2>. QED  BY <2>2 DEF LogTellsStatus
<1>8. MissesAreSilent'
  <2>1. ASSUME NEW m \in Macs PROVE dev'[m].missed <= silent'[m]
    <3>1. dev[m].missed <= silent[m]
      BY <1>0 DEF TableInv, MissesAreSilent
    <3>2. CASE m \in hit /\ m \in gone
      BY <1>6, <3>2, ThresholdAssumption DEF OneMore
    <3>3. CASE m \in hit /\ m \notin gone
      BY <1>6, <3>1, <3>3, ThresholdAssumption DEF OneMore
    <3>4. CASE m \notin hit
      BY <1>6, <3>1, <3>4
    <3>. QED  BY <3>2, <3>3, <3>4
  <2>. QED  BY <2>1 DEF MissesAreSilent
<1>9. OfflineIsEarned'
  <2>1. ASSUME NEW m \in Macs, dev'[m].status = "offline"
        PROVE  silent'[m] >= MissedAfter /\ dev'[m].age >= Grace
    <3>1. CASE m \in hit
      <4>1. GivenUp(dev[m])
        BY <1>2, <1>6, <2>1, <3>1
      <4>2. dev[m].missed <= silent[m]
        BY <1>0 DEF TableInv, MissesAreSilent
      <4>3. silent'[m] >= MissedAfter
        BY <1>6, <3>1, <4>1, <4>2, ThresholdAssumption DEF OneMore, GivenUp
      <4>. QED  BY <1>6, <3>1, <4>1, <4>3 DEF GivenUp
    <3>2. CASE m \notin hit
      BY <1>0, <1>6, <2>1, <3>2 DEF TableInv, OfflineIsEarned
    <3>. QED  BY <3>1, <3>2
  <2>. QED  BY <2>1 DEF OfflineIsEarned
<1>10. HeardIsNotMissed'
  <2>1. heard \subseteq Macs
    BY <1>0 DEF TypeOK
  <2>. QED  BY <1>0, <1>1, <1>2, <1>6, <2>1 DEF TableInv, HeardIsNotMissed
<1>11. MarkInv'
  <2>1. Returning' = {} /\ Returning = {}
    BY <1>5 DEF Returning
  <2>. QED  BY <1>0, <1>1, <1>2, <1>6, <2>1
            DEF MarkInv, MarkCountsAbsence, AlertedMeansAbsent
<1>12. MissingInOrder'
  <2>1. \A r \in missing' : r \in missing /\ r.mac \in Macs
    BY <1>0, <1>1 DEF TypeOK, MissingRow
  <2>2. \A r \in missing' : dev'[r.mac] = dev[r.mac]
    BY <1>4, <1>6, <2>1
  <2>. QED  BY <1>0, <1>1, <2>1, <2>2 DEF OrderInv, MissingInOrder, Known, GivenUp
<1>13. HandInOrder' /\ EditInOrder'
  BY <1>0, <1>1, <1>5 DEF OrderInv, HandInOrder, EditInOrder
<1>14. AbsenteesInOrder'
  BY <1>0, <1>1 DEF OrderInv, AbsenteesInOrder
<1>. QED  BY <1>7, <1>8, <1>9, <1>10, <1>11, <1>12, <1>13, <1>14
          DEF TableInv, OrderInv

LEMMA SweepStepInv ==
  ASSUME IInv, SweepStep \/ SweepBegins \/ PassiveSees \/ Crash
  PROVE  TableInv' /\ MarkInv' /\ OrderInv'
<1>1. ASSUME \/ SweepBegins \/ EndScan \/ SelectMissing \/ SelectAbsentees
             \/ EmitFindings \/ \E c \in due : ProbeSilent(c)
      PROVE  TableInv' /\ MarkInv' /\ OrderInv'
  <2>1. hand = {}
    BY <1>1 DEF SweepBegins, StartSweep, EndScan, SelectMissing, SelectAbsentees,
                EmitFindings, ProbeSilent, IInv, OrderInv, HandInOrder
  <2>. QED  BY <1>1, <2>1, QuietSweepInv
<1>2. CASE Crash
  BY <1>2, ProcessEndsInv DEF Crash
<1>. QED  BY <1>1, <1>2, SightingInv, HandStepInv, CommitMissesInv, ReadMarkInv
          DEF SweepStep

\* Blindly written, the row is what the policy says, whoever writes besides.
LEMMA StopWatchingInv ==
  ASSUME IInv, NEW m \in Macs, StopWatching(m)
  PROVE  TableInv' /\ MarkInv' /\ OrderInv'
<1>0. /\ TypeOK /\ TableInv /\ MarkInv /\ OrderInv
      /\ UNCHANGED <<dev, event, phase, heard, missing, absentees, hand, edit,
                     silent, torn>>
      /\ presence' = [presence EXCEPT ![m] = DefaultPresence]
      /\ absences' = [absences EXCEPT ![m] = 0]
      /\ muddled' = muddled \ {m}
  BY DEF IInv, StopWatching, memory
<1>1. /\ presence'[m] = DefaultPresence /\ absences'[m] = 0
      /\ \A x \in Macs \ {m} : /\ presence'[x] = presence[x]
                               /\ absences'[x] = absences[x]
  BY <1>0 DEF TypeOK
<1>2. ~presence'[m].alerted
  BY <1>1 DEF DefaultPresence
<1>3. Untold' = Untold /\ Returning' = Returning
  BY <1>0 DEF Untold, Returning
<1>4. TableInv'
  BY <1>0, <1>3 DEF TableInv, LogTellsStatus, MissesAreSilent, OfflineIsEarned,
                    HeardIsNotMissed
<1>5. MarkInv'
  BY <1>0, <1>1, <1>2, <1>3 DEF MarkInv, MarkCountsAbsence, AlertedMeansAbsent
<1>6. HandInOrder'
  <2>1. \A h \in hand : h.mac \in Macs
    BY <1>0, HandFacts
  <2>2. \A h \in hand : h.mac = m => h.mac \in muddled' \/ ~presence'[h.mac].alerted
    BY <1>2
  <2>3. \A h \in hand : h.mac # m =>
          /\ h.mac \in muddled' <=> h.mac \in muddled
          /\ presence'[h.mac] = presence[h.mac]
          /\ absences'[h.mac] = absences[h.mac]
    BY <1>0, <1>1, <2>1
  <2>. QED  BY <1>0, <1>1, <2>2, <2>3 DEF OrderInv, HandInOrder
<1>7. MissingInOrder' /\ AbsenteesInOrder' /\ EditInOrder'
  BY <1>0, <1>1, <1>2
     DEF OrderInv, MissingInOrder, AbsenteesInOrder, EditInOrder, Known, GivenUp,
         TypeOK
<1>. QED  BY <1>4, <1>5, <1>6, <1>7 DEF OrderInv

\* An edit that has read its row only changes what it is going to write.
LEMMA ReadForEditInv ==
  ASSUME IInv, NEW m \in Macs, Watch(m) \/ \E o \in Overrides \cup {NoOverride} :
                                             SetOfflineAfter(m, o)
  PROVE  TableInv' /\ MarkInv' /\ OrderInv'
<1>1. PICK row \in PresenceRow :
        /\ ReadForEdit(m, row)
        /\ row.alerted = presence[m].alerted
        /\ presence[m].watched => row.watched
  <2>1. presence[m] \in PresenceRow
    BY DEF IInv, TypeOK
  <2>2. CASE Watch(m)
    <3>1. PICK row \in PresenceRow : row = [presence[m] EXCEPT !.watched = TRUE]
      BY <2>1, PresenceTypes
    <3>. QED  BY <2>1, <2>2, <3>1 DEF Watch, PresenceRow
  <2>3. ASSUME NEW o \in Overrides \cup {NoOverride}, SetOfflineAfter(m, o)
        PROVE  \E row \in PresenceRow :
                 /\ ReadForEdit(m, row)
                 /\ row.alerted = presence[m].alerted
                 /\ presence[m].watched => row.watched
    <3>1. PICK row \in PresenceRow : row = [presence[m] EXCEPT !.override = o]
      BY <2>1, PresenceTypes
    <3>. QED  BY <2>1, <2>3, <3>1 DEF SetOfflineAfter, PresenceRow
  <2>. QED  BY <2>2, <2>3
<1>2. /\ TypeOK /\ OrderInv
      /\ UNCHANGED <<dev, presence, event, phase, heard, missing, absentees, hand,
                     absences, silent, muddled, torn>>
      /\ edit' = {[mac |-> m, read |-> presence[m], write |-> row]}
  BY <1>1 DEF IInv, ReadForEdit, tables, memory, history
<1>3. Untold' = Untold /\ Returning' = Returning
  BY <1>2 DEF Untold, Returning
<1>4. TableInv' /\ MarkInv'
  BY <1>2, <1>3, QuietInv
<1>5. EditInOrder'
  BY <1>1, <1>2 DEF EditInOrder
<1>6. HandInOrder' /\ MissingInOrder' /\ AbsenteesInOrder'
  BY <1>2 DEF OrderInv, HandInOrder, MissingInOrder, AbsenteesInOrder, Known,
              GivenUp
<1>. QED  BY <1>4, <1>5, <1>6 DEF OrderInv

\* Written back over the row it has read, an edit leaves the mark alone.
LEMMA WriteEditInv ==
  ASSUME IInv, NEW e \in edit, WriteEdit(e)
  PROVE  TableInv' /\ MarkInv' /\ OrderInv'
<1>0. /\ TypeOK /\ TableInv /\ MarkInv /\ OrderInv
      /\ e.mac \in Macs /\ e.write \in PresenceRow
      /\ e.write.alerted = e.read.alerted
      /\ e.read.watched => e.write.watched
      /\ UNCHANGED <<dev, event, phase, heard, missing, absentees, hand,
                     absences, silent, torn>>
      /\ presence' = [presence EXCEPT ![e.mac] = e.write]
      /\ edit' = {}
      /\ presence[e.mac] = e.read => muddled' = muddled
      /\ presence[e.mac] # e.read => muddled' = muddled \cup {e.mac}
  BY DEF IInv, OrderInv, EditInOrder, TypeOK, EditRow, WriteEdit, memory, Outdated
<1>1. /\ presence'[e.mac] = e.write
      /\ \A x \in Macs \ {e.mac} : presence'[x] = presence[x]
  BY <1>0 DEF TypeOK
<1>2. ASSUME NEW x \in Macs, x \notin muddled'
      PROVE  /\ x \notin muddled
             /\ presence'[x].alerted = presence[x].alerted
             /\ presence[x].watched => presence'[x].watched
  BY <1>0, <1>1, <1>2
<1>3. Untold' = Untold /\ Returning' = Returning
  BY <1>0 DEF Untold, Returning
<1>4. TableInv'
  BY <1>0, <1>3 DEF TableInv, LogTellsStatus, MissesAreSilent, OfflineIsEarned,
                    HeardIsNotMissed
<1>5. MarkInv'
  BY <1>0, <1>2, <1>3 DEF MarkInv, MarkCountsAbsence, AlertedMeansAbsent
<1>6. HandInOrder'
  <2>1. \A h \in hand : h.mac \in Macs
    BY <1>0, HandFacts
  <2>2. \A h \in hand : h.mac \in muddled' \/
          (h.mac \notin muddled /\ presence'[h.mac].alerted = presence[h.mac].alerted)
    BY <1>2, <2>1
  <2>. QED  BY <1>0, <2>2 DEF OrderInv, HandInOrder
<1>7. AbsenteesInOrder'
  <2>1. absentees \subseteq Macs
    BY <1>0 DEF TypeOK
  <2>. QED  BY <1>0, <1>2, <2>1 DEF OrderInv, AbsenteesInOrder
<1>8. MissingInOrder' /\ EditInOrder'
  BY <1>0 DEF OrderInv, MissingInOrder, EditInOrder, Known, GivenUp
<1>. QED  BY <1>4, <1>5, <1>6, <1>7, <1>8 DEF OrderInv

\* Nothing is left of the devices forgotten, in the tables or their history.
LEMMA ForgetInv ==
  ASSUME IInv, NEW S \in SUBSET Macs, Forget(S)
  PROVE  TableInv' /\ MarkInv' /\ OrderInv'
<1>0. /\ TypeOK /\ TableInv /\ MarkInv /\ OrderInv
      /\ UNCHANGED <<phase, heard, missing, absentees, hand, edit>>
      /\ muddled' = muddled \ S /\ torn' = torn \ S
      /\ heard \subseteq Macs
  BY DEF IInv, TypeOK, Forget, memory
<1>1. ASSUME NEW m \in S
      PROVE  /\ dev'[m].status = "none" /\ dev'[m].missed = 0
             /\ ~presence'[m].alerted /\ event'[m] = "none"
             /\ absences'[m] = 0 /\ silent'[m] = 0
  BY DEF Forget, NoRow, DefaultPresence
<1>2. ASSUME NEW m \in Macs \ S
      PROVE  /\ dev'[m] = dev[m] /\ presence'[m] = presence[m]
             /\ event'[m] = event[m] /\ absences'[m] = absences[m]
             /\ silent'[m] = silent[m]
             /\ m \in muddled' <=> m \in muddled
             /\ m \in torn' <=> m \in torn
  BY <1>0 DEF Forget
<1>3. Untold' = Untold /\ Returning' = Returning
  BY <1>0 DEF Untold, Returning
<1>4. LogTellsStatus'
  <2>1. ASSUME NEW m \in Macs
        PROVE  /\ dev'[m].status = "offline" => event'[m] = "disconnected"
               /\ m \notin torn' => (event'[m] # "none" => dev'[m].status # "none")
               /\ m \notin torn' \cup Untold' =>
                    /\ event'[m] = "disconnected" => dev'[m].status = "offline"
                    /\ dev'[m].status # "none" => event'[m] # "none"
    <3>1. CASE m \in S
      BY <1>1, <3>1
    <3>2. CASE m \notin S
      BY <1>0, <1>2, <1>3, <3>2 DEF TableInv, LogTellsStatus
    <3>. QED  BY <3>1, <3>2
  <2>. QED  BY <2>1 DEF LogTellsStatus
<1>5. MissesAreSilent'
  BY <1>0, <1>1, <1>2 DEF TableInv, MissesAreSilent
<1>6. OfflineIsEarned' /\ HeardIsNotMissed'
  BY <1>0, <1>1, <1>2 DEF TableInv, OfflineIsEarned, HeardIsNotMissed
<1>7. MarkInv'
  BY <1>0, <1>1, <1>2, <1>3 DEF MarkInv, MarkCountsAbsence, AlertedMeansAbsent
<1>8. HandInOrder'
  <2>1. \A h \in hand : h.mac \in Macs
    BY <1>0, HandFacts
  <2>2. \A h \in hand : h.mac \in S =>
          /\ dev'[h.mac].status \notin {"online", "offline"}
          /\ ~presence'[h.mac].alerted /\ absences'[h.mac] = 0
    BY <1>1
  <2>3. \A h \in hand : h.mac \notin S =>
          /\ dev'[h.mac] = dev[h.mac] /\ presence'[h.mac] = presence[h.mac]
          /\ absences'[h.mac] = absences[h.mac]
          /\ h.mac \in muddled' <=> h.mac \in muddled
    BY <1>2, <2>1
  <2>. QED  BY <1>0, <2>2, <2>3 DEF OrderInv, HandInOrder
<1>9. MissingInOrder'
  <2>1. \A r \in missing : r.mac \in Macs
    BY <1>0 DEF TypeOK, MissingRow
  <2>2. \A r \in missing : r.mac \in S => dev'[r.mac].status = "none"
    BY <1>1
  <2>3. \A r \in missing : r.mac \notin S => dev'[r.mac] = dev[r.mac]
    BY <1>2, <2>1
  <2>. QED  BY <1>0, <2>2, <2>3 DEF OrderInv, MissingInOrder, Known, GivenUp
<1>10. AbsenteesInOrder' /\ EditInOrder'
  <2>1. absentees \subseteq Macs
    BY <1>0 DEF TypeOK
  <2>2. \A m \in absentees : dev'[m].status # "online"
                             /\ (m \in muddled' \/ ~presence'[m].alerted)
    BY <1>0, <1>1, <1>2, <2>1 DEF OrderInv, AbsenteesInOrder
  <2>. QED  BY <1>0, <2>2 DEF OrderInv, AbsenteesInOrder, EditInOrder
<1>. QED  BY <1>4, <1>5, <1>6, <1>7, <1>8, <1>9, <1>10 DEF TableInv, OrderInv

LEMMA OperatorInv ==
  ASSUME IInv, OperatorActs
  PROVE  TableInv' /\ MarkInv' /\ OrderInv'
<1>1. \A m \in Macs : DeleteDevice(m) => Forget({m}) /\ {m} \in SUBSET Macs
  BY DEF DeleteDevice
<1>2. ResetAll => Forget(Macs) /\ Macs \in SUBSET Macs
  BY DEF ResetAll
<1>. QED  BY <1>1, <1>2, StopWatchingInv, ReadForEditInv, WriteEditInv, ForgetInv
          DEF OperatorActs

\* Time makes absences longer; who is connected no table tells.
LEMMA EnvironmentInv ==
  ASSUME IInv, EnvironmentActs \/ UNCHANGED vars
  PROVE  TableInv' /\ MarkInv' /\ OrderInv'
<1>1. CASE Tick
  <2>1. /\ TypeOK /\ OrderInv /\ TableInv /\ MarkInv
        /\ UNCHANGED <<presence, event, phase, heard, missing, absentees, hand,
                       edit, absences, silent, muddled, torn>>
        /\ phase = "idle" /\ hand = {}
    BY <1>1 DEF IInv, Tick, memory, history
  <2>2. missing = {} /\ absentees = {}
    BY <2>1 DEF OrderInv, MissingInOrder, AbsenteesInOrder
  <2>3. ASSUME NEW m \in Macs
        PROVE  /\ dev'[m].status = dev[m].status
               /\ dev'[m].missed = dev[m].missed
               /\ dev[m].age >= Grace => dev'[m].age >= Grace
    <3>1. dev[m] \in DeviceRow /\ dev'[m] = [dev[m] EXCEPT !.age = Older(@)]
      BY <1>1, <2>1 DEF Tick, TypeOK
    <3>2. /\ dev'[m].status = dev[m].status /\ dev'[m].missed = dev[m].missed
          /\ dev'[m].age = Older(dev[m].age) /\ dev[m].age \in Ages
      BY <3>1 DEF DeviceRow
    <3>. QED  BY <3>2, BoundAssumption, ThresholdAssumption DEF Older, Ages
  <2>4. Untold' = Untold /\ Returning' = Returning
    BY <2>1 DEF Untold, Returning
  <2>5. TableInv'
    BY <2>1, <2>3, <2>4 DEF TypeOK, TableInv, LogTellsStatus, MissesAreSilent,
                            OfflineIsEarned, HeardIsNotMissed
  <2>6. MarkInv'
    BY <2>1, <2>3, <2>4 DEF MarkInv, MarkCountsAbsence, AlertedMeansAbsent
  <2>7. OrderInv'
    BY <2>1, <2>2 DEF OrderInv, HandInOrder, MissingInOrder, AbsenteesInOrder,
                      EditInOrder
  <2>. QED  BY <2>5, <2>6, <2>7
<1>2. ASSUME UNCHANGED vars \/ \E m \in Macs : Join(m) \/ Leave(m) \/ GiveAway(m)
      PROVE  TableInv' /\ MarkInv' /\ OrderInv'
  <2>1. /\ OrderInv
        /\ UNCHANGED <<dev, presence, event, phase, heard, missing, absentees,
                       hand, edit, absences, silent, muddled, torn>>
    BY <1>2 DEF IInv, vars, tables, memory, history, Join, Leave, GiveAway
  <2>2. Untold' = Untold /\ Returning' = Returning
    BY <2>1 DEF Untold, Returning
  <2>3. TableInv' /\ MarkInv'
    BY <2>1, <2>2, QuietInv
  <2>4. OrderInv'
    BY <2>1 DEF OrderInv, HandInOrder, MissingInOrder, AbsenteesInOrder,
                EditInOrder, Known, GivenUp
  <2>. QED  BY <2>3, <2>4
<1>. QED  BY <1>1, <1>2 DEF EnvironmentActs

LEMMA InitInv == Init => IInv
<1>. SUFFICES ASSUME Init PROVE IInv
  OBVIOUS
<1>1. TypeOK
  BY InitType
<1>2. ASSUME NEW m \in Macs
      PROVE  /\ dev[m].status \in {"none", "online"} /\ dev[m].missed = 0
             /\ ~presence[m].alerted /\ silent[m] = 0 /\ absences[m] = 0
             /\ event[m] = "none" <=> dev[m].status = "none"
             /\ event[m] # "disconnected"
  BY DEF Init, NoRow, LegacyRow, DefaultPresence
<1>3. LogTellsStatus /\ HeardIsNotMissed
  BY <1>2 DEF Init, LogTellsStatus, HeardIsNotMissed
<1>4. MissesAreSilent /\ OfflineIsEarned
  BY <1>2 DEF MissesAreSilent, OfflineIsEarned
<1>5. MarkInv
  BY <1>2 DEF MarkInv, MarkCountsAbsence, AlertedMeansAbsent
<1>6. OrderInv
  BY DEF Init, OrderInv, HandInOrder, MissingInOrder, AbsenteesInOrder, EditInOrder
<1>. QED  BY <1>1, <1>3, <1>4, <1>5, <1>6 DEF IInv, TableInv

LEMMA StepInv == IInv /\ [Next]_vars => IInv'
<1>. SUFFICES ASSUME IInv, [Next]_vars PROVE IInv'
  OBVIOUS
<1>1. TypeOK'
  BY TypeStep DEF IInv
<1>2. TableInv' /\ MarkInv' /\ OrderInv'
  BY SweepStepInv, OperatorInv, EnvironmentInv DEF Next
<1>. QED  BY <1>1, <1>2 DEF IInv

\* The inductive invariant holds of every behaviour: with any number of
\* crashes, and with edits and deletions between any two statements of a sweep.
THEOREM Inductive == Spec => []IInv
BY InitInv, StepInv, PTL DEF Spec

\* Over crashes and deletions between a row and its event, the events table
\* explains the devices table, but for the devices whose two were torn apart.
THEOREM LogCorrect == Spec => []LogTellsStatus
BY Inductive, PTL DEF IInv, TableInv

\* A device shown offline was missed by MissedAfter covering sweeps, with no
\* sighting in between, and was last seen at least Grace ago.
THEOREM OfflineCorrect == Spec => []OfflineIsEarned
BY Inductive, PTL DEF IInv, TableInv

\* A device that answered the sweep in progress is not charged a miss by it.
THEOREM HeardCorrect == Spec => []HeardIsNotMissed
BY Inductive, PTL DEF IInv, TableInv

\* One absence raises one finding, over restarts and edits, unless a presence
\* row was written back over a newer one.
THEOREM NoDoubleFireCorrect == Spec => []NoDoubleFire
<1>1. IInv => NoDoubleFire
  BY DEF IInv, MarkInv, MarkCountsAbsence, NoDoubleFire
<1>. QED  BY <1>1, Inductive, PTL

\* A mark stands for an absence of a watched device, unless its return is
\* being handled or a write over a newer row, or a crash, muddled it.
THEOREM AlertedCorrect == Spec => []AlertedMeansAbsent
BY Inductive, PTL DEF IInv, MarkInv

-----------------------------------------------------------------------------
(* Refinement: the sweep keeps the contract of presence tracking *)

LEMMA ShownBy ==
  ASSUME NEW m \in Macs
  PROVE  /\ Shown[m] = ShownAs(m) /\ Shown'[m] = ShownAs(m)'
         /\ Outbox[m] = Notices(m) /\ Outbox'[m] = Notices(m)'
BY DEF Shown, Outbox

\* A device that is shown and announced as before.
LEMMA RestBy ==
  ASSUME NEW m \in Macs, dev'[m].status = dev[m].status,
         dev[m].status = "offline" =>
           presence'[m].alerted = presence[m].alerted,
         Absent(m) \in findings' <=> Absent(m) \in findings,
         (Recovered(m) \in findings' \/ ToBeTold(m)') <=>
           (Recovered(m) \in findings \/ ToBeTold(m))
  PROVE  Contract!Step(m)
<1>1. ShownAs(m)' = ShownAs(m)
  BY DEF ShownAs
<1>2. Notices(m)' = Notices(m)
  BY DEF Notices, Absent, Recovered
<1>. QED  BY <1>1, <1>2, ShownBy DEF Contract!Step, Contract!Rest

\* Everything is handed over, or lost with the process.
LEMMA HandOverBy ==
  ASSUME NEW m \in Macs, UNCHANGED <<dev, presence>>, findings' = {}, hand' = {}
  PROVE  Contract!Step(m)
<1>1. ShownAs(m)' = ShownAs(m)
  BY DEF ShownAs
<1>2. Notices(m)' = {}
  BY DEF Notices, ToBeTold
<1>. QED  BY <1>1, <1>2, ShownBy DEF Contract!Step, Contract!HandOver

\* A sighting makes its device present; its recovery is going to be told if
\* its absence was.
LEMMA ObserveIsSeen ==
  ASSUME TypeOK, NEW m \in Macs, NEW x \in Macs, NEW f \in Families,
         NEW lag \in 0..MaxLag, NEW i \in Ifaces \cup {Unknown},
         NEW n \in Subnets \cup {Unknown}, Observe(x, f, lag, i, n)
  PROVE  Contract!Step(m)
<1>. DEFINE h == [mac |-> x, step |-> "assert", kind |-> Transition(dev[x]),
                  row |-> DefaultPresence]
<1>1. /\ hand = {} /\ hand' = {h}
      /\ dev' = [dev EXCEPT ![x] = Observed(@, f, lag, i, n)]
      /\ UNCHANGED <<presence, findings>>
  BY DEF Observe
<1>2. /\ h.mac = x /\ h.step = "assert"
      /\ h.kind = "reappeared" <=> dev[x].status = "offline"
  BY DEF Transition
<1>. HIDE DEF h
<1>3. ~ToBeTold(m)
  BY <1>1 DEF ToBeTold
<1>4. CASE m # x
  <2>1. dev'[m] = dev[m] /\ ~ToBeTold(m)'
    BY <1>1, <1>2, <1>4 DEF TypeOK, ToBeTold
  <2>. QED  BY <1>1, <1>3, <2>1, RestBy
<1>5. CASE m = x
  <2>1. dev'[m].status = "online"
    BY <1>1, <1>5 DEF TypeOK, Observed
  <2>2. ShownAs(m)' = "present"
    BY <2>1 DEF ShownAs
  <2>3. ShownAs(m) = "announced" <=>
          dev[m].status = "offline" /\ presence[m].alerted
    BY DEF ShownAs
  <2>4. ToBeTold(m)' <=> ShownAs(m) = "announced"
    BY <1>1, <1>2, <1>5, <2>3 DEF ToBeTold
  <2>5. Notices(m)' = Notices(m) \cup (IF ShownAs(m) = "announced"
                                       THEN {"recovered"} ELSE {})
    <3>1. CASE ToBeTold(m)'
      BY <1>1, <1>3, <2>4, <3>1 DEF Notices
    <3>2. CASE ~ToBeTold(m)'
      BY <1>1, <1>3, <2>4, <3>2 DEF Notices
    <3>. QED  BY <3>1, <3>2
  <2>. QED  BY <2>2, <2>5, ShownBy DEF Contract!Step, Contract!Seen
<1>. QED  BY <1>4, <1>5

\* What is done to the device in hand is a rest of the contract, but for the
\* announcement.
LEMMA HandStepKeeps ==
  ASSUME IInv, HandStep, NEW m \in Macs, m \notin muddled, m \notin muddled'
  PROVE  Contract!Step(m)
<1>1. PICK h \in hand :
        \/ DeviceIsThere(h) \/ DeviceIsGone(h) \/ RecordEvent(h)
        \/ ReadPresence(h) \/ ClearMark(h) \/ WriteMark(h)
  BY DEF HandStep
<1>2. /\ TypeOK /\ h.mac \in Macs /\ h.row \in PresenceRow
      /\ h \in HandRow /\ hand = {h}
      /\ h.step # "mark" => dev[h.mac].status # "offline"
      /\ h.step = "mark" => /\ dev[h.mac].status # "online"
                            /\ h.mac \in muddled \/ ~presence[h.mac].alerted
      /\ h.step \in {"presence", "clear"} => h.kind = "reappeared"
      /\ dev[h.mac].status \in {"none", "online", "offline"}
  BY HandFacts DEF IInv, TypeOK, OrderInv, HandInOrder
<1>3. CASE DeviceIsThere(h)
  <2>. DEFINE g == [h EXCEPT !.step = "event"]
  <2>1. /\ g.mac = h.mac /\ g.step = "event" /\ g.kind = h.kind
        /\ h.step = "assert"
    BY <1>2, <1>3 DEF HandRow, DeviceIsThere
  <2>2. /\ UNCHANGED <<dev, presence, findings>>
        /\ h.kind = "none" => hand' = {}
        /\ h.kind # "none" => hand' = {g}
    BY <1>3 DEF DeviceIsThere, tables
  <2>. HIDE DEF g
  <2>3. ToBeTold(m)' <=> ToBeTold(m)
    BY <1>2, <2>1, <2>2 DEF ToBeTold
  <2>. QED  BY <2>2, <2>3, RestBy
<1>4. CASE DeviceIsGone(h)
  BY <1>4, HandOverBy DEF DeviceIsGone, ProcessEnds, tables
<1>5. CASE RecordEvent(h)
  <2>. DEFINE g == [h EXCEPT !.step = "presence"]
  <2>1. /\ g.mac = h.mac /\ g.step = "presence" /\ g.kind = h.kind
        /\ h.step = "event"
    BY <1>2, <1>5 DEF HandRow, RecordEvent
  <2>2. /\ UNCHANGED <<dev, presence, findings>>
        /\ h.kind # "reappeared" => hand' = {}
        /\ h.kind = "reappeared" => hand' = {g}
    BY <1>5 DEF RecordEvent
  <2>. HIDE DEF g
  <2>3. ToBeTold(m)' <=> ToBeTold(m)
    BY <1>2, <2>1, <2>2 DEF ToBeTold
  <2>. QED  BY <2>2, <2>3, RestBy
<1>6. CASE ReadPresence(h)
  <2>. DEFINE g == [h EXCEPT !.step = "clear", !.row = presence[h.mac]]
  <2>1. g.mac = h.mac /\ g.step = "clear" /\ h.step = "presence"
        /\ h.kind = "reappeared"
    BY <1>2, <1>6 DEF HandRow, ReadPresence
  <2>2. /\ UNCHANGED <<dev, presence>>
        /\ presence[h.mac].alerted =>
             hand' = {g} /\ findings' = findings \cup {Recovered(h.mac)}
        /\ ~presence[h.mac].alerted => hand' = {} /\ findings' = findings
    BY <1>6 DEF ReadPresence, tables
  <2>. HIDE DEF g
  <2>3. ~ToBeTold(m)'
    BY <2>1, <2>2 DEF ToBeTold
  <2>4. ToBeTold(m) <=> m = h.mac /\ presence[h.mac].alerted
    BY <1>2, <2>1 DEF ToBeTold
  <2>5. /\ Absent(m) # Recovered(h.mac)
        /\ Recovered(m) = Recovered(h.mac) <=> m = h.mac
    BY DEF Absent, Recovered
  <2>. QED  BY <2>2, <2>3, <2>4, <2>5, RestBy
<1>7. CASE ClearMark(h)
  <2>1. /\ UNCHANGED <<dev, findings>>
        /\ presence' = [presence EXCEPT ![h.mac] = [h.row EXCEPT !.alerted = FALSE]]
        /\ hand' = {} /\ h.step = "clear"
    BY <1>7 DEF ClearMark
  <2>2. ~ToBeTold(m) /\ ~ToBeTold(m)'
    BY <1>2, <2>1 DEF ToBeTold
  <2>3. dev[m].status = "offline" => presence'[m].alerted = presence[m].alerted
    BY <1>2, <2>1 DEF TypeOK
  <2>. QED  BY <2>1, <2>2, <2>3, RestBy
<1>8. CASE WriteMark(h)
  <2>1. /\ UNCHANGED dev
        /\ findings' = findings \cup {Absent(h.mac)}
        /\ presence' = [presence EXCEPT ![h.mac] = [h.row EXCEPT !.alerted = TRUE]]
        /\ hand' = {} /\ h.step = "mark"
        /\ h.mac \notin muddled' => dev[h.mac].status # "none"
    BY <1>8 DEF WriteMark, Known
  <2>2. ~ToBeTold(m) /\ ~ToBeTold(m)'
    BY <1>2, <2>1 DEF ToBeTold
  <2>3. CASE m # h.mac
    <3>1. presence'[m] = presence[m]
      BY <1>2, <2>1, <2>3 DEF TypeOK
    <3>2. Absent(m) # Absent(h.mac) /\ Recovered(m) # Absent(h.mac)
      BY <2>3 DEF Absent, Recovered
    <3>. QED  BY <2>1, <2>2, <3>1, <3>2, RestBy
  <2>4. CASE m = h.mac
    <3>1. dev[m].status = "offline" /\ ~presence[m].alerted
      BY <1>2, <2>1, <2>4
    <3>2. presence'[m].alerted
      BY <1>2, <2>1, <2>4 DEF TypeOK, PresenceRow
    <3>3. ShownAs(m) = "absent" /\ ShownAs(m)' = "announced"
      BY <2>1, <3>1, <3>2 DEF ShownAs
    <3>4. Notices(m)' = Notices(m) \cup {"absent"}
      BY <2>1, <2>2, <2>4 DEF Notices, Absent
    <3>. QED  BY <3>3, <3>4, ShownBy DEF Contract!Step, Contract!Announce
  <2>. QED  BY <2>3, <2>4
<1>. QED  BY <1>1, <1>3, <1>4, <1>5, <1>6, <1>7, <1>8

\* Only a present device is confirmed absent.
LEMMA CommitMissesKeeps ==
  ASSUME IInv, NEW S \in SUBSET missing, CommitMisses(S),
         NEW m \in Macs, m \notin muddled
  PROVE  Contract!Step(m)
<1>. DEFINE gone == {r.mac : r \in {q \in S : q.gone}}
            hit  == {r.mac : r \in {q \in S : Known(q.mac)}}
<1>1. /\ phase = "miss" /\ S \subseteq missing
      /\ dev' = [x \in Macs |-> IF x \in hit THEN AfterMiss(dev[x], x \in gone)
                                ELSE dev[x]]
      /\ UNCHANGED <<presence, hand, findings>>
  BY DEF CommitMisses
<1>2. m \in hit => dev[m].status \notin {"none", "offline"}
  BY <1>1 DEF IInv, OrderInv, MissingInOrder, Known
<1>3. hand = {} /\ hand' = {}
  BY <1>1 DEF IInv, OrderInv, HandInOrder
<1>4. ~ToBeTold(m) /\ ~ToBeTold(m)'
  BY <1>3 DEF ToBeTold
<1>. HIDE DEF gone, hit
<1>5. dev[m] \in DeviceRow
  BY DEF IInv, TypeOK
<1>6. CASE m \in hit /\ m \in gone
  <2>1. dev'[m] = [dev[m] EXCEPT !.status = "offline", !.missed = 0]
    BY <1>1, <1>6 DEF AfterMiss
  <2>2. dev'[m].status = "offline"
    BY <1>5, <2>1 DEF DeviceRow
  <2>3. dev[m].status = "online"
    BY <1>2, <1>5, <1>6 DEF DeviceRow
  <2>4. ~presence[m].alerted
    BY <1>3, <2>3 DEF IInv, MarkInv, AlertedMeansAbsent, Returning
  <2>5. ShownAs(m) = "present" /\ ShownAs(m)' = "absent"
    BY <1>1, <2>2, <2>3, <2>4 DEF ShownAs
  <2>6. Notices(m)' = Notices(m)
    BY <1>1, <1>4 DEF Notices
  <2>. QED  BY <2>5, <2>6, ShownBy DEF Contract!Step, Contract!Lost
<1>7. CASE m \in hit /\ m \notin gone
  <2>1. dev'[m] = [dev[m] EXCEPT !.missed = OneMore(@)]
    BY <1>1, <1>7 DEF AfterMiss
  <2>2. dev'[m].status = dev[m].status
    BY <1>5, <2>1 DEF DeviceRow
  <2>. QED  BY <1>1, <1>4, <2>2, RestBy
<1>8. CASE m \notin hit
  <2>1. dev'[m] = dev[m]
    BY <1>1, <1>8
  <2>. QED  BY <1>1, <1>4, <2>1, RestBy
<1>. QED  BY <1>6, <1>7, <1>8

LEMMA SweepStepKeeps ==
  ASSUME IInv, SweepStep \/ SweepBegins \/ PassiveSees \/ Crash,
         NEW m \in Macs, m \notin muddled, m \notin muddled'
  PROVE  Contract!Step(m)
<1>0. TypeOK
  BY DEF IInv
<1>1. ASSUME \/ PassiveSees
             \/ \E x \in Macs, f \in Families : HandleReply(x, f)
             \/ \E c \in due, f \in Families : ProbeAnswered(c, f)
      PROVE  Contract!Step(m)
  BY <1>0, <1>1, SightingCases, ObserveIsSeen
<1>2. ASSUME \/ SweepBegins \/ EndScan \/ SelectMissing \/ SelectAbsentees
             \/ \E c \in due : ProbeSilent(c)
      PROVE  Contract!Step(m)
  <2>1. UNCHANGED <<dev, presence, hand, findings>>
    BY <1>2 DEF SweepBegins, StartSweep, EndScan, SelectMissing, SelectAbsentees,
                ProbeSilent, tables
  <2>2. ToBeTold(m)' <=> ToBeTold(m)
    BY <2>1 DEF ToBeTold
  <2>. QED  BY <2>1, <2>2, RestBy
<1>3. ASSUME NEW x \in absentees, ReadMark(x) PROVE Contract!Step(m)
  <2>1. UNCHANGED <<dev, presence, findings>> /\ hand = {}
        /\ \A h \in hand' : h.step = "mark"
    BY <1>3 DEF ReadMark, tables
  <2>2. ~ToBeTold(m)' /\ ~ToBeTold(m)
    BY <2>1 DEF ToBeTold
  <2>. QED  BY <2>1, <2>2, RestBy
<1>4. CASE EmitFindings
  BY <1>4, HandOverBy DEF EmitFindings, tables
<1>5. CASE Crash
  BY <1>5, HandOverBy DEF Crash, ProcessEnds, tables
<1>. QED  BY <1>1, <1>2, <1>3, <1>4, <1>5, HandStepKeeps, CommitMissesKeeps
          DEF SweepStep

LEMMA OperatorKeeps ==
  ASSUME IInv, OperatorActs, NEW m \in Macs, m \notin muddled, m \notin muddled'
  PROVE  Contract!Step(m)
<1>0. TypeOK
  BY DEF IInv
<1>1. ASSUME NEW x \in Macs, StopWatching(x) PROVE Contract!Step(m)
  <2>1. /\ UNCHANGED <<dev, hand, findings>>
        /\ presence' = [presence EXCEPT ![x] = DefaultPresence]
    BY <1>1 DEF StopWatching, memory
  <2>2. CASE m # x
    <3>1. presence'[m] = presence[m]
      BY <1>0, <2>1, <2>2 DEF TypeOK
    <3>2. ToBeTold(m)' <=> ToBeTold(m)
      BY <2>1, <3>1 DEF ToBeTold
    <3>. QED  BY <2>1, <3>1, <3>2, RestBy
  <2>3. CASE m = x
    <3>1. ~presence'[m].alerted
      BY <1>0, <2>1, <2>3 DEF TypeOK, DefaultPresence
    <3>2. ~ToBeTold(m)'
      BY <3>1 DEF ToBeTold
    <3>3. ShownAs(m)' = IF ShownAs(m) = "announced" THEN "absent" ELSE ShownAs(m)
      BY <2>1, <3>1 DEF ShownAs
    <3>4. Notices(m)' \in {Notices(m), Notices(m) \ {"recovered"}}
      <4>1. CASE Recovered(m) \in findings \/ ~ToBeTold(m)
        BY <2>1, <3>2, <4>1 DEF Notices, Recovered
      <4>2. CASE Recovered(m) \notin findings
        BY <2>1, <3>2, <4>2 DEF Notices, Recovered
      <4>. QED  BY <4>1, <4>2
    <3>. QED  BY <3>3, <3>4, ShownBy DEF Contract!Step, Contract!Unwatch
  <2>. QED  BY <2>2, <2>3
<1>2. ASSUME NEW x \in Macs,
             Watch(x) \/ \E o \in Overrides \cup {NoOverride} :
                           SetOfflineAfter(x, o)
      PROVE  Contract!Step(m)
  <2>1. UNCHANGED <<dev, presence, hand, findings>>
    BY <1>2 DEF Watch, SetOfflineAfter, ReadForEdit, tables, memory
  <2>2. ToBeTold(m)' <=> ToBeTold(m)
    BY <2>1 DEF ToBeTold
  <2>. QED  BY <2>1, <2>2, RestBy
<1>3. ASSUME NEW e \in edit, WriteEdit(e) PROVE Contract!Step(m)
  <2>1. /\ UNCHANGED <<dev, hand, findings>>
        /\ presence' = [presence EXCEPT ![e.mac] = e.write]
        /\ m = e.mac => presence[m] = e.read
        /\ e.write.alerted = e.read.alerted
    BY <1>3 DEF WriteEdit, memory, Outdated, IInv, OrderInv, EditInOrder
  <2>2. presence'[m].alerted = presence[m].alerted
    BY <1>0, <2>1 DEF TypeOK
  <2>3. ToBeTold(m)' <=> ToBeTold(m)
    BY <2>1, <2>2 DEF ToBeTold
  <2>. QED  BY <2>1, <2>2, <2>3, RestBy
<1>4. ASSUME NEW S \in SUBSET Macs, Forget(S) PROVE Contract!Step(m)
  <2>1. UNCHANGED <<hand, findings>>
    BY <1>4 DEF Forget, memory
  <2>2. CASE m \notin S
    <3>1. dev'[m] = dev[m] /\ presence'[m] = presence[m]
      BY <1>4, <2>2 DEF Forget
    <3>2. ToBeTold(m)' <=> ToBeTold(m)
      BY <2>1, <3>1 DEF ToBeTold
    <3>. QED  BY <2>1, <3>1, <3>2, RestBy
  <2>3. CASE m \in S
    <3>1. dev'[m].status = "none" /\ ~presence'[m].alerted
      BY <1>4, <2>3 DEF Forget, NoRow, DefaultPresence
    <3>2. ~ToBeTold(m)' /\ ShownAs(m)' = "unknown"
      BY <3>1 DEF ToBeTold, ShownAs
    <3>3. Notices(m)' \in {Notices(m), Notices(m) \ {"recovered"}}
      <4>1. CASE Recovered(m) \in findings \/ ~ToBeTold(m)
        BY <2>1, <3>2, <4>1 DEF Notices, Recovered
      <4>2. CASE Recovered(m) \notin findings
        BY <2>1, <3>2, <4>2 DEF Notices, Recovered
      <4>. QED  BY <4>1, <4>2
    <3>. QED  BY <3>2, <3>3, ShownBy DEF Contract!Step, Contract!Forget
  <2>. QED  BY <2>2, <2>3
<1>5. \A x \in Macs : DeleteDevice(x) => Forget({x}) /\ {x} \in SUBSET Macs
  BY DEF DeleteDevice
<1>6. ResetAll => Forget(Macs) /\ Macs \in SUBSET Macs
  BY DEF ResetAll
<1>. QED  BY <1>1, <1>2, <1>3, <1>4, <1>5, <1>6 DEF OperatorActs

LEMMA EnvironmentKeeps ==
  ASSUME IInv, EnvironmentActs \/ UNCHANGED vars, NEW m \in Macs
  PROVE  Contract!Step(m)
<1>1. UNCHANGED <<presence, hand, findings>>
  BY DEF EnvironmentActs, Tick, Join, Leave, GiveAway, vars, tables, memory
<1>2. dev'[m].status = dev[m].status
  <2>1. dev[m] \in DeviceRow
    BY DEF IInv, TypeOK
  <2>2. CASE Tick
    <3>1. dev'[m] = [dev[m] EXCEPT !.age = Older(@)]
      BY <2>2 DEF Tick
    <3>. QED  BY <2>1, <3>1 DEF DeviceRow
  <2>3. ASSUME \/ \E x \in Macs : Join(x) \/ Leave(x) \/ GiveAway(x)
               \/ UNCHANGED vars
        PROVE  dev' = dev
    BY <2>3 DEF Join, Leave, GiveAway, vars, tables
  <2>. QED  BY <2>2, <2>3 DEF EnvironmentActs
<1>3. ToBeTold(m)' <=> ToBeTold(m)
  BY <1>1 DEF ToBeTold
<1>. QED  BY <1>1, <1>2, <1>3, RestBy

LEMMA ContractInit == Init => Contract!Init
<1>. SUFFICES ASSUME Init PROVE Contract!Init
  OBVIOUS
<1>1. ASSUME NEW m \in Macs
      PROVE  ShownAs(m) \in {"unknown", "present"} /\ Notices(m) = {}
  BY DEF Init, NoRow, LegacyRow, ShownAs, Notices, ToBeTold
<1>. QED  BY <1>1 DEF Init, Shown, Outbox, Contract!Init

LEMMA ContractStep == IInv /\ [Next]_vars => Contract!Next
<1>. SUFFICES ASSUME IInv, [Next]_vars, NEW m \in Macs, m \notin muddled,
                     m \notin muddled'
              PROVE  Contract!Step(m)
  BY DEF Contract!Next
<1>. QED  BY SweepStepKeeps, OperatorKeeps, EnvironmentKeeps DEF Next

\* Over crashes, edits and deletions at any moment, the tables and findings
\* keep the contract for every device whose presence row nothing muddled.
THEOREM ContractKept == Spec => KeepsContract
<1>1. IInv /\ [Next]_vars => [Contract!Next]_(Contract!vars)
  BY ContractStep
<1>. QED  BY <1>1, ContractInit, Inductive, PTL
          DEF Spec, KeepsContract, Contract!Spec
=============================================================================
