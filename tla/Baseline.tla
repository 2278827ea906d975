------------------------------ MODULE Baseline ------------------------------
(***************************************************************************)
(* What is normal for one device (baseline.py): its open ports and the     *)
(* services it advertises. A detection pass reads what is observed and     *)
(* the stored baseline, compares item by item and writes what changed, one *)
(* transaction per item and per change event, and the baseline itself at   *)
(* the end. Meanwhile the operator accepts items or resets the baseline in *)
(* another process (cli.py, web.py). An accept, too, reads rows and writes *)
(* whole copies back, one transaction each: what either writes may be      *)
(* older than what it overwrites.                                          *)
(*                                                                         *)
(* Left out: addresses, hostname, identity, trust and exclusions, which    *)
(* the baseline row also holds (Finish may write the row for their sake),  *)
(* IPv6 prefixes (items that are never removed), the cap of 200 items,     *)
(* accepts that overlap, and passes that do (see ChangeCursors). The       *)
(* change event about a removal is one step with it: no property is about  *)
(* such an event.                                                          *)
(***************************************************************************)
EXTENDS Integers, FiniteSets

CONSTANTS
  Ports,           \* what an inspection may find open
  Services,        \* what the device may advertise over mDNS or SSDP
  Admin,           \* items that give remote administration
  Absent,          \* no row
  LearningDays,    \* ticks of learning
  LeastSpan,       \* ticks a device is seen for before learning may end
  RemovalAge,      \* ticks until a missing service counts as removed
  RefreshAge,      \* ticks after which a last_seen is written again
  AgeCap,          \* bound: ages are not told apart beyond it
  MaxInspections,  \* bound: inspections of the device
  MaxCrashes       \* bound: passes that end early

Items == Ports \cup Services
Ages == 0..AgeCap
ItemRow == [in : BOOLEAN, present : BOOLEAN, age : Ages]
BaseRow == [age : Ages, settled : BOOLEAN, inspected : 0..MaxInspections]
Inspection == [n : 0..MaxInspections, open : SUBSET Ports]

ASSUME ItemAssumption ==
  /\ Admin \subseteq Items /\ Ports \cap Services = {}
  /\ Absent \notin Items /\ Absent \notin ItemRow /\ Absent \notin BaseRow
ASSUME AgeAssumption ==
  /\ {LearningDays, LeastSpan, RemovalAge, RefreshAge} \subseteq 0..AgeCap
  /\ LeastSpan <= LearningDays
  /\ AgeCap \in Nat /\ MaxInspections \in Nat /\ MaxCrashes \in Nat

VARIABLES
  offered,     \* services that current evidence shows
  inspection,  \* the newest inspection: which one it is, what it found open
  online,      \* the device's status
  span,        \* time from the start of the baseline to the last sighting
  base,        \* device_baselines: the device's row
  items,       \* baseline_items: the device's rows
  events,      \* change_events: items that a change names
  pass,        \* what the detector is doing, and its copies
  hand,        \* the rows an accept has read and not written back yet
  told,        \* history: items whose last arrival became a change event
  approved,    \* history: items for administration that a baseline began with
               \* or that were accepted
  accepted,    \* history: items accepted since the last reset
  missing,     \* history: ticks since a pass last saw the service
  disturbed,   \* history: the operator wrote in the middle of a pass
  overwritten, \* history: services whose row an accept replaced by an older
               \* copy and no pass has found present since
  crashes      \* history: how many passes ended early

world == <<offered, inspection, online>>
history == <<told, approved, accepted, missing, disturbed, overwritten>>
vars == <<world, span, base, items, events, pass, hand, history, crashes>>

Min2(a, b) == IF a <= b THEN a ELSE b
Older(age) == Min2(age + 1, AgeCap)

\* A port's last_seen is compared with the refresh alone.
OldestOf(v) == IF v \in Ports THEN RefreshAge ELSE AgeCap

NoRows == [v \in Items |-> Absent]

-----------------------------------------------------------------------------
(* A pass                                                                  *)

Idle ==
  [pc |-> "idle", seen |-> {}, inspected |-> 0, base |-> Absent,
   items |-> NoRows, todo |-> {}, tell |-> Absent,
   learning |-> FALSE, changed |-> FALSE]

\* Services, inspections and baselines are read for all devices first.
Begin ==
  /\ pass.pc = "idle"
  /\ pass' = [pass EXCEPT !.pc = "items",
                          !.seen = offered \cup inspection.open,
                          !.inspected = inspection.n,
                          !.base = base]
  /\ UNCHANGED <<world, span, base, items, events, hand, history, crashes>>

PortsFresh(p) == p.inspected > p.base.inspected

\* The signals that this pass may judge, as items.
Judged(p) ==
  (IF PortsFresh(p) THEN Ports ELSE {})
  \cup (IF online THEN Services ELSE {})

\* Then the items, and the device itself.
ReadItems ==
  /\ pass.pc = "items"
  /\ pass' = [pass EXCEPT !.items = items,
                          !.pc = IF pass.base = Absent THEN "seed" ELSE "learn"]
  /\ UNCHANGED <<world, span, base, items, events, hand, history, crashes>>

NewBaseline ==
  [age |-> 0, settled |-> FALSE, inspected |-> pass.inspected]

\* A device without a baseline gets one with whatever is observed now.
SeedBase ==
  /\ pass.pc = "seed"
  /\ base' = NewBaseline
  /\ span' = 0
  /\ pass' = [pass EXCEPT !.pc = "seeding", !.todo = pass.seen]
  /\ UNCHANGED <<world, items, events, hand, history, crashes>>

SeedItem(v) ==
  /\ pass.pc = "seeding"
  /\ v \in pass.todo
  /\ items' = [items EXCEPT ![v] = [in |-> TRUE, present |-> TRUE, age |-> 0]]
  /\ pass' = [pass EXCEPT !.todo = pass.todo \ {v}]
  /\ approved' = approved \cup ({v} \cap Admin)
  /\ missing' = [s \in Services |-> IF s = v THEN 0 ELSE missing[s]]
  /\ overwritten' = overwritten \ {v}
  /\ UNCHANGED <<world, span, base, events, hand, told, accepted, disturbed,
                 crashes>>

EndSeeding ==
  /\ pass.pc = "seeding"
  /\ pass.todo = {}
  /\ pass' = Idle
  /\ UNCHANGED <<world, span, base, items, events, hand, history, crashes>>

\* Learning ends with time, for a device that was seen for long enough. What
\* this very pass finds is still learned.
Learn ==
  /\ pass.pc = "learn"
  /\ LET learning == ~pass.base.settled
         over == pass.base.age >= LearningDays /\ span >= LeastSpan
     IN pass' = [pass EXCEPT !.learning = learning,
                             !.base.settled = pass.base.settled \/ over,
                             !.base.inspected = IF PortsFresh(pass) THEN pass.inspected
                                                ELSE pass.base.inspected,
                             !.changed = (learning /\ over) \/ PortsFresh(pass),
                             !.todo = Judged(pass),
                             !.pc = "judge"]
  /\ UNCHANGED <<world, span, base, items, events, hand, history, crashes>>

\* save_baseline_item writes all of the row from the copy.
Save(v, row) == items' = [items EXCEPT ![v] = row]

\* Faulty: remote administration is learned like any other service.
JudgeNewAlike(v) ==
  LET absorb == pass.learning
  IN /\ v \in pass.seen
     /\ pass.items[v] = Absent
     /\ Save(v, [in |-> absorb, present |-> TRUE, age |-> 0])
     /\ pass' = [pass EXCEPT !.todo = pass.todo \ {v},
                             !.tell = IF absorb THEN Absent ELSE v]

\* An item that is not in the copies was never seen: learned or pending.
JudgeNew(v) ==
  LET absorb == pass.learning /\ v \notin Admin
  IN /\ v \in pass.seen
     /\ pass.items[v] = Absent
     /\ Save(v, [in |-> absorb, present |-> TRUE, age |-> 0])
     /\ pass' = [pass EXCEPT !.todo = pass.todo \ {v},
                             !.tell = IF absorb THEN Absent ELSE v]

\* Faulty: an item that is back is known and no news.
JudgeReturnedSilently(v) ==
  LET row == pass.items[v]
  IN /\ v \in pass.seen
     /\ row # Absent /\ ~row.present
     /\ Save(v, [row EXCEPT !.present = TRUE, !.age = 0])
     /\ pass' = [pass EXCEPT !.todo = pass.todo \ {v}]

\* An item that was gone is back: news unless it is in the baseline.
JudgeReturned(v) ==
  LET row == pass.items[v]
  IN /\ v \in pass.seen
     /\ row # Absent /\ ~row.present
     /\ Save(v, [row EXCEPT !.present = TRUE, !.age = 0])
     /\ pass' = [pass EXCEPT !.todo = pass.todo \ {v},
                             !.tell = IF row.in THEN Absent ELSE v]

\* Faulty: last_seen stays at the arrival of the item.
JudgeSameStale(v) ==
  LET row == pass.items[v]
  IN /\ v \in pass.seen
     /\ row # Absent /\ row.present
     /\ pass' = [pass EXCEPT !.todo = pass.todo \ {v}]
     /\ UNCHANGED items

\* An item that is still there: its last_seen is written once in a while.
JudgeSame(v) ==
  LET row == pass.items[v]
  IN /\ v \in pass.seen
     /\ row # Absent /\ row.present
     /\ IF row.age >= RefreshAge THEN Save(v, [row EXCEPT !.age = 0])
        ELSE UNCHANGED items
     /\ pass' = [pass EXCEPT !.todo = pass.todo \ {v}]

\* A missing port was removed, a missing service after a while.
IsRemoved(v) ==
  LET row == pass.items[v]
  IN /\ v \notin pass.seen
     /\ row # Absent /\ row.present
     /\ v \in Ports \/ (v \in Services /\ row.age >= RemovalAge)

\* Faulty: a removed item leaves the baseline.
JudgeMissingForgets(v) ==
  /\ v \notin pass.seen
  /\ IF IsRemoved(v) THEN Save(v, [pass.items[v] EXCEPT !.present = FALSE, !.in = FALSE])
     ELSE UNCHANGED items
  /\ pass' = [pass EXCEPT !.todo = pass.todo \ {v}]

\* Faulty: last_seen is written for what is missing, too.
JudgeMissingTouches(v) ==
  /\ v \notin pass.seen
  /\ IF IsRemoved(v) THEN Save(v, [pass.items[v] EXCEPT !.present = FALSE])
     ELSE IF pass.items[v] # Absent THEN Save(v, [pass.items[v] EXCEPT !.age = 0])
     ELSE UNCHANGED items
  /\ pass' = [pass EXCEPT !.todo = pass.todo \ {v}]

JudgeMissing(v) ==
  /\ v \notin pass.seen
  /\ IF IsRemoved(v) THEN Save(v, [pass.items[v] EXCEPT !.present = FALSE])
     ELSE UNCHANGED items
  /\ pass' = [pass EXCEPT !.todo = pass.todo \ {v}]

\* What a pass writes for an item that it finds.
FoundPresent(row) == row # Absent /\ row.present /\ row.age = 0

Judge(v) ==
  /\ pass.pc = "judge" /\ pass.tell = Absent
  /\ v \in pass.todo
  /\ JudgeNew(v) \/ JudgeReturned(v) \/ JudgeSame(v) \/ JudgeMissing(v)
  /\ missing' = [s \in Services |-> IF s = v /\ v \in pass.seen THEN 0
                                    ELSE missing[s]]
  /\ told' = IF IsRemoved(v) THEN told \ {v} ELSE told
  /\ events' = IF IsRemoved(v) THEN events \cup {v} ELSE events
  /\ overwritten' = IF v \in pass.seen /\ FoundPresent(items'[v])
                    THEN overwritten \ {v} ELSE overwritten
  /\ UNCHANGED <<world, span, base, hand, approved, accepted, disturbed, crashes>>

\* The change event about an item that is new or back, on its own.
Tell(v) ==
  /\ pass.pc = "judge" /\ pass.tell = v
  /\ pass' = [pass EXCEPT !.tell = Absent]
  /\ told' = told \cup {v}
  /\ events' = events \cup {v}
  /\ UNCHANGED <<world, span, base, items, hand, approved, accepted, missing,
                 disturbed, overwritten, crashes>>

\* The baseline row is written if the pass changed its copy, be it for an
\* address, a name, an identity or the trust in the device.
Finish ==
  /\ pass.pc = "judge" /\ pass.tell = Absent
  /\ pass.todo = {}
  /\ \E other \in BOOLEAN :
       base' = IF pass.changed \/ other THEN pass.base ELSE base
  /\ pass' = Idle
  /\ UNCHANGED <<world, span, items, events, hand, history, crashes>>

\* The process dies, or the pass raises and is given up.
EndEarly ==
  /\ pass.pc # "idle"
  /\ crashes < MaxCrashes
  /\ crashes' = crashes + 1
  /\ pass' = Idle
  /\ UNCHANGED <<world, span, base, items, events, hand, history>>

-----------------------------------------------------------------------------
(* The operator                                                            *)

Interfere == disturbed' = (disturbed \/ pass.pc # "idle")

Pending(v) == items[v] # Absent /\ ~items[v].in

\* accept_pending and, for the one item that a change names, review_change
\* "accepted" read the pending items ...
ReadPending(chosen) ==
  /\ hand = NoRows
  /\ chosen # {}
  /\ \A v \in chosen : Pending(v)
  /\ hand' = [v \in Items |-> IF v \in chosen THEN items[v] ELSE Absent]
  /\ UNCHANGED <<world, span, base, items, events, pass, history, crashes>>

AcceptChange(v) == v \in events /\ ReadPending({v})

AcceptPending == ReadPending({v \in Items : Pending(v)})

\* ... and write their copies back, accepted, one by one.
WriteAccepted(v) ==
  /\ hand[v] # Absent
  /\ Save(v, [hand[v] EXCEPT !.in = TRUE])
  /\ hand' = [hand EXCEPT ![v] = Absent]
  /\ accepted' = accepted \cup {v}
  /\ approved' = approved \cup ({v} \cap Admin)
  /\ overwritten' = IF v \in Services /\ items[v] # hand[v]
                    THEN overwritten \cup {v} ELSE overwritten
  /\ Interfere
  /\ UNCHANGED <<world, span, base, events, pass, told, missing, crashes>>

ResetBaseline ==
  /\ base' = Absent
  /\ items' = NoRows
  /\ told' = {}
  /\ accepted' = {}
  /\ Interfere
  /\ UNCHANGED <<world, span, events, pass, hand, approved, missing, overwritten,
                 crashes>>

-----------------------------------------------------------------------------
(* The device. A pass reads services and inspections once, at its begin,   *)
(* and the status once, in Learn, so what they do in between commutes with *)
(* the pass and is left to the time before or after it. An accept reads    *)
(* none of it and is over before the next tick.                            *)

AtRest == pass.pc = "idle" /\ hand = NoRows

Offer(v) ==
  /\ AtRest
  /\ v \in Services
  /\ offered' = IF v \in offered THEN offered \ {v} ELSE offered \cup {v}
  /\ UNCHANGED <<inspection, online, span, base, items, events, pass, hand, history,
                 crashes>>

Inspect(open) ==
  /\ AtRest
  /\ inspection.n < MaxInspections
  /\ inspection' = [n |-> inspection.n + 1, open |-> open]
  /\ UNCHANGED <<offered, online, span, base, items, events, pass, hand, history,
                 crashes>>

ComeOrGo ==
  /\ AtRest
  /\ online' = ~online
  /\ UNCHANGED <<offered, inspection, span, base, items, events, pass, hand, history,
                 crashes>>

\* Time passes between passes and accepts; a pass has one "now".
\* The baseline's age is compared with the time of learning alone.
OlderBase == Min2(base.age + 1, LearningDays)

Tick ==
  /\ AtRest
  /\ base' = IF base = Absent THEN base ELSE [base EXCEPT !.age = OlderBase]
  /\ span' = IF online /\ base # Absent THEN OlderBase ELSE span
  /\ items' = [v \in Items |-> IF items[v] = Absent THEN Absent
                               ELSE [items[v] EXCEPT !.age =
                                       Min2(items[v].age + 1, OldestOf(v))]]
  /\ missing' = [v \in Services |-> Older(missing[v])]
  /\ UNCHANGED <<world, events, pass, hand, told, approved, accepted, disturbed,
                 overwritten, crashes>>

-----------------------------------------------------------------------------

Init ==
  /\ offered \in SUBSET Services
  /\ inspection = [n |-> 0, open |-> {}]
  /\ online = TRUE
  /\ span = 0
  /\ base = Absent
  /\ items = NoRows
  /\ events = {}
  /\ pass = Idle
  /\ hand = NoRows
  /\ told = {} /\ approved = {} /\ accepted = {}
  /\ missing = [v \in Services |-> 0]
  /\ disturbed = FALSE
  /\ overwritten = {}
  /\ crashes = 0

PassStep ==
  \/ Begin \/ ReadItems \/ SeedBase \/ EndSeeding \/ Learn \/ Finish
  \/ \E v \in Items : SeedItem(v) \/ Judge(v) \/ Tell(v)

Operator ==
  \/ AcceptPending
  \/ \E v \in Items : AcceptChange(v) \/ WriteAccepted(v)
  \/ ResetBaseline

Device ==
  \/ ComeOrGo
  \/ \E v \in Items : Offer(v)
  \/ \E open \in SUBSET Ports : Inspect(open)

Next == PassStep \/ EndEarly \/ Operator \/ Device \/ Tick

Spec == Init /\ [][Next]_vars

\* Sweeps and the passes after them go on, an accept comes to its end, and
\* time passes between them.
FairSpec ==
  /\ Spec
  /\ WF_vars(PassStep)
  /\ WF_vars(\E v \in Items : WriteAccepted(v))
  /\ SF_vars(Tick)

-----------------------------------------------------------------------------
(* Properties                                                              *)

Passes ==
  [pc : {"idle", "items", "seed", "seeding", "learn", "judge"},
   seen : SUBSET Items, inspected : 0..MaxInspections, base : BaseRow \cup {Absent},
   items : [Items -> ItemRow \cup {Absent}], todo : SUBSET Items,
   tell : Items \cup {Absent}, learning : BOOLEAN, changed : BOOLEAN]

TypeOK ==
  /\ offered \subseteq Services
  /\ inspection \in Inspection
  /\ online \in BOOLEAN
  /\ span \in Ages
  /\ base \in BaseRow \cup {Absent}
  /\ items \in [Items -> ItemRow \cup {Absent}]
  /\ pass \in Passes
  /\ hand \in [Items -> ItemRow \cup {Absent}]
  /\ events \subseteq Items /\ told \subseteq Items /\ approved \subseteq Admin /\ accepted \subseteq Items
  /\ missing \in [Services -> Ages]
  /\ disturbed \in BOOLEAN
  /\ overwritten \subseteq Services
  /\ crashes \in 0..MaxCrashes

\* A remote-administration item is in the baseline only if it was there from
\* the start or the operator accepted it, whatever copies were written back.
AdminIsApproved ==
  \A v \in Admin : items[v] # Absent /\ items[v].in => v \in approved

\* What is new and present but not in the baseline was told, unless a pass
\* ended early or the operator acted in the middle of one.
PendingWasTold ==
  crashes = 0 /\ ~disturbed =>
    \A v \in Items : Pending(v) /\ items[v].present /\ pass.tell # v => v \in told

\* What the operator accepted stays in the baseline until it is reset, as
\* long as the operator does not act in the middle of a pass.
AcceptedIsExpected ==
  ~disturbed => \A v \in accepted : items[v] # Absent /\ items[v].in

\* "Time alone never makes a change trusted": a pending item gets into the
\* baseline only by the operator, or as part of a baseline that begins anew.
TimeNeverTrusts ==
  [][\A v \in Items :
       Pending(v) /\ items'[v] # Absent /\ items'[v].in =>
         v \in accepted' \/ pass.pc = "seeding"]_vars

\* A service is taken for removed only when no pass has seen it for
\* RemovalAge, less what last_seen may lag behind: also when its row is
\* accepted while a pass refreshes it, unless the copy accepted was older.
RemovalIsEarned ==
  [][\A v \in Services :
       items[v] # Absent /\ items[v].present /\ items'[v] # Absent
         /\ ~items'[v].present =>
           v \in overwritten' \/ missing[v] > RemovalAge - RefreshAge]_vars

\* A service that is gone for good while its device is online is noticed.
GoneIsNoticed ==
  \A v \in Services :
    <>[](online /\ v \notin offered) => []<>(items[v] = Absent \/ ~items[v].present)

=============================================================================
