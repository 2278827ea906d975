---------------------------- MODULE ChangeAlerts ----------------------------
(***************************************************************************)
(* From a change of a device to an alert (baseline.py, cli.py).  A pass of *)
(* the detector compares the device with its baseline, records what        *)
(* changed, scores the device, asks the policies and hands the alerts over.*)
(* Each row is written in a transaction of its own, and the operator       *)
(* reviews changes from the dashboard (web.py) or the command line in      *)
(* another process, which scores the device as well.                       *)
(*                                                                         *)
(* One device.  Its services come and stay (their removal and return are   *)
(* in Baseline); hostname and addresses, which are compared as the         *)
(* identity is, are left out; what the gate holds back is in AlertPipeline,*)
(* what a lost cursor repeats in ChangeCursors.                            *)
(***************************************************************************)
EXTENDS Judgement, SequencesExt

CONSTANTS
  Services,   \* mDNS service types
  Admin,      \* those for remote administration
  Profiles,   \* the clues about the device, one set for each state of it
  Arounds,    \* what else counts for its risk, one set for each state of it
  Beginnings, \* devices at the start: [trusted, clues, offers, around]
  Incidents,  \* what the event table may report: [type, grave]
  Decisions,  \* what the operator may decide about a change
  Excludable, \* sets of signals that the operator may exclude
  Spans,      \* days that may pass
  MaxTurns    \* bound: changes of the world, decisions, and lost passes

\* The empty text stands for no service.
ASSUME ServiceAssumption ==
  Admin \subseteq Services /\ IsFiniteSet(Services) /\ "" \notin Services

ASSUME BeginningAssumption ==
  \A device \in Beginnings : /\ device.trusted \in BOOLEAN
                            /\ device.clues \in Profiles
                            /\ device.offers \subseteq Services

Lifecycle == {"new_device", "reappeared", "disconnected"}

ASSUME IncidentAssumption ==
  \A e \in Incidents : e.type \in Lifecycle /\ e.grave \in BOOLEAN

ASSUME DecisionAssumption ==
  Decisions \subseteq {"reviewed", "accepted", "snoozed", "investigating", "unreviewed"}

ExcludableSignals == {"port", "mdns", "ssdp", "ipv6_prefix", "ip", "hostname", "identity"}

ASSUME ExcludableAssumption == Excludable \subseteq SUBSET ExcludableSignals

ASSUME SpanAssumption == Spans \subseteq Nat

VARIABLES
  trusted, clues, offers, around,  \* the device
  happened,  \* events not yet ingested
  base,      \* device_baselines: the row of the device, or Nothing
  items,     \* baseline_items: "none", "pending" or "expected"
  log,       \* change_events
  risk,      \* device_risk: the row of the device, or Nothing
  pass,      \* the detector, with its copies
  web,       \* the reviewer, with its copies
  turns,     \* how much of MaxTurns is used
  known,     \* history: the highest level told of since the risk was stored
  asked,     \* history: the exclusions the operator asked for, until a pass undoes them
  lost,      \* history: services found by a pass that ended early
  overtaken, \* history: scorers ("pass", "web") whose copy of the score is out of date
  news       \* history: whether something is left for the next pass to look at

world == <<trusted, clues, offers, around>>
rows == <<base, items, log, risk>>
history == <<known, asked, lost, overtaken, news>>
vars == <<world, happened, rows, pass, web, turns, history>>

\* What a dossier is made of.
Device == [trusted |-> trusted, clues |-> clues, around |-> around]

IdentityOf == [c \in Profiles |-> InferIdentity(c)]
SeveritiesOf == [c \in Profiles |-> SignatureSeverities(c)]

-----------------------------------------------------------------------------
(* Changes. *)

Change(type, significance) ==
  [type |-> type, significance |-> significance, signal |-> "", subject |-> "", admin |-> FALSE,
   level |-> "", rising |-> FALSE, suppressed |-> FALSE, review |-> "unreviewed",
   days |-> 0, fate |-> ""]

\* Faulty: only services can be excluded.
SilencedServices(e, excluded) == [e EXCEPT !.suppressed = @ \/ e.signal \in excluded \cap {"mdns"}]

\* An excluded signal is kept as history.
Silenced(e, excluded) == [e EXCEPT !.suppressed = @ \/ e.signal \in excluded]

\* A long absence, or that of a device that is always on, is grave.
LifecycleWeighs(e) ==
  \/ e.type = "new_device" /\ ~trusted
  \/ e.type = "reappeared" /\ trusted /\ e.grave
  \/ e.type = "disconnected" /\ e.grave

LifecycleChange(e) == Change(e.type, IF LifecycleWeighs(e) THEN "medium" ELSE "info")

ServiceChange(s, b, device) ==
  LET category == IdentityOf[device.clues].category
      matters == /\ b.established /\ device.trusted
                 /\ category \in ServerLike \cup {"Printer", "Camera"}
      significance == IF s \in Admin THEN "high" ELSE IF matters THEN "medium" ELSE "low"
  IN [Change("mdns_service_new", significance) EXCEPT
        !.signal = "mdns", !.subject = s, !.admin = s \in Admin]

RiskChange(previous, assessed) ==
  LET rising == Above(assessed.level, previous.level)
      significance == [critical |-> "critical", high |-> "high", moderate |-> "medium",
                       low |-> "info"]
  IN [Change("risk_changed", IF rising THEN significance[assessed.level] ELSE "info") EXCEPT
        !.level = assessed.level, !.rising = rising]

-----------------------------------------------------------------------------
(* The score of the device, from a baseline, items and changes. *)

\* Faulty: a change of the risk is a change like any other.
UnexpectedOfAll(e) == AtLeast(e.significance, "medium")

\* What counts as unexpected against an established baseline.
Unexpected(e) ==
  /\ e.type \notin Lifecycle \cup {"risk_changed"}
  /\ AtLeast(e.significance, "medium")

\* The changes of the last 30 days that need attention, a service only as long
\* as one of them is about it.
Inputs(device, b, rowsOfItems, events) ==
  LET open == {i \in DOMAIN events : NeedsAttention(events[i]) /\ events[i].days < 30}
      pending == {s \in Services : /\ rowsOfItems[s] = "pending"
                                   /\ \E i \in open : events[i].subject = s}
  IN [trusted |-> device.trusted, around |-> device.around,
      identity |-> IdentityOf[device.clues], severities |-> SeveritiesOf[device.clues],
      admins |-> pending \cap Admin, others |-> pending \ Admin,
      unexpected |-> /\ b # Nothing /\ b.established
                     /\ \E i \in open : events[i].days < 7 /\ Unexpected(events[i]),
      identityChanged |-> \E i \in open : events[i].type = "identity_changed",
      recent |-> Cardinality({i \in open : /\ events[i].days = 0
                                           /\ events[i].type # "risk_changed"
                                           /\ AtLeast(events[i].significance, "low")})]

\* Whether that is what "lanfence risk" shows; nothing is stored.
IsShown(assessed) == \E in \in {Inputs(Device, base, items, log)} : assessed = Assess(in)

\* Faulty: levels are compared as the words they are.
RisesByName(previous, assessed) ==
  /\ previous # Nothing
  /\ \/ previous.level = "critical" /\ assessed.level # "critical"
     \/ previous.level = "high" /\ assessed.level \in {"low", "moderate"}
     \/ previous.level = "low" /\ assessed.level = "moderate"

Rises(previous, assessed) == previous # Nothing /\ Above(assessed.level, previous.level)

\* Faulty: only another level is worth storing.
StaleLevel(previous, assessed) == previous = Nothing \/ previous.level # assessed.level

Stale(previous, assessed) == previous # assessed

-----------------------------------------------------------------------------
(* A pass of the detector. *)

Idle == [pc |-> "idle"]

Runs(pc) == pass.pc = pc
Goes(pc) == [pass EXCEPT !.pc = pc]

\* The places in the table of changes that are about to be added.
NewRows(changes) == Len(log) + 1..Len(log) + Len(changes)

\* Events become changes. All tables are read; the changes just ingested are
\* among those of the table, and are then added once more.
Begin ==
  /\ Runs("idle")
  /\ \E ingested \in {[i \in DOMAIN happened |-> LifecycleChange(happened[i])]} :
       /\ log' = log \o ingested
       /\ pass' = [pc |-> "compare", mine |-> NewRows(ingested), device |-> Device,
                   offers |-> offers, base |-> base, items |-> items, previous |-> risk,
                   events |-> log \o ingested \o ingested, changed |-> FALSE,
                   reread |-> FALSE, assessed |-> Nothing, calm |-> ~news, silent |-> asked]
  /\ happened' = <<>>
  /\ news' = FALSE
  /\ overtaken' = overtaken \ {"pass"}
  /\ UNCHANGED <<world, base, items, risk, web, turns, known, asked, lost>>

\* A row of device_baselines.
BaseRow ==
  [ripe : BOOLEAN, established : BOOLEAN, trusted : BOOLEAN, excluded : SUBSET ExcludableSignals,
   lingers : BOOLEAN, category : Categories \cup {Nothing},
   manufacturer : Manufacturers \cup {Nothing}]

ASSUME NothingAssumption ==
  Nothing \notin BaseRow /\ Nothing \notin RiskRow /\ Nothing \notin DOMAIN RiskLevels

\* The first baseline is what is there. Nothing is compared yet.
SeededBase(device) ==
  LET identity == IdentityOf[device.clues]
  IN [ripe |-> FALSE, established |-> FALSE, trusted |-> device.trusted, excluded |-> {}, lingers |-> FALSE,
      category |-> IF IsKnown(identity) THEN identity.category ELSE Nothing,
      manufacturer |-> IF IsKnown(identity) THEN identity.manufacturer ELSE Nothing]

Seed ==
  /\ Runs("compare") /\ pass.base = Nothing
  /\ base' = SeededBase(pass.device)
  /\ items' = [s \in Services |-> IF s \in pass.offers THEN "expected" ELSE items[s]]
  /\ pass' = [Goes("score") EXCEPT !.base = base']
  /\ news' = TRUE
  /\ UNCHANGED <<world, happened, log, risk, web, turns, known, asked, lost, overtaken>>

\* Only what is known on both sides is compared.
IdentityChanged(b, identity) ==
  \/ /\ b.category \notin {Nothing, "Unknown"} /\ identity.category # "Unknown"
     /\ identity.category # b.category
  \/ /\ b.manufacturer # Nothing /\ identity.manufacturer # Nothing
     /\ identity.manufacturer # b.manufacturer

\* New services, but for those that are still learned.
Found ==
  {s \in pass.offers : /\ pass.items[s] = "none"
                       /\ pass.base.established \/ s \in Admin}

Learned == {s \in pass.offers \ Found : pass.items[s] = "none"}

\* A stranger is there for long; told once, until it is trusted or looked at.
Lingers ==
  /\ "lingering" \in pass.device.around /\ "investigating" \notin pass.device.around
  /\ ~pass.device.trusted

LookedAt == pass.device.trusted \/ "investigating" \in pass.device.around

\* What a comparison records, in order.
Differences ==
  LET b == pass.base
      identity == IdentityOf[pass.device.clues]
      services == SetToSeq(Found)
      If(condition, e) == IF condition THEN <<Silenced(e, b.excluded)>> ELSE <<>>
  IN If(~b.established /\ b.ripe, Change("baseline_established", "info"))
     \o [i \in DOMAIN services |->
           Silenced(ServiceChange(services[i], b, pass.device), b.excluded)]
     \o If(IsKnown(identity) /\ IdentityChanged(b, identity),
           [Change("identity_changed", IF b.established THEN "medium" ELSE "info")
              EXCEPT !.signal = "identity"])
     \o If(pass.device.trusted # b.trusted, Change("trust_changed", "info"))
     \o If(Lingers /\ ~b.lingers, Change("unknown_device_present", "high"))

\* The copy of the baseline takes over what is now.
Updated ==
  LET identity == IdentityOf[pass.device.clues]
      b == [pass.base EXCEPT !.established = @ \/ pass.base.ripe, !.trusted = pass.device.trusted,
                             !.lingers = Lingers \/ (@ /\ ~LookedAt)]
  IN IF ~IsKnown(identity) THEN b
     ELSE [b EXCEPT !.category = identity.category,
                    !.manufacturer = IF identity.manufacturer = Nothing THEN @
                                     ELSE identity.manufacturer]

\* Services are saved and recorded one by one (Baseline), the row follows.
Compare ==
  /\ Runs("compare") /\ pass.base # Nothing
  /\ items' = [s \in Services |-> IF s \in Found THEN "pending"
                                  ELSE IF s \in Learned THEN "expected" ELSE items[s]]
  /\ \E changes \in {Differences}, updated \in {Updated} :
       /\ log' = log \o changes
       /\ pass' = [Goes("keep") EXCEPT !.base = updated, !.changed = updated # pass.base,
                                       !.events = @ \o changes, !.reread = changes # <<>>,
                                       !.mine = @ \cup NewRows(changes)]
  /\ UNCHANGED <<world, happened, base, risk, web, turns, history>>

\* The whole row is written, if the copy has changed: with the exclusions that
\* were read.
Keep ==
  /\ Runs("keep")
  /\ base' = IF pass.changed THEN pass.base ELSE base
  /\ asked' = IF pass.changed THEN asked \cap pass.base.excluded ELSE asked
  /\ pass' = Goes("score")
  /\ UNCHANGED <<world, happened, items, log, risk, web, turns, known, lost, overtaken, news>>

\* Whoever scores the device: a rise is recorded, and then stored.
Tells(told, assessed) ==
  known' = IF told /\ (known = Nothing \/ Above(assessed.level, known)) THEN assessed.level
           ELSE known

Stores(previous, assessed, other) ==
  /\ overtaken' = IF Stale(previous, assessed) THEN overtaken \cup {other} ELSE overtaken
  /\ risk' = IF Stale(previous, assessed) THEN assessed ELSE risk
  /\ known' = IF Stale(previous, assessed) THEN assessed.level ELSE known

Rescore ==
  /\ Runs("score")
  /\ \E in \in {Inputs(pass.device, pass.base, IF pass.reread THEN items ELSE pass.items,
                       pass.events)} :
     \E assessed \in {Assess(in)} :
     \E told \in {IF Rises(pass.previous, assessed)
                 THEN <<RiskChange(pass.previous, assessed)>> ELSE <<>>} :
       /\ log' = log \o told
       /\ Tells(told # <<>>, assessed)
       /\ pass' = [Goes("store") EXCEPT !.mine = @ \cup NewRows(told), !.assessed = assessed]
  /\ UNCHANGED <<world, happened, base, items, risk, web, turns, asked, lost, overtaken, news>>

Store ==
  /\ Runs("store")
  /\ Stores(pass.previous, pass.assessed, "web")
  /\ pass' = Goes("emit")
  /\ UNCHANGED <<world, happened, base, items, log, web, turns, asked, lost, news>>

\* The policies are asked about each change of the pass; the gate and the
\* worker let some of the alerts through (AlertPipeline).
Alerts ==
  LET device == [trusted |-> trusted, category |-> IdentityOf[clues].category]
  IN {i \in pass.mine : BecomesAlert(log[i], device)}

Emit ==
  /\ Runs("emit")
  /\ \E alerts \in {Alerts} : \E through \in SUBSET alerts :
       log' = [i \in DOMAIN log |-> IF i \notin alerts THEN log[i]
                 ELSE [log[i] EXCEPT !.fate = IF i \in through THEN "handed" ELSE "withheld"]]
  /\ pass' = Idle
  /\ UNCHANGED <<world, happened, base, items, risk, web, turns, history>>

\* The process dies, or the pass raises and is given up. In a comparison, the
\* change about an item may be lost behind the item.
BreakOff ==
  /\ ~Runs("idle") /\ turns < MaxTurns
  /\ turns' = turns + 1 /\ news' = TRUE
  /\ \E halfway \in SUBSET (IF Runs("compare") /\ pass.base # Nothing THEN Found ELSE {}) :
       /\ items' = [s \in Services |-> IF s \in halfway THEN "pending" ELSE items[s]]
       /\ lost' = lost \cup halfway \cup {s \in Services : \E i \in pass.mine : log[i].subject = s}
  /\ pass' = Idle
  /\ UNCHANGED <<world, happened, base, log, risk, web, known, asked, overtaken>>

-----------------------------------------------------------------------------
(* The operator. *)

Turn == turns < MaxTurns /\ turns' = turns + 1 /\ news' = TRUE

\* The device is scored again after a decision, by whoever took it.
Decided == web.pc = "idle" /\ web' = [pc |-> "score"]

Expected(subjects) ==
  items' = [s \in Services |-> IF s \in subjects /\ items[s] = "pending" THEN "expected"
                              ELSE items[s]]

Review(i, decision) ==
  /\ Turn /\ Decided
  /\ log[i].review # decision
  /\ log' = [log EXCEPT ![i].review = decision]
  /\ Expected(IF decision = "accepted" THEN {log[i].subject} ELSE {})
  /\ UNCHANGED <<world, happened, base, risk, pass, known, asked, lost, overtaken>>

AcceptPending ==
  LET pending == {s \in Services : items[s] = "pending"}
  IN /\ Turn /\ Decided
     /\ pending # {}
     /\ Expected(pending)
     /\ log' = [i \in DOMAIN log |-> IF log[i].subject \in pending
                                     THEN [log[i] EXCEPT !.review = "accepted"] ELSE log[i]]
     /\ UNCHANGED <<world, happened, base, risk, pass, known, asked, lost, overtaken>>

ResetBaseline ==
  /\ Turn /\ Decided
  /\ base' = Nothing
  /\ items' = [s \in Services |-> "none"]
  /\ log' = Append(log, Change("baseline_reset", "info"))
  /\ asked' = {}
  /\ UNCHANGED <<world, happened, risk, pass, known, lost, overtaken>>

Exclude(signals) ==
  /\ Turn
  /\ base # Nothing
  /\ base' = [base EXCEPT !.excluded = signals]
  /\ asked' = signals
  /\ UNCHANGED <<world, happened, items, log, risk, pass, web, known, lost, overtaken>>

\* Here a fall is recorded as well. No policy is asked about these changes.
RescoreDecided ==
  /\ web.pc = "score"
  /\ \E in \in {Inputs(Device, base, items, log)} :
     \E assessed \in {Assess(in)} :
       LET differs == risk # Nothing /\ risk.level # assessed.level
       IN /\ log' = IF differs THEN Append(log, RiskChange(risk, assessed)) ELSE log
          /\ Tells(Rises(risk, assessed), assessed)
          /\ web' = [pc |-> "store", previous |-> risk, assessed |-> assessed]
  /\ news' = TRUE
  /\ overtaken' = overtaken \ {"web"}
  /\ UNCHANGED <<world, happened, base, items, risk, pass, turns, asked, lost>>

StoreDecided ==
  /\ web.pc = "store"
  /\ Stores(web.previous, web.assessed, "pass")
  /\ web' = Idle
  /\ news' = TRUE
  /\ UNCHANGED <<world, happened, base, items, log, pass, turns, asked, lost>>

\* The command line scores after the review of a change, but not after decisions
\* about a whole baseline; a process may die.
LeaveUnscored ==
  /\ web.pc # "idle" /\ Turn
  /\ web' = Idle
  /\ UNCHANGED <<world, happened, rows, pass, known, asked, lost, overtaken>>

-----------------------------------------------------------------------------
(* The device, and time. *)

Past == SelectSeq(log, LAMBDA e : e.type \in Lifecycle) \o happened

Absent == Past # <<>> /\ Last(Past).type = "disconnected"

\* A device is new once, and returns from where it went.
Follows(e) ==
  IF Absent THEN e.type = "reappeared"
  ELSE \/ e.type = "disconnected"
       \/ Past = <<>> /\ base = Nothing /\ e.type = "new_device"

TrustChanges == trusted' = ~trusted /\ UNCHANGED <<clues, offers, around>>
CluesChange(c) == clues' = c /\ c # clues /\ UNCHANGED <<trusted, offers, around>>
CircumstancesChange(a) ==
  /\ a # around /\ ("lingering" \in a => ~Absent)
  /\ around' = a
  /\ UNCHANGED <<trusted, clues, offers>>

Appears(s) == s \notin offers /\ offers' = offers \cup {s} /\ UNCHANGED <<trusted, clues, around>>

DeviceChanges ==
  /\ Turn
  /\ \/ TrustChanges
     \/ \E c \in Profiles : CluesChange(c)
     \/ \E a \in Arounds : CircumstancesChange(a)
     \/ \E s \in Services : Appears(s)
  /\ UNCHANGED <<happened, rows, pass, web, known, asked, lost, overtaken>>

Happens(e) ==
  /\ Turn
  /\ Follows(e)
  /\ happened' = Append(happened, e)
  /\ around' = IF e.type = "disconnected" THEN around \ {"lingering"} ELSE around
  /\ UNCHANGED <<trusted, clues, offers, rows, pass, web, known, asked, lost, overtaken>>

\* A baseline is ripe after learning_days; a pass takes seconds.
DaysPass(days) ==
  /\ Turn
  /\ pass.pc = "idle" /\ web.pc = "idle"
  /\ log' = [i \in DOMAIN log |-> [log[i] EXCEPT !.days = Min({30, @ + days})]]
  /\ base' = IF base # Nothing /\ days >= 7 THEN [base EXCEPT !.ripe = TRUE] ELSE base
  /\ UNCHANGED <<world, happened, items, risk, pass, web, known, asked, lost, overtaken>>

SnoozeEnds(i) ==
  /\ Turn
  /\ log[i].review = "snoozed"
  /\ log' = [log EXCEPT ![i].review = "unreviewed"]
  /\ UNCHANGED <<world, happened, base, items, risk, pass, web, known, asked, lost, overtaken>>

-----------------------------------------------------------------------------

\* A device that is about to get its first baseline, or one whose baseline was
\* established so long ago that its changes have been pruned since.
Init ==
  /\ \E device \in Beginnings :
       /\ trusted = device.trusted /\ clues = device.clues
       /\ offers = device.offers /\ around = device.around
  /\ base \in {Nothing, [SeededBase(Device) EXCEPT !.ripe = TRUE, !.established = TRUE]}
  /\ items = [s \in Services |-> IF base # Nothing /\ s \in offers THEN "expected" ELSE "none"]
  /\ log = <<>>
  /\ IF base = Nothing THEN risk = Nothing
     ELSE risk \in {Assess(in) : in \in {Inputs(Device, base, items, log)}}
  /\ known = IF base # Nothing THEN risk.level ELSE Nothing
  /\ happened = <<>>
  /\ pass = Idle /\ web = Idle
  /\ turns = 0
  /\ asked = {}
  /\ lost = {}
  /\ overtaken = {}
  /\ news = TRUE

Detector == Begin \/ Seed \/ Compare \/ Keep \/ Rescore \/ Store \/ Emit

Reviewer == RescoreDecided \/ StoreDecided

Operator ==
  \/ \E i \in DOMAIN log, decision \in Decisions : Review(i, decision)
  \/ AcceptPending
  \/ ResetBaseline
  \/ \E signals \in Excludable : Exclude(signals)
  \/ LeaveUnscored

World ==
  \/ DeviceChanges
  \/ \E e \in Incidents : Happens(e)
  \/ \E days \in Spans : DaysPass(days)
  \/ \E i \in DOMAIN log : SnoozeEnds(i)

Next == Detector \/ BreakOff \/ Operator \/ Reviewer \/ World

Spec == Init /\ [][Next]_vars

-----------------------------------------------------------------------------

\* A new service for remote administration is told of: as long as it is pending,
\* an alert about it was handed over or withheld by the gate, unless its
\* signal is excluded or the pass that found it ended early. No policy for
\* changes in general, and no learning, comes before that.
AdminIsTold ==
  \A s \in Admin \ lost :
    Runs("idle") /\ items[s] = "pending" =>
      \E i \in DOMAIN log : /\ log[i].subject = s
                           /\ \/ log[i].suppressed
                              \/ log[i].fate \in {"handed", "withheld"}

\* A pass that finds all as the last one left it records nothing ("never again
\* just because the new state persists"): no change, such as that of the
\* risk, is a reason for another one.
QuietWhenCalm ==
  ~Runs("idle") => (pass.calm /\ ~news => pass.mine = {})

\* The stored level rises only to one that was told of in a change, whatever
\* passes were broken off between the change and the store. Only a writer whose
\* copy of the score is out of date may do otherwise (a review during a pass).
RiseIsRecorded ==
  [][\/ Store /\ "pass" \notin overtaken
     \/ StoreDecided /\ "web" \notin overtaken
     => risk = Nothing \/ ~Above(risk'.level, known)]_vars

\* Changes of an excluded signal are never handed over, from the first pass
\* that begins after the exclusion.
ExcludedIsSilent ==
  [][\A i \in DOMAIN log :
       log'[i].fate = "handed" /\ log[i].fate # "handed" => log[i].signal \notin pass.silent]_vars

\* A pass that nothing interferes with, over what an earlier one left, leaves the
\* score that the device deserves: no overlap of reviews and passes before it
\* puts a score out of date for good.
RiskSettles == Runs("emit") /\ pass.calm /\ ~news => IsShown(risk)

\* The stored score is, when it is stored, what "lanfence risk" shows.
ScoreIsShown ==
  [][Store /\ ~news /\ Stale(pass.previous, pass.assessed) => IsShown(pass.assessed)]_vars

=============================================================================
