------------------------------ MODULE Judgement ------------------------------
(***************************************************************************)
(* What LAN Fence concludes from what it knows of a device: signature      *)
(* matches (fingerprint.py), an identity with a confidence (identity.py),  *)
(* a risk score with a level (risk.py), and which policy decides about a   *)
(* change (policy.py).  Pure operators; ChangeAlerts puts them to use.     *)
(*                                                                         *)
(* Text is abstracted to clues: a clue is one of the things that a keyword *)
(* or a condition looks for in a vendor, a name or an advertised service.  *)
(***************************************************************************)
EXTENDS Integers, FiniteSets, Sequences, FiniteSetsExt

CONSTANTS
  Signatures,  \* what marks a rogue device: [clue, severity]
  Rules,       \* identity rules, in order: [when, weight, asserts]
  Configured,  \* the configured policies, in order, or Nothing
  Nothing

Severities == {"info", "medium", "high", "critical"}
Categories == {"Unknown", "Phone", "Tablet", "Computer", "Server", "Storage / NAS",
               "Network Infrastructure", "Printer", "Camera"}
Fields == {"manufacturer", "category", "family", "platform"}

ASSUME SignatureAssumption == \A s \in Signatures : s.severity \in Severities

\* A rule without a condition would match every device: the loader drops it.
ASSUME RuleAssumption ==
  /\ Len(Rules) \in Nat /\ DOMAIN Rules = 1..Len(Rules)
  /\ \A i \in DOMAIN Rules :
    /\ Rules[i].when # {} /\ Rules[i].weight \in Nat \ {0}
    /\ DOMAIN Rules[i].asserts \subseteq Fields
    /\ "category" \in DOMAIN Rules[i].asserts => Rules[i].asserts["category"] \in Categories

-----------------------------------------------------------------------------
(* Signatures and identity. *)

SignatureSeverities(clues) == {s.severity : s \in {t \in Signatures : t.clue \in clues}}

Matched(clues) == {i \in DOMAIN Rules : Rules[i].when \subseteq clues}

Voters(matched, f) == {i \in matched : f \in DOMAIN Rules[i].asserts}

Votes(matched, f, value) ==
  MapThenSumSet(LAMBDA i : Rules[i].weight,
                {i \in Voters(matched, f) : Rules[i].asserts[f] = value})

\* The rules whose value for the field has the most votes.
Leaders(matched, f) ==
  {i \in Voters(matched, f) : \A j \in Voters(matched, f) :
     Votes(matched, f, Rules[j].asserts[f]) <= Votes(matched, f, Rules[i].asserts[f])}

\* Of equal values, that of the earliest rule.
Winner(matched, f) ==
  IF Voters(matched, f) = {} THEN Nothing ELSE Rules[Min(Leaders(matched, f))].asserts[f]

Conflicts(matched, i) ==
  \E f \in DOMAIN Rules[i].asserts : Rules[i].asserts[f] # Winner(matched, f)

Manufacturers ==
  {Rules[i].asserts["manufacturer"] : i \in Voters(DOMAIN Rules, "manufacturer")}

Clamped(n) == Max({0, Min({100, n})})

\* A rule that lost a field counts against the identity, not for it.
Confidence(matched) ==
  Clamped(MapThenSumSet(LAMBDA i : IF Conflicts(matched, i) THEN -Rules[i].weight
                                   ELSE Rules[i].weight, matched))

InferIdentity(clues) ==
  LET matched == Matched(clues)
      category == Winner(matched, "category")
  IN [category |-> IF category = Nothing THEN "Unknown" ELSE category,
      manufacturer |-> Winner(matched, "manufacturer"),
      confidence |-> Confidence(matched)]

IsKnown(identity) == identity.confidence > 0
IsUncertain(identity) == IsKnown(identity) /\ identity.confidence < 50

-----------------------------------------------------------------------------
(* Significance, and what still waits for the operator. *)

Significances == [info |-> 0, low |-> 1, medium |-> 2, high |-> 3, critical |-> 4]
RiskLevels == [low |-> 0, moderate |-> 1, high |-> 2, critical |-> 3]

AtLeast(significance, threshold) == Significances[significance] >= Significances[threshold]
Above(level, other) == RiskLevels[level] > RiskLevels[other]

\* A snooze that has run out counts as no review.
NeedsAttention(e) == ~e.suppressed /\ e.review \notin {"reviewed", "accepted", "snoozed"}

-----------------------------------------------------------------------------
(* Risk. *)

RiskWeights ==
  [untrusted |-> 25, investigating |-> 10, first_seen_recently |-> 10, private_mac |-> 10,
   private_mac_expected |-> 2, rogue_signature_high |-> 35, rogue_signature_medium |-> 20,
   identity_unknown |-> 10, identity_uncertain |-> 5, known_manufacturer |-> -5,
   new_admin_service |-> 25, new_service |-> 8, unexpected_change |-> 20, identity_changed |-> 15,
   untrusted_infrastructure |-> 15, dhcp_server |-> 30, always_on_absent |-> 5,
   long_absence_return |-> 5, many_changes |-> 10]

MaxCountedServices == 2

PrivateMacExpected == {"Phone", "Tablet", "Computer"}

When(condition, factor) == IF condition THEN {factor} ELSE {}

\* The factors of one device that count once. "around" holds those that come
\* from the device's row or from elsewhere as they are.
Factors(in) ==
  LET grave == in.severities \cap {"high", "critical"} # {}
  IN (in.around \cap {"investigating", "first_seen_recently", "dhcp_server",
                      "always_on_absent", "long_absence_return"})
     \cup When(~in.trusted, "untrusted")
     \cup When("private_mac" \in in.around,
               IF in.identity.category \in PrivateMacExpected THEN "private_mac_expected"
               ELSE "private_mac")
     \cup When(grave, "rogue_signature_high")
     \cup When(~grave /\ "medium" \in in.severities, "rogue_signature_medium")
     \cup When(~IsKnown(in.identity), "identity_unknown")
     \cup When(IsUncertain(in.identity), "identity_uncertain")
     \cup When(IsKnown(in.identity) /\ in.identity.manufacturer # Nothing, "known_manufacturer")
     \cup When(in.unexpected, "unexpected_change")
     \cup When(in.identityChanged, "identity_changed")
     \cup When(~in.trusted /\ in.identity.category = "Network Infrastructure",
               "untrusted_infrastructure")
     \cup When(in.recent >= 3, "many_changes")

Counted(services) == Min({Cardinality(services), MaxCountedServices})

Score(in) ==
  Clamped(MapThenSumSet(LAMBDA f : RiskWeights[f], Factors(in))
          + RiskWeights.new_admin_service * Counted(in.admins)
          + RiskWeights.new_service * Counted(in.others))

RiskThresholds == [low |-> 0, moderate |-> 20, high |-> 40, critical |-> 75]

LevelFor ==
  [score \in 0..100 |->
     CHOOSE level \in DOMAIN RiskThresholds :
       /\ score >= RiskThresholds[level]
       /\ \A other \in DOMAIN RiskThresholds : Above(other, level) => score < RiskThresholds[other]]

\* A row of device_risk.
RiskRow == [score : 0..100, level : DOMAIN RiskLevels, why : SUBSET DOMAIN RiskWeights]

Assess(in) == [score |-> Score(in), level |-> LevelFor[Score(in)], why |-> Factors(in)]

-----------------------------------------------------------------------------
(* Policies.  An omitted condition allows everything. *)

AnyChange == [enabled |-> TRUE, triggers |-> {}, trusted |-> BOOLEAN, categories |-> Categories,
        least |-> "info", admin |-> BOOLEAN, services |-> {}, levels |-> {},
        rising |-> BOOLEAN, severity |-> "info", action |-> "alert"]

ServiceNew == {"service_new", "mdns_service_new", "ssdp_service_new"}
ServerLike == {"Server", "Storage / NAS", "Network Infrastructure"}

DefaultPolicies ==
  << [AnyChange EXCEPT !.triggers = {"new_device"}, !.trusted = {FALSE},
                 !.categories = {"Network Infrastructure"}, !.severity = "critical"],
     [AnyChange EXCEPT !.triggers = {"new_device"}, !.trusted = {FALSE}, !.severity = "high"],
     [AnyChange EXCEPT !.triggers = {"dhcp_server_unexpected"}, !.severity = "critical"],
     [AnyChange EXCEPT !.triggers = {"service_new", "mdns_service_new"}, !.admin = {TRUE},
                 !.severity = "high"],
     [AnyChange EXCEPT !.triggers = ServiceNew, !.trusted = {TRUE}, !.categories = ServerLike,
                 !.severity = "medium"],
     [AnyChange EXCEPT !.triggers = {"unknown_device_present"}, !.severity = "high"],
     [AnyChange EXCEPT !.triggers = {"risk_changed"}, !.levels = {"high", "critical"},
                 !.rising = {TRUE}, !.severity = "high"],
     [AnyChange EXCEPT !.triggers = {"identity_changed"}, !.severity = "medium"],
     [AnyChange EXCEPT !.triggers = ServiceNew \cup
                   {"service_removed", "mdns_service_removed", "ssdp_service_removed",
                    "ip_changed", "ipv6_prefix_new", "hostname_changed", "trust_changed",
                    "baseline_established"},
                 !.least = "low", !.action = "digest"] >>

\* Faulty: the general policy stands above the particular ones.
GeneralFirst == <<DefaultPolicies[9]>> \o SubSeq(DefaultPolicies, 1, 8)

EffectivePolicies == IF Configured = Nothing THEN DefaultPolicies ELSE Configured

\* Whether a policy matches a change of a device; "levels" and "rising" are
\* asked of changes of the risk only.
Matches(p, e, device) ==
  /\ p.enabled /\ e.type \in p.triggers
  /\ device.trusted \in p.trusted /\ device.category \in p.categories
  /\ AtLeast(e.significance, p.least)
  /\ e.admin \in p.admin
  /\ p.services = {} \/ e.subject \in p.services
  /\ p.levels = {} \/ e.level \in p.levels
  /\ e.rising \in p.rising

Matching(e, device) ==
  {i \in DOMAIN EffectivePolicies : Matches(EffectivePolicies[i], e, device)}

\* The first that matches, or 0.
Match(e, device) == IF Matching(e, device) = {} THEN 0 ELSE Min(Matching(e, device))

\* Changes that are alerted on where they are found (build_findings,
\* evaluate_availability, dhcp_server.py).
BuiltinAlerted == {"new_device", "reappeared", "disconnected", "dhcp_server_unexpected"}

\* Whether a change becomes an alert of its own.
BecomesAlert(e, device) ==
  /\ ~e.suppressed
  /\ e.type \notin BuiltinAlerted
  /\ Match(e, device) # 0
  /\ EffectivePolicies[Match(e, device)].action = "alert"

=============================================================================
