-------------------------- MODULE PresenceContract --------------------------
(***************************************************************************)
(* What presence tracking promises the user of LAN Fence, with no mention  *)
(* of sweeps, coverage, ages, tables or processes: each known device is    *)
(* present or confirmed absent, an absence is announced at most once, and  *)
(* a recovery is announced exactly when an announced absence ends. Nothing *)
(* is promised of a device whose record is doubtful.                       *)
(***************************************************************************)
EXTENDS FiniteSets

CONSTANT Macs

VARIABLES
  st,       \* what the user is shown of each device
  outbox,   \* what is announced of it and not handed over yet
  doubtful  \* devices of which nothing is promised

vars == <<st, outbox, doubtful>>

Init ==
  /\ st \in [Macs -> {"unknown", "present"}]
  /\ outbox = [m \in Macs |-> {}]
  /\ doubtful = {}

Rest(m) == st'[m] = st[m] /\ outbox'[m] = outbox[m]

\* A sighting makes the device present and ends an announced absence.
Seen(m) ==
  /\ st'[m] = "present"
  /\ outbox'[m] = outbox[m] \cup (IF st[m] = "announced" THEN {"recovered"}
                                  ELSE {})

\* Only a present device is confirmed absent.
Lost(m) ==
  /\ st[m] = "present"
  /\ st'[m] = "absent"
  /\ outbox'[m] = outbox[m]

\* Only an absence not yet announced is announced.
Announce(m) ==
  /\ st[m] = "absent"
  /\ st'[m] = "announced"
  /\ outbox'[m] = outbox[m] \cup {"absent"}

\* The announcements are handed over, or lost with the process.
HandOver(m) == st'[m] = st[m] /\ outbox'[m] = {}

\* The user stops watching the device: its absence counts as not announced,
\* and a recovery may be withdrawn before it is handed over.
Unwatch(m) ==
  /\ st'[m] = IF st[m] = "announced" THEN "absent" ELSE st[m]
  /\ outbox'[m] \in {outbox[m], outbox[m] \ {"recovered"}}

\* The user forgets the device.
Forget(m) ==
  /\ st'[m] = "unknown"
  /\ outbox'[m] \in {outbox[m], outbox[m] \ {"recovered"}}

Step(m) ==
  \/ Rest(m) \/ Seen(m) \/ Lost(m) \/ Announce(m) \/ HandOver(m)
  \/ Unwatch(m) \/ Forget(m)

Next == \A m \in Macs \ (doubtful \cup doubtful') : Step(m)

Spec == Init /\ [][Next]_vars

=============================================================================
