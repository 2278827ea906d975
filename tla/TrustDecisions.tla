--------------------------- MODULE TrustDecisions ---------------------------
(***************************************************************************)
(* What the operator decides about devices, and where it is kept: trust in *)
(* the allowlist, a file that each tool reads, edits and writes back whole *)
(* with no lock (allowlist.py), reviews in device_review (db.py).  Requests*)
(* of the dashboard (web.py), "allow", "review", "device" and "reset"      *)
(* (cli.py) run side by side with the monitor, which keeps a copy of the   *)
(* allowlist and reads it again at each sweep.                             *)
(***************************************************************************)
EXTENDS FiniteSets

CONSTANTS
  Macs,    \* the devices
  Own,     \* the MAC of the host itself
  Names,   \* what a trusted device may be called
  None,    \* no entry; no device; no job
  OnLan,   \* bound: the devices that are seen and reviewed
  Editors  \* requests and commands that may run at one time

ASSUME TrustAssumption ==
  Own \in Macs /\ OnLan \subseteq Macs /\ None \notin Macs \cup Names \cup Editors /\ Names # {}

VARIABLES
  file,       \* the allowlist file: the name of each trusted device
  readable,   \* whether it parses
  view,       \* the monitor's copy
  review,     \* device_review; "pending" where there is no row
  device,     \* devices: None, "online" or "offline"
  job,        \* what each editor is doing, what it read, and what others have
              \* decided about since (missed); or None
  asked,      \* the last decision about each device that was saved
  muddled     \* devices whose decision was lost to an overlap

stored == <<file, readable, asked, muddled>>
vars == <<stored, view, review, device, job>>

Entries == [Macs -> Names \cup {None}]
NoEntries == [m \in Macs |-> None]

-----------------------------------------------------------------------------
(* The allowlist. *)

\* The host trusts itself, unless the operator has named it.
WithSelf(entries) ==
  IF entries[Own] = None
  THEN [entries EXCEPT ![Own] = CHOOSE n \in Names : TRUE] ELSE entries

\* Faulty: a session edits the copy it displays.
CopiedShown(entries) == WithSelf(entries)

\* What a tool edits and writes back: the file as it was read.
Copied(entries) == entries

Running(e, kind) == job[e] # None /\ job[e].kind = kind

\* In a review session, at a device or clearing the review of one.
InReview(e) == Running(e, "review") \/ (Running(e, "clear") /\ job[e].queue # {})

NewJob(kind, copy, queue) ==
  [kind |-> kind, copy |-> copy, queue |-> queue, clear |-> None, missed |-> {}]

Goes(e, next) == job' = [job EXCEPT ![e] = next]
Ends(e) == Goes(e, None)

\* An editor goes on as next; the others do not know of what it has changed.
Changed(e, macs, next) ==
  job' = [o \in Editors |->
            IF o = e THEN next
            ELSE IF ~Running(o, "edit") /\ ~InReview(o) THEN job[o]
            ELSE [job[o] EXCEPT !.missed = job[o].missed \cup macs]]

\* The whole file is replaced by the editor's copy with one decision made in
\* it. A decision of someone else that the copy does not hold is lost.
Save(e, m, name, next) ==
  /\ file' = [job[e].copy EXCEPT ![m] = name]
  /\ readable' = TRUE
  /\ asked' = [asked EXCEPT ![m] = name]
  /\ muddled' = (muddled \cup job[e].missed) \ {m}
  /\ Changed(e, job[e].missed \cup {m}, next)

-----------------------------------------------------------------------------
(* One edit: a request of the dashboard, "allow", "review MAC --trust". *)

\* The file is read; if it does not parse the tool ends there.
Open(e) ==
  /\ job[e] = None
  /\ readable
  /\ Goes(e, NewJob("edit", file, {}))
  /\ UNCHANGED <<stored, view, review, device>>

\* Trusted, or renamed; "review" goes on to clear the review.
Trust(e, m, name, clears) ==
  /\ Running(e, "edit")
  /\ Save(e, m, name, IF clears THEN [NewJob("clear", NoEntries, {}) EXCEPT !.clear = m] ELSE None)
  /\ UNCHANGED <<view, review, device>>

Untrust(e, m) ==
  /\ Running(e, "edit")
  /\ IF job[e].copy[m] = None THEN Ends(e) /\ UNCHANGED stored ELSE Save(e, m, None, None)
  /\ UNCHANGED <<view, review, device>>

ClearReview(e) ==
  /\ Running(e, "clear")
  /\ review' = [review EXCEPT ![job[e].clear] = "pending"]
  /\ Goes(e, IF job[e].queue = {} THEN None
             ELSE [job[e] EXCEPT !.kind = "review", !.clear = None])
  /\ UNCHANGED <<stored, view, device>>

\* The operator declines, stops, or the tool dies.
Cancel(e) ==
  /\ job[e] # None
  /\ Ends(e)
  /\ UNCHANGED <<stored, view, review, device>>

-----------------------------------------------------------------------------
(* A review session: the file and the queue are read once. *)

ReviewNeeded(m, entries) ==
  /\ device[m] # None /\ entries[m] = None
  /\ review[m] \notin {"investigating", "snoozed"}

StartReview(e) ==
  /\ job[e] = None
  /\ readable
  /\ LET queue == {m \in Macs : ReviewNeeded(m, WithSelf(file))}
     IN /\ queue # {}
        /\ Goes(e, NewJob("review", Copied(file), queue))
  /\ UNCHANGED <<stored, view, review, device>>

\* The device at hand leaves the queue; the session ends with the last one.
Advanced(e, m) ==
  IF job[e].queue = {m} THEN None ELSE [job[e] EXCEPT !.queue = @ \ {m}]

\* Saved at once, and the copy goes on to the next device.
TrustInReview(e, m, name) ==
  /\ Running(e, "review") /\ m \in job[e].queue
  /\ Save(e, m, name, [job[e] EXCEPT !.kind = "clear", !.clear = m, !.queue = job[e].queue \ {m},
                                     !.copy = [job[e].copy EXCEPT ![m] = name]])
  /\ UNCHANGED <<view, review, device>>

MarkInReview(e, m, state) ==
  /\ Running(e, "review") /\ m \in job[e].queue
  /\ review' = [review EXCEPT ![m] = state]
  /\ Goes(e, Advanced(e, m))
  /\ UNCHANGED <<stored, view, device>>

Skip(e, m) ==
  /\ Running(e, "review") /\ m \in job[e].queue
  /\ Goes(e, Advanced(e, m))
  /\ UNCHANGED <<stored, view, review, device>>

\* "review MAC --snooze", "--investigate" or "--clear".
Mark(m, state) ==
  /\ review' = [review EXCEPT ![m] = state]
  /\ UNCHANGED <<stored, view, device, job>>

SnoozeEnds(m) ==
  /\ review[m] = "snoozed"
  /\ review' = [review EXCEPT ![m] = "lapsed"]
  /\ UNCHANGED <<stored, view, device, job>>

-----------------------------------------------------------------------------
(* Deletion, and reset. *)

\* The list is made, shown, and waits for a confirmation.
StartDelete(e) ==
  /\ job[e] = None
  /\ readable
  /\ LET targets == {m \in Macs : /\ review[m] = "pending" /\ device[m] = "offline"
                                  /\ WithSelf(file)[m] = None}
     IN /\ targets # {}
        /\ Goes(e, NewJob("delete", NoEntries, targets))
  /\ UNCHANGED <<stored, view, review, device>>

Delete(e, m) ==
  /\ Running(e, "delete") /\ m \in job[e].queue
  /\ device' = [device EXCEPT ![m] = None]
  /\ review' = [review EXCEPT ![m] = "pending"]
  /\ Goes(e, Advanced(e, m))
  /\ UNCHANGED <<stored, view>>

\* The database is wiped, then, unless it is to be kept, the allowlist.
Reset(e, keep) ==
  /\ job[e] = None
  /\ device' = [m \in Macs |-> None]
  /\ review' = [m \in Macs |-> "pending"]
  /\ Goes(e, IF keep THEN None ELSE NewJob("reset", NoEntries, {}))
  /\ UNCHANGED <<stored, view>>

ClearFile(e) ==
  /\ Running(e, "reset")
  /\ file' = NoEntries
  /\ readable' = TRUE
  /\ asked' = NoEntries
  /\ muddled' = {}
  /\ Changed(e, Macs, None)
  /\ UNCHANGED <<view, review, device>>

-----------------------------------------------------------------------------
(* The operator's text editor, the network, and the monitor. *)

HandEdit(m, name) ==
  /\ readable
  /\ file' = [file EXCEPT ![m] = name]
  /\ asked' = [asked EXCEPT ![m] = name]
  /\ muddled' = muddled \ {m}
  /\ Changed(None, {m}, None)
  /\ UNCHANGED <<readable, view, review, device>>

\* A slip of the operator, or its repair.
Garble ==
  /\ readable' = ~readable
  /\ UNCHANGED <<file, asked, muddled, view, review, device, job>>

Seen(m, status) ==
  /\ status = "offline" => device[m] # None
  /\ device' = [device EXCEPT ![m] = status]
  /\ UNCHANGED <<stored, view, review, job>>

\* Faulty: what was read is added to what is there.
ReloadedOnTop(entries) ==
  [m \in Macs |-> IF WithSelf(entries)[m] = None THEN view[m] ELSE WithSelf(entries)[m]]

Reloaded(entries) == WithSelf(entries)

\* Before each sweep; a file that does not parse leaves the copy as it is.
Reload ==
  /\ view' = IF readable THEN Reloaded(file) ELSE view
  /\ UNCHANGED <<stored, review, device, job>>

-----------------------------------------------------------------------------

Init ==
  /\ file \in Entries
  /\ readable = TRUE
  /\ view = WithSelf(file)
  /\ review = [m \in Macs |-> "pending"]
  /\ device = [m \in Macs |-> None]
  /\ job = [e \in Editors |-> None]
  /\ asked = file
  /\ muddled = {}

Edits(e) ==
  \/ Open(e)
  \/ \E m \in Macs, name \in Names, clears \in BOOLEAN : Trust(e, m, name, clears)
  \/ \E m \in Macs : Untrust(e, m)
  \/ ClearReview(e)
  \/ Cancel(e)

Reviews(e) ==
  \/ StartReview(e)
  \/ \E m \in Macs, name \in Names : TrustInReview(e, m, name)
  \/ \E m \in Macs, state \in {"snoozed", "investigating"} : MarkInReview(e, m, state)
  \/ \E m \in Macs : Skip(e, m)

Deletes(e) ==
  \/ StartDelete(e)
  \/ \E m \in Macs : Delete(e, m)
  \/ \E keep \in BOOLEAN : Reset(e, keep)
  \/ ClearFile(e)

Outside ==
  \/ \E m \in OnLan, state \in {"snoozed", "investigating", "pending"} : Mark(m, state)
  \/ \E m \in Macs : SnoozeEnds(m)
  \/ \E m \in Macs, name \in Names \cup {None} : HandEdit(m, name)
  \/ Garble
  \/ \E m \in OnLan, status \in {"online", "offline"} : Seen(m, status)

Next ==
  \/ \E e \in Editors : Edits(e) \/ Reviews(e) \/ Deletes(e)
  \/ Outside
  \/ Reload

Spec == Init /\ [][Next]_vars

\* The monitor goes on sweeping (SweepsGoOn of MonitorLoop); the operator need
\* not do anything.
FairSpec == Spec /\ WF_vars(Reload)

-----------------------------------------------------------------------------

States == {"pending", "snoozed", "lapsed", "investigating"}
Jobs == [kind : {"edit", "clear", "review", "delete", "reset"}, copy : Entries,
         queue : SUBSET Macs, clear : Macs \cup {None}, missed : SUBSET Macs]

\* Files, reviews, devices and jobs keep their types.
TypeOK ==
  /\ file \in Entries /\ view \in Entries /\ asked \in Entries
  /\ readable \in BOOLEAN
  /\ review \in [Macs -> States]
  /\ device \in [Macs -> {None, "online", "offline"}]
  /\ job \in [Editors -> Jobs \cup {None}]
  /\ \A e \in Editors : Running(e, "clear") => job[e].clear \in Macs
  /\ muddled \subseteq Macs

\* What the operator decided about a device stays in the file until the next
\* decision about it, whoever else edits the file. The only decisions lost are
\* those made while another editor, who then saved, already held a copy of the
\* file (Allowlist.load and save). The host's trust in itself is no decision,
\* and never gets into the file (the comment in _run_interactive_review).
DecisionKept == \A m \in Macs \ muddled : file[m] = asked[m]

\* A decision reaches the monitor without a restart: once the file says so, the
\* monitor's copy comes to say the same, unless the file changes again or does
\* not parse (the comment on the reload, cli.py).
DecisionTakesEffect ==
  \A m \in Macs, name \in Names \cup {None} :
    WithSelf(file)[m] = name /\ readable
      ~> view[m] = name \/ WithSelf(file)[m] # name \/ ~readable

=============================================================================
