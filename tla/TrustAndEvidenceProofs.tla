----------------------- MODULE TrustAndEvidenceProofs -----------------------
(***************************************************************************)
(* Proofs about the two things an operator's judgement rests on: what was  *)
(* decided about devices (TrustDecisions), and what hosts say about        *)
(* themselves (DiscoveryEvidence). The specifications share no variable;   *)
(* each part is about one of them.                                         *)
(*                                                                         *)
(* TrustDecisions, for any devices, names and number of editors: a         *)
(* decision is lost only to an editor that overlapped it, because the copy *)
(* of an editor that may still save agrees with the file, but for what     *)
(* others have decided about since.                                        *)
(*                                                                         *)
(* DiscoveryEvidence, for any messages, hosts, lifetimes and table sizes:  *)
(* what a response announces stays, what it replaces goes, nothing current *)
(* is pruned early, and nobody gets another's service. Three invariants    *)
(* carry this: devices seen at an address have used it; no row is newer    *)
(* than the message in hand; and what the records written so far announce  *)
(* is exactly as old as their message.                                     *)
(***************************************************************************)
EXTENDS TrustDecisions, DiscoveryEvidence, SequenceTheorems, FiniteSetTheorems, TLAPS

\* Editors that may write their copy back.
MaySave(e) == Running(e, "edit") \/ InReview(e)

CopiesAgree ==
  \A e \in Editors : MaySave(e) =>
    \A m \in Macs \ job[e].missed : job[e].copy[m] = file[m]

IInv == TypeOK /\ DecisionKept /\ CopiesAgree

-----------------------------------------------------------------------------
(* Types *)

LEMMA EntryTypes ==
  /\ NoEntries \in Entries
  /\ \A entries \in Entries : WithSelf(entries) \in Entries
  /\ \A entries \in Entries, m \in Macs, name \in Names \cup {None} :
       [entries EXCEPT ![m] = name] \in Entries
<1>1. (CHOOSE n \in Names : TRUE) \in Names
  BY TrustAssumption
<1> QED BY <1>1 DEF NoEntries, Entries, WithSelf

LEMMA JobTypes ==
  ASSUME NEW kind \in {"edit", "clear", "review", "delete", "reset"},
         NEW copy \in Entries, NEW queue \in SUBSET Macs
  PROVE  NewJob(kind, copy, queue) \in Jobs
BY DEF NewJob, Jobs

\* What an editor that runs holds, and what it may go on with.
LEMMA Held ==
  ASSUME TypeOK, NEW e \in Editors, job[e] # None
  PROVE  /\ job[e] \in Jobs
         /\ job[e].copy \in Entries /\ job[e].queue \subseteq Macs /\ job[e].missed \subseteq Macs
         /\ \A m \in Macs : Advanced(e, m) \in Jobs \cup {None}
         /\ \A macs \in SUBSET Macs : [job[e] EXCEPT !.missed = job[e].missed \cup macs] \in Jobs
BY DEF TypeOK, Jobs, Advanced

\* A device to clear the review of, if that is what a job does.
Clears(j) == j # None /\ j.kind = "clear" => j.clear \in Macs

LEMMA GoesTypes ==
  ASSUME TypeOK, NEW e \in Editors, NEW next \in Jobs \cup {None}, Clears(next), Goes(e, next)
  PROVE  /\ job' \in [Editors -> Jobs \cup {None}]
         /\ \A o \in Editors : Clears(job'[o])
BY DEF TypeOK, Goes, Clears, Running

LEMMA ChangedTypes ==
  ASSUME TypeOK, NEW e \in Editors \cup {None}, NEW next \in Jobs \cup {None}, Clears(next),
         NEW macs \in SUBSET Macs, Changed(e, macs, next)
  PROVE  /\ job' \in [Editors -> Jobs \cup {None}]
         /\ \A o \in Editors : Clears(job'[o])
<1> SUFFICES ASSUME NEW o \in Editors PROVE job'[o] \in Jobs \cup {None} /\ Clears(job'[o])
  BY DEF Changed
<1>1. CASE o = e
  BY <1>1 DEF Changed
<1>2. CASE o # e /\ ~Running(o, "edit") /\ ~InReview(o)
  BY <1>2 DEF Changed, TypeOK, Clears, Running
<1>3. CASE o # e /\ (Running(o, "edit") \/ InReview(o))
  <2>1. job'[o] = [job[o] EXCEPT !.missed = job[o].missed \cup macs] /\ job[o] # None
    BY <1>3 DEF Changed, InReview, Running
  <2>2. job[o] \in Jobs /\ job'[o] \in Jobs
    BY <2>1, Held
  <2>3. job'[o].kind = job[o].kind /\ job'[o].clear = job[o].clear
    BY <2>1, <2>2 DEF Jobs
  <2> QED BY <2>1, <2>2, <2>3 DEF TypeOK, Clears, Running
<1> QED BY <1>1, <1>2, <1>3

\* The parts of the type invariant that do not concern the jobs.
StoresOK ==
  /\ file \in Entries /\ view \in Entries /\ asked \in Entries
  /\ readable \in BOOLEAN
  /\ review \in [Macs -> States]
  /\ device \in [Macs -> {None, "online", "offline"}]
  /\ muddled \subseteq Macs

LEMMA TypeParts ==
  /\ TypeOK => StoresOK
  /\ /\ StoresOK'
     /\ job' \in [Editors -> Jobs \cup {None}]
     /\ \A e \in Editors : Clears(job'[e])
     => TypeOK'
BY DEF TypeOK, StoresOK, Clears, Running

LEMMA SaveTypes ==
  ASSUME TypeOK, NEW e \in Editors, NEW m \in Macs, NEW name \in Names \cup {None},
         NEW next \in Jobs \cup {None}, Clears(next), job[e] # None,
         Save(e, m, name, next), UNCHANGED <<view, review, device>>
  PROVE  TypeOK'
<1>1. job[e].copy \in Entries /\ job[e].missed \subseteq Macs
  BY Held
<1>2. StoresOK'
  BY <1>1, EntryTypes DEF Save, TypeOK, StoresOK
<1>3. job' \in [Editors -> Jobs \cup {None}] /\ \A o \in Editors : Clears(job'[o])
  BY <1>1, ChangedTypes DEF Save
<1> QED BY <1>2, <1>3, TypeParts

\* An editor goes on, and nothing else changes but reviews or devices.
LEMMA GoesOn ==
  ASSUME TypeOK, NEW e \in Editors, NEW next \in Jobs \cup {None}, Clears(next), Goes(e, next),
         UNCHANGED <<stored, view>>,
         review' \in [Macs -> States], device' \in [Macs -> {None, "online", "offline"}]
  PROVE  TypeOK'
BY TypeParts, GoesTypes DEF StoresOK, stored

LEMMA TypeInit == Init => TypeOK
BY EntryTypes DEF Init, TypeOK, States, Running, Entries

LEMMA EditTypes ==
  ASSUME TypeOK, NEW e \in Editors, Edits(e)
  PROVE  TypeOK'
<1> USE DEF TypeOK
<1>1. CASE Open(e)
  <2>1. NewJob("edit", file, {}) \in Jobs /\ Clears(NewJob("edit", file, {}))
    BY JobTypes DEF NewJob, Clears
  <2> QED BY <1>1, <2>1, GoesOn DEF Open
<1>2. ASSUME NEW m \in Macs, NEW name \in Names, NEW clears \in BOOLEAN, Trust(e, m, name, clears)
      PROVE  TypeOK'
  <2> DEFINE next == IF clears THEN [NewJob("clear", NoEntries, {}) EXCEPT !.clear = m] ELSE None
  <2>1. next \in Jobs \cup {None} /\ Clears(next)
    BY EntryTypes, JobTypes DEF NewJob, Clears, Jobs
  <2>2. Save(e, m, name, next) /\ job[e] # None /\ UNCHANGED <<view, review, device>>
    BY <1>2 DEF Trust, Running
  <2> HIDE DEF next, TypeOK
  <2> QED BY <2>1, <2>2, SaveTypes
<1>3. ASSUME NEW m \in Macs, Untrust(e, m) PROVE TypeOK'
  <2>1. None \in Jobs \cup {None} /\ Clears(None) /\ None \in Names \cup {None}
    BY DEF Clears
  <2>2. CASE Ends(e) /\ UNCHANGED stored
    BY <1>3, <2>1, <2>2, GoesOn DEF Untrust, Ends
  <2>3. CASE Save(e, m, None, None)
    BY <1>3, <2>1, <2>3, SaveTypes DEF Untrust, Running
  <2> QED BY <1>3, <2>2, <2>3 DEF Untrust
<1>4. CASE ClearReview(e)
  <2> DEFINE next == IF job[e].queue = {} THEN None
                     ELSE [job[e] EXCEPT !.kind = "review", !.clear = None]
  <2>1. job[e] \in Jobs
    BY <1>4, Held DEF ClearReview, Running
  <2>2. next \in Jobs \cup {None} /\ Clears(next)
    BY <2>1 DEF Jobs, Clears
  <2>3. review' \in [Macs -> States]
    BY <1>4 DEF ClearReview, States
  <2> QED BY <1>4, <2>2, <2>3, GoesOn DEF ClearReview
<1>5. CASE Cancel(e)
  BY <1>5, GoesOn DEF Cancel, Ends, Clears
<1> QED BY <1>1, <1>2, <1>3, <1>4, <1>5 DEF Edits

\* The device at hand leaves the queue of a session or a deletion.
LEMMA Advances ==
  ASSUME TypeOK, NEW e \in Editors, NEW m \in Macs,
         Running(e, "review") \/ Running(e, "delete")
  PROVE  Advanced(e, m) \in Jobs \cup {None} /\ Clears(Advanced(e, m))
<1>1. job[e] \in Jobs /\ job[e].kind # "clear"
  BY Held DEF Running
<1> QED BY <1>1 DEF Advanced, Jobs, Clears

LEMMA ReviewTypes ==
  ASSUME TypeOK, NEW e \in Editors, Reviews(e)
  PROVE  TypeOK'
<1>0. review \in [Macs -> States] /\ device \in [Macs -> {None, "online", "offline"}]
  BY DEF TypeOK
<1>1. CASE StartReview(e)
  <2> DEFINE queue == {m \in Macs : ReviewNeeded(m, WithSelf(file))}
  <2>1. NewJob("review", Copied(file), queue) \in Jobs
    BY JobTypes DEF TypeOK, Copied
  <2>2. Clears(NewJob("review", Copied(file), queue))
    BY DEF NewJob, Clears
  <2> QED BY <1>0, <1>1, <2>1, <2>2, GoesOn DEF StartReview
<1>2. ASSUME NEW m \in Macs, NEW name \in Names, TrustInReview(e, m, name) PROVE TypeOK'
  <2> DEFINE next == [job[e] EXCEPT !.kind = "clear", !.clear = m, !.queue = job[e].queue \ {m},
                                    !.copy = [job[e].copy EXCEPT ![m] = name]]
  <2>1. job[e] \in Jobs /\ job[e] # None /\ job[e].copy \in Entries /\ job[e].queue \subseteq Macs
    BY <1>2, Held DEF TrustInReview, Running
  <2>2. [job[e].copy EXCEPT ![m] = name] \in Entries
    BY <2>1, EntryTypes
  <2>3. next \in Jobs /\ Clears(next)
    BY <2>1, <2>2 DEF Jobs, Clears
  <2>4. Save(e, m, name, next) /\ UNCHANGED <<view, review, device>>
    BY <1>2 DEF TrustInReview
  <2> HIDE DEF next
  <2> QED BY <2>1, <2>3, <2>4, SaveTypes
<1>3. ASSUME NEW m \in Macs, NEW state \in {"snoozed", "investigating"}, MarkInReview(e, m, state)
      PROVE  TypeOK'
  <2>1. review' \in [Macs -> States]
    BY <1>0, <1>3 DEF MarkInReview, States
  <2> QED BY <1>0, <1>3, <2>1, Advances, GoesOn DEF MarkInReview
<1>4. ASSUME NEW m \in Macs, Skip(e, m) PROVE TypeOK'
  BY <1>0, <1>4, Advances, GoesOn DEF Skip
<1> QED BY <1>1, <1>2, <1>3, <1>4 DEF Reviews

LEMMA DeleteTypes ==
  ASSUME TypeOK, NEW e \in Editors, Deletes(e)
  PROVE  TypeOK'
<1>0. review \in [Macs -> States] /\ device \in [Macs -> {None, "online", "offline"}]
  BY DEF TypeOK
<1>1. CASE StartDelete(e)
  <2> DEFINE targets == {m \in Macs : /\ review[m] = "pending" /\ device[m] = "offline"
                                      /\ WithSelf(file)[m] = None}
  <2>1. NewJob("delete", NoEntries, targets) \in Jobs
    BY EntryTypes, JobTypes
  <2>2. Clears(NewJob("delete", NoEntries, targets))
    BY DEF NewJob, Clears
  <2> QED BY <1>0, <1>1, <2>1, <2>2, GoesOn DEF StartDelete
<1>2. ASSUME NEW m \in Macs, Delete(e, m) PROVE TypeOK'
  <2>1. review' \in [Macs -> States] /\ device' \in [Macs -> {None, "online", "offline"}]
    BY <1>0, <1>2 DEF Delete, States
  <2> QED BY <1>2, <2>1, Advances, GoesOn DEF Delete
<1>3. ASSUME NEW keep \in BOOLEAN, Reset(e, keep) PROVE TypeOK'
  <2> DEFINE next == IF keep THEN None ELSE NewJob("reset", NoEntries, {})
  <2>1. next \in Jobs \cup {None} /\ Clears(next)
    BY EntryTypes, JobTypes DEF NewJob, Clears
  <2>2. review' \in [Macs -> States] /\ device' \in [Macs -> {None, "online", "offline"}]
    BY <1>3 DEF Reset, States
  <2> QED BY <1>3, <2>1, <2>2, GoesOn DEF Reset
<1>4. CASE ClearFile(e)
  <2>1. job' \in [Editors -> Jobs \cup {None}] /\ \A o \in Editors : Clears(job'[o])
    BY <1>4, ChangedTypes DEF ClearFile, Clears
  <2>2. StoresOK'
    BY <1>4, EntryTypes DEF ClearFile, TypeOK, StoresOK
  <2> QED BY <2>1, <2>2, TypeParts
<1> QED BY <1>1, <1>2, <1>3, <1>4 DEF Deletes

LEMMA OutsideTypes ==
  ASSUME TypeOK, Outside \/ Reload
  PROVE  TypeOK'
<1>1. ASSUME NEW m \in OnLan, NEW state \in {"snoozed", "investigating", "pending"}, Mark(m, state)
      PROVE  TypeOK'
  BY <1>1 DEF Mark, stored, TypeOK, States, Running
<1>2. ASSUME NEW m \in Macs, SnoozeEnds(m) PROVE TypeOK'
  BY <1>2 DEF SnoozeEnds, stored, TypeOK, States, Running
<1>3. ASSUME NEW m \in Macs, NEW name \in Names \cup {None}, HandEdit(m, name) PROVE TypeOK'
  <2>1. job' \in [Editors -> Jobs \cup {None}] /\ \A o \in Editors : Clears(job'[o])
    BY <1>3, ChangedTypes DEF HandEdit, Clears
  <2>2. StoresOK'
    BY <1>3, EntryTypes DEF HandEdit, TypeOK, StoresOK
  <2> QED BY <2>1, <2>2, TypeParts
<1>4. CASE Garble
  BY <1>4 DEF Garble, TypeOK, Running
<1>5. ASSUME NEW m \in OnLan, NEW status \in {"online", "offline"}, Seen(m, status) PROVE TypeOK'
  BY <1>5 DEF Seen, stored, TypeOK, Running
<1>6. CASE Reload
  BY <1>6, EntryTypes DEF Reload, Reloaded, stored, TypeOK, Running
<1> QED BY <1>1, <1>2, <1>3, <1>4, <1>5, <1>6 DEF Outside

LEMMA TypeStep ==
  ASSUME TypeOK, [Next]_vars
  PROVE  TypeOK'
<1>1. CASE UNCHANGED vars
  BY <1>1 DEF vars, stored, TypeOK, Running
<1> QED BY <1>1, EditTypes, ReviewTypes, DeleteTypes, OutsideTypes DEF Next

\* The file, the copies and the tables keep their types.
THEOREM TypeCorrect == Spec => []TypeOK
<1>1. TypeOK /\ [Next]_vars => TypeOK'
  BY TypeStep
<1> QED BY TypeInit, <1>1, PTL DEF Spec

-----------------------------------------------------------------------------
(* What an editor that may still save knows *)

\* What an editor goes on with holds no more than it knows of the file.
Agrees(j) ==
  j # None /\ (j.kind \in {"edit", "review"} \/ (j.kind = "clear" /\ j.queue # {})) =>
    \A m \in Macs \ j.missed : j.copy[m] = file[m]

LEMMA AgreeParts ==
  CopiesAgree <=> \A e \in Editors : Agrees(job[e])
BY DEF CopiesAgree, MaySave, InReview, Running, Agrees

\* An editor goes on with a copy that agrees with the file.
LEMMA GoesAgree ==
  ASSUME IInv, NEW e \in Editors, NEW next, Agrees(next), Goes(e, next), UNCHANGED stored
  PROVE  DecisionKept' /\ CopiesAgree'
<1>1. \A o \in Editors : job'[o] = job[o] \/ job'[o] = next
  BY DEF Goes, IInv, TypeOK
<1>2. \A o \in Editors : Agrees(job[o])
  BY AgreeParts DEF IInv
<1>3. \A o \in Editors : Agrees(job[o])'
  BY <1>1, <1>2 DEF Agrees, stored
<1>4. CopiesAgree'
  BY <1>3 DEF CopiesAgree, MaySave, InReview, Running, Agrees
<1>5. DecisionKept'
  BY DEF IInv, DecisionKept, stored
<1> QED BY <1>4, <1>5

\* Decisions about "macs" are made in the file: others are told to have missed
\* them, and what they have not missed is as it was.
LEMMA ChangedAgree ==
  ASSUME IInv, NEW e, NEW next, NEW macs \in SUBSET Macs, Changed(e, macs, next),
         \A m \in Macs \ macs : file'[m] = file[m],
         e \in Editors => Agrees(next)'
  PROVE  CopiesAgree'
<1> SUFFICES ASSUME NEW o \in Editors PROVE Agrees(job[o])'
  BY DEF CopiesAgree, MaySave, InReview, Running, Agrees
<1>1. Agrees(job[o])
  BY AgreeParts DEF IInv
<1>2. CASE o = e
  BY <1>2 DEF Changed, Agrees
<1>3. CASE o # e /\ ~Running(o, "edit") /\ ~InReview(o)
  BY <1>3 DEF Changed, Agrees, InReview, Running
<1>4. CASE o # e /\ (Running(o, "edit") \/ InReview(o))
  <2>1. job'[o] = [job[o] EXCEPT !.missed = job[o].missed \cup macs] /\ job[o] # None
    BY <1>4 DEF Changed, InReview, Running
  <2>2. job[o] \in Jobs
    BY <2>1, Held DEF IInv
  <2>3. /\ job'[o].copy = job[o].copy /\ job'[o].missed = job[o].missed \cup macs
        /\ job'[o].kind = job[o].kind /\ job'[o].queue = job[o].queue
    BY <2>1, <2>2 DEF Jobs
  <2> QED BY <1>1, <2>1, <2>3 DEF Agrees
<1> QED BY <1>2, <1>3, <1>4

\* A save makes its own decision, keeps what its copy holds, and muddles the
\* decisions that the copy has missed.
LEMMA SaveAgrees ==
  ASSUME IInv, NEW e \in Editors, MaySave(e), NEW m \in Macs, NEW name \in Names \cup {None},
         NEW next, Save(e, m, name, next), Agrees(next)'
  PROVE  DecisionKept' /\ CopiesAgree'
<1>1. TypeOK /\ job[e] # None
  BY DEF IInv, MaySave, InReview, Running
<1>2. job[e].copy \in Entries /\ job[e].missed \subseteq Macs
  BY <1>1, Held
<1>3. \A n \in Macs \ job[e].missed : job[e].copy[n] = file[n]
  BY DEF IInv, CopiesAgree
<1>4. file'[m] = name /\ \A n \in Macs \ {m} : file'[n] = job[e].copy[n]
  BY <1>2 DEF Save, Entries
<1>5. CopiesAgree'
  <2>1. \A n \in Macs \ (job[e].missed \cup {m}) : file'[n] = file[n]
    BY <1>3, <1>4
  <2> QED BY <1>2, <2>1, ChangedAgree DEF Save
<1>6. asked'[m] = name /\ \A n \in Macs \ {m} : asked'[n] = asked[n]
  BY <1>1 DEF Save, TypeOK, Entries
<1>7. DecisionKept'
  BY <1>3, <1>4, <1>6 DEF Save, DecisionKept, IInv
<1> QED BY <1>5, <1>7

LEMMA EditsKeep ==
  ASSUME IInv, NEW e \in Editors, Edits(e)
  PROVE  DecisionKept' /\ CopiesAgree'
<1>0. Agrees(None) /\ Agrees(None)' /\ None \in Names \cup {None}
  BY DEF Agrees
<1>1. CASE Open(e)
  <2>1. Agrees(NewJob("edit", file, {}))
    BY DEF NewJob, Agrees
  <2> QED BY <1>1, <2>1, GoesAgree DEF Open
<1>2. ASSUME NEW m \in Macs, NEW name \in Names, NEW clears \in BOOLEAN, Trust(e, m, name, clears)
      PROVE  DecisionKept' /\ CopiesAgree'
  <2> DEFINE next == IF clears THEN [NewJob("clear", NoEntries, {}) EXCEPT !.clear = m] ELSE None
  <2>1. Agrees(next)'
    BY DEF NewJob, Agrees
  <2>2. MaySave(e) /\ Save(e, m, name, next)
    BY <1>2 DEF Trust, MaySave
  <2> HIDE DEF next
  <2> QED BY <2>1, <2>2, SaveAgrees
<1>3. ASSUME NEW m \in Macs, Untrust(e, m) PROVE DecisionKept' /\ CopiesAgree'
  BY <1>0, <1>3, GoesAgree, SaveAgrees DEF Untrust, Ends, MaySave
<1>4. CASE ClearReview(e)
  <2> DEFINE next == IF job[e].queue = {} THEN None
                     ELSE [job[e] EXCEPT !.kind = "review", !.clear = None]
  <2>1. job[e] \in Jobs /\ Agrees(job[e]) /\ job[e] # None /\ job[e].kind = "clear"
    BY <1>4, Held, AgreeParts DEF ClearReview, Running, IInv
  <2>2. Agrees(next)
    BY <1>0, <2>1 DEF Jobs, Agrees
  <2> QED BY <1>4, <2>2, GoesAgree DEF ClearReview
<1>5. CASE Cancel(e)
  BY <1>0, <1>5, GoesAgree DEF Cancel, Ends
<1> QED BY <1>1, <1>2, <1>3, <1>4, <1>5 DEF Edits

LEMMA AdvancesAgree ==
  ASSUME IInv, NEW e \in Editors, NEW m \in Macs, job[e] # None
  PROVE  Running(e, "review") \/ Running(e, "delete") => Agrees(Advanced(e, m))
<1>1. job[e] \in Jobs /\ Agrees(job[e])
  BY Held, AgreeParts DEF IInv
<1> QED BY <1>1 DEF Advanced, Jobs, Agrees, Running

LEMMA ReviewsKeep ==
  ASSUME IInv, NEW e \in Editors, Reviews(e)
  PROVE  DecisionKept' /\ CopiesAgree'
<1>1. CASE StartReview(e)
  <2> DEFINE next == NewJob("review", Copied(file), {m \in Macs : ReviewNeeded(m, WithSelf(file))})
  <2>1. Agrees(next)
    BY DEF NewJob, Agrees, Copied
  <2> QED BY <1>1, <2>1, GoesAgree DEF StartReview
<1>2. ASSUME NEW m \in Macs, NEW name \in Names, TrustInReview(e, m, name)
      PROVE  DecisionKept' /\ CopiesAgree'
  <2> DEFINE next == [job[e] EXCEPT !.kind = "clear", !.clear = m, !.queue = job[e].queue \ {m},
                                    !.copy = [job[e].copy EXCEPT ![m] = name]]
  <2>1. MaySave(e) /\ Save(e, m, name, next) /\ job[e] # None
    BY <1>2 DEF TrustInReview, MaySave, InReview, Running
  <2>2. job[e] \in Jobs
    BY <2>1, Held DEF IInv
  <2>3. next.copy = [job[e].copy EXCEPT ![m] = name]
    BY <2>2 DEF Jobs
  <2>4. file' = [job[e].copy EXCEPT ![m] = name]
    BY <2>1 DEF Save
  <2>5. PICK n : n = next
    OBVIOUS
  <2> HIDE DEF next
  <2>6. n.copy = file' /\ Save(e, m, name, n)
    BY <2>1, <2>3, <2>4, <2>5
  <2>7. Agrees(n)'
    BY <2>6 DEF Agrees
  <2> QED BY <2>1, <2>6, <2>7, SaveAgrees
<1>3. ASSUME NEW m \in Macs, NEW state \in {"snoozed", "investigating"}, MarkInReview(e, m, state)
      PROVE  DecisionKept' /\ CopiesAgree'
  BY <1>3, AdvancesAgree, GoesAgree DEF MarkInReview, Running
<1>4. ASSUME NEW m \in Macs, Skip(e, m) PROVE DecisionKept' /\ CopiesAgree'
  BY <1>4, AdvancesAgree, GoesAgree DEF Skip, Running
<1> QED BY <1>1, <1>2, <1>3, <1>4 DEF Reviews

LEMMA DeletesKeep ==
  ASSUME IInv, NEW e \in Editors, Deletes(e)
  PROVE  DecisionKept' /\ CopiesAgree'
<1>1. CASE StartDelete(e)
  BY <1>1, GoesAgree DEF StartDelete, NewJob, Agrees
<1>2. ASSUME NEW m \in Macs, Delete(e, m) PROVE DecisionKept' /\ CopiesAgree'
  <2>1. UNCHANGED stored
    BY <1>2 DEF Delete
  <2> QED BY <1>2, <2>1, AdvancesAgree, GoesAgree DEF Delete, Running
<1>3. ASSUME NEW keep \in BOOLEAN, Reset(e, keep) PROVE DecisionKept' /\ CopiesAgree'
  <2> DEFINE next == IF keep THEN None ELSE NewJob("reset", NoEntries, {})
  <2>1. Agrees(next)
    BY DEF NewJob, Agrees
  <2>2. Goes(e, next) /\ UNCHANGED stored
    BY <1>3 DEF Reset
  <2> HIDE DEF next
  <2> QED BY <2>1, <2>2, GoesAgree
<1>4. CASE ClearFile(e)
  <2>1. Agrees(None)'
    BY DEF Agrees
  <2>2. CopiesAgree'
    BY <1>4, <2>1, ChangedAgree DEF ClearFile
  <2>3. DecisionKept'
    BY <1>4 DEF ClearFile, DecisionKept
  <2> QED BY <2>2, <2>3
<1> QED BY <1>1, <1>2, <1>3, <1>4 DEF Deletes

LEMMA OutsideKeeps ==
  ASSUME IInv, Outside \/ Reload
  PROVE  DecisionKept' /\ CopiesAgree'
<1>1. ASSUME file' = file, asked' = asked, muddled' = muddled, job' = job
      PROVE  DecisionKept' /\ CopiesAgree'
  BY <1>1 DEF IInv, DecisionKept, CopiesAgree, MaySave, InReview, Running
<1>2. ASSUME NEW m \in Macs, NEW name \in Names \cup {None}, HandEdit(m, name)
      PROVE  DecisionKept' /\ CopiesAgree'
  <2>1. CopiesAgree'
    <3>1. \A n \in Macs \ {m} : file'[n] = file[n]
      BY <1>2 DEF HandEdit, IInv, TypeOK, Entries
    <3> QED BY <1>2, <3>1, ChangedAgree, TrustAssumption DEF HandEdit
  <2>2. DecisionKept'
    BY <1>2 DEF HandEdit, IInv, TypeOK, Entries, DecisionKept
  <2> QED BY <2>1, <2>2
<1>3. ASSUME \A m \in Macs, name \in Names \cup {None} : ~HandEdit(m, name)
      PROVE  file' = file /\ asked' = asked /\ muddled' = muddled /\ job' = job
  BY <1>3 DEF Outside, Mark, SnoozeEnds, Garble, Seen, Reload, stored
<1> QED BY <1>1, <1>2, <1>3

\* The types, that decisions are kept, and that copies agree with the file,
\* hold at the start and are kept by every step.
THEOREM Inductive ==
  /\ Init => IInv
  /\ IInv /\ [Next]_vars => IInv'
<1>1. Init => IInv
  BY TypeInit DEF Init, IInv, DecisionKept, CopiesAgree, MaySave, InReview, Running
<1>2. ASSUME IInv, [Next]_vars PROVE IInv'
  <2>1. TypeOK'
    BY <1>2, TypeStep DEF IInv
  <2>2. CASE UNCHANGED vars
    BY <1>2, <2>2 DEF vars, stored, IInv, TypeOK, DecisionKept, CopiesAgree, MaySave, InReview,
                      Running
  <2>3. CASE Next
    BY <1>2, <2>1, <2>3, EditsKeep, ReviewsKeep, DeletesKeep, OutsideKeeps DEF Next, IInv
  <2> QED BY <1>2, <2>2, <2>3
<1> QED BY <1>1, <1>2

\* What the operator decided about a device stays in the file until the next
\* decision about it, but for decisions made while another editor, who then
\* saved, held a copy of the file (Allowlist.load and save).
THEOREM DecisionIsKept == Spec => []DecisionKept
<1>1. IInv => DecisionKept
  BY DEF IInv
<1> QED BY Inductive, <1>1, PTL DEF Spec

-----------------------------------------------------------------------------
(* DiscoveryEvidence: what a message becomes *)

\* Counted from the least one, a finite set of numbers has an n-th.
LEMMA NthExists ==
  ASSUME NEW S \in SUBSET Nat, IsFiniteSet(S), NEW n \in 1..Cardinality(S)
  PROVE  \E i \in S : Cardinality({j \in S : j <= i}) = n
<1> DEFINE Upto(i) == {j \in S : j <= i}
           rank == [i \in S |-> Cardinality(Upto(i))]
           T == 1..Cardinality(S)
<1>1. Cardinality(S) \in Nat
  BY FS_CardinalityType
<1>2. ASSUME NEW i \in S
      PROVE  IsFiniteSet(Upto(i)) /\ Cardinality(Upto(i)) \in T
  <2>1. Upto(i) \in SUBSET S /\ i \in Upto(i)
    OBVIOUS
  <2> HIDE DEF Upto
  <2>2. IsFiniteSet(Upto(i)) /\ Cardinality(Upto(i)) <= Cardinality(S)
    BY <2>1, FS_Subset
  <2>3. Cardinality(Upto(i)) \in Nat /\ Cardinality(Upto(i)) # 0
    BY <2>1, <2>2, FS_CardinalityType, FS_EmptySet
  <2> QED
    BY <1>1, <2>2, <2>3
<1>3. ASSUME NEW i \in S, NEW j \in S, i < j
      PROVE  Cardinality(Upto(i)) # Cardinality(Upto(j))
  <2>1. Upto(i) \in SUBSET Upto(j) /\ j \in Upto(j) /\ j \notin Upto(i)
    <3>1. i \in Nat /\ j \in Nat /\ \A x \in S : x \in Nat
      OBVIOUS
    <3>2. \A x \in S : x <= i => x <= j
      BY <1>3, <3>1
    <3>3. j <= j /\ ~(j <= i)
      BY <1>3, <3>1
    <3> QED
      BY <3>2, <3>3
  <2>2. IsFiniteSet(Upto(j))
    BY <1>2
  <2> HIDE DEF Upto
  <2>3. Upto(i) # Upto(j)
    BY <2>1
  <2> QED
    BY <2>1, <2>2, <2>3, FS_Subset
<1> HIDE DEF Upto
<1>4. rank \in [S -> T]
  BY <1>2
<1>5. \A i, j \in S : rank[i] = rank[j] => i = j
  <2> SUFFICES ASSUME NEW i \in S, NEW j \in S, rank[i] = rank[j], i # j PROVE FALSE
    OBVIOUS
  <2>1. i < j \/ j < i
    OBVIOUS
  <2> QED
    BY <1>3, <2>1
<1>6. rank \in Injection(S, T)
  BY <1>4, <1>5 DEF Injection, IsInjective
<1>7. IsFiniteSet(T) /\ Cardinality(T) = Cardinality(S)
  BY <1>1, FS_Interval
<1>8. rank \in Surjection(S, T)
  BY <1>6, <1>7, FS_Injection
<1>9. \E i \in S : rank[i] = n
  BY <1>8 DEF Surjection
<1> QED
  BY <1>9 DEF Upto

\* What a message of a protocol may say.
Records(q) ==
  [key : {k \in Keys : k.table = "ssdp" <=> q = "ssdp"}, ttl : 0..MaxTtl, flush : BOOLEAN]

\* Whatever is passed over, the rest of a message is a sequence of records.
LEMMA MdnsParsed ==
  ASSUME NEW m \in Messages, m.protocol = "mdns"
  PROVE  ParsedMdns(m) \in Seq(Records("mdns"))
<1> DEFINE read == {i \in DOMAIN m.records : i <= MaxRecords /\ Usable(m.records[i])}
           nth(n) == CHOOSE i \in read : Cardinality({j \in read : j <= i}) = n
           said == [n \in 1..Cardinality(read) |->
                      [key |-> m.records[nth(n)].key, ttl |-> m.records[nth(n)].ttl,
                       flush |-> m.records[nth(n)].flush]]
<1>1. /\ Len(m.records) \in Nat /\ DOMAIN m.records = 1..Len(m.records)
      /\ \A i \in DOMAIN m.records : Usable(m.records[i]) =>
            /\ m.records[i].key \in Keys /\ m.records[i].key.table # "ssdp"
            /\ m.records[i].ttl \in 0..MaxTtl /\ m.records[i].flush \in BOOLEAN
  BY MessageAssumption
<1>2. read \in SUBSET Nat /\ IsFiniteSet(read)
  <2>1. read \in SUBSET (1..Len(m.records))
    BY <1>1
  <2>2. IsFiniteSet(1..Len(m.records))
    BY <1>1, FS_Interval
  <2> QED
    BY <1>1, <2>1, <2>2, FS_Subset
<1>3. \A i \in read : [key |-> m.records[i].key, ttl |-> m.records[i].ttl,
                       flush |-> m.records[i].flush] \in Records("mdns")
  BY <1>1 DEF Records
<1> HIDE DEF read
<1>4. \A n \in 1..Cardinality(read) : nth(n) \in read
  BY <1>2, NthExists
<1>5. said \in [1..Cardinality(read) -> Records("mdns")]
  <2> HIDE DEF nth
  <2> QED BY <1>3, <1>4
<1>6. Cardinality(read) \in Nat
  BY <1>2, FS_CardinalityType
<1>7. said \in Seq(Records("mdns"))
  <2> HIDE DEF said
  <2> QED BY <1>5, <1>6
<1>8. ParsedMdns(m) = <<>> \/ ParsedMdns(m) = said
  BY DEF ParsedMdns, read
<1>9. <<>> \in Seq(Records("mdns"))
  OBVIOUS
<1> QED
  BY <1>7, <1>8, <1>9

\* An SSDP message becomes one record or none, with a bounded lifetime.
LEMMA SsdpParsed ==
  ASSUME NEW m \in Messages, m.protocol = "ssdp"
  PROVE  ParsedSsdp(m) \in Seq(Records("ssdp"))
<1>1. m.key \in Keys /\ m.key.table = "ssdp" /\ m.maxAge \in Nat \cup {NoAge}
  BY MessageAssumption
<1>2. SsdpLifetime(m.maxAge) \in 0..MaxTtl
  BY <1>1, TimeAssumption, TableAssumption DEF SsdpLifetime, NoAge
<1>3. PICK ttl \in 0..MaxTtl : ParsedSsdp(m) \in {<<>>, <<[key |-> m.key, flush |-> FALSE, ttl |-> ttl]>>}
  <2>1. 0 \in 0..MaxTtl
    BY TableAssumption
  <2> HIDE DEF SsdpLifetime
  <2> QED
    BY <1>2, <2>1 DEF ParsedSsdp
<1>4. PICK r \in Records("ssdp") : r = [key |-> m.key, flush |-> FALSE, ttl |-> ttl]
  BY <1>1 DEF Records
<1>5. <<>> \in Seq(Records("ssdp")) /\ <<r>> \in Seq(Records("ssdp"))
  OBVIOUS
<1> QED
  BY <1>3, <1>4, <1>5

\* A message becomes records about the tables of its protocol.
LEMMA ParsedType ==
  ASSUME NEW m \in Messages
  PROVE  m.protocol \in Protocols /\ Parsed(m) \in Seq(Records(m.protocol))
<1>1. m.protocol = "mdns" \/ m.protocol = "ssdp"
  BY MessageAssumption
<1>2. CASE m.protocol = "mdns"
  BY <1>2, MdnsParsed DEF Parsed, Protocols
<1>3. CASE m.protocol = "ssdp"
  BY <1>3, SsdpParsed DEF Parsed, Protocols
<1> QED
  BY <1>1, <1>2, <1>3

-----------------------------------------------------------------------------
(* Types *)

\* Types of the tables, of the message in hand and of the evidence.
EvidenceTypes ==
  /\ rows \in [Keys -> Row \cup {NoRow}]
  /\ message \in [records : Seq(Records("mdns")) \cup Seq(Records("ssdp")),
                  done : Nat, lag : 0..MaxLag]
  /\ message.done <= Len(message.records)
  /\ newest \in [Protocols -> 0..MaxLag]
  /\ evidence \subseteq AddressRow

\* The bounds on times are numbers, and ages saturate above the thresholds.
LEMMA Times ==
  /\ MaxLag \in Nat /\ Grace \in Nat /\ Retention \in Nat /\ AgeCap \in Nat /\ MaxTtl \in Nat
  /\ MaxLag + Retention < AgeCap /\ MaxLag + Grace < AgeCap
BY TimeAssumption, TableAssumption

\* A row is not the absence of one, and what is ended is still a row.
LEMMA InTheTables ==
  ASSUME NEW k \in Keys, NEW r, r \in Row
  PROVE  /\ r # NoRow /\ r.seen \in Ages /\ r.left \in Lefts /\ r.withdrawn \in BOOLEAN
         /\ \A seen \in Ages : Ended(seen) \in Row
BY Times, TableAssumption DEF Row, Ended, Lefts, Over

\* The record that is about to be written.
LEMMA InHandIs ==
  ASSUME EvidenceTypes, InHand, NEW r, r = message.records[message.done + 1]
  PROVE  /\ r.key \in Keys /\ r.ttl \in 0..MaxTtl /\ r.flush \in BOOLEAN
         /\ message.done + 1 \in 1..Len(message.records)
<1>1. PICK q : message.records \in Seq(Records(q))
  BY DEF EvidenceTypes
<1>2. message.done \in Nat /\ Len(message.records) \in Nat
  BY <1>1, LenProperties DEF EvidenceTypes
<1>3. message.done + 1 \in 1..Len(message.records)
  BY <1>2 DEF InHand
<1>4. r \in Records(q)
  BY <1>1, <1>3, ElementOfSeq
<1> QED
  BY <1>3, <1>4 DEF Records

\* What writing a record makes of each row that it leaves.
Stays(k, r) ==
  /\ k # r.key /\ rows'[k] = rows[k]
  /\ r.ttl > 0 /\ r.flush /\ Sibling(k, r.key) => rows[k].seen <= message.lag + Grace

IsFlushed(k, r) ==
  /\ k # r.key /\ rows[k] # NoRow /\ r.ttl > 0 /\ r.flush /\ Sibling(k, r.key)
  /\ rows[k].seen > message.lag + Grace /\ rows'[k] = Ended(rows[k].seen)

IsWithdrawn(k, r) ==
  /\ SameRow(k, r.key) /\ r.ttl = 0 /\ rows[k] # NoRow
  /\ rows'[k] = Ended(IF k.table = "ssdp" THEN message.lag ELSE rows[k].seen)

IsWritten(k, r) ==
  /\ k = r.key /\ r.ttl > 0
  /\ rows'[k] = [seen |-> message.lag, left |-> r.ttl - message.lag, withdrawn |-> FALSE]

\* A goodbye touches its own row only, and neither makes nor deletes one.
LEMMA WithdrawnRows ==
  ASSUME EvidenceTypes, NEW r, r.key \in Keys, r.ttl = 0,
         rows' = Withdrawn(rows, r.key, message.lag), NEW k \in Keys
  PROVE  /\ rows'[k] = NoRow <=> rows[k] = NoRow
         /\ rows'[k] # NoRow => (k # r.key /\ rows'[k] = rows[k]) \/ IsWithdrawn(k, r)
         /\ DOMAIN rows' = Keys
<1> DEFINE key == r.key
           seen == IF k.table = "ssdp" THEN message.lag ELSE rows[k].seen
<1>1. rows \in [Keys -> Row \cup {NoRow}] /\ message.lag \in Ages
  BY Times DEF EvidenceTypes, Ages
<1>2. /\ DOMAIN rows' = Keys
      /\ SameRow(k, key) /\ rows[k] # NoRow => rows'[k] = Ended(seen)
      /\ ~(SameRow(k, key) /\ rows[k] # NoRow) => rows'[k] = rows[k]
  BY DEF Withdrawn
<1>3. CASE SameRow(k, key) /\ rows[k] # NoRow
  <2>1. rows[k] \in Row
    BY <1>1, <1>3
  <2>2. rows[k].seen \in Ages
    BY <2>1 DEF Row
  <2>3. seen \in Ages
    BY <1>1, <2>2
  <2>4. rows'[k] = Ended(seen) /\ IsWithdrawn(k, r)
    BY <1>2, <1>3 DEF IsWithdrawn
  <2> HIDE DEF seen
  <2>5. Ended(seen) # NoRow
    BY <2>1, <2>3, InTheTables
  <2> QED
    BY <1>2, <1>3, <2>4, <2>5
<1>4. CASE ~(SameRow(k, key) /\ rows[k] # NoRow)
  <2>1. k = key => rows[k] = NoRow
    BY <1>4 DEF SameRow
  <2> QED
    BY <1>2, <1>4, <2>1
<1> QED
  BY <1>3, <1>4

\* The table as it is before anything is pruned.
Flushable(r) ==
  LET upserted == Upserted(rows, r.key, r.ttl, message.lag)
  IN IF r.flush /\ r.key.table = "addr" THEN Flushed(upserted, r.key, message.lag) ELSE upserted

\* Before pruning, a record has made its row new, in place of what that said, and
\* ended the siblings that are past the grace; all other rows are as they were.
LEMMA FlushedRows ==
  ASSUME EvidenceTypes, NEW r, r.key \in Keys, r.ttl \in 1..MaxTtl, r.flush \in BOOLEAN,
         NEW table, table = Flushable(r), NEW k \in Keys
  PROVE  /\ DOMAIN table = Keys
         /\ k = r.key => table[k] = [seen |-> message.lag, left |-> r.ttl - message.lag,
                                     withdrawn |-> FALSE]
         /\ k # r.key /\ SameRow(k, r.key) => table[k] = NoRow
         /\ k # r.key /\ ~SameRow(k, r.key) =>
               IF /\ r.flush /\ Sibling(k, r.key) /\ rows[k] # NoRow
                  /\ rows[k].seen > message.lag + Grace
               THEN table[k] = Ended(rows[k].seen)
               ELSE table[k] = rows[k]
<1> DEFINE key == r.key
           new == [seen |-> message.lag, left |-> r.ttl - message.lag, withdrawn |-> FALSE]
           upserted == Upserted(rows, key, r.ttl, message.lag)
<1>1. rows \in [Keys -> Row \cup {NoRow}]
  BY DEF EvidenceTypes
<1>2. /\ DOMAIN upserted = Keys /\ upserted[key] = new
      /\ \A j \in Keys : j # key => upserted[j] = IF SameRow(j, key) THEN NoRow ELSE rows[j]
  BY DEF Upserted
<1> HIDE DEF upserted
<1>3. ~Sibling(key, key) /\ (Sibling(k, key) => ~SameRow(k, key))
  BY DEF Sibling, SameRow
<1>4. CASE r.flush /\ key.table = "addr"
  <2>1. table = [j \in Keys |-> IF Sibling(j, key) /\ upserted[j] # NoRow
                                   /\ upserted[j].seen > message.lag + Grace
                                THEN Ended(upserted[j].seen) ELSE upserted[j]]
    BY <1>4 DEF Flushable, Flushed, upserted
  <2> HIDE DEF new
  <2>2. /\ DOMAIN table = Keys
        /\ table[k] = IF Sibling(k, key) /\ upserted[k] # NoRow
                         /\ upserted[k].seen > message.lag + Grace
                      THEN Ended(upserted[k].seen) ELSE upserted[k]
    BY <2>1
  <2>3. CASE k = key
    BY <1>2, <1>3, <2>2, <2>3 DEF new
  <2>4. CASE k # key /\ SameRow(k, key)
    BY <1>2, <1>3, <2>2, <2>4
  <2>5. CASE k # key /\ ~SameRow(k, key)
    BY <1>2, <1>4, <2>2, <2>5
  <2> QED
    BY <2>2, <2>3, <2>4, <2>5
<1>5. CASE ~(r.flush /\ key.table = "addr")
  <2>1. table = upserted
    BY <1>5 DEF Flushable, upserted
  <2>2. ~(r.flush /\ Sibling(k, key))
    BY <1>5 DEF Sibling
  <2> QED
    BY <1>2, <2>1, <2>2 DEF new
<1> QED
  BY <1>4, <1>5

\* After pruning, what is left was chosen among those.
LEMMA PrunedRows ==
  ASSUME EvidenceTypes, Record, NEW r, r = message.records[message.done + 1], r.ttl # 0
  PROVE  \E kept \in Keepable(Pruned(Flushable(r), message.lag)) :
           rows' = Capped(Pruned(Flushable(r), message.lag), kept)
BY DEF Record, Write, Flushable

\* What is left after a record has been written.
LEMMA RowsAfter ==
  ASSUME EvidenceTypes, Record, NEW r, r = message.records[message.done + 1],
         NEW k \in Keys, rows'[k] # NoRow
  PROVE  Stays(k, r) \/ IsFlushed(k, r) \/ IsWithdrawn(k, r) \/ IsWritten(k, r)
<1>1. r.key \in Keys /\ r.ttl \in 0..MaxTtl /\ r.flush \in BOOLEAN
  BY InHandIs DEF Record
<1>2. CASE r.ttl = 0
  <2>1. rows' = Withdrawn(rows, r.key, message.lag)
    BY <1>2 DEF Record, Write
  <2> QED
    BY <1>1, <1>2, <2>1, WithdrawnRows DEF Stays
<1>3. CASE r.ttl # 0
  <2>1. r.ttl \in 1..MaxTtl /\ r.ttl > 0
    BY <1>1, <1>3
  <2>2. PICK table : table = Flushable(r)
    OBVIOUS
  <2>3. PICK kept \in Keepable(Pruned(table, message.lag)) :
          rows' = Capped(Pruned(table, message.lag), kept)
    BY <1>3, <2>2, PrunedRows
  <2>4. rows'[k] = table[k]
    BY <2>3 DEF Capped, Pruned
  <2>5. /\ k = r.key => table[k] = [seen |-> message.lag, left |-> r.ttl - message.lag,
                                    withdrawn |-> FALSE]
        /\ k # r.key /\ SameRow(k, r.key) => table[k] = NoRow
        /\ k # r.key /\ ~SameRow(k, r.key) =>
              IF /\ r.flush /\ Sibling(k, r.key) /\ rows[k] # NoRow
                 /\ rows[k].seen > message.lag + Grace
              THEN table[k] = Ended(rows[k].seen)
              ELSE table[k] = rows[k]
    BY <1>1, <2>1, <2>2, FlushedRows
  <2>6. CASE k = r.key
    BY <2>1, <2>4, <2>5, <2>6 DEF IsWritten
  <2>7. CASE k # r.key /\ r.flush /\ Sibling(k, r.key) /\ rows[k] # NoRow
             /\ rows[k].seen > message.lag + Grace
    BY <2>1, <2>4, <2>5, <2>7 DEF IsFlushed
  <2>8. CASE k # r.key /\ ~(r.flush /\ Sibling(k, r.key) /\ rows[k] # NoRow
                            /\ rows[k].seen > message.lag + Grace)
    <3>1. rows'[k] = rows[k]
      BY <2>4, <2>5, <2>8
    <3>2. rows[k] \in Row
      BY <3>1 DEF EvidenceTypes
    <3>3. rows[k].seen \in Nat /\ message.lag \in Nat
      BY <3>2, Times DEF Row, Ages, EvidenceTypes
    <3> QED
      BY <2>8, <3>1, <3>3, Times DEF Stays
  <2> QED
    BY <2>6, <2>7, <2>8
<1> QED
  BY <1>2, <1>3

\* Writing a record keeps the types.
LEMMA RecordTypes ==
  ASSUME EvidenceTypes, Record PROVE EvidenceTypes'
<1> DEFINE r == message.records[message.done + 1]
<1>1. /\ r.key \in Keys /\ r.ttl \in 0..MaxTtl /\ r.flush \in BOOLEAN
      /\ message.done + 1 \in 1..Len(message.records)
  BY InHandIs DEF Record
<1> HIDE DEF r
<1>2. ASSUME NEW k \in Keys, rows'[k] # NoRow PROVE rows'[k] \in Row
  <2>1. Stays(k, r) \/ IsFlushed(k, r) \/ IsWithdrawn(k, r) \/ IsWritten(k, r)
    BY <1>2, RowsAfter DEF r
  <2>2. rows[k] \in Row \cup {NoRow} /\ message.lag \in 0..MaxLag
    BY DEF EvidenceTypes
  <2>3. message.lag \in Ages
    BY <2>2, Times DEF Ages
  <2>4. CASE Stays(k, r)
    BY <1>2, <2>2, <2>4 DEF Stays
  <2>5. CASE IsFlushed(k, r)
    <3>1. rows[k] \in Row
      BY <2>2, <2>5 DEF IsFlushed
    <3>2. rows[k].seen \in Ages
      BY <3>1 DEF Row
    <3> QED
      BY <2>5, <3>1, <3>2, InTheTables DEF IsFlushed
  <2>6. CASE IsWithdrawn(k, r)
    <3>1. rows[k] \in Row
      BY <2>2, <2>6 DEF IsWithdrawn
    <3> DEFINE seen == IF k.table = "ssdp" THEN message.lag ELSE rows[k].seen
    <3>2. rows[k].seen \in Ages
      BY <3>1 DEF Row
    <3>3. seen \in Ages /\ rows'[k] = Ended(seen)
      BY <2>3, <2>6, <3>2 DEF IsWithdrawn
    <3> HIDE DEF seen
    <3> QED
      BY <3>1, <3>3, InTheTables
  <2>7. CASE IsWritten(k, r)
    <3>1. r.ttl - message.lag \in Lefts
      BY <1>1, <2>2, Times DEF Lefts, Over
    <3> QED
      BY <2>3, <2>7, <3>1 DEF IsWritten, Row
  <2> QED
    BY <2>1, <2>4, <2>5, <2>6, <2>7
<1>3. DOMAIN rows' = Keys /\ rows' = [k \in DOMAIN rows' |-> rows'[k]]
  <2>1. CASE r.ttl = 0
    <3>1. rows' = Withdrawn(rows, r.key, message.lag)
      BY <2>1 DEF Record, Write, r
    <3> QED
      BY <3>1 DEF Withdrawn, EvidenceTypes
  <2>2. CASE r.ttl # 0
    <3>1. PICK table, kept : rows' = Capped(table, kept)
      BY <2>2, PrunedRows DEF r
    <3> QED
      BY <3>1 DEF Capped
  <2> QED
    BY <2>1, <2>2
<1>4. rows' \in [Keys -> Row \cup {NoRow}]
  BY <1>2, <1>3
<1>5. /\ message' = [message EXCEPT !.done = message.done + 1]
      /\ UNCHANGED <<newest, evidence>>
  BY DEF Record
<1>6. /\ message' \in [records : Seq(Records("mdns")) \cup Seq(Records("ssdp")),
                       done : Nat, lag : 0..MaxLag]
      /\ message'.done <= Len(message'.records)
  BY <1>1, <1>5 DEF EvidenceTypes
<1> QED
  BY <1>4, <1>5, <1>6 DEF EvidenceTypes

\* Taking a message keeps the types.
LEMMA TakeTypes ==
  ASSUME EvidenceTypes, NEW m \in Messages, NEW lag \in 0..MaxLag, Take(m, lag)
  PROVE  EvidenceTypes'
<1>1. m.protocol \in {"mdns", "ssdp"} /\ Parsed(m) \in Seq(Records(m.protocol))
  BY ParsedType DEF Protocols
<1>2. Parsed(m) \in Seq(Records("mdns")) \cup Seq(Records("ssdp"))
  BY <1>1
<1>3. Len(Parsed(m)) \in Nat
  BY <1>1, LenProperties
<1>4. /\ message' = [records |-> Parsed(m), done |-> 0, lag |-> lag]
      /\ newest' = [newest EXCEPT ![m.protocol] = lag]
      /\ UNCHANGED <<rows, evidence>>
  BY DEF Take
<1>5. /\ message' \in [records : Seq(Records("mdns")) \cup Seq(Records("ssdp")),
                       done : Nat, lag : 0..MaxLag]
      /\ message'.done <= Len(message'.records)
  BY <1>2, <1>3, <1>4
<1>6. newest' \in [Protocols -> 0..MaxLag]
  BY <1>1, <1>4 DEF EvidenceTypes
<1> QED
  BY <1>4, <1>5, <1>6 DEF EvidenceTypes

\* There is nothing to do between messages.
LEMMA IdleMessage ==
  /\ Idle \in [records : Seq(Records("mdns")) \cup Seq(Records("ssdp")), done : Nat, lag : 0..MaxLag]
  /\ Len(Idle.records) = 0 /\ Idle.done = 0
<1>1. <<>> \in Seq(Records("mdns")) /\ Len(<<>>) = 0
  OBVIOUS
<1> QED
  BY <1>1, Times DEF Idle

\* Time keeps the types: ages saturate, and so does what is over.
LEMMA TickTypes ==
  ASSUME EvidenceTypes, Tick PROVE EvidenceTypes'
<1>1. ASSUME NEW k \in Keys, rows[k] # NoRow PROVE rows'[k] \in Row
  <2> DEFINE seen == IF rows[k].seen = AgeCap THEN AgeCap ELSE rows[k].seen + 1
             left == IF rows[k].left = Over THEN rows[k].left ELSE rows[k].left - 1
  <2>1. rows[k] \in Row
    BY <1>1 DEF EvidenceTypes
  <2>2. seen \in Ages /\ left \in Lefts
    BY <2>1, Times DEF Row, Ages, Lefts, Over
  <2>3. rows'[k] = [rows[k] EXCEPT !.seen = seen, !.left = left]
    BY <1>1 DEF Tick
  <2> HIDE DEF seen, left
  <2> QED
    BY <2>1, <2>2, <2>3 DEF Row
<1>2. rows' \in [Keys -> Row \cup {NoRow}]
  BY <1>1 DEF Tick
<1>3. /\ message' \in [records : Seq(Records("mdns")) \cup Seq(Records("ssdp")),
                       done : Nat, lag : 0..MaxLag]
      /\ message'.done <= Len(message'.records)
  <2>1. CASE InHand
    <3>1. message' = [message EXCEPT !.lag = message.lag + 1] /\ message.lag < MaxLag
      BY <2>1 DEF Tick
    <3>2. message.lag + 1 \in 0..MaxLag
      BY <3>1, Times DEF EvidenceTypes
    <3> QED
      BY <3>1, <3>2 DEF EvidenceTypes
  <2>2. CASE ~InHand
    <3>1. message' = Idle
      BY <2>2 DEF Tick
    <3> QED
      BY <3>1, IdleMessage
  <2> QED
    BY <2>1, <2>2
<1>4. newest' \in [Protocols -> 0..MaxLag]
  <2> DEFINE older(q) == IF newest[q] = MaxLag THEN MaxLag ELSE newest[q] + 1
  <2>1. ASSUME NEW q \in Protocols PROVE older(q) \in 0..MaxLag
    <3>1. newest[q] \in 0..MaxLag
      BY DEF EvidenceTypes
    <3> QED
      BY <3>1, Times
  <2>2. newest' = [q \in Protocols |-> older(q)]
    BY DEF Tick
  <2> HIDE DEF older
  <2> QED
    BY <2>1, <2>2
<1> QED
  BY <1>2, <1>3, <1>4 DEF EvidenceTypes, Tick

\* A step adds at most one row to the evidence of addresses, and what adds one
\* leaves everything else alone.
LEMMA EvidenceStep ==
  ASSUME EvidenceTypes, NEW c \in AddressRow, RecordAddressEvidence(c)
  PROVE  /\ evidence' \subseteq evidence \cup {c} /\ evidence' \subseteq AddressRow
         /\ UNCHANGED <<rows, message, newest>>
BY DEF RecordAddressEvidence, EvidenceTypes

\* What a retry records is a row like any other.
LEMMA RetryRow ==
  ASSUME EvidenceTypes, NEW e \in evidence, NEW interface \in Swept
  PROVE  [e EXCEPT !.source = "direct", !.interface = interface] \in AddressRow
<1>1. e \in AddressRow /\ interface \in Interfaces
  BY TableAssumption DEF EvidenceTypes
<1>2. "direct" \in Sources
  BY DEF Sources
<1> DEFINE source == "direct"
<1> HIDE DEF source
<1>3. source \in Sources
  BY <1>2 DEF source
<1>4. [e EXCEPT !.source = source] \in AddressRow
  BY <1>1, <1>3 DEF AddressRow
<1>5. \A g \in AddressRow : [g EXCEPT !.interface = interface] \in AddressRow
  BY <1>1 DEF AddressRow
<1>6. [[e EXCEPT !.source = source] EXCEPT !.interface = interface] \in AddressRow
  BY <1>4, <1>5
<1> QED
  BY <1>6 DEF source

\* The tables, the message in hand and the evidence keep their types.
THEOREM EvidenceTyped == SpecDiscovery => []EvidenceTypes
<1>1. InitDiscovery => EvidenceTypes
  BY IdleMessage, Times DEF InitDiscovery, EvidenceTypes
<1>2. EvidenceTypes /\ [NextDiscovery]_discoveryVars => EvidenceTypes'
  <2> SUFFICES ASSUME EvidenceTypes, [NextDiscovery]_discoveryVars PROVE EvidenceTypes'
    OBVIOUS
  <2>1. ASSUME NEW m \in Messages, NEW lag \in 0..MaxLag, Take(m, lag) PROVE EvidenceTypes'
    BY <2>1, TakeTypes
  <2>2. CASE Record
    BY <2>2, RecordTypes
  <2>3. CASE Crash
    BY <2>3, IdleMessage DEF Crash, EvidenceTypes
  <2>4. ASSUME NEW c \in Claims, RecordAddressEvidence(c) PROVE EvidenceTypes'
    BY <2>4, EvidenceStep, TableAssumption DEF EvidenceTypes
  <2>5. ASSUME NEW mac \in Claimants, DeleteDevice(mac) PROVE EvidenceTypes'
    BY <2>5 DEF DeleteDevice, EvidenceTypes
  <2>6. CASE ResetAll
    BY <2>6 DEF ResetAll, EvidenceTypes
  <2>7. ASSUME NEW e \in evidence, NEW interface \in Swept, RetryOffline(e, interface)
        PROVE  EvidenceTypes'
    BY <2>7, RetryRow, EvidenceStep DEF RetryOffline, EvidenceTypes
  <2>8. CASE Tick
    BY <2>8, TickTypes
  <2>9. CASE UNCHANGED discoveryVars
    BY <2>9 DEF discoveryVars, EvidenceTypes
  <2> QED
    BY <2>1, <2>2, <2>3, <2>4, <2>5, <2>6, <2>7, <2>8, <2>9 DEF NextDiscovery
<1> QED
  BY <1>1, <1>2, PTL DEF SpecDiscovery

-----------------------------------------------------------------------------
(* Attribution *)

\* A service that is shown with somebody is shown with just one, and is so only
\* because that one is the only one recorded as seen at one of its addresses.
LEMMA ShownWithOne ==
  ASSUME NEW s, Attributed(s) # {}
  PROVE  \E mac : /\ Attributed(s) = {mac}
                  /\ \E ip \in ServiceIps(s) : mac \in ObservedMac(ip)
                  /\ \A ip \in ServiceIps(s) : ObservedMac(ip) \subseteq {mac}
<1> DEFINE macs == UNION {ObservedMac(ip) : ip \in ServiceIps(s)}
<1>1. Attributed(s) = {mac \in macs : macs = {mac}}
  BY DEF Attributed
<1>2. PICK mac \in macs : macs = {mac}
  BY <1>1
<1>3. Attributed(s) = {mac}
  BY <1>1, <1>2
<1>4. \E ip \in ServiceIps(s) : mac \in ObservedMac(ip)
  BY <1>2
<1>5. \A ip \in ServiceIps(s) : ObservedMac(ip) \subseteq {mac}
  BY <1>2
<1> QED
  BY <1>3, <1>4, <1>5

\* Attribution is a matter of the addresses and of who was seen at them.
LEMMA SameSightings ==
  ASSUME NEW s, ServiceIps(s)' = ServiceIps(s),
         \A ip \in ServiceIps(s) : Observers(ip)' = Observers(ip)
  PROVE  Attributed(s)' = Attributed(s)
<1>1. \A ip \in ServiceIps(s) : ObservedMac(ip)' = ObservedMac(ip)
  BY DEF ObservedMac
<1>2. {ObservedMac(ip)' : ip \in ServiceIps(s)'} = {ObservedMac(ip) : ip \in ServiceIps(s)}
  BY <1>1
<1> QED
  BY <1>2 DEF Attributed

\* One more row of evidence hands no service over.
LEMMA OneRowMore ==
  ASSUME NEW s, NEW c, evidence' = evidence \cup {c},
         ServiceIps(s)' = ServiceIps(s),
         Attributed(s)' # {}, Attributed(s)' # Attributed(s)
  PROVE  /\ Attributed(s) = {} /\ c \notin evidence
         /\ c.source = "direct" /\ c.ip \in ServiceIps(s)
<1>1. \A ip : Observers(ip)' = IF c.ip = ip /\ c.source = "direct"
                              THEN Observers(ip) \cup {c.mac} ELSE Observers(ip)
  BY DEF Observers
<1>2. c \notin evidence
  <2> SUFFICES ASSUME c \in evidence PROVE FALSE
    OBVIOUS
  <2>1. evidence' = evidence
    OBVIOUS
  <2>2. \A ip : Observers(ip)' = Observers(ip)
    BY <2>1 DEF Observers
  <2> QED
    BY <2>2, SameSightings
<1>3. c.source = "direct" /\ c.ip \in ServiceIps(s)
  <2> SUFFICES ASSUME ~(c.source = "direct" /\ c.ip \in ServiceIps(s)) PROVE FALSE
    OBVIOUS
  <2>1. \A ip \in ServiceIps(s) : Observers(ip)' = Observers(ip)
    BY <1>1
  <2> QED
    BY <2>1, SameSightings
<1>4. Attributed(s) = {}
  <2> SUFFICES ASSUME Attributed(s) # {} PROVE FALSE
    OBVIOUS
  <2>1. PICK a : /\ Attributed(s) = {a}
                 /\ \E ip \in ServiceIps(s) : a \in ObservedMac(ip)
                 /\ \A ip \in ServiceIps(s) : ObservedMac(ip) \subseteq {a}
    BY ShownWithOne
  <2>2. PICK b : /\ Attributed(s)' = {b}
                 /\ \E ip \in ServiceIps(s)' : b \in ObservedMac(ip)'
                 /\ \A ip \in ServiceIps(s)' : ObservedMac(ip)' \subseteq {b}
    <3>1. (Attributed(s) # {} =>
             \E mac : /\ Attributed(s) = {mac}
                      /\ \E ip \in ServiceIps(s) : mac \in ObservedMac(ip)
                      /\ \A ip \in ServiceIps(s) : ObservedMac(ip) \subseteq {mac})'
      BY ShownWithOne, PTL
    <3> QED
      BY <3>1
  <2>3. a # b
    BY <2>1, <2>2
  \* Elsewhere nothing has changed, and there was nobody but the first device.
  <2>4. \A ip \in ServiceIps(s) : ip # c.ip => ObservedMac(ip)' = ObservedMac(ip)
    BY <1>1 DEF ObservedMac
  <2>5. PICK at \in ServiceIps(s) : a \in ObservedMac(at)
    BY <2>1
  <2>6. at = c.ip
    BY <2>2, <2>3, <2>4, <2>5
  <2>7. PICK now \in ServiceIps(s) : b \in ObservedMac(now)'
    BY <2>2
  <2>8. now = c.ip
    BY <2>1, <2>3, <2>4, <2>7
  \* There the first device is still recorded.
  <2>9. a \in Observers(at)
    BY <2>5 DEF ObservedMac
  <2>10. a \in Observers(at)'
    BY <1>1, <2>9
  <2>11. Observers(now)' = {b}
    BY <2>7 DEF ObservedMac
  <2> QED
    BY <2>3, <2>6, <2>8, <2>10, <2>11
<1> QED
  BY <1>2, <1>3, <1>4

\* A service is not handed from one device to another while its addresses stay the
\* same and nothing is forgotten, whatever is sighted, claimed or answered
\* (_directly_observed_mac_for_ip).
THEOREM NeverHandedOver == SpecDiscovery => ServiceNotHandedOver
<1> DEFINE Stayed == \A s \in Services :
       /\ evidence \subseteq evidence' /\ ServiceIps(s)' = ServiceIps(s)
       /\ Attributed(s)' # {} /\ Attributed(s)' # Attributed(s)
       => /\ Attributed(s) = {}
          /\ \E e \in evidence' \ evidence :
               e.source = "direct" /\ e.ip \in ServiceIps(s)
<1>1. EvidenceTypes /\ [NextDiscovery]_discoveryVars => [Stayed]_discoveryVars
  <2> SUFFICES ASSUME EvidenceTypes, NextDiscovery, NEW s \in Services,
                      evidence \subseteq evidence', ServiceIps(s)' = ServiceIps(s),
                      Attributed(s)' # {}, Attributed(s)' # Attributed(s)
               PROVE  /\ Attributed(s) = {}
                      /\ \E e \in evidence' \ evidence :
                           e.source = "direct" /\ e.ip \in ServiceIps(s)
    OBVIOUS
  <2>1. evidence' # evidence
    <3> SUFFICES ASSUME evidence' = evidence PROVE FALSE
      OBVIOUS
    <3>1. \A ip : Observers(ip)' = Observers(ip)
      BY DEF Observers
    <3> QED
      BY <3>1, SameSightings
  <2>2. ~(evidence' \subseteq evidence)
    BY <2>1
  <2>3. \E c \in AddressRow : RecordAddressEvidence(c)
    <3>1. ASSUME NEW e \in evidence, NEW interface \in Swept, RetryOffline(e, interface)
          PROVE  \E c \in AddressRow : RecordAddressEvidence(c)
      BY <3>1, RetryRow DEF RetryOffline
    <3>2. ASSUME NEW c \in Claims, RecordAddressEvidence(c)
          PROVE  \E d \in AddressRow : RecordAddressEvidence(d)
      BY <3>2, TableAssumption
    <3> QED
      BY <2>1, <2>2, <3>1, <3>2
         DEF NextDiscovery, Take, Record, Crash, DeleteDevice, ResetAll, Tick
  <2>4. PICK c \in AddressRow : evidence' \subseteq evidence \cup {c}
    BY <2>3, EvidenceStep
  <2>5. evidence' = evidence \cup {c}
    BY <2>1, <2>4
  <2> QED
    BY <2>5, OneRowMore
<1> QED
  BY <1>1, EvidenceTyped, PTL DEF SpecDiscovery, ServiceNotHandedOver

-----------------------------------------------------------------------------
(* Messages are handled in the order of their capture *)

\* The protocol whose messages write a row.
ProtocolOf(k) == IF k.table = "ssdp" THEN "ssdp" ELSE "mdns"

\* The message in hand is the newest of its protocol, and no row is newer.
NewestInHand ==
  InHand => \E q \in Protocols : /\ message.records \in Seq(Records(q))
                                 /\ newest[q] = message.lag

\* No row is newer than the newest message handled of its protocol.
NoRowIsNewer == \A k \in Keys : rows[k] # NoRow => newest[ProtocolOf(k)] <= rows[k].seen

OrderInv == NewestInHand /\ NoRowIsNewer

\* Both are ages.
LEMMA NewestIsAge ==
  ASSUME EvidenceTypes
  PROVE  /\ \A k \in Keys : ProtocolOf(k) \in Protocols
         /\ \A q \in Protocols : newest[q] \in 0..MaxLag
         /\ \A k \in Keys : rows[k] # NoRow => rows[k] \in Row /\ rows[k].seen \in Ages
<1>1. \A k \in Keys : rows[k] # NoRow => rows[k] \in Row
  BY DEF EvidenceTypes
<1> QED
  BY <1>1 DEF EvidenceTypes, Protocols, ProtocolOf, Row

\* No row of the protocol of the message in hand is younger than the message.
LEMMA HandIsNewest ==
  ASSUME EvidenceTypes, OrderInv, InHand, NEW r, r = message.records[message.done + 1]
  PROVE  newest[ProtocolOf(r.key)] = message.lag
<1>1. PICK q \in Protocols : message.records \in Seq(Records(q)) /\ newest[q] = message.lag
  BY DEF OrderInv, NewestInHand
<1>2. message.done + 1 \in 1..Len(message.records)
  BY InHandIs
<1>3. r \in Records(q)
  BY <1>1, <1>2, ElementOfSeq
<1>4. q = ProtocolOf(r.key)
  BY <1>1, <1>3 DEF Records, ProtocolOf, Protocols
<1> QED
  BY <1>1, <1>4

\* A record writes its row as new as its message, and no other row newer.
LEMMA RecordOrder ==
  ASSUME EvidenceTypes, OrderInv, Record PROVE OrderInv'
<1> DEFINE r == message.records[message.done + 1]
<1>1. newest[ProtocolOf(r.key)] = message.lag
  BY HandIsNewest DEF Record
<1> HIDE DEF r
<1>2. /\ message' = [message EXCEPT !.done = message.done + 1]
      /\ newest' = newest /\ InHand
  BY DEF Record
<1>3. NewestInHand'
  <2>1. message'.records = message.records /\ message'.lag = message.lag
    BY <1>2 DEF EvidenceTypes
  <2>2. PICK q \in Protocols : message.records \in Seq(Records(q)) /\ newest[q] = message.lag
    BY <1>2 DEF OrderInv, NewestInHand
  <2> QED
    BY <1>2, <2>1, <2>2 DEF NewestInHand
<1>4. ASSUME NEW k \in Keys, rows'[k] # NoRow
      PROVE  newest[ProtocolOf(k)] <= rows'[k].seen
  <2>1. Stays(k, r) \/ IsFlushed(k, r) \/ IsWithdrawn(k, r) \/ IsWritten(k, r)
    BY <1>4, RowsAfter DEF r
  <2>2. newest[ProtocolOf(k)] \in 0..MaxLag
    BY NewestIsAge
  <2>3. CASE Stays(k, r)
    BY <1>4, <2>3 DEF Stays, OrderInv, NoRowIsNewer
  <2>4. CASE IsFlushed(k, r)
    BY <2>4 DEF IsFlushed, Ended, OrderInv, NoRowIsNewer
  <2>5. CASE IsWithdrawn(k, r)
    <3>1. k.table = r.key.table /\ rows[k] # NoRow
          /\ rows'[k].seen \in {message.lag, rows[k].seen}
      BY <2>5 DEF IsWithdrawn, Ended, SameRow
    <3>2. newest[ProtocolOf(k)] = message.lag
      BY <1>1, <3>1 DEF ProtocolOf
    <3> QED
      BY <2>2, <3>1, <3>2 DEF OrderInv, NoRowIsNewer
  <2>6. CASE IsWritten(k, r)
    BY <1>1, <2>2, <2>6 DEF IsWritten
  <2> QED
    BY <2>1, <2>3, <2>4, <2>5, <2>6
<1> QED
  BY <1>2, <1>3, <1>4 DEF OrderInv, NoRowIsNewer

\* The next message of a protocol is newer than all before it.
LEMMA TakeOrder ==
  ASSUME EvidenceTypes, OrderInv, NEW m \in Messages, NEW lag \in 0..MaxLag, Take(m, lag)
  PROVE  OrderInv'
<1>1. m.protocol \in Protocols /\ Parsed(m) \in Seq(Records(m.protocol))
  BY ParsedType
<1>2. /\ message' = [records |-> Parsed(m), done |-> 0, lag |-> lag]
      /\ newest' = [newest EXCEPT ![m.protocol] = lag]
      /\ lag <= newest[m.protocol] /\ rows' = rows
  BY DEF Take
<1>3. /\ newest'[m.protocol] = lag
      /\ \A q \in Protocols : q # m.protocol => newest'[q] = newest[q]
  BY <1>1, <1>2 DEF EvidenceTypes
<1>4. NewestInHand'
  <2>1. message'.records \in Seq(Records(m.protocol)) /\ message'.lag = lag
    BY <1>1, <1>2
  <2> QED
    BY <1>1, <1>3, <2>1 DEF NewestInHand
<1>5. ASSUME NEW k \in Keys, rows[k] # NoRow
      PROVE  newest'[ProtocolOf(k)] <= rows[k].seen
  <2>1. newest[ProtocolOf(k)] <= rows[k].seen
    BY <1>5 DEF OrderInv, NoRowIsNewer
  <2>2. newest[ProtocolOf(k)] \in Int /\ rows[k].seen \in Int /\ ProtocolOf(k) \in Protocols
    BY <1>5, NewestIsAge, Times DEF Ages
  <2>3. CASE ProtocolOf(k) = m.protocol
    BY <1>2, <1>3, <2>1, <2>2, <2>3
  <2>4. CASE ProtocolOf(k) # m.protocol
    BY <1>3, <2>1, <2>2, <2>4
  <2> QED
    BY <2>3, <2>4
<1> QED
  BY <1>2, <1>4, <1>5 DEF OrderInv, NoRowIsNewer

\* Time passes for the rows as for the messages.
LEMMA TickOrder ==
  ASSUME EvidenceTypes, OrderInv, Tick PROVE OrderInv'
<1>1. \A q \in Protocols : newest'[q] = IF newest[q] = MaxLag THEN MaxLag ELSE newest[q] + 1
  BY DEF Tick
<1>2. NewestInHand'
  <2>1. CASE InHand
    <3>1. message.lag < MaxLag /\ message' = [message EXCEPT !.lag = message.lag + 1]
      BY <2>1 DEF Tick
    <3>2. message'.records = message.records /\ message'.lag = message.lag + 1
      BY <3>1 DEF EvidenceTypes
    <3>3. PICK q \in Protocols : message.records \in Seq(Records(q)) /\ newest[q] = message.lag
      BY <2>1 DEF OrderInv, NewestInHand
    <3>4. newest'[q] = message.lag + 1
      BY <1>1, <3>1, <3>3, Times DEF EvidenceTypes
    <3> QED
      BY <3>2, <3>3, <3>4 DEF NewestInHand
  <2>2. CASE ~InHand
    <3>1. message' = Idle
      BY <2>2 DEF Tick
    <3> QED
      BY <3>1, IdleMessage DEF NewestInHand, InHand
  <2> QED
    BY <2>1, <2>2
<1>3. ASSUME NEW k \in Keys, rows'[k] # NoRow
      PROVE  newest'[ProtocolOf(k)] <= rows'[k].seen
  <2> DEFINE seen == IF rows[k].seen = AgeCap THEN AgeCap ELSE rows[k].seen + 1
             left == IF rows[k].left = Over THEN rows[k].left ELSE rows[k].left - 1
  <2>1. rows[k] # NoRow /\ rows'[k] = [rows[k] EXCEPT !.seen = seen, !.left = left]
    BY <1>3 DEF Tick
  <2>2. rows[k] \in Row
    BY <2>1 DEF EvidenceTypes
  <2> HIDE DEF left
  <2>3. rows'[k].seen = seen
    <3> HIDE DEF seen
    <3> QED BY <2>1, <2>2 DEF Row
  <2>4. newest[ProtocolOf(k)] <= rows[k].seen
    BY <2>1 DEF OrderInv, NoRowIsNewer
  <2>5. newest[ProtocolOf(k)] \in 0..MaxLag /\ rows[k].seen \in 0..AgeCap
        /\ ProtocolOf(k) \in Protocols
    BY <2>1, NewestIsAge DEF Ages
  <2> QED
    BY <1>1, <2>3, <2>4, <2>5, Times
<1> QED
  BY <1>2, <1>3 DEF OrderInv, NoRowIsNewer

\* Rows are written in the order of capture.
LEMMA Ordered == SpecDiscovery => []OrderInv
<1>1. InitDiscovery => OrderInv
  BY IdleMessage DEF InitDiscovery, OrderInv, NewestInHand, NoRowIsNewer, InHand
<1>2. EvidenceTypes /\ OrderInv /\ [NextDiscovery]_discoveryVars => OrderInv'
  <2> SUFFICES ASSUME EvidenceTypes, OrderInv, [NextDiscovery]_discoveryVars
               PROVE  OrderInv'
    OBVIOUS
  <2>1. ASSUME UNCHANGED <<rows, message, newest>> PROVE OrderInv'
    BY <2>1 DEF OrderInv, NewestInHand, NoRowIsNewer, InHand
  <2>2. ASSUME NEW m \in Messages, NEW lag \in 0..MaxLag, Take(m, lag) PROVE OrderInv'
    BY <2>2, TakeOrder
  <2>3. CASE Record
    BY <2>3, RecordOrder
  <2>4. CASE Crash
    BY <2>4, IdleMessage DEF Crash, OrderInv, NewestInHand, NoRowIsNewer, InHand
  <2>5. ASSUME NEW c \in Claims, RecordAddressEvidence(c) PROVE OrderInv'
    BY <2>1, <2>5 DEF RecordAddressEvidence
  <2>6. ASSUME NEW mac \in Claimants, DeleteDevice(mac) PROVE OrderInv'
    BY <2>1, <2>6 DEF DeleteDevice
  <2>7. CASE ResetAll
    BY <2>7 DEF ResetAll, OrderInv, NewestInHand, NoRowIsNewer, InHand
  <2>8. ASSUME NEW e \in evidence, NEW interface \in Swept, RetryOffline(e, interface)
        PROVE  OrderInv'
    BY <2>1, <2>8, RetryRow, EvidenceStep DEF RetryOffline
  <2>9. CASE Tick
    BY <2>9, TickOrder
  <2>10. CASE UNCHANGED discoveryVars
    BY <2>1, <2>10 DEF discoveryVars
  <2> QED
    BY <2>2, <2>3, <2>4, <2>5, <2>6, <2>7, <2>8, <2>9, <2>10 DEF NextDiscovery
<1> QED
  BY <1>1, <1>2, EvidenceTyped, PTL DEF SpecDiscovery

-----------------------------------------------------------------------------
(* Pruning *)

\* The cap drops a row only of a table that it leaves full of newer ones.
LEMMA CapSpares ==
  ASSUME NEW rs, NEW kept \in Keepable(rs), NEW k \in Keys,
         rs[k] # NoRow, k \notin kept,
         NEW mine, mine = kept \cap Present(rs, k.table)
  PROVE  /\ Cardinality(mine) = MaxRows
         /\ \A j \in mine : rs[j].seen <= rs[k].seen
<1> DEFINE t == k.table
           all == Present(rs, t)
           there == {j \in Keys : rs[j] # NoRow}
<1>1. kept # there
  OBVIOUS
<1>2. t \in Tables
  BY TableAssumption
<1>3. /\ Cardinality(mine) = IF Cardinality(all) < MaxRows THEN Cardinality(all) ELSE MaxRows
      /\ \A i \in mine, j \in all \ mine : rs[i].seen <= rs[j].seen
  BY <1>1, <1>2 DEF Keepable
<1>4. k \in all \ mine /\ mine \in SUBSET all
  BY DEF Present
<1>5. IsFiniteSet(all)
  <2>1. all \in SUBSET Keys
    BY DEF Present
  <2> QED
    BY <2>1, TableAssumption, FS_Subset
<1> HIDE DEF all
<1>6. Cardinality(mine) # Cardinality(all)
  BY <1>4, <1>5, FS_Subset
<1> QED
  BY <1>3, <1>4, <1>6

\* A current row that a record makes disappear was replaced, or gave way.
LEMMA RecordSpares ==
  ASSUME EvidenceTypes, OrderInv, Record,
         NEW k \in Keys, rows[k] # NoRow, Status(rows[k]) = "current", rows'[k] = NoRow
  PROVE  Replaces(k) \/ MadeRoom(k)
<1> SUFFICES ASSUME ~Replaces(k) PROVE MadeRoom(k)
  OBVIOUS
<1> DEFINE r == message.records[message.done + 1]
           lag == message.lag
<1>1. r.key \in Keys /\ r.ttl \in 0..MaxTtl /\ r.flush \in BOOLEAN
  BY InHandIs DEF Record
<1>2. r.ttl > 0 => ~(r.flush /\ Sibling(k, r.key)) /\ ~(k # r.key /\ SameRow(k, r.key))
  BY DEF Replaces, Record
<1>3. newest[ProtocolOf(r.key)] = lag
  BY HandIsNewest DEF Record
<1>4. rows[k].withdrawn = FALSE /\ ~(rows[k].left < 0) /\ rows[k] \in Row
  <2>1. rows[k] \in Row
    BY NewestIsAge
  <2>2. rows[k].withdrawn \in BOOLEAN
    BY <2>1 DEF Row
  <2> QED
    BY <2>1, <2>2 DEF Status
<1>5. rows[k].left \in Int /\ rows[k].seen \in Int /\ lag \in Nat
  BY <1>4, Times DEF Row, Lefts, Ages, Over, EvidenceTypes
<1>6. r.ttl # 0
  <2> SUFFICES ASSUME r.ttl = 0 PROVE FALSE
    OBVIOUS
  <2>1. rows' = Withdrawn(rows, r.key, lag)
    BY DEF Record, Write
  <2> HIDE DEF r, lag
  <2> QED
    BY <1>1, <2>1, WithdrawnRows DEF lag
<1>7. PICK table : table = Flushable(r)
  OBVIOUS
<1> DEFINE pruned == Pruned(table, lag)
<1>8. PICK kept \in Keepable(pruned) : rows' = Capped(pruned, kept)
  BY <1>6, <1>7, PrunedRows
<1> HIDE DEF r
<1>9. r.ttl \in 1..MaxTtl
  BY <1>1, <1>6
<1>10. /\ k = r.key => table[k] = [seen |-> lag, left |-> r.ttl - lag, withdrawn |-> FALSE]
       /\ k # r.key => table[k] = rows[k]
  <2>1. ~(r.flush /\ Sibling(k, r.key)) /\ ~(k # r.key /\ SameRow(k, r.key))
    BY <1>2, <1>9
  <2> QED
    BY <1>1, <1>7, <1>9, <2>1, FlushedRows
\* What is written, and what is current, is not over.
<1>11. pruned[k] = table[k] /\ pruned[k] # NoRow /\ pruned[k].seen <= rows[k].seen
  <2>1. CASE k = r.key
    <3>1. /\ table[k].withdrawn = FALSE /\ table[k].left = r.ttl - lag
          /\ table[k].seen = lag
      BY <1>10, <2>1
    <3>2. ~(table[k].left < -lag)
      BY <1>5, <1>9, <3>1
    <3>3. pruned[k] = table[k]
      BY <3>1, <3>2 DEF Pruned
    <3>4. lag <= rows[k].seen
      BY <1>3, <2>1 DEF OrderInv, NoRowIsNewer
    <3>5. table[k] \in Row
      <4> DEFINE left == r.ttl - lag
      <4>1. message.lag \in 0..MaxLag
        BY DEF EvidenceTypes
      <4>2. lag \in Ages /\ left \in Lefts
        BY <1>9, <4>1, Times DEF Ages, Lefts, Over
      <4>3. table[k] = [seen |-> lag, left |-> left, withdrawn |-> FALSE]
        BY <1>10, <2>1
      <4> HIDE DEF left, lag
      <4> QED
        BY <4>2, <4>3 DEF Row
    <3> QED
      BY <3>1, <3>3, <3>4, <3>5, TableAssumption
  <2>2. CASE k # r.key
    <3>1. table[k] = rows[k]
      BY <1>10, <2>2
    <3>2. ~(rows[k].left < -lag)
      BY <1>4, <1>5
    <3> QED
      BY <1>4, <1>5, <3>1, <3>2 DEF Pruned
  <2> QED
    BY <2>1, <2>2
<1> HIDE DEF pruned
<1>12. /\ \A j \in Keys : rows'[j] = IF j \in kept THEN pruned[j] ELSE NoRow
       /\ k \notin kept
  BY <1>8, <1>11 DEF Capped
<1> DEFINE mine == kept \cap Present(pruned, k.table)
<1>13. Present(rows', k.table) = mine
  BY <1>12 DEF Present
<1>14. Cardinality(mine) = MaxRows /\ \A j \in mine : pruned[j].seen <= pruned[k].seen
  BY <1>8, <1>11, <1>12, CapSpares
<1>15. ASSUME NEW j \in mine PROVE rows'[j].seen <= rows[k].seen
  <2>1. j \in Keys /\ rows'[j] = pruned[j] /\ rows'[j] # NoRow
    BY <1>12 DEF Present
  <2>2. rows'[j].seen \in Int
    <3>1. EvidenceTypes'
      BY RecordTypes
    <3>2. rows'[j] \in Row
      BY <2>1, <3>1 DEF EvidenceTypes
    <3> QED
      BY <3>2, Times DEF Row, Ages
  <2>3. pruned[k].seen \in Int
    BY <1>1, <1>5, <1>10, <1>11
  <2> QED
    BY <1>5, <1>11, <1>14, <2>1, <2>2, <2>3
<1> HIDE DEF mine
<1> QED
  BY <1>13, <1>14, <1>15 DEF MadeRoom, Full

\* A current row leaves its table only because its host replaces it, the table is
\* full of newer ones, or everything is reset (_prune_expired_discovery_evidence).
THEOREM PruningSpares == SpecDiscovery => PruneSpares
<1> DEFINE Spared == \A k \in Keys :
       rows[k] # NoRow /\ Status(rows[k]) = "current" /\ rows'[k] = NoRow =>
         \/ Replaces(k) \/ MadeRoom(k)
         \/ evidence' = {} /\ \A j \in Keys : rows'[j] = NoRow
<1>1. EvidenceTypes /\ OrderInv /\ [NextDiscovery]_discoveryVars => [Spared]_discoveryVars
  <2> SUFFICES ASSUME EvidenceTypes, OrderInv, NextDiscovery,
                      NEW k \in Keys, rows[k] # NoRow, Status(rows[k]) = "current",
                      rows'[k] = NoRow
               PROVE  \/ Replaces(k) \/ MadeRoom(k)
                      \/ evidence' = {} /\ \A j \in Keys : rows'[j] = NoRow
    OBVIOUS
  <2>1. rows' # rows
    OBVIOUS
  <2>2. CASE Record
    BY <2>2, RecordSpares
  <2>3. CASE ResetAll
    BY <2>3 DEF ResetAll
  <2>4. CASE Tick
    <3> DEFINE seen == IF rows[k].seen = AgeCap THEN AgeCap ELSE rows[k].seen + 1
               left == IF rows[k].left = Over THEN rows[k].left ELSE rows[k].left - 1
    <3>1. rows'[k] = [rows[k] EXCEPT !.seen = seen, !.left = left]
      BY <2>4 DEF Tick
    <3>2. rows[k] \in Row
      BY NewestIsAge
    <3>3. seen \in Ages /\ left \in Lefts
      BY <3>2, Times DEF Row, Ages, Lefts, Over
    <3> HIDE DEF seen, left
    <3>4. rows'[k] \in Row
      BY <3>1, <3>2, <3>3 DEF Row
    <3> QED
      BY <3>4, TableAssumption
  <2> QED
    BY <2>1, <2>2, <2>3, <2>4
       DEF NextDiscovery, Take, Crash, RecordAddressEvidence, RetryOffline, DeleteDevice
<1> QED
  BY <1>1, EvidenceTyped, Ordered, PTL DEF SpecDiscovery, PruneSpares

-----------------------------------------------------------------------------
(* What a response announces, and what it replaces *)

\* Keys that the first n records announce and do not take back.
AnnouncedBy(n) ==
  {k \in Keys :
     \E i \in 1..n :
       /\ message.records[i].key = k /\ message.records[i].ttl > 0
       /\ \A j \in i..n : SameRow(message.records[j].key, k) => message.records[j].ttl > 0}

\* What the records written so far announce is as old as the message.
AnnouncedIsFresh ==
  \A k \in AnnouncedBy(message.done) :
    rows[k] # NoRow => ~rows[k].withdrawn /\ rows[k].seen = message.lag

\* Keys that the message in hand says nothing about.
Unmentioned ==
  Keys \ {k \in Keys : \E n \in 1..Len(message.records) : message.records[n].key = k}

\* What the records written so far replace is gone, or within the grace.
ReplacedIsGone ==
  \A i \in 1..message.done : message.records[i].flush /\ message.records[i].ttl > 0 =>
    \A j \in Unmentioned : Sibling(j, message.records[i].key) /\ rows[j] # NoRow =>
      rows[j].withdrawn \/ rows[j].seen <= message.lag + Grace

\* The records in hand stay the same until they are all written.
LEMMA MessageSteps ==
  ASSUME EvidenceTypes
  PROVE  /\ Record => /\ message'.records = message.records /\ message'.lag = message.lag
                      /\ message'.done = message.done + 1
         /\ Tick /\ InHand => /\ message'.records = message.records
                              /\ message'.lag = message.lag + 1
                              /\ message'.done = message.done
         /\ message.done \in Nat /\ message.lag \in 0..MaxLag
         /\ Len(message.records) \in Nat /\ message.done <= Len(message.records)
<1>1. Len(message.records) \in Nat
  BY LenProperties DEF EvidenceTypes
<1>2. ASSUME Record
      PROVE  /\ message'.records = message.records /\ message'.lag = message.lag
             /\ message'.done = message.done + 1
  BY <1>2 DEF Record, EvidenceTypes
<1>3. ASSUME Tick, InHand
      PROVE  /\ message'.records = message.records /\ message'.lag = message.lag + 1
             /\ message'.done = message.done
  BY <1>3 DEF Tick, EvidenceTypes
<1> QED
  BY <1>1, <1>2, <1>3 DEF EvidenceTypes

\* Time passes for a row as for the message in hand.
LEMMA RowsAge ==
  ASSUME EvidenceTypes, Tick, NEW k \in Keys, rows'[k] # NoRow
  PROVE  /\ rows[k] # NoRow /\ rows'[k].withdrawn = rows[k].withdrawn
         /\ rows[k].seen \in 0..AgeCap
         /\ rows'[k].seen = IF rows[k].seen = AgeCap THEN AgeCap ELSE rows[k].seen + 1
<1> DEFINE seen == IF rows[k].seen = AgeCap THEN AgeCap ELSE rows[k].seen + 1
           left == IF rows[k].left = Over THEN rows[k].left ELSE rows[k].left - 1
<1>1. rows[k] # NoRow /\ rows'[k] = [rows[k] EXCEPT !.seen = seen, !.left = left]
  BY DEF Tick
<1>2. rows[k] \in Row /\ rows[k].seen \in 0..AgeCap
  BY <1>1 DEF EvidenceTypes, Row, Ages
<1>3. rows'[k].seen = seen /\ rows'[k].withdrawn = rows[k].withdrawn
  <2> HIDE DEF seen, left
  <2> QED BY <1>1, <1>2 DEF Row
<1> QED
  BY <1>1, <1>2, <1>3

\* A record keeps what the records up to it announce as new as the message.
LEMMA RecordFresh ==
  ASSUME EvidenceTypes, AnnouncedIsFresh, Record,
         NEW k \in AnnouncedBy(message.done + 1), rows'[k] # NoRow
  PROVE  ~rows'[k].withdrawn /\ rows'[k].seen = message.lag
<1> DEFINE r == message.records[message.done + 1]
           n == message.done
<1>1. n \in Nat /\ message.lag \in 0..MaxLag
  BY MessageSteps
<1>2. Stays(k, r) \/ IsFlushed(k, r) \/ IsWithdrawn(k, r) \/ IsWritten(k, r)
  BY RowsAfter DEF AnnouncedBy
<1>3. PICK i \in 1..n + 1 :
        /\ message.records[i].key = k /\ message.records[i].ttl > 0
        /\ \A j \in i..n + 1 : SameRow(message.records[j].key, k) => message.records[j].ttl > 0
  BY DEF AnnouncedBy
<1>4. n + 1 \in i..n + 1
  BY <1>1
<1>5. SameRow(k, r.key) => r.ttl > 0
  BY <1>3, <1>4 DEF SameRow
<1>6. ~IsWithdrawn(k, r)
  BY <1>5 DEF IsWithdrawn
<1>7. CASE IsWritten(k, r)
  BY <1>7 DEF IsWritten
<1>8. CASE k # r.key
  <2>1. i # n + 1
    BY <1>3, <1>8
  <2>2. i \in 1..n /\ \A j \in i..n : j \in i..n + 1
    BY <1>1, <2>1
  <2>3. k \in AnnouncedBy(n)
    BY <1>3, <2>2 DEF AnnouncedBy
  <2>4. rows[k] # NoRow => ~rows[k].withdrawn /\ rows[k].seen = message.lag
    BY <2>3 DEF AnnouncedIsFresh
  <2>5. ~IsFlushed(k, r)
    BY <1>1, <2>4, Times DEF IsFlushed
  <2>6. Stays(k, r)
    BY <1>2, <1>6, <1>8, <2>5 DEF IsWritten
  <2> QED
    BY <2>4, <2>6 DEF Stays
<1> QED
  BY <1>2, <1>6, <1>7, <1>8 DEF Stays, IsFlushed

\* A record ends what it replaces, and revives nothing replaced earlier.
LEMMA RecordReplaces ==
  ASSUME EvidenceTypes, ReplacedIsGone, Record,
         NEW i \in 1..message.done + 1,
         message.records[i].flush, message.records[i].ttl > 0,
         NEW j \in Unmentioned, Sibling(j, message.records[i].key), rows'[j] # NoRow
  PROVE  rows'[j].withdrawn \/ rows'[j].seen <= message.lag + Grace
<1> DEFINE r == message.records[message.done + 1]
           n == message.done
<1>1. n \in Nat
  BY MessageSteps
<1>2. n + 1 \in 1..Len(message.records)
  BY InHandIs DEF Record
<1>3. j \in Keys /\ j # r.key
  BY <1>2 DEF Unmentioned
<1>4. Stays(j, r) \/ IsFlushed(j, r)
  BY <1>3, RowsAfter DEF IsWithdrawn, IsWritten, SameRow, Sibling
<1>5. CASE IsFlushed(j, r)
  BY <1>5 DEF IsFlushed, Ended
<1>6. CASE Stays(j, r) /\ i = n + 1
  BY <1>6 DEF Stays
<1>7. CASE Stays(j, r) /\ i # n + 1
  <2>1. i \in 1..n
    BY <1>1, <1>7
  <2>2. rows'[j] = rows[j]
    BY <1>7 DEF Stays
  <2> QED
    BY <2>1, <2>2 DEF ReplacedIsGone
<1> QED
  BY <1>4, <1>5, <1>6, <1>7

\* What holds of the records written so far.
HandInv == AnnouncedIsFresh /\ ReplacedIsGone

\* Nothing is asked before the first record.
LEMMA NothingWritten ==
  ASSUME message.done = 0 PROVE HandInv
<1>1. AnnouncedBy(0) = {} /\ 1..0 = {}
  BY DEF AnnouncedBy
<1> QED
  BY <1>1 DEF HandInv, AnnouncedIsFresh, ReplacedIsGone

\* It holds of one record more when that is written.
LEMMA RecordHand ==
  ASSUME EvidenceTypes, HandInv, Record PROVE HandInv'
<1>1. /\ message'.records = message.records /\ message'.lag = message.lag
      /\ message'.done = message.done + 1
  BY MessageSteps
<1>2. AnnouncedIsFresh'
  <2>1. AnnouncedBy(message.done)' = AnnouncedBy(message.done + 1)
    BY <1>1 DEF AnnouncedBy
  <2>2. ASSUME NEW k \in AnnouncedBy(message.done + 1), rows'[k] # NoRow
        PROVE  ~rows'[k].withdrawn /\ rows'[k].seen = message.lag
    BY <2>2, RecordFresh DEF HandInv
  <2> QED
    BY <1>1, <2>1, <2>2 DEF AnnouncedIsFresh
<1>3. ReplacedIsGone'
  <2>1. Unmentioned' = Unmentioned
    BY <1>1 DEF Unmentioned
  <2>2. ASSUME NEW i \in 1..message.done + 1,
               message.records[i].flush, message.records[i].ttl > 0,
               NEW j \in Unmentioned, Sibling(j, message.records[i].key), rows'[j] # NoRow
        PROVE  rows'[j].withdrawn \/ rows'[j].seen <= message.lag + Grace
    BY <2>2, RecordReplaces DEF HandInv
  <2> QED
    BY <1>1, <2>1, <2>2 DEF ReplacedIsGone
<1> QED
  BY <1>2, <1>3 DEF HandInv

\* It holds while time passes between two records.
LEMMA TickHand ==
  ASSUME EvidenceTypes, HandInv, Tick, InHand PROVE HandInv'
<1>1. /\ message'.records = message.records /\ message'.lag = message.lag + 1
      /\ message'.done = message.done
  BY MessageSteps
<1>2. message.lag \in 0..MaxLag
  BY MessageSteps
<1>3. AnnouncedIsFresh'
  <2>1. AnnouncedBy(message.done)' = AnnouncedBy(message.done)
    BY <1>1 DEF AnnouncedBy
  <2>2. ASSUME NEW k \in AnnouncedBy(message.done), rows'[k] # NoRow
        PROVE  ~rows'[k].withdrawn /\ rows'[k].seen = message.lag + 1
    <3>1. k \in Keys
      BY DEF AnnouncedBy
    <3>2. /\ rows[k] # NoRow /\ rows'[k].withdrawn = rows[k].withdrawn
          /\ rows'[k].seen = IF rows[k].seen = AgeCap THEN AgeCap ELSE rows[k].seen + 1
      BY <2>2, <3>1, RowsAge
    <3>3. ~rows[k].withdrawn /\ rows[k].seen = message.lag
      BY <3>2 DEF HandInv, AnnouncedIsFresh
    <3> QED
      BY <1>2, <3>2, <3>3, Times
  <2> QED
    BY <1>1, <2>1, <2>2 DEF AnnouncedIsFresh
<1>4. ReplacedIsGone'
  <2>1. Unmentioned' = Unmentioned
    BY <1>1 DEF Unmentioned
  <2>2. ASSUME NEW i \in 1..message.done,
               message.records[i].flush, message.records[i].ttl > 0,
               NEW j \in Unmentioned, Sibling(j, message.records[i].key), rows'[j] # NoRow
        PROVE  rows'[j].withdrawn \/ rows'[j].seen <= message.lag + 1 + Grace
    <3>1. j \in Keys
      BY DEF Unmentioned
    <3>2. /\ rows[j] # NoRow /\ rows'[j].withdrawn = rows[j].withdrawn
          /\ rows[j].seen \in 0..AgeCap
          /\ rows'[j].seen = IF rows[j].seen = AgeCap THEN AgeCap ELSE rows[j].seen + 1
      BY <2>2, <3>1, RowsAge
    <3>3. rows[j].withdrawn \/ rows[j].seen <= message.lag + Grace
      BY <2>2, <3>2 DEF HandInv, ReplacedIsGone
    <3>4. CASE rows[j].withdrawn
      BY <3>2, <3>4
    <3>5. CASE rows[j].seen <= message.lag + Grace
      BY <1>2, <3>2, <3>5, Times
    <3> QED
      BY <3>3, <3>4, <3>5
  <2> QED
    BY <1>1, <2>1, <2>2 DEF ReplacedIsGone
<1> QED
  BY <1>3, <1>4 DEF HandInv

\* It always holds.
LEMMA HandKept == SpecDiscovery => []HandInv
<1>1. InitDiscovery => HandInv
  BY NothingWritten, IdleMessage DEF InitDiscovery
<1>2. EvidenceTypes /\ HandInv /\ [NextDiscovery]_discoveryVars => HandInv'
  <2> SUFFICES ASSUME EvidenceTypes, HandInv, [NextDiscovery]_discoveryVars PROVE HandInv'
    OBVIOUS
  <2>1. ASSUME UNCHANGED <<rows, message>> PROVE HandInv'
    BY <2>1 DEF HandInv, AnnouncedIsFresh, ReplacedIsGone, AnnouncedBy, Unmentioned
  <2>2. message'.done = 0 => HandInv'
    <3>1. ASSUME message'.done = 0 PROVE HandInv'
      <4>1. /\ AnnouncedBy(message.done)' = {}
            /\ 1..message'.done = {}
        BY <3>1 DEF AnnouncedBy
      <4> QED
        BY <4>1 DEF HandInv, AnnouncedIsFresh, ReplacedIsGone
    <3> QED
      BY <3>1
  <2>3. ASSUME NEW m \in Messages, NEW lag \in 0..MaxLag, Take(m, lag) PROVE HandInv'
    BY <2>2, <2>3 DEF Take
  <2>4. CASE Record
    BY <2>4, RecordHand
  <2>5. CASE Crash
    BY <2>2, <2>5, IdleMessage DEF Crash
  <2>6. ASSUME NEW c \in Claims, RecordAddressEvidence(c) PROVE HandInv'
    BY <2>1, <2>6 DEF RecordAddressEvidence
  <2>7. ASSUME NEW mac \in Claimants, DeleteDevice(mac) PROVE HandInv'
    BY <2>1, <2>7 DEF DeleteDevice
  <2>8. CASE ResetAll
    <3>1. message' = message /\ \A k \in Keys : rows'[k] = NoRow
      BY <2>8 DEF ResetAll
    <3>2. AnnouncedBy(message.done)' \subseteq Keys /\ Unmentioned' \subseteq Keys
      BY DEF AnnouncedBy, Unmentioned
    <3> QED
      BY <3>1, <3>2 DEF HandInv, AnnouncedIsFresh, ReplacedIsGone
  <2>9. ASSUME NEW e \in evidence, NEW interface \in Swept, RetryOffline(e, interface)
        PROVE  HandInv'
    BY <2>1, <2>9, RetryRow, EvidenceStep DEF RetryOffline
  <2>10. CASE Tick /\ InHand
    BY <2>10, TickHand
  <2>11. CASE Tick /\ ~InHand
    BY <2>2, <2>11, IdleMessage DEF Tick
  <2>12. CASE UNCHANGED discoveryVars
    BY <2>1, <2>12 DEF discoveryVars
  <2> QED
    BY <2>3, <2>4, <2>5, <2>6, <2>7, <2>8, <2>9, <2>10, <2>11, <2>12 DEF NextDiscovery
<1> QED
  BY <1>1, <1>2, EvidenceTyped, PTL DEF SpecDiscovery

\* Only writing it disposes of a message's last record.
LEMMA LastIsRecord ==
  ASSUME EvidenceTypes, NextDiscovery, LastRecord
  PROVE  Record /\ message.done + 1 = Len(message.records)
<1>1. message.done \in Nat /\ Len(message.records) \in Nat
      /\ message.done < Len(message.records) /\ message' # Idle
      /\ message'.done = Len(message.records)
  BY MessageSteps DEF LastRecord, InHand
<1>2. message' # message
  BY <1>1
<1>3. ~Tick
  BY <1>1, MessageSteps DEF LastRecord
<1>4. Record
  BY <1>1, <1>2, <1>3 DEF NextDiscovery, Take, Crash, RecordAddressEvidence, DeleteDevice,
                          RetryOffline, ResetAll, InHand
<1> QED
  BY <1>1, <1>4, MessageSteps

\* No address of a response is withdrawn by another of the same response, however
\* late the response was handled (record_mdns_addr).
THEOREM ResponseIsKept == SpecDiscovery => SameResponseKept
<1> DEFINE Kept == LastRecord => \A k \in Announced : rows'[k] # NoRow => ~rows'[k].withdrawn
<1>1. EvidenceTypes /\ HandInv /\ [NextDiscovery]_discoveryVars => [Kept]_discoveryVars
  <2> SUFFICES ASSUME EvidenceTypes, HandInv, NextDiscovery, LastRecord,
                      NEW k \in Announced, rows'[k] # NoRow
               PROVE  ~rows'[k].withdrawn
    OBVIOUS
  <2>1. Record /\ message.done + 1 = Len(message.records)
    BY LastIsRecord
  <2>2. k \in AnnouncedBy(message.done + 1)
    BY <2>1 DEF Announced, AnnouncedBy
  <2> QED
    BY <2>1, <2>2, RecordFresh DEF HandInv
<1> QED
  BY <1>1, EvidenceTyped, HandKept, PTL DEF SpecDiscovery, SameResponseKept

\* When a response has been handled, of the addresses it replaces only those seen
\* within the grace of it are left (record_mdns_addr).
THEOREM FlushIsComplete == SpecDiscovery => FlushedIsGone
<1> DEFINE Gone == LastRecord =>
       \A i \in 1..Len(message.records) :
         LET r == message.records[i] IN
         r.flush /\ r.ttl > 0 =>
           \A j \in Keys \ {k \in Keys : \E n \in 1..Len(message.records) :
                                          message.records[n].key = k} :
             Sibling(j, r.key) /\ rows'[j] # NoRow =>
               rows'[j].withdrawn \/ rows'[j].seen <= message.lag + Grace
<1>1. EvidenceTypes /\ HandInv /\ [NextDiscovery]_discoveryVars => [Gone]_discoveryVars
  <2> SUFFICES ASSUME EvidenceTypes, HandInv, NextDiscovery, LastRecord,
                      NEW i \in 1..Len(message.records),
                      message.records[i].flush, message.records[i].ttl > 0,
                      NEW j \in Unmentioned,
                      Sibling(j, message.records[i].key), rows'[j] # NoRow
               PROVE  rows'[j].withdrawn \/ rows'[j].seen <= message.lag + Grace
    BY DEF Unmentioned
  <2>1. Record /\ message.done + 1 = Len(message.records)
    BY LastIsRecord
  <2>2. i \in 1..message.done + 1
    BY <2>1
  <2> QED
    BY <2>1, <2>2, RecordReplaces DEF HandInv
<1> QED
  BY <1>1, EvidenceTyped, HandKept, PTL DEF SpecDiscovery, FlushedIsGone

=============================================================================
