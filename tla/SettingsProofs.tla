--------------------------- MODULE SettingsProofs ---------------------------
(***************************************************************************)
(* Proofs about Settings, for any number of setups and portals: a setting  *)
(* keeps the last value saved for it, unless saves overlapped.  That is so *)
(* because a setup knows the file as it is once the bytes were compared,   *)
(* but for the settings that others have changed since.  And an outdated   *)
(* portal is restarted: a setup that saved minds it until it stops it.     *)
(***************************************************************************)
EXTENDS Settings, TLAPS

\* What a setup holds, if it runs.
Typed(h) ==
  h # None =>
    /\ h \in Held
    /\ h.step \in {"stop", "wait", "restop", "rewait"} => h.target # None

\* What a setup knows of the file: what it has read, what it wrote and has yet
\* to read back, and, with the comparison behind it, the file itself.
Knows(h) ==
  h # None =>
    \A k \in Keys \ h.late :
      /\ h.step = "reread" => h.draft[k] = file[k]
      /\ h.step # "reread" => h.raw[k] = h.bytes[k]
      /\ h.step = "write" => h.raw[k] = file[k]

IInv == TypeOK /\ SettingKept /\ \A s \in Setups : Knows(setup[s])

-----------------------------------------------------------------------------
(* Going on with what is held already *)

LEMMA TypeParts ==
  TypeOK <=> /\ edits \in 0..MaxEdits
             /\ file \in Contents /\ asked \in Contents /\ muddled \subseteq Keys
             /\ setup \in [Setups -> Held \cup {None}]
             /\ \A s \in Setups : Typed(setup[s])
             /\ portal \in [Portals -> [phase : Phases, cfg : Contents \cup {None}]]
             /\ pidfile \in Portals \cup {None} /\ missed \subseteq Portals
BY DEF TypeOK, Typed

LEMMA HeldFields ==
  ASSUME NEW h \in Held
  PROVE  /\ h.raw \in Contents /\ h.bytes \in Contents /\ h.draft \in Contents
         /\ h.before \in Webs /\ h.pending \in BOOLEAN /\ h.step \in Steps
         /\ h.exiting \in BOOLEAN /\ h.target \in Portals \cup {None} /\ h.late \subseteq Keys
BY DEF Held

\* "n" goes on with what "h" holds of the file, and is not saving.
Follows(h, n) ==
  \/ n = None
  \/ /\ n \in Held /\ Typed(n)
     /\ h # None /\ h.step # "reread" /\ n.step \notin {"write", "reread"}
     /\ n.raw = h.raw /\ n.bytes = h.bytes /\ n.late = h.late

LEMMA FollowsKeeps ==
  ASSUME IInv, NEW s \in Setups, NEW n, Follows(setup[s], n), Sets(s, n), UNCHANGED disk
  PROVE  /\ setup' \in [Setups -> Held \cup {None}]
         /\ \A o \in Setups : Typed(setup'[o])
         /\ \A o \in Setups : Knows(setup[o])'
         /\ SettingKept'
<1>1. /\ setup \in [Setups -> Held \cup {None}]
      /\ \A o \in Setups : Typed(setup[o]) /\ Knows(setup[o])
  BY TypeParts DEF IInv
<1>2. n \in Held \cup {None} /\ Typed(n)
  BY DEF Follows, Typed
<1>3. setup' \in [Setups -> Held \cup {None}]
  BY <1>1, <1>2 DEF Sets
<1>4. \A o \in Setups : setup'[o] = IF o = s THEN n ELSE setup[o]
  BY <1>1 DEF Sets
<1>5. file' = file /\ asked' = asked /\ muddled' = muddled
  BY DEF disk
<1>6. ASSUME NEW o \in Setups PROVE Knows(setup[o])'
  <2>1. CASE o # s
    BY <1>1, <1>4, <1>5, <2>1 DEF Knows
  <2>2. CASE o = s /\ n # None
    <3>1. Knows(setup[s]) /\ setup'[o] = n
      BY <1>1, <1>4, <2>2
    <3> QED BY <2>2, <3>1 DEF Knows, Follows
  <2>3. CASE o = s /\ n = None
    BY <1>4, <2>3 DEF Knows
  <2> QED BY <2>1, <2>2, <2>3
<1>7. SettingKept'
  BY <1>5 DEF SettingKept, IInv
<1> QED BY <1>1, <1>2, <1>3, <1>4, <1>6, <1>7

\* A portal that goes from one phase to another.
LEMMA PortalTypes ==
  ASSUME TypeOK, NEW p \in Portals,
         \/ \E ph \in Phases : Enters(p, ph)
         \/ Dies(p)
         \/ Spawn(p)
         \/ portal' = [portal EXCEPT ![p] = [phase |-> "loaded", cfg |-> file]]
  PROVE  portal' \in [Portals -> [phase : Phases, cfg : Contents \cup {None}]]
<1> DEFINE States == [phase : Phases, cfg : Contents \cup {None}]
<1>0. portal \in [Portals -> States] /\ file \in Contents
  BY DEF TypeOK
<1>1. CASE \E ph \in Phases : Enters(p, ph)
  BY <1>0, <1>1 DEF Enters
<1>2. CASE Dies(p)
  <2>1. Down \in States
    BY DEF Down, Phases
  <2> QED BY <1>0, <1>2, <2>1 DEF Dies
<1>3. CASE Spawn(p)
  <2>1. "new" \in Phases
    BY DEF Phases
  <2> QED BY <1>0, <1>3, <2>1 DEF Spawn
<1>4. CASE portal' = [portal EXCEPT ![p] = [phase |-> "loaded", cfg |-> file]]
  <2>1. [phase |-> "loaded", cfg |-> file] \in States
    BY <1>0 DEF Phases
  <2> QED BY <1>0, <1>4, <2>1
<1> QED BY <1>1, <1>2, <1>3, <1>4

\* The conclusion of every step.
Kept == TypeOK' /\ SettingKept' /\ \A s \in Setups : Knows(setup[s])'

LEMMA FollowsKept ==
  ASSUME IInv, NEW s \in Setups, NEW n, Follows(setup[s], n), Sets(s, n), UNCHANGED disk,
         portal' \in [Portals -> [phase : Phases, cfg : Contents \cup {None}]],
         pidfile' \in Portals \cup {None}, missed' \subseteq Portals
  PROVE  Kept
<1>1. TypeOK
  BY DEF IInv
<1>2. TypeOK'
  BY <1>1, FollowsKeeps DEF TypeOK, Typed, disk
<1> QED BY <1>2, FollowsKeeps DEF Kept

-----------------------------------------------------------------------------
(* The steps of a setup *)

\* What setup "s" holds.
LEMMA Holds ==
  ASSUME IInv, NEW s \in Setups, setup[s] # None
  PROVE  /\ TypeOK /\ setup[s] \in Held /\ Typed(setup[s]) /\ Knows(setup[s])
         /\ setup[s].late \subseteq Keys
         /\ setup[s].raw \in Contents /\ setup[s].bytes \in Contents /\ setup[s].draft \in Contents
BY TypeParts, HeldFields DEF IInv

\* The menu, a restart and a return go on with what is held.
LEMMA Resumed ==
  ASSUME NEW h \in Held, h # None, h.step # "reread"
  PROVE  Follows(h, Resumes(h)) /\ Follows(h, Resumes([h EXCEPT !.pending = FALSE]))
<1>1. ASSUME NEW g \in Held, g.step # "reread"
      PROVE  /\ Resumes(g) \in Held /\ Typed(Resumes(g)) /\ Resumes(g).step \in {"menu", "finish"}
             /\ Resumes(g).raw = g.raw /\ Resumes(g).bytes = g.bytes /\ Resumes(g).late = g.late
  <2>1. PICK step : step = IF g.exiting THEN "finish" ELSE "menu"
    OBVIOUS
  <2>2. PICK n : n = [g EXCEPT !.step = step, !.exiting = FALSE, !.target = None, !.before = "off"]
    OBVIOUS
  <2>3. step \in {"menu", "finish"} /\ Resumes(g) = n
    BY <2>1, <2>2 DEF Resumes
  <2>4. n \in Held
    BY <1>1, <2>2, <2>3 DEF Held, Steps, Webs
  <2>5. /\ n.step = step
        /\ n.raw = g.raw /\ n.bytes = g.bytes /\ n.late = g.late
    BY <1>1, <2>2 DEF Held
  <2>6. Typed(n)
    BY <2>3, <2>4, <2>5 DEF Typed
  <2> QED BY <2>3, <2>4, <2>5, <2>6
<1>2. Follows(h, Resumes(h))
  BY <1>1 DEF Follows
<1>3. PICK g : g = [h EXCEPT !.pending = FALSE]
  OBVIOUS
<1>4. /\ g \in Held /\ g.step # "reread" /\ g.raw = h.raw /\ g.bytes = h.bytes /\ g.late = h.late
  BY <1>3 DEF Held
<1>5. Follows(h, Resumes(g))
  BY <1>1, <1>4 DEF Follows
<1> QED BY <1>2, <1>3, <1>5

LEMMA LeftBehind ==
  ASSUME NEW s \in Setups, setup[s] \in Held, setup[s] # None, setup[s].step # "reread",
         NEW b \in BOOLEAN
  PROVE  Follows(setup[s], Left(s, b))
<1>1. PICK n : n = [setup[s] EXCEPT !.step = "menu", !.pending = b, !.target = None]
  OBVIOUS
<1>2. /\ n \in Held /\ n.step = "menu"
      /\ n.raw = setup[s].raw /\ n.bytes = setup[s].bytes /\ n.late = setup[s].late
  BY <1>1 DEF Held, Steps
<1> QED BY <1>1, <1>2 DEF Follows, Left, Typed

LEMMA Staging ==
  ASSUME IInv, NEW s \in Setups,
         \/ \E draft \in Contents : Stage(s, draft)
         \/ Discard(s)
         \/ WriteFails(s)
         \/ \E exiting \in BOOLEAN : BeginSave(s, exiting) /\ ~Unchanged(s)
         \/ Exit(s) \/ RestartNow(s) \/ LeaveAsIs(s) \/ Abort(s)
  PROVE  Kept
<1>1. TypeOK /\ setup[s] # None /\ missed' \subseteq Portals /\ pidfile' \in Portals \cup {None}
      /\ portal' \in [Portals -> [phase : Phases, cfg : Contents \cup {None}]] /\ UNCHANGED disk
  BY DEF IInv, TypeOK, Stage, Discard, WriteFails, BeginSave, Exit, RestartNow, LeaveAsIs, Abort, At,
         Outdated
<1>2. setup[s] \in Held
  BY <1>1, Holds
<1>3. ASSUME NEW draft \in Contents, Stage(s, draft) PROVE Kept
  <2>1. Follows(setup[s], [setup[s] EXCEPT !.draft = draft])
    BY <1>2, <1>3 DEF Follows, Held, Stage, At, Typed
  <2> QED BY <1>1, <1>3, <2>1, FollowsKept DEF Stage
<1>4. CASE Discard(s)
  <2>1. Follows(setup[s], [setup[s] EXCEPT !.draft = setup[s].raw])
    BY <1>2, <1>4 DEF Follows, Held, Discard, At, Typed
  <2> QED BY <1>1, <1>4, <2>1, FollowsKept DEF Discard
<1>5. CASE WriteFails(s)
  <2>1. Follows(setup[s], [setup[s] EXCEPT !.step = "menu", !.exiting = FALSE])
    BY <1>2, <1>5 DEF Follows, Held, Steps, WriteFails, At, Typed
  <2> QED BY <1>1, <1>5, <2>1, FollowsKept DEF WriteFails
<1>6. CASE Quits(s)
  <2>1. Follows(setup[s], None)
    BY DEF Follows
  <2> QED BY <1>1, <1>6, <2>1, FollowsKept DEF Quits
<1>7. ASSUME NEW exiting \in BOOLEAN, BeginSave(s, exiting), ~Unchanged(s) PROVE Kept
  BY <1>6, <1>7 DEF BeginSave
<1>8. CASE Exit(s) \/ RestartNow(s)
  <2>1. \A b \in BOOLEAN : setup[s].step # "reread" =>
          Follows(setup[s], [setup[s] EXCEPT !.step = "restart", !.exiting = b])
    BY <1>2, <1>1 DEF Follows, Held, Steps, Typed
  <2> QED BY <1>1, <1>6, <1>8, <2>1, FollowsKept DEF Exit, RestartNow, At
<1>9. CASE LeaveAsIs(s)
  BY <1>1, <1>2, <1>9, Resumed, FollowsKept DEF LeaveAsIs, At
<1>10. CASE Abort(s)
  BY <1>6, <1>10 DEF Abort
<1> QED BY <1>3, <1>4, <1>5, <1>7, <1>8, <1>9, <1>10

LEMMA Switching ==
  ASSUME IInv, NEW s \in Setups,
         \/ \E p \in Portals : StartSwitched(s, p) \/ StartNow(s, p) \/ Respawn(s, p)
         \/ StopSwitched(s) \/ BeginRestart(s) \/ Terminate(s) \/ Kill(s) \/ Stopped(s)
  PROVE  Kept
<1>1. TypeOK /\ setup[s] # None /\ UNCHANGED disk
  BY DEF IInv, StartSwitched, StartNow, Respawn, StopSwitched, BeginRestart, Terminate, Kill,
         Stopped, At
<1>2. setup[s] \in Held /\ Typed(setup[s])
  BY <1>1, Holds
<1>3. missed' \subseteq Portals /\ pidfile' \in Portals \cup {None}
  BY <1>1 DEF TypeOK, StartSwitched, StartNow, Respawn, StopSwitched, BeginRestart, Terminate,
              Kill, Stopped, Outdated, LookedUp
<1>4. ASSUME UNCHANGED portal
      PROVE  portal' \in [Portals -> [phase : Phases, cfg : Contents \cup {None}]]
  BY <1>1, <1>4 DEF TypeOK
<1>5. ASSUME NEW p \in Portals, StartSwitched(s, p) PROVE Kept
  <2>1. portal' \in [Portals -> [phase : Phases, cfg : Contents \cup {None}]]
    BY <1>1, <1>5, PortalTypes DEF StartSwitched
  <2>2. Follows(setup[s], Resumes([setup[s] EXCEPT !.pending = FALSE]))
    BY <1>1, <1>2, <1>5, Resumed DEF StartSwitched, At
  <2> QED BY <1>1, <1>3, <1>5, <2>1, <2>2, FollowsKept DEF StartSwitched
<1>6. ASSUME NEW p \in Portals, StartNow(s, p) PROVE Kept
  <2>1. portal' \in [Portals -> [phase : Phases, cfg : Contents \cup {None}]]
    BY <1>1, <1>6, PortalTypes DEF StartNow
  <2>2. Follows(setup[s], [setup[s] EXCEPT !.pending = FALSE])
    BY <1>1, <1>2, <1>6 DEF Follows, Held, StartNow, At, Typed
  <2> QED BY <1>1, <1>3, <1>6, <2>1, <2>2, FollowsKept DEF StartNow
<1>7. ASSUME NEW p \in Portals, Respawn(s, p) PROVE Kept
  <2>1. portal' \in [Portals -> [phase : Phases, cfg : Contents \cup {None}]]
    BY <1>1, <1>4, <1>7, PortalTypes DEF Respawn
  <2>2. \A b \in BOOLEAN : Follows(setup[s], Left(s, b))
    BY <1>1, <1>2, <1>7, LeftBehind DEF Respawn, At
  <2>3. setup[s].pending \in BOOLEAN
    BY <1>2, HeldFields
  <2> QED BY <1>1, <1>3, <1>7, <2>1, <2>2, <2>3, FollowsKept DEF Respawn
<1>8. ASSUME Found PROVE pidfile \in Portals
  BY <1>1, <1>8 DEF Found, TypeOK
<1>9. CASE StopSwitched(s)
  <2>1. Follows(setup[s], Resumes(setup[s]))
    BY <1>1, <1>2, <1>9, Resumed DEF StopSwitched, At
  <2>2. Found => Follows(setup[s], [setup[s] EXCEPT !.step = "stop", !.target = pidfile])
    BY <1>1, <1>2, <1>8, <1>9, SettingsAssumption DEF Follows, Held, Steps, StopSwitched, At, Typed
  <2> QED BY <1>1, <1>3, <1>4, <1>9, <2>1, <2>2, FollowsKept DEF StopSwitched
<1>10. CASE BeginRestart(s)
  <2>1. Follows(setup[s], Left(s, setup[s].pending))
    BY <1>1, <1>2, <1>10, LeftBehind, HeldFields DEF BeginRestart, At
  <2>2. Found => Follows(setup[s], [setup[s] EXCEPT !.step = "restop", !.target = pidfile])
    BY <1>1, <1>2, <1>8, <1>10, SettingsAssumption DEF Follows, Held, Steps, BeginRestart, At, Typed
  <2> QED BY <1>1, <1>3, <1>4, <1>10, <2>1, <2>2, FollowsKept DEF BeginRestart
<1>11. ASSUME setup[s].step \in {"stop", "wait", "restop", "rewait"} PROVE setup[s].target \in Portals
  BY <1>1, <1>2, <1>11 DEF Typed, Held
<1>12. CASE Terminate(s)
  <2>1. portal' \in [Portals -> [phase : Phases, cfg : Contents \cup {None}]]
    <3>1. "closing" \in Phases
      BY DEF Phases
    <3> QED BY <1>1, <1>4, <1>11, <1>12, <3>1, PortalTypes DEF Terminate, At
  <2>2. \A step \in {"wait", "rewait"} : Follows(setup[s], [setup[s] EXCEPT !.step = step])
    BY <1>1, <1>2, <1>12 DEF Follows, Held, Steps, Terminate, At, Typed
  <2> QED BY <1>1, <1>3, <1>12, <2>1, <2>2, FollowsKept DEF Terminate
<1>13. CASE Kill(s)
  <2>1. portal' \in [Portals -> [phase : Phases, cfg : Contents \cup {None}]]
    BY <1>1, <1>11, <1>13, PortalTypes DEF Kill, At
  <2> QED BY <1>1, <1>13, <2>1 DEF Kill, disk, IInv, TypeOK, Kept, SettingKept, Knows
<1>14. CASE Stopped(s)
  <2>1. Follows(setup[s], Resumes(setup[s]))
    BY <1>1, <1>2, <1>14, Resumed DEF Stopped, At
  <2>2. Follows(setup[s], [setup[s] EXCEPT !.step = "respawn"])
    BY <1>1, <1>2, <1>14 DEF Follows, Held, Steps, Stopped, At, Typed
  <2> QED BY <1>1, <1>3, <1>4, <1>14, <2>1, <2>2, FollowsKept DEF Stopped
<1> QED BY <1>5, <1>6, <1>7, <1>9, <1>10, <1>12, <1>13, <1>14

\* A setup reads the file, and later compares it: it knows it.
LEMMA Reading ==
  ASSUME IInv, NEW s \in Setups,
         \/ Load(s)
         \/ \E exiting \in BOOLEAN : BeginSave(s, exiting) /\ Unchanged(s)
         \/ Reread(s)
  PROVE  Kept
<1>1. TypeOK /\ setup \in [Setups -> Held \cup {None}] /\ file \in Contents
  BY DEF IInv, TypeOK
<1>2. ASSUME NEW n \in Held, Typed(n), Sets(s, n), Knows(n)', UNCHANGED <<disk, portal, pidfile, missed>>
      PROVE  Kept
  <2>1. \A o \in Setups : setup'[o] = IF o = s THEN n ELSE setup[o]
    BY <1>1, <1>2 DEF Sets
  <2>2. \A o \in Setups : Typed(setup'[o])
    BY <1>1, <1>2, <2>1, TypeParts
  <2>3. setup' \in [Setups -> Held \cup {None}]
    BY <1>1, <1>2 DEF Sets
  <2>4. ASSUME NEW o \in Setups PROVE Knows(setup[o])'
    BY <1>2, <2>1 DEF Knows, IInv, disk
  <2>5. TypeOK'
    BY <1>1, <1>2, <2>2, <2>3 DEF TypeOK, Typed, disk
  <2>6. SettingKept'
    BY <1>2 DEF SettingKept, IInv, disk
  <2> QED BY <2>4, <2>5, <2>6 DEF Kept
<1>3. CASE Load(s)
  <2>1. PICK n : n = [raw |-> file, bytes |-> file, draft |-> file, before |-> "off", pending |-> FALSE,
                      step |-> "menu", exiting |-> FALSE, target |-> None, late |-> {}]
    OBVIOUS
  <2>2. n \in Held
    BY <1>1, <2>1 DEF Held, Steps, Webs
  <2>3. Typed(n) /\ Knows(n)'
    BY <2>1, <2>2 DEF Typed, Knows
  <2> QED BY <1>2, <1>3, <2>1, <2>2, <2>3 DEF Load
<1>4. ASSUME NEW exiting \in BOOLEAN, BeginSave(s, exiting), Unchanged(s) PROVE Kept
  <2>1. PICK n : n = [setup[s] EXCEPT !.step = "write", !.exiting = exiting]
    OBVIOUS
  <2>2. setup[s] \in Held /\ setup[s] # None /\ Knows(setup[s]) /\ At(s, "menu") /\ UNCHANGED disk
    BY <1>4, Holds DEF BeginSave, At
  <2>3. /\ n \in Held /\ n.step = "write"
        /\ n.raw = setup[s].raw /\ n.bytes = setup[s].bytes /\ n.late = setup[s].late
    BY <2>1, <2>2 DEF Held, Steps
  <2>4. Typed(n)
    BY <2>3 DEF Typed
  <2>5. Knows(n)'
    BY <1>4, <2>2, <2>3 DEF Knows, Unchanged, At, disk
  <2> QED BY <1>2, <1>4, <2>1, <2>3, <2>4, <2>5 DEF BeginSave
<1>5. CASE Reread(s)
  <2>1. PICK n : n = [setup[s] EXCEPT !.step = "saved", !.pending = TRUE, !.raw = setup[s].draft,
                                      !.before = setup[s].raw.web, !.bytes = file]
    OBVIOUS
  <2>2. setup[s] \in Held /\ setup[s] # None /\ Knows(setup[s]) /\ At(s, "reread") /\ UNCHANGED disk
    BY <1>5, Holds DEF Reread, At
  <2>3. setup[s].raw.web \in Webs
    BY <2>2 DEF Held, Contents
  <2>4. /\ n \in Held /\ n.step = "saved"
        /\ n.raw = setup[s].draft /\ n.bytes = file /\ n.late = setup[s].late
    BY <1>1, <2>1, <2>2, <2>3 DEF Held, Steps
  <2>5. Typed(n)
    BY <2>4 DEF Typed
  <2>6. Knows(n)'
    BY <2>2, <2>4 DEF Knows, At, disk
  <2> QED BY <1>2, <1>5, <2>1, <2>4, <2>5, <2>6 DEF Reread
<1> QED BY <1>3, <1>4, <1>5

\* Settings of the file change: whoever is past the comparison does not know.
LEMMA ChangedKept ==
  ASSUME IInv, NEW s \in Setups \cup {None}, NEW keys \in SUBSET Keys,
         NEW next, s \in Setups => next \in Held /\ Typed(next),
         ChangedBehind(s, keys, next),
         file' \in Contents, \A k \in Keys \ keys : file'[k] = file[k],
         s \in Setups => Knows(next)'
  PROVE  /\ setup' \in [Setups -> Held \cup {None}]
         /\ \A o \in Setups : Typed(setup'[o])
         /\ \A o \in Setups : Knows(setup[o])'
<1> SUFFICES ASSUME NEW o \in Setups
             PROVE  setup'[o] \in Held \cup {None} /\ Typed(setup'[o]) /\ Knows(setup[o])'
  BY DEF ChangedBehind
<1>1. setup[o] \in Held \cup {None} /\ Typed(setup[o]) /\ Knows(setup[o])
  BY TypeParts DEF IInv
<1>2. CASE o = s
  BY <1>2 DEF ChangedBehind, Knows
<1>3. CASE o # s /\ ~At(o, "write") /\ ~At(o, "reread")
  BY <1>1, <1>3 DEF ChangedBehind, Knows, At
<1>4. CASE o # s /\ (At(o, "write") \/ At(o, "reread"))
  <2>1. setup[o] \in Held /\ setup[o] # None
    BY <1>1, <1>4 DEF At
  <2>2. PICK n : n = [setup[o] EXCEPT !.late = setup[o].late \cup keys]
    OBVIOUS
  <2>3. setup'[o] = n
    BY <1>4, <2>2 DEF ChangedBehind
  <2>4. /\ n \in Held /\ n.late = setup[o].late \cup keys /\ n.step = setup[o].step
        /\ n.raw = setup[o].raw /\ n.bytes = setup[o].bytes /\ n.draft = setup[o].draft
    BY <2>1, <2>2 DEF Held
  <2>5. Typed(n)
    BY <1>4, <2>4 DEF Typed, At
  <2>6. Knows(n)'
    BY <1>1, <2>1, <2>4 DEF Knows
  <2> QED BY <2>3, <2>4, <2>5, <2>6 DEF Knows
<1> QED BY <1>2, <1>3, <1>4

\* The settings that are saved take the place of the others.
LEMMA WriteKept ==
  ASSUME IInv, NEW s \in Setups, Write(s)
  PROVE  Kept
<1> DEFINE held == setup[s]
           own == {k \in Keys : held.draft[k] # held.raw[k]}
<1>1. /\ TypeOK /\ held \in Held /\ held # None /\ Knows(held)
      /\ held.late \subseteq Keys /\ held.draft \in Contents
  BY Holds DEF Write, At
<1>2. /\ file' = held.draft
      /\ asked' = [k \in Keys |-> IF k \in own THEN held.draft[k] ELSE asked[k]]
      /\ muddled' = (muddled \cup held.late) \ own
  BY DEF Write
<1>3. \A k \in Keys \ (own \cup held.late) : file'[k] = file[k]
  BY <1>1, <1>2 DEF Knows, Write, At
<1>4. PICK n : n = [held EXCEPT !.step = "reread", !.late = {}]
  OBVIOUS
<1>5. /\ n \in Held /\ n.step = "reread" /\ n.late = {} /\ n.draft = held.draft
  BY <1>1, <1>4 DEF Held, Steps
<1>6. Typed(n) /\ Knows(n)'
  BY <1>2, <1>5 DEF Typed, Knows
<1>7. /\ setup' \in [Setups -> Held \cup {None}]
      /\ \A o \in Setups : Typed(setup'[o])
      /\ \A o \in Setups : Knows(setup[o])'
  BY <1>1, <1>2, <1>3, <1>4, <1>5, <1>6, ChangedKept DEF Write
<1>8. SettingKept'
  BY <1>1, <1>2, <1>3 DEF SettingKept, IInv
<1>9. asked' \in Contents
  BY <1>1, <1>2 DEF TypeOK, Contents, Keys
<1>10. TypeOK'
  BY <1>1, <1>2, <1>7, <1>9 DEF TypeOK, Typed, Write
<1> QED BY <1>7, <1>8, <1>10 DEF Kept

LEMMA HandEditKept ==
  ASSUME IInv, NEW k \in Keys, NEW v, k = "web" => v \in Webs, k = "site" => v \in Sites,
         HandEdit(k, v)
  PROVE  Kept
<1>1. TypeOK /\ file \in Contents /\ asked \in Contents
  BY DEF IInv, TypeOK
<1>2. file' \in Contents /\ asked' \in Contents
  BY <1>1 DEF HandEdit, Contents, Keys
<1>3. file'[k] = v /\ asked'[k] = v /\ \A o \in Keys \ {k} : file'[o] = file[o] /\ asked'[o] = asked[o]
  BY <1>1 DEF HandEdit, Contents, Keys
<1>4. /\ setup' \in [Setups -> Held \cup {None}]
      /\ \A o \in Setups : Typed(setup'[o])
      /\ \A o \in Setups : Knows(setup[o])'
  BY <1>2, <1>3, ChangedKept, SettingsAssumption DEF HandEdit
<1>5. SettingKept'
  BY <1>3 DEF SettingKept, IInv, HandEdit
<1>6. edits' \in 0..MaxEdits /\ missed' \subseteq Portals /\ muddled' \subseteq Keys
  BY <1>1, SettingsAssumption DEF HandEdit, TypeOK
<1>7. TypeOK'
  BY <1>1, <1>2, <1>4, <1>6 DEF TypeOK, Typed, HandEdit
<1> QED BY <1>4, <1>5, <1>7 DEF Kept

-----------------------------------------------------------------------------
(* The steps of a portal, and the theorems *)

LEMMA RunningKept ==
  ASSUME IInv, NEW p \in Portals, Running(p)
  PROVE  Kept
<1>1. TypeOK /\ UNCHANGED disk /\ UNCHANGED setup
  BY DEF IInv, Running, StartByHand, ReadSettings, Bind, Certify, Serve, Interrupt, Close,
         RemovePid, Crash
<1>2. missed' \subseteq Portals /\ pidfile' \in Portals \cup {None}
  BY <1>1 DEF TypeOK, Running, StartByHand, ReadSettings, Bind, Certify, Serve, Interrupt, Close,
              RemovePid, Crash
<1>3. \/ \E ph \in Phases : Enters(p, ph)
      \/ Dies(p) \/ Spawn(p)
      \/ portal' = [portal EXCEPT ![p] = [phase |-> "loaded", cfg |-> file]]
  BY DEF Running, StartByHand, ReadSettings, Bind, Certify, Serve, Interrupt, Close,
         RemovePid, Crash, Phases
<1>4. portal' \in [Portals -> [phase : Phases, cfg : Contents \cup {None}]]
  BY <1>1, <1>3, PortalTypes
<1>5. TypeOK'
  BY <1>1, <1>2, <1>4 DEF TypeOK, disk
<1> QED BY <1>1, <1>5 DEF Kept, IInv, SettingKept, Knows, disk

LEMMA StepKept ==
  ASSUME IInv, [Next]_vars
  PROVE  Kept
<1>1. ASSUME NEW s \in Setups, Setting(s) PROVE Kept
  BY <1>1, Staging, Switching, Reading, WriteKept DEF Setting
<1>2. ASSUME NEW p \in Portals, Running(p) PROVE Kept
  BY <1>2, RunningKept
<1>3. ASSUME NEW v \in Webs, HandEdit("web", v) PROVE Kept
  BY <1>3, HandEditKept DEF Keys
<1>4. ASSUME NEW v \in Sites, HandEdit("site", v) PROVE Kept
  BY <1>4, HandEditKept DEF Keys
<1>5. CASE UNCHANGED vars
  BY <1>5 DEF vars, disk, Kept, IInv, TypeOK, SettingKept, Knows
<1> QED BY <1>1, <1>2, <1>3, <1>4, <1>5 DEF Next

\* The types, what a setup knows of the file, and that settings are kept, hold
\* at the start and are kept by every step.
THEOREM Inductive ==
  /\ Init => IInv
  /\ IInv /\ [Next]_vars => IInv'
<1>1. Init => TypeOK
  BY SettingsAssumption DEF Init, TypeOK, Down, Phases
<1>2. Init => SettingKept /\ \A s \in Setups : Knows(setup[s])
  BY DEF Init, SettingKept, Knows
<1>3. Init => IInv
  BY <1>1, <1>2 DEF IInv
<1>4. IInv /\ [Next]_vars => IInv'
  BY StepKept DEF Kept, IInv
<1> QED BY <1>3, <1>4

\* The file, the setups and the portals keep their types.
THEOREM TypeCorrect == Spec => []TypeOK
<1>1. IInv => TypeOK
  BY DEF IInv
<1> QED BY Inductive, <1>1, PTL DEF Spec

\* A setting keeps the last value saved for it, unless it was changed while a
\* setup was between its comparison and reading its own file back
\* (save_channels_config_file).
THEOREM SettingIsKept == Spec => []SettingKept
<1>1. IInv => SettingKept
  BY DEF IInv
<1> QED BY Inductive, <1>1, PTL DEF Spec

-----------------------------------------------------------------------------
(* Outdated portals *)

\* A setup that holds h is going to look after portal p: it saves, or has a
\* restart due, and if it has begun the restart then by stopping p.
Minds(h, p) ==
  /\ h # None
  /\ \/ h.step = "reread"
     \/ /\ h.pending /\ h.step # "respawn"
        /\ h.step \in {"restop", "rewait"} => h.target = p

Minded == \A p \in Outdated(file) \ missed : \E s \in Setups : Minds(setup[s], p)

\* A portal becomes outdated only when the file changes.
LEMMA NoneNewlyOutdated ==
  ASSUME TypeOK, NEW p \in Portals, file' = file,
         \/ UNCHANGED portal
         \/ HasLoaded(p) /\ \E ph \in Phases : Enters(p, ph)
         \/ Dies(p) \/ Spawn(p)
         \/ portal' = [portal EXCEPT ![p] = [phase |-> "loaded", cfg |-> file]]
  PROVE  Outdated(file)' \subseteq Outdated(file)
<1>0. portal \in [Portals -> [phase : Phases, cfg : Contents \cup {None}]]
  BY DEF TypeOK
<1> SUFFICES ASSUME NEW q \in Portals, portal'[q].phase \notin {"none", "new"}, portal'[q].cfg # file
             PROVE  portal[q].phase \notin {"none", "new"} /\ portal[q].cfg # file
  BY DEF Outdated, HasLoaded
<1>1. CASE q # p \/ UNCHANGED portal
  BY <1>0, <1>1 DEF Enters, Dies, Spawn
<1>2. CASE q = p /\ HasLoaded(p) /\ \E ph \in Phases : Enters(p, ph)
  BY <1>0, <1>2 DEF Enters, HasLoaded
<1>3. CASE q = p /\ (Dies(p) \/ Spawn(p))
  BY <1>0, <1>3 DEF Dies, Spawn, Down
<1>4. CASE q = p /\ portal' = [portal EXCEPT ![p] = [phase |-> "loaded", cfg |-> file]]
  BY <1>0, <1>4
<1> QED BY <1>1, <1>2, <1>3, <1>4

\* One setup goes on, and minds what it has minded or leaves it behind.
LEMMA StillMinded ==
  ASSUME TypeOK, Minded, NEW s \in Setups, NEW n, Sets(s, n),
         Outdated(file)' \subseteq Outdated(file), missed \subseteq missed',
         \A p \in Outdated(file)' \ missed' : Minds(setup[s], p) => Minds(n, p)
  PROVE  Minded'
<1>1. \A o \in Setups : setup'[o] = IF o = s THEN n ELSE setup[o]
  BY DEF TypeOK, Sets
<1>2. ASSUME NEW p \in Outdated(file)' \ missed'
      PROVE  \E o \in Setups : Minds(setup[o], p)'
  <2>1. PICK o \in Setups : Minds(setup[o], p)
    BY <1>2 DEF Minded
  <2>2. CASE o # s
    BY <1>1, <2>1, <2>2 DEF Minds
  <2>3. CASE o = s
    <3>1. Minds(n, p) /\ setup'[s] = n
      BY <1>1, <1>2, <2>1, <2>3
    <3> QED BY <3>1 DEF Minds
  <2> QED BY <2>2, <2>3
<1> QED BY <1>2 DEF Minded

\* What a setup that resumes minds.
LEMMA ResumedMinds ==
  ASSUME NEW h \in Held, h # None, NEW p
  PROVE  h.step \notin {"reread", "restop", "rewait", "respawn"} /\ Minds(h, p) => Minds(Resumes(h), p)
<1> SUFFICES ASSUME h.pending PROVE Minds(Resumes(h), p)
  BY DEF Minds
<1>1. PICK n : n = Resumes(h)
  OBVIOUS
<1>2. n.pending = h.pending /\ n.step \in {"finish", "menu"} /\ n # None
  BY <1>1, NotHeldAssumption DEF Resumes, Held, Steps, Webs
<1> QED BY <1>1, <1>2 DEF Minds

LEMMA MenuMinded ==
  ASSUME TypeOK, Minded, NEW s \in Setups,
         \/ Load(s) \/ \E draft \in Contents : Stage(s, draft)
         \/ Discard(s) \/ \E exiting \in BOOLEAN : BeginSave(s, exiting)
         \/ WriteFails(s) \/ Reread(s)
         \/ \E p \in Portals : StartSwitched(s, p) \/ StartNow(s, p)
         \/ LeaveAsIs(s) \/ StopSwitched(s) \/ Exit(s) \/ RestartNow(s) \/ Abort(s)
  PROVE  Minded'
<1>0. setup[s] # None => setup[s] \in Held
  BY DEF TypeOK
<1>1. Outdated(file)' \subseteq Outdated(file)
  BY NoneNewlyOutdated DEF Load, Stage, Discard, BeginSave, WriteFails, Reread, StartSwitched,
     StartNow, LeaveAsIs, StopSwitched, Exit, RestartNow, Abort, disk, Outdated, HasLoaded
<1>2. missed \subseteq missed'
  BY DEF Load, Stage, Discard, BeginSave, WriteFails, Reread, StartSwitched,
     StartNow, LeaveAsIs, StopSwitched, Exit, RestartNow, Abort
<1>3. ASSUME NEW n, Sets(s, n), \A p \in Outdated(file) \ missed' : Minds(setup[s], p) => Minds(n, p)
      PROVE  Minded'
  BY <1>1, <1>2, <1>3, StillMinded
<1>4. CASE Load(s)
  BY <1>3, <1>4 DEF Load, Minds
<1>5. ASSUME NEW draft \in Contents, Stage(s, draft) \/ (Discard(s) /\ draft = setup[s].raw)
      PROVE  Minded'
  <2>1. PICK n : n = [setup[s] EXCEPT !.draft = draft]
    OBVIOUS
  <2>2. setup[s] \in Held /\ setup[s].step = "menu" /\ Sets(s, n)
    BY <1>0, <1>5, <2>1 DEF Stage, Discard, At
  <2>3. n # None /\ n.step = "menu" /\ n.pending = setup[s].pending
    BY <2>1, <2>2, NotHeldAssumption DEF Held
  <2> QED BY <1>3, <2>2, <2>3 DEF Minds
<1>6. CASE Discard(s)
  BY <1>0, <1>5, <1>6, HeldFields DEF Discard, At
<1>7. ASSUME NEW n, Sets(s, n), Outdated(file) \subseteq missed' PROVE Minded'
  BY <1>3, <1>7
<1>8. ASSUME NEW step \in {"menu", "write", "restart"}, NEW exiting \in BOOLEAN,
             setup[s] # None, setup[s].step \in {"menu", "write", "finish"},
             Sets(s, [setup[s] EXCEPT !.step = step, !.exiting = exiting])
      PROVE  Minded'
  <2>1. PICK n : n = [setup[s] EXCEPT !.step = step, !.exiting = exiting]
    OBVIOUS
  <2>2. n # None /\ n.step = step /\ n.pending = setup[s].pending
    BY <1>0, <1>8, <2>1, NotHeldAssumption DEF Held, Steps
  <2> QED BY <1>3, <1>8, <2>1, <2>2 DEF Minds
<1>9. ASSUME NEW exiting \in BOOLEAN, BeginSave(s, exiting) PROVE Minded'
  <2>1. CASE Unchanged(s)
    BY <1>8, <1>9, <2>1 DEF BeginSave, At
  <2>2. CASE ~Unchanged(s)
    <3>1. Sets(s, None) /\ setup[s].step = "menu"
      BY <1>9, <2>2 DEF BeginSave, Quits, At
    <3>2. CASE setup[s].pending
      BY <1>7, <1>9, <2>2, <3>1, <3>2 DEF BeginSave
    <3>3. CASE ~setup[s].pending
      BY <1>3, <3>1, <3>3 DEF Minds
    <3> QED BY <3>2, <3>3
  <2> QED BY <2>1, <2>2
<1>10. CASE WriteFails(s)
  BY <1>8, <1>10 DEF WriteFails, At
<1>11. CASE Reread(s)
  <2>1. PICK n : n = [setup[s] EXCEPT !.step = "saved", !.pending = TRUE, !.raw = setup[s].draft,
                                      !.before = setup[s].raw.web, !.bytes = file]
    OBVIOUS
  <2>2. setup[s] \in Held /\ Sets(s, n)
    BY <1>0, <1>11, <2>1 DEF Reread, At
  <2>3. setup[s].raw.web \in Webs /\ file \in Contents
    BY <2>2 DEF TypeOK, Held, Contents
  <2>4. n \in Held /\ n.step = "saved" /\ n.pending
    BY <2>1, <2>2, <2>3 DEF Held, Steps
  <2> QED BY <1>3, <2>2, <2>4, NotHeldAssumption DEF Minds
<1>12. ASSUME NEW p \in Portals, StartSwitched(s, p) \/ StartNow(s, p) PROVE Minded'
  BY <1>7, <1>12 DEF StartSwitched, StartNow
<1>13. CASE LeaveAsIs(s)
  BY <1>0, <1>3, <1>13, ResumedMinds DEF LeaveAsIs, At
<1>14. CASE StopSwitched(s)
  <2>1. CASE Found
    <3>1. PICK n : n = [setup[s] EXCEPT !.step = "stop", !.target = pidfile]
      OBVIOUS
    <3>2. setup[s] \in Held /\ setup[s].step = "saved" /\ Sets(s, n)
      BY <1>0, <1>14, <2>1, <3>1 DEF StopSwitched, At
    <3>3. n # None /\ n.step = "stop" /\ n.pending = setup[s].pending
      BY <3>1, <3>2, NotHeldAssumption DEF Held, Steps, TypeOK
    <3> QED BY <1>3, <3>2, <3>3 DEF Minds
  <2>2. CASE ~Found
    BY <1>0, <1>3, <1>14, <2>2, ResumedMinds DEF StopSwitched, At
  <2> QED BY <2>1, <2>2
<1>15. CASE Exit(s)
  <2>1. CASE setup[s].pending
    BY <1>8, <1>15, <2>1 DEF Exit, Finishes, At
  <2>2. CASE ~setup[s].pending
    BY <1>3, <1>15, <2>2 DEF Exit, Finishes, At, Quits, Minds
  <2> QED BY <2>1, <2>2
<1>16. CASE RestartNow(s)
  BY <1>8, <1>16 DEF RestartNow, At
<1>17. CASE Abort(s)
  BY <1>7, <1>17 DEF Abort, Quits
<1> QED BY <1>4, <1>5, <1>6, <1>9, <1>10, <1>11, <1>12, <1>13, <1>14, <1>15, <1>16, <1>17

LEMMA StopsMinded ==
  ASSUME TypeOK, Minded, NEW s \in Setups,
         \/ BeginRestart(s) \/ Terminate(s) \/ Kill(s) \/ Stopped(s)
         \/ \E p \in Portals : Respawn(s, p)
  PROVE  Minded'
<1>0. setup[s] \in Held /\ setup[s] # None /\ Typed(setup[s])
  BY TypeParts DEF BeginRestart, Terminate, Kill, Stopped, Respawn, At
<1>1. setup[s].step \in {"stop", "wait", "restop", "rewait"} => setup[s].target \in Portals
  BY <1>0, HeldFields DEF Typed
<1>2. Outdated(file)' \subseteq Outdated(file)
  <2>1. CASE Terminate(s)
    <3>1. PICK p \in Portals : p = setup[s].target
      BY <1>1, <2>1 DEF Terminate, At
    <3>2. UNCHANGED portal \/ (portal[p].phase = "serving" /\ Enters(p, "closing")) \/ Dies(p)
      BY <2>1, <3>1 DEF Terminate
    <3> QED BY <2>1, <3>2, NoneNewlyOutdated DEF Terminate, disk, HasLoaded, Phases
  <2>2. CASE Kill(s)
    BY <1>1, <2>2, NoneNewlyOutdated DEF Kill, At, disk
  <2>3. ASSUME NEW p \in Portals, Respawn(s, p) PROVE Outdated(file)' \subseteq Outdated(file)
    BY <2>3, NoneNewlyOutdated DEF Respawn, disk
  <2>4. CASE BeginRestart(s) \/ Stopped(s)
    BY <2>4 DEF BeginRestart, Stopped, disk, Outdated, HasLoaded
  <2> QED BY <2>1, <2>2, <2>3, <2>4
<1>3. missed \subseteq missed'
  BY DEF BeginRestart, Terminate, Kill, Stopped, Respawn
<1>4. ASSUME NEW n, Sets(s, n), \A p \in Outdated(file)' \ missed' : Minds(setup[s], p) => Minds(n, p)
      PROVE  Minded'
  BY <1>2, <1>3, <1>4, StillMinded
<1>5. CASE BeginRestart(s)
  <2>1. CASE Found
    <3>1. PICK n : n = [setup[s] EXCEPT !.step = "restop", !.target = pidfile]
      OBVIOUS
    <3>2. Sets(s, n) /\ setup[s].step = "restart" /\ \A p \in Outdated(file) \ missed' : p = pidfile
      BY <1>5, <2>1, <3>1 DEF BeginRestart, At
    <3>3. n # None /\ n.step = "restop" /\ n.pending = setup[s].pending /\ n.target = pidfile
      BY <1>0, <3>1, NotHeldAssumption DEF Held, Steps, TypeOK
    <3> QED BY <1>2, <1>4, <3>2, <3>3 DEF Minds
  <2>2. CASE ~Found
    BY <1>2, <1>4, <1>5, <2>2 DEF BeginRestart
  <2> QED BY <2>1, <2>2
<1>6. CASE Terminate(s)
  <2>1. PICK step \in {"wait", "rewait"} : step = IF At(s, "stop") THEN "wait" ELSE "rewait"
    OBVIOUS
  <2>2. PICK n : n = [setup[s] EXCEPT !.step = step]
    OBVIOUS
  <2>3. n # None /\ n.step = step /\ n.pending = setup[s].pending /\ n.target = setup[s].target
    BY <1>0, <2>1, <2>2, NotHeldAssumption DEF Held, Steps
  <2>4. Sets(s, n)
    BY <1>6, <2>1, <2>2 DEF Terminate
  <2>5. setup[s].step \in {"stop", "restop"} /\ (setup[s].step = "stop" <=> step = "wait")
    BY <1>0, <1>6, <2>1 DEF Terminate, At
  <2> QED BY <1>4, <2>3, <2>4, <2>5 DEF Minds
<1>7. CASE Kill(s)
  BY <1>2, <1>3, <1>7 DEF Kill, Minded, Minds
<1>8. CASE Stopped(s)
  <2>1. CASE At(s, "wait")
    BY <1>0, <1>4, <1>8, <2>1, ResumedMinds DEF Stopped, At
  <2>2. CASE At(s, "rewait")
    <3>1. PICK n : Sets(s, n)
      BY <1>8 DEF Stopped
    <3>2. setup[s].target \notin Outdated(file)'
      BY <1>8 DEF Stopped, Alive, Outdated, HasLoaded
    <3>3. \A p \in Outdated(file)' : ~Minds(setup[s], p)
      BY <2>2, <3>2 DEF Minds, At
    <3> QED BY <1>4, <3>1, <3>3
  <2> QED BY <1>8, <2>1, <2>2 DEF Stopped
<1>9. ASSUME NEW p \in Portals, Respawn(s, p) PROVE Minded'
  <2>1. \A q : ~Minds(setup[s], q)
    BY <1>9 DEF Respawn, At, Minds
  <2> QED BY <1>4, <1>9, <2>1 DEF Respawn
<1> QED BY <1>5, <1>6, <1>7, <1>8, <1>9

LEMMA MindedStep ==
  ASSUME TypeOK, Minded, [Next]_vars
  PROVE  Minded'
<1>0. \A s \in Setups : setup[s] # None => setup[s] \in Held
  BY DEF TypeOK
<1>1. ASSUME NEW p \in Portals, Running(p) PROVE Minded'
  <2>1. Outdated(file)' \subseteq Outdated(file)
    BY <1>1, NoneNewlyOutdated DEF Running, StartByHand, ReadSettings, Bind, Certify, Serve,
       Interrupt, Close, RemovePid, Crash, disk, HasLoaded, Phases
  <2>2. setup' = setup
    BY <1>1 DEF Running, StartByHand, ReadSettings, Bind, Certify, Serve, Interrupt, Close,
       RemovePid, Crash
  <2>3. \A q \in Outdated(file)' : q \in missed => q \in missed'
    <3>1. CASE ReadSettings(p)
      <4>1. p \notin Outdated(file)'
        BY <3>1 DEF ReadSettings, Outdated, HasLoaded, Dies, Down, disk, TypeOK
      <4> QED BY <3>1, <4>1 DEF ReadSettings
    <3>2. CASE ~ReadSettings(p)
      BY <1>1, <3>2 DEF Running, StartByHand, Bind, Certify, Serve, Interrupt, Close, RemovePid, Crash
    <3> QED BY <3>1, <3>2
  <2> QED BY <2>1, <2>2, <2>3 DEF Minded, Minds
<1>2. ASSUME NEW s \in Setups, Setting(s), ~Write(s) PROVE Minded'
  <2>1. \/ Load(s) \/ \E draft \in Contents : Stage(s, draft)
        \/ Discard(s) \/ \E exiting \in BOOLEAN : BeginSave(s, exiting)
        \/ WriteFails(s) \/ Reread(s)
        \/ \E p \in Portals : StartSwitched(s, p) \/ StartNow(s, p)
        \/ LeaveAsIs(s) \/ StopSwitched(s) \/ Exit(s) \/ RestartNow(s) \/ Abort(s)
        \/ BeginRestart(s) \/ Terminate(s) \/ Kill(s) \/ Stopped(s)
        \/ \E p \in Portals : Respawn(s, p)
    BY <1>2 DEF Setting
  <2> QED BY <2>1, MenuMinded, StopsMinded
<1>3. ASSUME NEW s \in Setups, Write(s) PROVE Minded'
  <2>1. setup'[s] = [setup[s] EXCEPT !.step = "reread", !.late = {}]
    BY <1>3 DEF Write, ChangedBehind
  <2>2. setup[s] \in Held /\ setup[s] # None
    BY <1>0, <1>3 DEF Write, At
  <2>3. setup'[s].step = "reread" /\ setup'[s] # None
    BY <2>1, <2>2, NotHeldAssumption DEF Held, Steps
  <2> QED BY <2>3 DEF Minded, Minds
<1>4. ASSUME NEW k, NEW v, HandEdit(k, v) PROVE Minded'
  <2>1. Outdated(file)' \subseteq missed'
    BY <1>4 DEF HandEdit, Outdated, HasLoaded
  <2> QED BY <2>1 DEF Minded
<1>5. CASE UNCHANGED vars
  BY <1>5 DEF vars, disk, Minded, Minds, Outdated, HasLoaded
<1> QED BY <1>1, <1>2, <1>3, <1>4, <1>5 DEF Next

\* A portal with other settings than the saved ones is restarted before setup
\* ends, if it can be found (restart_web_portal_after_changes).
THEOREM OutdatedIsMinded == Spec => []OutdatedIsRestarted
<1>1. Init => Minded
  BY DEF Init, Minded, Outdated, HasLoaded, Down
<1>2. TypeOK /\ Minded /\ [Next]_vars => Minded'
  BY MindedStep
<1>3. Minded => OutdatedIsRestarted
  BY DEF Minded, Minds, OutdatedIsRestarted, RestartDue, At
<1> QED BY <1>1, <1>2, <1>3, TypeCorrect, PTL DEF Spec

=============================================================================
