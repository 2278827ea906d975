------------------------------ MODULE Settings ------------------------------
(***************************************************************************)
(* The settings file, "lanfence setup" and the web portal.  A setup holds  *)
(* a draft, and when it saves compares the bytes on disk with those it read*)
(* (setup_ui.py, channels.py).  The portal reads the file once, when it    *)
(* starts, and is found through a pid file (web.py): setup stops it when   *)
(* it is switched off, and restarts it at the end, if anything was saved.  *)
(* Setups, portals and a text editor run at any time, and may be killed.   *)
(***************************************************************************)
EXTENDS Naturals, FiniteSets

CONSTANTS
  Setups,  \* runs of "lanfence setup"
  Portals, \* processes of "lanfence web"
  Sites,   \* the values of a setting that stands for all the others
  None,    \* no process; no portal
  MaxEdits \* bound: changes made by others

\* What the file says of the portal: "bare" is enabled without a password.
Webs == {"off", "bare", "on"}
Contents == [web : Webs, site : Sites]
Keys == {"web", "site"}
Enabled(content) == content.web # "off"

ASSUME SettingsAssumption == None \notin Portals \cup Setups /\ Sites # {} /\ MaxEdits \in Nat

VARIABLES
  file,    \* the settings on disk
  setup,   \* what each setup holds, or None
  portal,  \* each portal: its phase and the settings it has read
  pidfile, \* the portal the pid file names, or None
  asked,   \* the last value of each setting that was saved
  muddled, \* settings lost to a save that overlapped
  missed,  \* portals that no restart is due for, although their settings changed
  edits    \* changes made by others so far

disk == <<file, asked, muddled, edits>>
vars == <<disk, setup, portal, pidfile, missed>>

\* Phases of a portal. It holds the port from "bound" to "closing"; its pid
\* file is written with "open", before signals are handled.
Phases == {"none", "new", "loaded", "bound", "open", "serving", "closing", "closed"}
Alive(p) == portal[p].phase # "none"
HoldsPort(p) == portal[p].phase \in {"bound", "open", "serving", "closing"}
HasLoaded(p) == portal[p].phase \notin {"none", "new"}

Down == [phase |-> "none", cfg |-> None]
Enters(p, phase) == portal' = [portal EXCEPT ![p].phase = phase]
Dies(p) == portal' = [portal EXCEPT ![p] = Down]

-----------------------------------------------------------------------------
(* Setup: the draft. *)

At(s, step) == setup[s] # None /\ setup[s].step = step
Sets(s, next) == setup' = [setup EXCEPT ![s] = next]
Quits(s) == Sets(s, None)

Load(s) ==
  /\ setup[s] = None
  /\ Sets(s, [raw |-> file, bytes |-> file, draft |-> file, before |-> "off", pending |-> FALSE,
              step |-> "menu", exiting |-> FALSE, target |-> None, late |-> {}])
  /\ UNCHANGED <<disk, portal, pidfile, missed>>

\* A field, the password or a channel is staged, once it is valid.
Stage(s, draft) ==
  /\ At(s, "menu")
  /\ Sets(s, [setup[s] EXCEPT !.draft = draft])
  /\ UNCHANGED <<disk, portal, pidfile, missed>>

Discard(s) ==
  /\ At(s, "menu")
  /\ Sets(s, [setup[s] EXCEPT !.draft = setup[s].raw])
  /\ UNCHANGED <<disk, portal, pidfile, missed>>

-----------------------------------------------------------------------------
(* Saving. *)

\* Faulty: the bytes on disk are not looked at.
Unlooked(s) == TRUE

\* The file is as this setup knows it.
Unchanged(s) == file = setup[s].bytes

\* Portals with settings that are not those of now.
Outdated(content) == {p \in Portals : HasLoaded(p) /\ portal[p].cfg # content}

\* The file is compared. If someone has changed it, setup ends there, and does
\* not come to its restart.
BeginSave(s, exiting) ==
  /\ At(s, "menu")
  /\ setup[s].draft # setup[s].raw
  /\ IF Unchanged(s)
     THEN /\ Sets(s, [setup[s] EXCEPT !.step = "write", !.exiting = exiting])
          /\ UNCHANGED missed
     ELSE /\ Quits(s)
          /\ missed' = IF setup[s].pending THEN missed \cup Outdated(file) ELSE missed
  /\ UNCHANGED <<disk, portal, pidfile>>

\* Others who are past the comparison, or have not read the file back, do not
\* know of a change.
ChangedBehind(s, keys, next) ==
  setup' = [o \in Setups |->
              IF o = s THEN next
              ELSE IF At(o, "write") \/ At(o, "reread")
                   THEN [setup[o] EXCEPT !.late = setup[o].late \cup keys]
                   ELSE setup[o]]

\* The file is replaced; what others did since it was read goes with it.
Write(s) ==
  /\ At(s, "write")
  /\ LET held == setup[s]
         own == {k \in Keys : held.draft[k] # held.raw[k]}
     IN /\ file' = held.draft
        /\ asked' = [k \in Keys |-> IF k \in own THEN held.draft[k] ELSE asked[k]]
        /\ muddled' = (muddled \cup held.late) \ own
        /\ ChangedBehind(s, own \cup held.late,
             [held EXCEPT !.step = "reread", !.late = {}])
  /\ UNCHANGED <<edits, portal, pidfile, missed>>

WriteFails(s) ==
  /\ At(s, "write")
  /\ Sets(s, [setup[s] EXCEPT !.step = "menu", !.exiting = FALSE])
  /\ UNCHANGED <<disk, portal, pidfile, missed>>

\* Then read back: what someone wrote in between passes for what was saved.
Reread(s) ==
  /\ At(s, "reread")
  /\ Sets(s, [setup[s] EXCEPT !.step = "saved", !.pending = TRUE, !.raw = setup[s].draft,
                              !.before = setup[s].raw.web, !.bytes = file])
  /\ UNCHANGED <<disk, portal, pidfile, missed>>

-----------------------------------------------------------------------------
(* After saving: the portal is started or stopped, if it was switched. *)

\* The menu, or the end, if the operator was leaving; nothing else remains.
Resumes(held) ==
  [held EXCEPT !.step = IF held.exiting THEN "finish" ELSE "menu", !.exiting = FALSE, !.target = None,
               !.before = "off"]

\* A portal is spawned, under a pid that nobody has in mind.
Spawn(p) ==
  /\ ~Alive(p) /\ pidfile # p
  /\ \A s \in Setups : setup[s] # None => setup[s].target # p
  /\ portal' = [portal EXCEPT ![p].phase = "new"]

SwitchedOn(s) == setup[s].before = "off" /\ Enabled(setup[s].raw)
SwitchedOff(s) == setup[s].before # "off" /\ ~Enabled(setup[s].raw)

\* Whatever else has the old settings is no longer looked after.
StartSwitched(s, p) ==
  /\ At(s, "saved") /\ SwitchedOn(s)
  /\ file.web = "on"
  /\ Spawn(p)
  /\ missed' = missed \cup Outdated(file)
  /\ Sets(s, Resumes([setup[s] EXCEPT !.pending = FALSE]))
  /\ UNCHANGED <<disk, pidfile>>

\* Nothing to do, or the operator wants nothing done, or it cannot be done.
LeaveAsIs(s) ==
  /\ At(s, "saved") /\ ~SwitchedOff(s)
  /\ Sets(s, Resumes(setup[s]))
  /\ UNCHANGED <<disk, portal, pidfile, missed>>

\* The pid file names a portal that lives; one that names a dead one is removed.
Found == pidfile # None /\ Alive(pidfile)
LookedUp == pidfile' = IF Found THEN pidfile ELSE None

StopSwitched(s) ==
  /\ At(s, "saved") /\ SwitchedOff(s)
  /\ LookedUp
  /\ Sets(s, IF Found THEN [setup[s] EXCEPT !.step = "stop", !.target = pidfile] ELSE Resumes(setup[s]))
  /\ UNCHANGED <<disk, portal, missed>>

\* Faulty: with changes discarded on the way out, setup just ends.
FinishesUnlessDiscarding(s) == setup[s].pending /\ setup[s].draft = setup[s].raw

\* Setup comes to an end by its menu, the last changes saved or discarded.
Finishes(s) == setup[s].pending

Exit(s) ==
  /\ At(s, "menu") \/ At(s, "finish")
  /\ IF Finishes(s) THEN Sets(s, [setup[s] EXCEPT !.step = "restart", !.exiting = TRUE]) ELSE Quits(s)
  /\ UNCHANGED <<disk, portal, pidfile, missed>>

\* A restart from the menu.
RestartNow(s) ==
  /\ At(s, "menu")
  /\ Found
  /\ Sets(s, [setup[s] EXCEPT !.step = "restart", !.exiting = FALSE])
  /\ UNCHANGED <<disk, portal, pidfile, missed>>

StartNow(s, p) ==
  /\ At(s, "menu")
  /\ ~Found
  /\ file.web = "on"
  /\ pidfile' = None
  /\ Spawn(p)
  /\ missed' = missed \cup Outdated(file)
  /\ Sets(s, [setup[s] EXCEPT !.pending = FALSE])
  /\ UNCHANGED disk

\* Back to the menu, or gone.
Left(s, pending) ==
  IF setup[s].exiting THEN None
  ELSE [setup[s] EXCEPT !.step = "menu", !.pending = pending, !.target = None]

\* restart_server: nothing, if no portal is found.
BeginRestart(s) ==
  /\ At(s, "restart")
  /\ LookedUp
  /\ IF Found
     THEN /\ Sets(s, [setup[s] EXCEPT !.step = "restop", !.target = pidfile])
          /\ missed' = missed \cup (Outdated(file) \ {pidfile})
     ELSE /\ Sets(s, Left(s, setup[s].pending))
          /\ missed' = missed \cup Outdated(file)
  /\ UNCHANGED <<disk, portal>>

\* stop_server: the signal, and the wait for the end, forced if need be. A
\* portal that does not handle signals yet is gone at once.
Terminate(s) ==
  /\ At(s, "stop") \/ At(s, "restop")
  /\ LET p == setup[s].target
     IN CASE portal[p].phase = "serving" -> Enters(p, "closing")
          [] portal[p].phase \in {"closing", "closed"} -> UNCHANGED portal
          [] OTHER -> Dies(p)
  /\ Sets(s, [setup[s] EXCEPT !.step = IF At(s, "stop") THEN "wait" ELSE "rewait"])
  /\ UNCHANGED <<disk, pidfile, missed>>

Kill(s) ==
  /\ At(s, "wait") \/ At(s, "rewait")
  /\ Alive(setup[s].target)
  /\ Dies(setup[s].target)
  /\ UNCHANGED <<disk, setup, pidfile, missed>>

Stopped(s) ==
  /\ At(s, "wait") \/ At(s, "rewait")
  /\ ~Alive(setup[s].target)
  /\ pidfile' = None
  /\ Sets(s, IF At(s, "wait") THEN Resumes(setup[s]) ELSE [setup[s] EXCEPT !.step = "respawn"])
  /\ UNCHANGED <<disk, portal, missed>>

\* The new portal, unless the file has come to say that there is none.
Respawn(s, p) ==
  /\ At(s, "respawn")
  /\ IF file.web = "on" THEN Spawn(p) ELSE UNCHANGED portal
  /\ Sets(s, Left(s, IF file.web = "on" THEN FALSE ELSE setup[s].pending))
  /\ UNCHANGED <<disk, pidfile, missed>>

\* The operator interrupts setup, or its terminal goes away.
Abort(s) ==
  /\ setup[s] # None
  /\ Quits(s)
  /\ missed' = missed \cup Outdated(file)
  /\ UNCHANGED <<disk, portal, pidfile>>

-----------------------------------------------------------------------------
(* The portal. *)

\* Started by hand.
StartByHand(p) ==
  /\ Spawn(p)
  /\ UNCHANGED <<disk, setup, pidfile, missed>>

\* It reads the settings, once, and ends there if it may not run.
ReadSettings(p) ==
  /\ portal[p].phase = "new"
  /\ IF file.web = "on" THEN portal' = [portal EXCEPT ![p] = [phase |-> "loaded", cfg |-> file]]
     ELSE Dies(p)
  /\ missed' = missed \ {p}
  /\ UNCHANGED <<disk, setup, pidfile>>

\* Only one can hold the port.
Bind(p) ==
  /\ portal[p].phase = "loaded"
  /\ IF \E q \in Portals : HoldsPort(q) THEN Dies(p) ELSE Enters(p, "bound")
  /\ UNCHANGED <<disk, setup, pidfile, missed>>

\* A certificate is made, or found; it may fail.
Certify(p, ok) ==
  /\ portal[p].phase = "bound"
  /\ IF ok THEN Enters(p, "open") /\ pidfile' = p ELSE Dies(p) /\ UNCHANGED pidfile
  /\ UNCHANGED <<disk, setup, missed>>

Serve(p) ==
  /\ portal[p].phase = "open"
  /\ Enters(p, "serving")
  /\ UNCHANGED <<disk, setup, pidfile, missed>>

\* Interrupted by hand.
Interrupt(p) ==
  /\ portal[p].phase = "serving"
  /\ Enters(p, "closing")
  /\ UNCHANGED <<disk, setup, pidfile, missed>>

\* The port is given up first, then the pid file is removed, whomever it names.
Close(p) ==
  /\ portal[p].phase = "closing"
  /\ Enters(p, "closed")
  /\ UNCHANGED <<disk, setup, pidfile, missed>>

RemovePid(p) ==
  /\ portal[p].phase = "closed"
  /\ pidfile' = None
  /\ Dies(p)
  /\ UNCHANGED <<disk, setup, missed>>

Crash(p) ==
  /\ Alive(p)
  /\ Dies(p)
  /\ UNCHANGED <<disk, setup, pidfile, missed>>

-----------------------------------------------------------------------------

\* A change by someone else; no portal is restarted for it.
HandEdit(k, v) ==
  /\ edits < MaxEdits /\ edits' = edits + 1
  /\ file[k] # v
  /\ file' = [file EXCEPT ![k] = v]
  /\ asked' = [asked EXCEPT ![k] = v]
  /\ muddled' = muddled \ {k}
  /\ ChangedBehind(None, {k}, None)
  /\ missed' = missed \cup {p \in Portals : HasLoaded(p)}
  /\ UNCHANGED <<portal, pidfile>>

Init ==
  /\ file \in Contents
  /\ asked = file /\ muddled = {}
  /\ setup = [s \in Setups |-> None]
  /\ portal = [p \in Portals |-> Down]
  /\ pidfile = None
  /\ missed = {} /\ edits = 0

Setting(s) ==
  \/ Load(s)
  \/ \E draft \in Contents : Stage(s, draft)
  \/ Discard(s)
  \/ \E exiting \in BOOLEAN : BeginSave(s, exiting)
  \/ Write(s) \/ WriteFails(s) \/ Reread(s)
  \/ \E p \in Portals : StartSwitched(s, p) \/ StartNow(s, p) \/ Respawn(s, p)
  \/ LeaveAsIs(s) \/ StopSwitched(s)
  \/ Exit(s) \/ RestartNow(s) \/ BeginRestart(s)
  \/ Terminate(s) \/ Kill(s) \/ Stopped(s)
  \/ Abort(s)

Running(p) ==
  \/ StartByHand(p) \/ ReadSettings(p) \/ Bind(p)
  \/ \E ok \in BOOLEAN : Certify(p, ok)
  \/ Serve(p) \/ Interrupt(p) \/ Close(p) \/ RemovePid(p) \/ Crash(p)

Next ==
  \/ \E s \in Setups : Setting(s)
  \/ \E p \in Portals : Running(p)
  \/ \E v \in Webs : HandEdit("web", v)
  \/ \E v \in Sites : HandEdit("site", v)

Spec == Init /\ [][Next]_vars

-----------------------------------------------------------------------------

Steps == {"menu", "write", "reread", "saved", "finish", "stop", "wait",
          "restart", "restop", "rewait", "respawn"}
Held == [raw : Contents, bytes : Contents, draft : Contents, before : Webs, pending : BOOLEAN,
         step : Steps, exiting : BOOLEAN, target : Portals \cup {None}, late : SUBSET Keys]

ASSUME NotHeldAssumption == None \notin Held

\* Files, setups and portals keep their types, and a wait has a target.
TypeOK ==
  /\ edits \in 0..MaxEdits
  /\ file \in Contents /\ asked \in Contents /\ muddled \subseteq Keys
  /\ setup \in [Setups -> Held \cup {None}]
  /\ \A s \in Setups : setup[s] # None /\ setup[s].step \in {"stop", "wait", "restop", "rewait"} =>
       setup[s].target # None
  /\ portal \in [Portals -> [phase : Phases, cfg : Contents \cup {None}]]
  /\ pidfile \in Portals \cup {None} /\ missed \subseteq Portals

\* No save discards what someone else has changed: a setting keeps the last
\* value saved for it, unless the change came while another setup was between
\* its comparison and reading its own file back (save_channels_config_file).
SettingKept == \A k \in Keys \ muddled : file[k] = asked[k]

\* Saved, and the restart still to come.
RestartDue(s) ==
  setup[s] # None /\ (setup[s].pending \/ At(s, "reread"))

\* A portal that runs with other settings than the saved ones is restarted
\* before setup ends, if it can be found: what setup leaves behind is only what
\* was starting, or was lost sight of, when it looked; and what was changed by
\* hand, or by a setup that was cut short (restart_web_portal_after_changes).
OutdatedIsRestarted ==
  \A p \in Outdated(file) \ missed : Alive(p) => \E s \in Setups : RestartDue(s)

=============================================================================
