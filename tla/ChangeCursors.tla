--------------------------- MODULE ChangeCursors ---------------------------
(***************************************************************************)
(* How change detection (baseline.py) turns the rows of two append-only    *)
(* tables into change events: lifecycle events and findings about DHCP     *)
(* servers. A cursor per table remembers how far it has read. The rows of  *)
(* a batch are recorded one transaction each and the cursor is moved after *)
(* the batch, in another.                                                  *)
(*                                                                         *)
(* Every sweep ends with such a pass, the monitor's and those of scans run *)
(* from other terminals, which share the tables.                           *)
(***************************************************************************)
EXTENDS Integers, FiniteSets

CONSTANTS
  Detectors,    \* the processes that detect changes
  Macs,         \* the devices that events are about
  Nobody,       \* the device of a row that is about no device
  Batch,        \* rows read at a time, 1000 in the code
  MaxFindings,  \* rows kept of dhcp_server_findings
  MaxRows,      \* bound: rows inserted into the two tables together
  MaxCrashes    \* bound: passes that end early

ASSUME BatchAssumption == Batch \in Nat \ {0}
ASSUME BoundAssumption == MaxRows \in Nat /\ MaxCrashes \in Nat

Tables == {"events", "dhcp_server_findings"}
NoCursor == -1
Ids == 1..MaxRows
Row == [id : Ids, mac : Macs \cup {Nobody}]
Labels == {"idle", "open", "first", "start", "fetch", "record"}

VARIABLES
  rows,      \* the rows of each table
  inserted,  \* sqlite_sequence: the last id each table gave out
  position,  \* change_cursors: how far each table was read
  pass,      \* what each detector is doing, and its local variables
  recorded,  \* history: how many change events each row became
  skipped,   \* history: rows that a first pass took for old ones
  overlaps,  \* history: some pass began while another was under way
  crashes    \* history: how many passes ended early

vars == <<rows, inserted, position, pass, recorded, skipped, overlaps, crashes>>

-----------------------------------------------------------------------------
(* A pass: the table it reads, its own copy of the cursor, the rows of the *)
(* batch that it has not recorded, and whether the batch was a full one.   *)

At(label, t) ==
  [pc |-> label, table |-> t, cursor |-> NoCursor, left |-> {}, full |-> FALSE]

Idle == At("idle", "events")

\* The pass after it has done with a table.
Following(p) ==
  IF p.table = "events" THEN At("open", "dhcp_server_findings") ELSE Idle

Begin(d) ==
  /\ pass[d].pc = "idle"
  /\ pass' = [pass EXCEPT ![d] = At("open", "events")]
  /\ overlaps' = (overlaps \/ \E e \in Detectors : pass[e].pc # "idle")
  /\ UNCHANGED <<rows, inserted, position, recorded, skipped, crashes>>

GetCursor(d) ==
  /\ pass[d].pc = "open"
  /\ LET c == position[pass[d].table]
     IN pass' = [pass EXCEPT ![d].cursor = c,
                             ![d].pc = IF c = NoCursor THEN "first" ELSE "fetch"]
  /\ UNCHANGED <<rows, inserted, position, recorded, skipped, overlaps, crashes>>

\* The greatest id in the table, or 0 when it is empty, in a set of its own.
MaxId(t) ==
  {i \in {0} \cup {r.id : r \in rows[t]} : \A r \in rows[t] : r.id <= i}

\* A pass that finds no cursor takes the rows that are there for old ones.
ReadMaxId(d) ==
  /\ pass[d].pc = "first"
  /\ \E i \in MaxId(pass[d].table) :
       pass' = [pass EXCEPT ![d].cursor = i, ![d].pc = "start"]
  /\ skipped' = [skipped EXCEPT ![pass[d].table] =
                   skipped[pass[d].table] \cup {r.id : r \in rows[pass[d].table]}]
  /\ UNCHANGED <<rows, inserted, position, recorded, overlaps, crashes>>

StartFromNow(d) ==
  /\ pass[d].pc = "start"
  /\ position' = [position EXCEPT ![pass[d].table] = pass[d].cursor]
  /\ pass' = [pass EXCEPT ![d] = Following(pass[d])]
  /\ UNCHANGED <<rows, inserted, recorded, skipped, overlaps, crashes>>

After(t, c) == {r \in rows[t] : r.id > c}

\* The first rows after the cursor, as many as a batch may have.
RowsAfter(t, c) ==
  {r \in After(t, c) : Cardinality({q \in After(t, c) : q.id <= r.id}) <= Batch}

Fetch(d) ==
  /\ pass[d].pc = "fetch"
  /\ LET batch == RowsAfter(pass[d].table, pass[d].cursor)
     IN pass' = [pass EXCEPT ![d].left = batch,
                             ![d].full = Cardinality(batch) >= Batch,
                             ![d].pc = "record"]
  /\ UNCHANGED <<rows, inserted, position, recorded, skipped, overlaps, crashes>>

\* Faulty variant of RecordChange: the local cursor stays where it was.
RecordChangeOnly(d) ==
  /\ pass[d].pc = "record"
  /\ \E r \in pass[d].left :
       /\ \A q \in pass[d].left : r.id <= q.id
       /\ recorded' = [recorded EXCEPT ![pass[d].table][r.id] =
                         recorded[pass[d].table][r.id] + 1]
       /\ pass' = [pass EXCEPT ![d].left = pass[d].left \ {r}]
  /\ UNCHANGED <<rows, inserted, position, skipped, overlaps, crashes>>

\* One change event for the oldest row left, in a transaction of its own.
RecordChange(d) ==
  /\ pass[d].pc = "record"
  /\ \E r \in pass[d].left :
       /\ \A q \in pass[d].left : r.id <= q.id
       /\ recorded' = [recorded EXCEPT ![pass[d].table][r.id] =
                         recorded[pass[d].table][r.id] + 1]
       /\ pass' = [pass EXCEPT ![d].left = pass[d].left \ {r}, ![d].cursor = r.id]
  /\ UNCHANGED <<rows, inserted, position, skipped, overlaps, crashes>>

\* Faulty variant of SetCursor: at the end of the table instead of the batch.
SetCursorToMax(d) ==
  /\ pass[d].pc = "record"
  /\ pass[d].left = {}
  /\ \E i \in MaxId(pass[d].table) :
       position' = [position EXCEPT ![pass[d].table] = i]
  /\ pass' = [pass EXCEPT ![d] = Following(pass[d])]
  /\ UNCHANGED <<rows, inserted, recorded, skipped, overlaps, crashes>>

SetCursor(d) ==
  /\ pass[d].pc = "record"
  /\ pass[d].left = {}
  /\ position' = [position EXCEPT ![pass[d].table] = pass[d].cursor]
  /\ pass' = [pass EXCEPT ![d] = IF pass[d].full
                                 THEN [pass[d] EXCEPT !.pc = "fetch", !.full = FALSE]
                                 ELSE Following(pass[d])]
  /\ UNCHANGED <<rows, inserted, recorded, skipped, overlaps, crashes>>

\* The process dies, or the pass raises and is given up until the next sweep.
EndEarly(d) ==
  /\ crashes < MaxCrashes
  /\ pass[d].pc # "idle"
  /\ pass' = [pass EXCEPT ![d] = Idle]
  /\ crashes' = crashes + 1
  /\ UNCHANGED <<rows, inserted, position, recorded, skipped, overlaps>>

-----------------------------------------------------------------------------
(* The tables. Ids are AUTOINCREMENT: none is given out twice, also after  *)
(* rows were deleted.                                                      *)

\* The table with one more row, whose id is the next one.
With(t, m) == rows[t] \cup {[id |-> inserted[t] + 1, mac |-> m]}

RoomFor ==
  inserted["events"] + inserted["dhcp_server_findings"] < MaxRows

RecordEvent(m) ==
  /\ RoomFor
  /\ rows' = [rows EXCEPT !["events"] = With("events", m)]
  /\ inserted' = [inserted EXCEPT !["events"] = inserted["events"] + 1]
  /\ UNCHANGED <<position, pass, recorded, skipped, overlaps, crashes>>

Newest(rs) == {r \in rs : Cardinality({q \in rs : q.id >= r.id}) <= MaxFindings}

\* Findings beyond the row cap go, the oldest first.
RecordDhcpServerFinding ==
  LET t == "dhcp_server_findings"
  IN /\ RoomFor
     /\ rows' = [rows EXCEPT ![t] = Newest(With(t, Nobody))]
     /\ inserted' = [inserted EXCEPT ![t] = inserted[t] + 1]
     /\ UNCHANGED <<position, pass, recorded, skipped, overlaps, crashes>>

DeleteDevice(m) ==
  /\ rows' = [rows EXCEPT !["events"] = {r \in rows["events"] : r.mac # m}]
  /\ UNCHANGED <<inserted, position, pass, recorded, skipped, overlaps, crashes>>

\* reset_all empties the tables and forgets the cursors; ids go on.
ResetAll ==
  /\ rows' = [t \in Tables |-> {}]
  /\ position' = [t \in Tables |-> NoCursor]
  /\ UNCHANGED <<inserted, pass, recorded, skipped, overlaps, crashes>>

-----------------------------------------------------------------------------

Init ==
  /\ rows = [t \in Tables |-> {}]
  /\ inserted = [t \in Tables |-> 0]
  /\ position = [t \in Tables |-> NoCursor]
  /\ pass = [d \in Detectors |-> Idle]
  /\ recorded = [t \in Tables |-> [i \in Ids |-> 0]]
  /\ skipped = [t \in Tables |-> {}]
  /\ overlaps = FALSE
  /\ crashes = 0

PassStep(d) ==
  \/ Begin(d) \/ GetCursor(d) \/ ReadMaxId(d) \/ StartFromNow(d)
  \/ Fetch(d) \/ RecordChange(d) \/ SetCursor(d)

Next ==
  \/ \E d \in Detectors : PassStep(d) \/ EndEarly(d)
  \/ \E m \in Macs : RecordEvent(m) \/ DeleteDevice(m)
  \/ RecordDhcpServerFinding
  \/ ResetAll

Spec == Init /\ [][Next]_vars

-----------------------------------------------------------------------------
(* Properties *)

TypeOK ==
  /\ rows \in [Tables -> SUBSET Row]
  /\ inserted \in [Tables -> 0..MaxRows]
  /\ position \in [Tables -> {NoCursor} \cup 0..MaxRows]
  /\ pass \in [Detectors -> [pc : Labels, table : Tables,
                             cursor : {NoCursor} \cup 0..MaxRows,
                             left : SUBSET Row, full : BOOLEAN]]
  /\ recorded \in [Tables -> [Ids -> Nat]]
  /\ skipped \in [Tables -> SUBSET Ids]
  /\ overlaps \in BOOLEAN
  /\ crashes \in 0..MaxCrashes

Handled(t, i) == recorded[t][i] > 0 \/ i \in skipped[t]

\* The stored cursor never passes a row that is still there and that no
\* change event was recorded for, unless a first pass took it for an old
\* one: whatever detectors overlap, end early or are overtaken by a reset.
NothingSkipped ==
  \A t \in Tables : \A r \in rows[t] : r.id <= position[t] => Handled(t, r.id)

\* Each row becomes at most one change, as long as no two passes overlap
\* and none ends early (baseline.py, "so each becomes exactly one change").
OnceEach ==
  ~overlaps /\ crashes = 0 =>
    \A t \in Tables : \A i \in Ids : recorded[t][i] <= 1

=============================================================================
