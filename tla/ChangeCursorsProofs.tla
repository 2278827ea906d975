------------------------ MODULE ChangeCursorsProofs ------------------------
(***************************************************************************)
(* Proofs about ChangeCursors, for any number of detectors and devices and *)
(* any size of a batch: no row is passed over, and without overlapping or  *)
(* unfinished passes none becomes two changes.                             *)
(***************************************************************************)
EXTENDS ChangeCursors, FiniteSetTheorems, TLAPS

\* Ids identify rows and grow.
RowsAreNumbered ==
  \A t \in Tables :
    /\ IsFiniteSet(rows[t])
    /\ \A r \in rows[t] : r.id <= inserted[t]
    /\ \A r, q \in rows[t] : r.id = q.id => r = q

\* No cursor is ahead of the table.
CursorsAreBehind ==
  /\ \A t \in Tables : position[t] <= inserted[t]
  /\ \A d \in Detectors : pass[d].cursor <= inserted[pass[d].table]

Reading(d) == pass[d].pc \in {"start", "fetch", "record"}

\* A pass has handled what its own copy of the cursor is past.
PassesSkipNothing ==
  \A d \in Detectors :
    Reading(d) =>
      \A r \in rows[pass[d].table] :
        r.id <= pass[d].cursor => Handled(pass[d].table, r.id)

\* What is left of a batch has no gaps: a row between the cursor and one of
\* its rows is one of its rows, too.
BatchesHaveNoGaps ==
  \A d \in Detectors :
    /\ pass[d].pc # "record" => pass[d].left = {}
    /\ \A q, y \in pass[d].left : q.id = y.id => q = y
    /\ \A q \in pass[d].left :
         /\ pass[d].cursor < q.id /\ q.id <= inserted[pass[d].table]
         /\ \A r \in rows[pass[d].table] :
              pass[d].cursor < r.id /\ r.id < q.id =>
                \E y \in pass[d].left : y.id = r.id

SInv ==
  /\ TypeOK
  /\ RowsAreNumbered
  /\ CursorsAreBehind
  /\ PassesSkipNothing
  /\ BatchesHaveNoGaps
  /\ NothingSkipped

-----------------------------------------------------------------------------
(* Types *)

\* What a pass consists of, in the form the provers need.
LEMMA Passes ==
  ASSUME TypeOK, NEW d \in Detectors
  PROVE  /\ pass[d] \in [pc : Labels, table : Tables,
                         cursor : {NoCursor} \cup 0..MaxRows,
                         left : SUBSET Row, full : BOOLEAN]
         /\ pass[d].pc \in Labels
         /\ pass[d].table \in Tables
         /\ pass[d].cursor \in Int
         /\ pass[d].cursor \in {NoCursor} \cup 0..MaxRows
         /\ pass[d].left \in SUBSET Row
         /\ pass[d].full \in BOOLEAN
BY BoundAssumption DEF TypeOK, NoCursor

\* Ids and positions are numbers.
LEMMA Numbers ==
  ASSUME TypeOK
  PROVE  /\ \A t \in Tables : inserted[t] \in Nat /\ position[t] \in Int
         /\ \A t \in Tables : rows[t] \in SUBSET Row
         /\ \A r \in Row : r.id \in Ids /\ r.id \in Nat
         /\ \A t \in Tables : \A i \in Ids : recorded[t][i] \in Nat
BY BoundAssumption DEF TypeOK, NoCursor, Ids, Row

LEMMA PassTypes ==
  /\ \A label \in Labels, t \in Tables :
       At(label, t) \in [pc : Labels, table : Tables,
                         cursor : {NoCursor} \cup 0..MaxRows,
                         left : SUBSET Row, full : BOOLEAN]
  /\ \A p : Following(p) \in {Idle, At("open", "dhcp_server_findings")}
BY DEF At, Following, Labels

\* TypeOK is inductive.
LEMMA TypeStep ==
  ASSUME TypeOK, [Next]_vars
  PROVE  TypeOK'
<1> USE BoundAssumption DEF TypeOK
<1>1. CASE UNCHANGED vars
  BY <1>1 DEF vars
<1>2. ASSUME NEW d \in Detectors, Begin(d)
      PROVE  TypeOK'
  BY <1>2, PassTypes DEF Begin, Labels, Tables
<1>3. ASSUME NEW d \in Detectors, GetCursor(d)
      PROVE  TypeOK'
  BY <1>3, Passes DEF GetCursor, Labels
<1>4. ASSUME NEW d \in Detectors, ReadMaxId(d)
      PROVE  TypeOK'
  <2>1. PICK i \in MaxId(pass[d].table) :
          pass' = [pass EXCEPT ![d].cursor = i, ![d].pc = "start"]
    BY <1>4 DEF ReadMaxId
  <2>2. i \in 0..MaxRows
    BY <2>1, Passes, Numbers DEF MaxId, Ids
  <2>3. pass' \in [Detectors -> [pc : Labels, table : Tables,
                                 cursor : {NoCursor} \cup 0..MaxRows,
                                 left : SUBSET Row, full : BOOLEAN]]
    <3>1. [pass[d] EXCEPT !.cursor = i, !.pc = "start"]
            \in [pc : Labels, table : Tables,
                 cursor : {NoCursor} \cup 0..MaxRows,
                 left : SUBSET Row, full : BOOLEAN]
      BY <2>2, Passes DEF Labels
    <3>2. pass' = [pass EXCEPT ![d] = [pass[d] EXCEPT !.cursor = i,
                                                      !.pc = "start"]]
      BY <2>1
    <3> QED
      BY <3>1, <3>2
  <2>4. {r.id : r \in rows[pass[d].table]} \in SUBSET Ids
    BY Passes, Numbers
  <2> QED
    BY <1>4, <2>3, <2>4, Passes DEF ReadMaxId
<1>5. ASSUME NEW d \in Detectors, StartFromNow(d)
      PROVE  TypeOK'
  BY <1>5, Passes, PassTypes DEF StartFromNow, Idle, Labels, Tables
<1>6. ASSUME NEW d \in Detectors, Fetch(d)
      PROVE  TypeOK'
  <2>1. RowsAfter(pass[d].table, pass[d].cursor) \in SUBSET Row
    BY Passes, Numbers DEF RowsAfter, After
  <2> QED
    BY <1>6, <2>1, Passes DEF Fetch, Labels
<1>7. ASSUME NEW d \in Detectors, RecordChange(d)
      PROVE  TypeOK'
  <2>1. PICK r \in pass[d].left :
          /\ recorded' = [recorded EXCEPT ![pass[d].table][r.id] =
                            recorded[pass[d].table][r.id] + 1]
          /\ pass' = [pass EXCEPT ![d].left = pass[d].left \ {r},
                                  ![d].cursor = r.id]
    BY <1>7 DEF RecordChange
  <2>2. r.id \in Ids /\ r.id \in 0..MaxRows
    BY <2>1, Passes, Numbers DEF Ids
  <2>3. recorded' \in [Tables -> [Ids -> Nat]]
    BY <2>1, <2>2, Passes
  <2>4. pass' \in [Detectors -> [pc : Labels, table : Tables,
                                 cursor : {NoCursor} \cup 0..MaxRows,
                                 left : SUBSET Row, full : BOOLEAN]]
    <3>1. [pass[d] EXCEPT !.left = pass[d].left \ {r}, !.cursor = r.id]
            \in [pc : Labels, table : Tables,
                 cursor : {NoCursor} \cup 0..MaxRows,
                 left : SUBSET Row, full : BOOLEAN]
      BY <2>2, Passes
    <3>2. pass' = [pass EXCEPT ![d] = [pass[d] EXCEPT
                     !.left = pass[d].left \ {r}, !.cursor = r.id]]
      BY <2>1
    <3> QED
      BY <3>1, <3>2
  <2> QED
    BY <1>7, <2>3, <2>4 DEF RecordChange
<1>8. ASSUME NEW d \in Detectors, SetCursor(d)
      PROVE  TypeOK'
  <2> DEFINE next == IF pass[d].full
                     THEN [pass[d] EXCEPT !.pc = "fetch", !.full = FALSE]
                     ELSE Following(pass[d])
  <2>1. next \in [pc : Labels, table : Tables,
                  cursor : {NoCursor} \cup 0..MaxRows,
                  left : SUBSET Row, full : BOOLEAN]
    <3>1. CASE pass[d].full
      BY <3>1, Passes DEF Labels
    <3>2. CASE ~pass[d].full
      BY <3>2, PassTypes DEF Idle, Labels, Tables
    <3> QED
      BY <3>1, <3>2
  <2>2. pass' = [pass EXCEPT ![d] = next]
    BY <1>8 DEF SetCursor
  <2> QED
    BY <1>8, <2>1, <2>2, Passes DEF SetCursor
<1>9. ASSUME NEW d \in Detectors, EndEarly(d)
      PROVE  TypeOK'
  BY <1>9, PassTypes DEF EndEarly, Idle, Labels, Tables
<1>10. ASSUME NEW m \in Macs, RecordEvent(m)
       PROVE  TypeOK'
  <2>1. inserted["events"] + 1 \in Ids
    BY <1>10 DEF RecordEvent, RoomFor, Tables, Ids
  <2>2. With("events", m) \in SUBSET Row
    BY <2>1 DEF With, Row, Tables
  <2>3. inserted' \in [Tables -> 0..MaxRows]
    BY <1>10, <2>1 DEF RecordEvent, Tables, Ids
  <2>4. rows' \in [Tables -> SUBSET Row]
    BY <1>10, <2>2 DEF RecordEvent
  <2> QED
    BY <1>10, <2>3, <2>4 DEF RecordEvent
<1>11. ASSUME RecordDhcpServerFinding
       PROVE  TypeOK'
  <2> DEFINE t == "dhcp_server_findings"
  <2>1. inserted[t] + 1 \in Ids
    BY <1>11 DEF RecordDhcpServerFinding, RoomFor, Tables, Ids
  <2>2. Newest(With(t, Nobody)) \in SUBSET Row
    BY <2>1 DEF Newest, With, Row, Tables
  <2>3. inserted' \in [Tables -> 0..MaxRows]
    BY <1>11, <2>1 DEF RecordDhcpServerFinding, Tables, Ids
  <2>4. rows' \in [Tables -> SUBSET Row]
    BY <1>11, <2>2 DEF RecordDhcpServerFinding
  <2> QED
    BY <1>11, <2>3, <2>4 DEF RecordDhcpServerFinding
<1>12. ASSUME NEW m \in Macs, DeleteDevice(m)
       PROVE  TypeOK'
  BY <1>12 DEF DeleteDevice, Tables
<1>13. ASSUME ResetAll
       PROVE  TypeOK'
  BY <1>13 DEF ResetAll
<1> QED
  BY <1>1, <1>2, <1>3, <1>4, <1>5, <1>6, <1>7, <1>8, <1>9, <1>10, <1>11,
     <1>12, <1>13 DEF Next, PassStep

-----------------------------------------------------------------------------
(* Steps that leave the passes alone *)

\* Deleting rows, and forgetting cursors, keeps the invariant.
LEMMA Deletion ==
  ASSUME SInv, TypeOK',
         \A t \in Tables : rows'[t] \subseteq rows[t],
         \A t \in Tables : position'[t] \in {position[t], NoCursor},
         UNCHANGED <<inserted, pass, recorded, skipped>>
  PROVE  SInv'
<1> USE DEF SInv
<1>1. RowsAreNumbered'
  <2> SUFFICES ASSUME NEW t \in Tables
               PROVE  /\ IsFiniteSet(rows'[t])
                      /\ \A r \in rows'[t] : r.id <= inserted'[t]
                      /\ \A r, q \in rows'[t] : r.id = q.id => r = q
    BY DEF RowsAreNumbered
  <2> QED
    BY FS_Subset DEF RowsAreNumbered
<1>2. CursorsAreBehind'
  BY Numbers DEF CursorsAreBehind, NoCursor
<1>3. PassesSkipNothing'
  BY Passes DEF PassesSkipNothing, Reading, Handled
<1>4. BatchesHaveNoGaps'
  BY Passes DEF BatchesHaveNoGaps
<1>5. NothingSkipped'
  BY Numbers DEF NothingSkipped, Handled, NoCursor
<1> QED
  BY <1>1, <1>2, <1>3, <1>4, <1>5

\* So does a new row with the next id, also when older rows go.
LEMMA Insertion ==
  ASSUME SInv, TypeOK', NEW t \in Tables, NEW m,
         rows'[t] \subseteq With(t, m),
         inserted'[t] = inserted[t] + 1,
         \A u \in Tables \ {t} : rows'[u] = rows[u] /\ inserted'[u] = inserted[u],
         UNCHANGED <<position, pass, recorded, skipped>>
  PROVE  SInv'
<1> USE DEF SInv
<1> DEFINE new == [id |-> inserted[t] + 1, mac |-> m]
<1>1. \A u \in Tables : rows'[u] \subseteq rows[u] \cup {new}
  BY DEF With
<1>2. \A u \in Tables : inserted[u] <= inserted'[u] /\ inserted'[u] \in Nat
  BY Numbers
<1>3. RowsAreNumbered'
  <2> SUFFICES ASSUME NEW u \in Tables
               PROVE  /\ IsFiniteSet(rows'[u])
                      /\ \A r \in rows'[u] : r.id <= inserted'[u]
                      /\ \A r, q \in rows'[u] : r.id = q.id => r = q
    BY DEF RowsAreNumbered
  <2>1. CASE u # t
    BY <2>1 DEF RowsAreNumbered
  <2>2. CASE u = t
    <3>1. IsFiniteSet(With(t, m))
      BY FS_AddElement DEF RowsAreNumbered, With
    <3>2. IsFiniteSet(rows'[t])
      BY <3>1, FS_Subset
    <3>3. \A r \in rows[t] : r.id # new.id /\ r.id <= new.id
      BY Numbers DEF RowsAreNumbered
    <3>4. \A r \in rows'[t] : r \in rows[t] \/ r = new
      BY <1>1
    <3>5. \A r \in rows'[t] : r.id <= inserted'[t]
      <4>1. new.id = inserted'[t] /\ new.id <= new.id
        BY Numbers
      <4> QED
        BY <3>3, <3>4, <4>1
    <3>6. \A r, q \in rows'[t] : r.id = q.id => r = q
      BY <3>3, <3>4 DEF RowsAreNumbered
    <3> QED
      BY <2>2, <3>2, <3>5, <3>6
  <2> QED
    BY <2>1, <2>2
<1>4. CursorsAreBehind'
  BY <1>2, Numbers, Passes DEF CursorsAreBehind
<1>5. PassesSkipNothing'
  <2> SUFFICES ASSUME NEW d \in Detectors, Reading(d),
                      NEW r \in rows'[pass[d].table], r.id <= pass[d].cursor
               PROVE  Handled(pass[d].table, r.id)
    BY DEF PassesSkipNothing, Reading, Handled
  <2>1. CASE r \in rows[pass[d].table]
    BY <2>1, Passes DEF PassesSkipNothing
  <2>2. CASE r \notin rows[pass[d].table]
    <3>1. pass[d].table = t /\ r = new
      BY <2>2, <1>1, Passes
    <3> QED
      BY <3>1, Numbers, Passes DEF CursorsAreBehind
  <2> QED
    BY <2>1, <2>2
<1>6. BatchesHaveNoGaps'
  <2> SUFFICES ASSUME NEW d \in Detectors, NEW q \in pass[d].left
               PROVE  /\ pass[d].cursor < q.id /\ q.id <= inserted'[pass[d].table]
                      /\ \A r \in rows'[pass[d].table] :
                           pass[d].cursor < r.id /\ r.id < q.id =>
                             \E y \in pass[d].left : y.id = r.id
    BY DEF BatchesHaveNoGaps
  <2>1. q.id \in Nat /\ q.id <= inserted[pass[d].table]
    BY Passes, Numbers DEF BatchesHaveNoGaps
  <2>2. q.id <= inserted'[pass[d].table]
    BY <2>1, <1>2, Numbers, Passes
  <2>3. ASSUME NEW r \in rows'[pass[d].table],
               pass[d].cursor < r.id, r.id < q.id
        PROVE  \E y \in pass[d].left : y.id = r.id
    <3>1. r \in rows[pass[d].table]
      BY <2>1, <2>3, <1>1, Numbers, Passes
    <3> QED
      BY <2>3, <3>1 DEF BatchesHaveNoGaps
  <2> QED
    BY <2>2, <2>3 DEF BatchesHaveNoGaps
<1>7. NothingSkipped'
  <2> SUFFICES ASSUME NEW u \in Tables, NEW r \in rows'[u], r.id <= position[u]
               PROVE  Handled(u, r.id)
    BY DEF NothingSkipped, Handled
  <2>1. CASE r \in rows[u]
    BY <2>1 DEF NothingSkipped
  <2>2. CASE r \notin rows[u]
    <3>1. u = t /\ r = new
      BY <2>2, <1>1
    <3> QED
      BY <3>1, Numbers DEF CursorsAreBehind
  <2> QED
    BY <2>1, <2>2
<1> QED
  BY <1>3, <1>4, <1>5, <1>6, <1>7

-----------------------------------------------------------------------------
(* Steps of a pass *)

\* A step of one detector keeps the invariant if it keeps it for that
\* detector and the stored cursors.
LEMMA OwnStep ==
  ASSUME SInv, TypeOK', NEW d \in Detectors,
         UNCHANGED <<rows, inserted>>,
         \A e \in Detectors \ {d} : pass'[e] = pass[e],
         \A t \in Tables, i \in Ids : Handled(t, i) => Handled(t, i)',
         \A t \in Tables : position'[t] <= inserted[t],
         pass'[d].cursor <= inserted[pass'[d].table],
         Reading(d)' => \A r \in rows[pass'[d].table] :
                          r.id <= pass'[d].cursor => Handled(pass[d].table, r.id)',
         pass'[d].pc # "record" => pass'[d].left = {},
         \A q, y \in pass'[d].left : q.id = y.id => q = y,
         \A q \in pass'[d].left :
            /\ pass'[d].cursor < q.id /\ q.id <= inserted[pass'[d].table]
            /\ \A r \in rows[pass'[d].table] :
                 pass'[d].cursor < r.id /\ r.id < q.id =>
                   \E y \in pass'[d].left : y.id = r.id,
         NothingSkipped'
  PROVE  SInv'
<1> USE DEF SInv
<1>1. RowsAreNumbered'
  BY DEF RowsAreNumbered
<1>2. CursorsAreBehind'
  BY DEF CursorsAreBehind
<1>3. PassesSkipNothing'
  <2> SUFFICES ASSUME NEW e \in Detectors, Reading(e)',
                      NEW r \in rows[pass'[e].table], r.id <= pass'[e].cursor
               PROVE  Handled(pass[e].table, r.id)'
    BY DEF PassesSkipNothing, Reading, Handled
  <2>1. CASE e = d
    BY <2>1 DEF Reading, Handled
  <2>2. CASE e # d
    <3>1. pass'[e] = pass[e]
      BY <2>2
    <3>2. Handled(pass[e].table, r.id)
      BY <3>1 DEF PassesSkipNothing, Reading
    <3>3. pass[e].table \in Tables /\ r.id \in Ids
      BY <3>1, Passes, Numbers
    <3> QED
      BY <3>1, <3>2, <3>3 DEF Handled
  <2> QED
    BY <2>1, <2>2
<1>4. BatchesHaveNoGaps'
  <2> SUFFICES ASSUME NEW e \in Detectors
               PROVE  /\ pass'[e].pc # "record" => pass'[e].left = {}
                      /\ \A q, y \in pass'[e].left : q.id = y.id => q = y
                      /\ \A q \in pass'[e].left :
                           /\ pass'[e].cursor < q.id /\ q.id <= inserted[pass'[e].table]
                           /\ \A r \in rows[pass'[e].table] :
                                pass'[e].cursor < r.id /\ r.id < q.id =>
                                  \E y \in pass'[e].left : y.id = r.id
    BY DEF BatchesHaveNoGaps
  <2>1. CASE e = d
    BY <2>1
  <2>2. CASE e # d
    <3>1. pass'[e] = pass[e]
      BY <2>2
    <3> QED
      BY <3>1 DEF BatchesHaveNoGaps
  <2> QED
    BY <2>1, <2>2
<1> QED
  BY <1>1, <1>2, <1>3, <1>4

\* A pass that begins, goes to another table or ends has done nothing yet.
LEMMA Freshly ==
  ASSUME SInv, TypeOK', NEW d \in Detectors,
         pass'[d] \in {At("open", "events"), At("open", "dhcp_server_findings"),
                       Idle},
         \A e \in Detectors \ {d} : pass'[e] = pass[e],
         UNCHANGED <<rows, inserted, recorded, skipped>>,
         \A t \in Tables : position'[t] <= inserted[t],
         NothingSkipped'
  PROVE  SInv'
<1>1. /\ pass'[d].pc \in {"open", "idle"} /\ pass'[d].table \in Tables
      /\ pass'[d].cursor = NoCursor /\ pass'[d].left = {}
  BY DEF At, Idle, Tables
<1>2. pass'[d].cursor <= inserted[pass'[d].table]
  BY <1>1, Numbers DEF SInv, NoCursor
<1>3. ~Reading(d)'
  BY <1>1 DEF Reading
<1>4. \A t \in Tables, i \in Ids : Handled(t, i) => Handled(t, i)'
  BY DEF Handled
<1> QED
  BY <1>1, <1>2, <1>3, <1>4, OwnStep

\* Moving the stored cursor to where a pass has read skips nothing.
LEMMA Moved ==
  ASSUME SInv, NEW d \in Detectors, Reading(d),
         position' = [position EXCEPT ![pass[d].table] = pass[d].cursor],
         UNCHANGED <<rows, inserted, recorded, skipped>>
  PROVE  /\ NothingSkipped'
         /\ \A t \in Tables : position'[t] <= inserted[t]
<1> USE DEF SInv
<1>1. \A t \in Tables :
        position'[t] = IF t = pass[d].table THEN pass[d].cursor ELSE position[t]
  BY DEF TypeOK
<1>2. NothingSkipped'
  BY <1>1 DEF NothingSkipped, PassesSkipNothing, Handled
<1> QED
  BY <1>1, <1>2 DEF CursorsAreBehind

\* The rows that follow the cursor, up to a limit, have no gaps.
LEMMA BatchIsPrefix ==
  ASSUME SInv, NEW t \in Tables, NEW c \in Int
  PROVE  /\ RowsAfter(t, c) \subseteq rows[t]
         /\ \A q \in RowsAfter(t, c), r \in rows[t] :
              c < r.id /\ r.id < q.id => r \in RowsAfter(t, c)
<1> USE DEF SInv
<1>1. RowsAfter(t, c) \subseteq After(t, c) /\ After(t, c) \subseteq rows[t]
  BY DEF RowsAfter, After
<1>2. IsFiniteSet(After(t, c))
  BY <1>1, FS_Subset DEF RowsAreNumbered
<1>3. ASSUME NEW q \in RowsAfter(t, c), NEW r \in rows[t], c < r.id, r.id < q.id
      PROVE  r \in RowsAfter(t, c)
  <2> DEFINE upTo(x) == {y \in After(t, c) : y.id <= x.id}
  <2>1. r \in After(t, c)
    BY <1>3, Numbers DEF After
  <2>2. /\ IsFiniteSet(upTo(q)) /\ Cardinality(upTo(q)) \in Nat
        /\ IsFiniteSet(upTo(r)) /\ Cardinality(upTo(r)) \in Nat
    BY <1>2, FS_Subset, FS_CardinalityType
  <2>3. upTo(r) \subseteq upTo(q)
    BY <1>1, <1>3, Numbers
  <2>4. Cardinality(upTo(r)) <= Cardinality(upTo(q))
    BY <2>2, <2>3, FS_Subset
  <2>5. Cardinality(upTo(q)) <= Batch
    BY <1>3 DEF RowsAfter
  <2>6. Cardinality(upTo(r)) <= Batch
    BY <2>2, <2>4, <2>5, BatchAssumption
  <2> QED
    BY <2>1, <2>6 DEF RowsAfter
<1> QED
  BY <1>1, <1>3

\* The step that records a row: what was oldest in the batch is handled,
\* and so is everything before it.
LEMMA RecordStep ==
  ASSUME SInv, TypeOK', NEW d \in Detectors, RecordChange(d)
  PROVE  SInv'
<1> USE DEF SInv
<1> DEFINE t == pass[d].table
<1>1. PICK r \in pass[d].left :
        /\ \A q \in pass[d].left : r.id <= q.id
        /\ recorded' = [recorded EXCEPT ![t][r.id] = recorded[t][r.id] + 1]
        /\ pass' = [pass EXCEPT ![d].left = pass[d].left \ {r},
                                ![d].cursor = r.id]
  BY DEF RecordChange
<1>2. /\ r.id \in Ids /\ r.id \in Nat /\ t \in Tables
      /\ pass[d].cursor < r.id /\ r.id <= inserted[t]
      /\ pass[d].pc = "record"
      /\ UNCHANGED <<rows, inserted, position, skipped>>
  BY <1>1, Passes, Numbers DEF BatchesHaveNoGaps, RecordChange
<1>3. /\ pass'[d].pc = "record" /\ pass'[d].table = t
      /\ pass'[d].cursor = r.id /\ pass'[d].left = pass[d].left \ {r}
  BY <1>1, <1>2, Passes DEF TypeOK
<1>4. \A e \in Detectors \ {d} : pass'[e] = pass[e]
  BY <1>1 DEF TypeOK
<1>5. \A u \in Tables, i \in Ids :
        recorded'[u][i] = IF u = t /\ i = r.id THEN recorded[u][i] + 1
                          ELSE recorded[u][i]
  BY <1>1, <1>2 DEF TypeOK
<1>6. /\ \A u \in Tables, i \in Ids : Handled(u, i) => Handled(u, i)'
      /\ recorded'[t][r.id] > 0
  BY <1>2, <1>5, Numbers DEF Handled
<1>7. \A x \in rows[t] :
        x.id <= r.id => recorded'[t][x.id] > 0 \/ x.id \in skipped'[t]
  <2> SUFFICES ASSUME NEW x \in rows[t], x.id <= r.id
               PROVE  recorded'[t][x.id] > 0 \/ x.id \in skipped'[t]
    OBVIOUS
  <2>0. x.id \in Ids /\ x.id \in Nat /\ pass[d].cursor \in Int
    BY <1>2, Numbers, Passes
  <2>1. CASE x.id <= pass[d].cursor
    <3>1. Handled(t, x.id)
      BY <2>1, <1>2 DEF PassesSkipNothing, Reading
    <3> QED
      BY <2>0, <3>1, <1>2, <1>6 DEF Handled
  <2>2. CASE x.id > pass[d].cursor
    <3>1. ~(x.id < r.id)
      <4>1. SUFFICES ASSUME x.id < r.id PROVE FALSE
        OBVIOUS
      <4>2. PICK y \in pass[d].left : y.id = x.id
        BY <4>1, <2>0, <2>2, <1>1 DEF BatchesHaveNoGaps
      <4> QED
        BY <4>1, <4>2, <1>1, <1>2, <2>0
    <3>2. x.id = r.id
      BY <3>1, <2>0, <1>2
    <3> QED
      BY <3>2, <1>6
  <2> QED
    BY <2>0, <2>1, <2>2
<1>8. ASSUME NEW q \in pass'[d].left
      PROVE  /\ r.id < q.id /\ q.id <= inserted[t]
             /\ \A x \in rows[t] : r.id < x.id /\ x.id < q.id =>
                  \E y \in pass'[d].left : y.id = x.id
  <2>1. q \in pass[d].left /\ q.id \in Nat /\ q.id <= inserted[t]
    BY <1>3, Passes, Numbers DEF BatchesHaveNoGaps
  <2>2. r.id < q.id
    <3>1. r.id <= q.id /\ q # r
      BY <1>1, <1>3, <2>1
    <3>2. r.id # q.id
      BY <1>1, <2>1, <3>1 DEF BatchesHaveNoGaps
    <3> QED
      BY <1>2, <2>1, <3>1, <3>2
  <2>3. ASSUME NEW x \in rows[t], r.id < x.id, x.id < q.id
        PROVE  \E y \in pass'[d].left : y.id = x.id
    <3>1. x.id \in Nat /\ pass[d].cursor \in Int
      BY <1>2, Numbers, Passes
    <3>2. pass[d].cursor < x.id
      BY <2>3, <3>1, <1>2
    <3>3. PICK y \in pass[d].left : y.id = x.id
      BY <2>1, <2>3, <3>2 DEF BatchesHaveNoGaps
    <3> QED
      BY <2>3, <3>1, <3>3, <1>2, <1>3
  <2> QED
    BY <2>1, <2>2, <2>3
<1>9. NothingSkipped'
  BY <1>2, <1>6, Numbers DEF NothingSkipped, Handled
<1>10. \A q, y \in pass'[d].left : q.id = y.id => q = y
  BY <1>3 DEF BatchesHaveNoGaps
<1>11. \A u \in Tables : position'[u] <= inserted[u]
  BY <1>2 DEF CursorsAreBehind
<1>12. /\ pass'[d].cursor <= inserted[pass'[d].table]
       /\ Reading(d)' => \A x \in rows[pass'[d].table] :
                           x.id <= pass'[d].cursor => Handled(pass[d].table, x.id)'
  BY <1>2, <1>3, <1>7 DEF Handled
<1> QED
  BY <1>2, <1>3, <1>4, <1>6, <1>8, <1>9, <1>10, <1>11, <1>12, OwnStep

LEMMA SafeStep ==
  ASSUME SInv, [Next]_vars
  PROVE  SInv'
<1>0. TypeOK'
  BY TypeStep DEF SInv
<1>1. CASE UNCHANGED vars
  BY <1>0, <1>1, Deletion DEF vars
<1>2. ASSUME NEW d \in Detectors, Begin(d)
      PROVE  SInv'
  <2>1. /\ pass'[d] = At("open", "events")
        /\ \A e \in Detectors \ {d} : pass'[e] = pass[e]
    BY <1>2 DEF Begin, SInv, TypeOK
  <2>2. NothingSkipped' /\ \A t \in Tables : position'[t] <= inserted[t]
    BY <1>2 DEF Begin, SInv, NothingSkipped, Handled, CursorsAreBehind
  <2> QED
    BY <1>0, <1>2, <2>1, <2>2, Freshly DEF Begin
<1>3. ASSUME NEW d \in Detectors, GetCursor(d)
      PROVE  SInv'
  <2> DEFINE t == pass[d].table
  <2>1. /\ pass'[d].pc \in {"first", "fetch"} /\ pass'[d].table = t
        /\ pass'[d].cursor = position[t] /\ pass'[d].left = {}
    BY <1>3, Passes DEF GetCursor, SInv, TypeOK, BatchesHaveNoGaps
  <2>2. \A e \in Detectors \ {d} : pass'[e] = pass[e]
    BY <1>3 DEF GetCursor, SInv, TypeOK
  <2>3. UNCHANGED <<rows, inserted, position, recorded, skipped>>
    BY <1>3 DEF GetCursor
  <2>4. t \in Tables
    BY Passes DEF SInv
  <2>5. \A r \in rows[t] : r.id <= position[t] => Handled(t, r.id)
    BY <2>4 DEF SInv, NothingSkipped
  <2>6. NothingSkipped' /\ \A u \in Tables : position'[u] <= inserted[u]
    BY <2>3 DEF SInv, NothingSkipped, Handled, CursorsAreBehind
  <2>7. Reading(d)' => \A r \in rows[pass'[d].table] :
                         r.id <= pass'[d].cursor => Handled(pass[d].table, r.id)'
    BY <2>1, <2>3, <2>5 DEF Handled
  <2>8. \A u \in Tables, i \in Ids : Handled(u, i) => Handled(u, i)'
    BY <2>3 DEF Handled
  <2>9. pass'[d].cursor <= inserted[pass'[d].table]
    BY <2>1, <2>4 DEF SInv, CursorsAreBehind
  <2> QED
    BY <1>0, <2>1, <2>2, <2>3, <2>6, <2>7, <2>8, <2>9, OwnStep
<1>4. ASSUME NEW d \in Detectors, ReadMaxId(d)
      PROVE  SInv'
  <2> DEFINE t == pass[d].table
  <2>0. t \in Tables
    BY Passes DEF SInv
  <2>1. PICK i \in MaxId(t) :
          pass' = [pass EXCEPT ![d].cursor = i, ![d].pc = "start"]
    BY <1>4 DEF ReadMaxId
  <2>2. i <= inserted[t]
    BY <2>0, <2>1, Numbers DEF MaxId, SInv, RowsAreNumbered
  <2>3. /\ pass'[d].pc = "start" /\ pass'[d].table = t
        /\ pass'[d].cursor = i /\ pass'[d].left = {}
    <3>1. pass[d].left = {}
      BY <1>4 DEF ReadMaxId, SInv, BatchesHaveNoGaps
    <3>2. pass'[d] = [pass[d] EXCEPT !.cursor = i, !.pc = "start"]
      BY <2>1 DEF SInv, TypeOK
    <3> QED
      BY <3>1, <3>2, Passes DEF SInv
  <2>4. \A e \in Detectors \ {d} : pass'[e] = pass[e]
    BY <2>1 DEF SInv, TypeOK
  <2>5. UNCHANGED <<rows, inserted, position, recorded>>
    BY <1>4 DEF ReadMaxId
  <2>6. /\ \A u \in Tables : skipped[u] \subseteq skipped'[u]
        /\ \A r \in rows[t] : r.id \in skipped'[t]
    BY <1>4, <2>0 DEF ReadMaxId, SInv, TypeOK
  <2>7. \A u \in Tables, j \in Ids : Handled(u, j) => Handled(u, j)'
    BY <2>5, <2>6 DEF Handled
  <2>8. NothingSkipped' /\ \A u \in Tables : position'[u] <= inserted[u]
    BY <2>5, <2>6 DEF SInv, NothingSkipped, Handled, CursorsAreBehind
  <2>9. Reading(d)' => \A r \in rows[pass'[d].table] :
                         r.id <= pass'[d].cursor => Handled(pass[d].table, r.id)'
    BY <2>3, <2>6 DEF Handled
  <2> QED
    BY <1>0, <2>2, <2>3, <2>4, <2>5, <2>7, <2>8, <2>9, OwnStep
<1>5. ASSUME NEW d \in Detectors, StartFromNow(d)
      PROVE  SInv'
  <2>1. /\ pass'[d] = Following(pass[d])
        /\ \A e \in Detectors \ {d} : pass'[e] = pass[e]
    BY <1>5 DEF StartFromNow, SInv, TypeOK
  <2>2. NothingSkipped' /\ \A t \in Tables : position'[t] <= inserted[t]
    BY <1>5, Moved DEF StartFromNow, Reading
  <2> QED
    BY <1>0, <1>5, <2>1, <2>2, PassTypes, Freshly DEF StartFromNow
<1>6. ASSUME NEW d \in Detectors, Fetch(d)
      PROVE  SInv'
  <2> DEFINE t == pass[d].table
             c == pass[d].cursor
             batch == RowsAfter(t, c)
  <2>1. /\ pass'[d].pc = "record" /\ pass'[d].table = t
        /\ pass'[d].cursor = c /\ pass'[d].left = batch
    BY <1>6, Passes DEF Fetch, SInv, TypeOK
  <2>2. \A e \in Detectors \ {d} : pass'[e] = pass[e]
    BY <1>6 DEF Fetch, SInv, TypeOK
  <2>3. UNCHANGED <<rows, inserted, position, recorded, skipped>>
    BY <1>6 DEF Fetch
  <2>4. t \in Tables /\ c \in Int
    BY Passes DEF SInv
  <2>5. /\ batch \subseteq rows[t]
        /\ \A q \in batch, r \in rows[t] : c < r.id /\ r.id < q.id => r \in batch
    BY <2>4, BatchIsPrefix
  <2>6. \A q \in batch : c < q.id
    BY DEF RowsAfter, After
  <2>7. NothingSkipped' /\ \A u \in Tables : position'[u] <= inserted[u]
    BY <2>3 DEF SInv, NothingSkipped, Handled, CursorsAreBehind
  <2>8. \A u \in Tables, i \in Ids : Handled(u, i) => Handled(u, i)'
    BY <2>3 DEF Handled
  <2>9. /\ c <= inserted[t]
        /\ \A r \in rows[t] : r.id <= c => Handled(t, r.id)
    BY <1>6 DEF SInv, CursorsAreBehind, PassesSkipNothing, Reading, Fetch
  <2>10. Reading(d)' => \A r \in rows[pass'[d].table] :
                          r.id <= pass'[d].cursor => Handled(pass[d].table, r.id)'
    BY <2>1, <2>3, <2>9 DEF Handled
  <2>11. /\ \A q, y \in pass'[d].left : q.id = y.id => q = y
         /\ \A q \in pass'[d].left :
              /\ pass'[d].cursor < q.id /\ q.id <= inserted[pass'[d].table]
              /\ \A r \in rows[pass'[d].table] :
                   pass'[d].cursor < r.id /\ r.id < q.id =>
                     \E y \in pass'[d].left : y.id = r.id
    BY <2>1, <2>4, <2>5, <2>6 DEF SInv, RowsAreNumbered
  <2> QED
    BY <1>0, <2>1, <2>2, <2>3, <2>7, <2>8, <2>9, <2>10, <2>11, OwnStep
<1>7. ASSUME NEW d \in Detectors, RecordChange(d)
      PROVE  SInv'
  BY <1>0, <1>7, RecordStep
<1>8. ASSUME NEW d \in Detectors, SetCursor(d)
      PROVE  SInv'
  <2>1. NothingSkipped' /\ \A t \in Tables : position'[t] <= inserted[t]
    BY <1>8, Moved DEF SetCursor, Reading
  <2>2. \A e \in Detectors \ {d} : pass'[e] = pass[e]
    BY <1>8 DEF SetCursor, SInv, TypeOK
  <2>3. UNCHANGED <<rows, inserted, recorded, skipped>>
    BY <1>8 DEF SetCursor
  <2>4. CASE ~pass[d].full
    <3>1. pass'[d] = Following(pass[d])
      BY <1>8, <2>4 DEF SetCursor, SInv, TypeOK
    <3> QED
      BY <1>0, <2>1, <2>2, <2>3, <3>1, PassTypes, Freshly
  <2>5. CASE pass[d].full
    <3>1. /\ pass'[d].pc = "fetch" /\ pass'[d].table = pass[d].table
          /\ pass'[d].cursor = pass[d].cursor /\ pass'[d].left = {}
      BY <1>8, <2>5, Passes DEF SetCursor, SInv, TypeOK
    <3>2. \A u \in Tables, i \in Ids : Handled(u, i) => Handled(u, i)'
      BY <2>3 DEF Handled
    <3>3. /\ pass[d].cursor <= inserted[pass[d].table]
          /\ \A r \in rows[pass[d].table] :
               r.id <= pass[d].cursor => Handled(pass[d].table, r.id)
      BY <1>8 DEF SInv, CursorsAreBehind, PassesSkipNothing, Reading, SetCursor
    <3>4. Reading(d)' => \A r \in rows[pass'[d].table] :
                           r.id <= pass'[d].cursor =>
                             Handled(pass[d].table, r.id)'
      BY <3>1, <2>3, <3>3 DEF Handled
    <3> QED
      BY <1>0, <2>1, <2>2, <2>3, <3>1, <3>2, <3>3, <3>4, OwnStep
  <2> QED
    BY <2>4, <2>5
<1>9. ASSUME NEW d \in Detectors, EndEarly(d)
      PROVE  SInv'
  <2>1. /\ pass'[d] = Idle
        /\ \A e \in Detectors \ {d} : pass'[e] = pass[e]
    BY <1>9 DEF EndEarly, SInv, TypeOK
  <2>2. NothingSkipped' /\ \A t \in Tables : position'[t] <= inserted[t]
    BY <1>9 DEF EndEarly, SInv, NothingSkipped, Handled, CursorsAreBehind
  <2> QED
    BY <1>0, <1>9, <2>1, <2>2, Freshly DEF EndEarly
<1>10. ASSUME NEW m \in Macs, RecordEvent(m)
       PROVE  SInv'
  <2> DEFINE t == "events"
  <2>1. t \in Tables
    BY DEF Tables
  <2>2. /\ rows'[t] = With(t, m) /\ inserted'[t] = inserted[t] + 1
        /\ \A u \in Tables \ {t} : rows'[u] = rows[u] /\ inserted'[u] = inserted[u]
    BY <1>10, <2>1 DEF RecordEvent, SInv, TypeOK
  <2> QED
    BY <1>0, <1>10, <2>1, <2>2, Insertion DEF RecordEvent
<1>11. ASSUME RecordDhcpServerFinding
       PROVE  SInv'
  <2> DEFINE t == "dhcp_server_findings"
  <2>1. t \in Tables
    BY DEF Tables
  <2>2. /\ rows'[t] = Newest(With(t, Nobody)) /\ inserted'[t] = inserted[t] + 1
        /\ \A u \in Tables \ {t} : rows'[u] = rows[u] /\ inserted'[u] = inserted[u]
    BY <1>11, <2>1 DEF RecordDhcpServerFinding, SInv, TypeOK
  <2>3. rows'[t] \subseteq With(t, Nobody)
    BY <2>2 DEF Newest
  <2> QED
    BY <1>0, <1>11, <2>1, <2>2, <2>3, Insertion DEF RecordDhcpServerFinding
<1>12. ASSUME NEW m \in Macs, DeleteDevice(m)
       PROVE  SInv'
  <2>1. \A t \in Tables : rows'[t] \subseteq rows[t]
    BY <1>12 DEF DeleteDevice, SInv, TypeOK
  <2> QED
    BY <1>0, <1>12, <2>1, Deletion DEF DeleteDevice
<1>13. ASSUME ResetAll
       PROVE  SInv'
  BY <1>0, <1>13, Deletion DEF ResetAll
<1> QED
  BY <1>1, <1>2, <1>3, <1>4, <1>5, <1>6, <1>7, <1>8, <1>9, <1>10, <1>11,
     <1>12, <1>13 DEF Next, PassStep

LEMMA SafeInit == Init => SInv
<1> SUFFICES ASSUME Init PROVE SInv
  OBVIOUS
<1>1. TypeOK
  <2>1. Idle \in [pc : Labels, table : Tables, cursor : {NoCursor} \cup 0..MaxRows,
                  left : SUBSET Row, full : BOOLEAN]
    BY PassTypes DEF Idle, Labels, Tables
  <2>2. rows \in [Tables -> SUBSET Row] /\ skipped \in [Tables -> SUBSET Ids]
    BY DEF Init
  <2>3. /\ inserted \in [Tables -> 0..MaxRows]
        /\ position \in [Tables -> {NoCursor} \cup 0..MaxRows]
        /\ crashes \in 0..MaxCrashes
    BY BoundAssumption DEF Init
  <2>4. recorded \in [Tables -> [Ids -> Nat]] /\ overlaps \in BOOLEAN
    BY DEF Init
  <2>5. pass \in [Detectors -> [pc : Labels, table : Tables,
                               cursor : {NoCursor} \cup 0..MaxRows,
                               left : SUBSET Row, full : BOOLEAN]]
    BY <2>1 DEF Init
  <2> QED
    BY <2>2, <2>3, <2>4, <2>5 DEF TypeOK
<1>2. RowsAreNumbered
  BY FS_EmptySet DEF Init, RowsAreNumbered
<1>3. \A d \in Detectors : /\ pass[d].pc = "idle" /\ pass[d].table \in Tables
                           /\ pass[d].cursor = -1 /\ pass[d].left = {}
  BY DEF Init, Idle, At, Tables, NoCursor
<1>4. CursorsAreBehind
  BY <1>3 DEF Init, CursorsAreBehind, NoCursor
<1>5. PassesSkipNothing /\ BatchesHaveNoGaps
  BY <1>3 DEF PassesSkipNothing, Reading, BatchesHaveNoGaps
<1>6. NothingSkipped
  BY DEF Init, NothingSkipped
<1> QED
  BY <1>1, <1>2, <1>4, <1>5, <1>6 DEF SInv

\* The tables, the cursors and the passes keep their types.
THEOREM TypeCorrect == Spec => []TypeOK
<1>1. SInv => TypeOK
  BY DEF SInv
<1> QED
  BY <1>1, SafeInit, SafeStep, PTL DEF Spec

\* The stored cursor never passes a row that is still there and that became
\* no change, however passes overlap, end early or are overtaken by a reset
\* (baseline.py, _ingest_lifecycle and _ingest_dhcp_servers).
THEOREM SkipsNothing == Spec => []NothingSkipped
<1>1. SInv => NothingSkipped
  BY DEF SInv
<1> QED
  BY <1>1, SafeInit, SafeStep, PTL DEF Spec

-----------------------------------------------------------------------------
(* No row becomes two changes as long as passes take turns                 *)

Undisturbed == ~overlaps /\ crashes = 0

Recording(d, t, i) ==
  pass[d].pc = "record" /\ pass[d].table = t /\ i <= pass[d].cursor

\* Without overlaps only one detector is at work.
Alone ==
  ~overlaps => \A d, e \in Detectors :
                 pass[d].pc # "idle" /\ pass[e].pc # "idle" => d = e

\* The stored cursor is not ahead of the one of the pass under way.
StoredIsBehind ==
  Undisturbed =>
    \A d \in Detectors :
      /\ Reading(d) => position[pass[d].table] <= pass[d].cursor
      /\ pass[d].pc = "first" => position[pass[d].table] = NoCursor

\* What is left of a batch became no change yet.
LeftIsNew ==
  Undisturbed => \A d \in Detectors : \A r \in pass[d].left :
                   recorded[pass[d].table][r.id] = 0

\* A row that became a change is behind the stored cursor or the one of the
\* pass that records its batch.
RecordedIsPast ==
  Undisturbed => \A t \in Tables : \A r \in rows[t] :
    recorded[t][r.id] > 0 =>
      r.id <= position[t] \/ \E d \in Detectors : Recording(d, t, r.id)

\* Only ids that were given out became changes.
RecordedWasThere ==
  \A t \in Tables : \A i \in Ids : recorded[t][i] > 0 => i <= inserted[t]

OInv ==
  /\ Alone
  /\ StoredIsBehind
  /\ LeftIsNew
  /\ RecordedIsPast
  /\ RecordedWasThere
  /\ OnceEach

\* Steps that change the tables only, or forget the cursors with the rows.
LEMMA OnceTables ==
  ASSUME SInv, OInv, SInv',
         UNCHANGED <<pass, recorded, skipped, overlaps, crashes>>,
         \A t \in Tables :
           /\ inserted[t] <= inserted'[t]
           /\ \/ position'[t] = position[t]
              \/ position'[t] = NoCursor /\ rows'[t] = {}
           /\ \A r \in rows'[t] : r \in rows[t] \/ r.id = inserted[t] + 1
  PROVE  OInv'
<1>1. Alone' /\ LeftIsNew' /\ OnceEach'
  BY DEF OInv, Alone, LeftIsNew, OnceEach, Undisturbed
<1>2. StoredIsBehind'
  <2> SUFFICES ASSUME Undisturbed, NEW d \in Detectors
               PROVE  /\ Reading(d) => position'[pass[d].table] <= pass[d].cursor
                      /\ pass[d].pc = "first" => position'[pass[d].table] = NoCursor
    BY DEF StoredIsBehind, Undisturbed, Reading
  <2>1. /\ pass[d].table \in Tables /\ pass[d].cursor \in Int
        /\ pass[d].cursor \in {NoCursor} \cup 0..MaxRows
    BY Passes DEF SInv
  <2>2. NoCursor <= pass[d].cursor
    BY <2>1, BoundAssumption DEF NoCursor
  <2> QED
    BY <2>1, <2>2 DEF OInv, StoredIsBehind
<1>3. RecordedWasThere'
  <2> SUFFICES ASSUME NEW t \in Tables, NEW i \in Ids, recorded[t][i] > 0
               PROVE  i <= inserted'[t]
    BY DEF RecordedWasThere
  <2>1. i \in Nat /\ inserted[t] \in Nat /\ inserted'[t] \in Nat
    BY BoundAssumption DEF Ids, SInv, TypeOK
  <2> QED
    BY <2>1 DEF OInv, RecordedWasThere
<1>4. RecordedIsPast'
  <2> SUFFICES ASSUME Undisturbed, NEW t \in Tables, NEW r \in rows'[t],
                      recorded[t][r.id] > 0
               PROVE  \/ r.id <= position'[t]
                      \/ \E d \in Detectors : Recording(d, t, r.id)
    BY DEF RecordedIsPast, Undisturbed, Recording
  <2>1. r.id \in Ids /\ inserted[t] \in Nat
    BY Numbers DEF SInv, TypeOK, Row
  <2>2. r \in rows[t]
    BY <2>1 DEF OInv, RecordedWasThere, Ids
  <2> QED
    BY <2>2 DEF OInv, RecordedIsPast
<1> QED
  BY <1>1, <1>2, <1>3, <1>4 DEF OInv

\* A step of a pass that records nothing.
LEMMA OncePass ==
  ASSUME SInv, OInv, SInv', NEW d \in Detectors,
         pass[d].pc # "idle", NEW u \in Tables, u = pass[d].table,
         UNCHANGED <<rows, inserted, recorded, overlaps, crashes>>,
         \A e \in Detectors \ {d} : pass'[e] = pass[e],
         \A t \in Tables \ {u} : position'[t] = position[t],
         \A r \in rows[u] : r.id <= position[u] \/ Recording(d, u, r.id) =>
                             r.id <= position'[u] \/ Recording(d, u, r.id)',
         Undisturbed => /\ Reading(d)' => position'[pass'[d].table] <= pass'[d].cursor
                        /\ pass'[d].pc = "first" => position'[pass'[d].table] = NoCursor
                        /\ \A r \in pass'[d].left :
                              recorded[pass'[d].table][r.id] = 0
  PROVE  OInv'
<1>0. \A e \in Detectors : ~overlaps /\ e # d => pass[e] = pass'[e] /\ pass'[e].pc = "idle"
  BY DEF OInv, Alone
<1>1. Alone' /\ OnceEach' /\ RecordedWasThere'
  BY <1>0 DEF OInv, Alone, OnceEach, RecordedWasThere
<1>2. StoredIsBehind'
  BY <1>0 DEF StoredIsBehind, Undisturbed, Reading
<1>3. LeftIsNew'
  <2> SUFFICES ASSUME Undisturbed, NEW e \in Detectors, NEW r \in pass'[e].left
               PROVE  recorded[pass'[e].table][r.id] = 0
    BY DEF LeftIsNew, Undisturbed
  <2>1. CASE e = d
    BY <2>1
  <2>2. CASE e # d
    BY <2>2 DEF OInv, LeftIsNew
  <2> QED
    BY <2>1, <2>2
<1>4. RecordedIsPast'
  <2> SUFFICES ASSUME Undisturbed, NEW t \in Tables, NEW r \in rows[t],
                      recorded[t][r.id] > 0
               PROVE  \/ r.id <= position'[t]
                      \/ \E e \in Detectors : Recording(e, t, r.id)'
    BY DEF RecordedIsPast, Undisturbed
  <2>1. r.id <= position[t] \/ Recording(d, t, r.id)
    BY <1>0 DEF OInv, RecordedIsPast, Recording, Undisturbed, Alone
  <2>2. CASE t = u
    BY <2>1, <2>2 DEF Recording
  <2>3. CASE t # u
    BY <2>1, <2>3 DEF Recording
  <2> QED
    BY <2>2, <2>3
<1> QED
  BY <1>1, <1>2, <1>3, <1>4 DEF OInv

LEMMA OnceRecord ==
  ASSUME SInv, OInv, SInv', NEW d \in Detectors, RecordChange(d)
  PROVE  OInv'
<1> DEFINE t == pass[d].table
<1>1. PICK r \in pass[d].left :
        /\ \A q \in pass[d].left : r.id <= q.id
        /\ recorded' = [recorded EXCEPT ![t][r.id] = recorded[t][r.id] + 1]
        /\ pass' = [pass EXCEPT ![d].left = pass[d].left \ {r},
                                ![d].cursor = r.id]
  BY DEF RecordChange
<1>2. /\ r.id \in Ids /\ r.id \in Nat /\ t \in Tables /\ pass[d].cursor \in Int
      /\ pass[d].cursor < r.id /\ r.id <= inserted[t]
      /\ pass[d].pc = "record"
      /\ UNCHANGED <<rows, inserted, position, overlaps, crashes>>
  BY <1>1, Passes, Numbers DEF SInv, BatchesHaveNoGaps, RecordChange
<1>3. /\ pass'[d].pc = "record" /\ pass'[d].table = t
      /\ pass'[d].cursor = r.id /\ pass'[d].left = pass[d].left \ {r}
  BY <1>1, <1>2, Passes DEF SInv, TypeOK
<1>4. \A e \in Detectors \ {d} : pass'[e] = pass[e]
  BY <1>1 DEF SInv, TypeOK
<1>5. \A u \in Tables, i \in Ids :
        recorded'[u][i] = IF u = t /\ i = r.id THEN recorded[u][i] + 1
                          ELSE recorded[u][i]
  BY <1>1, <1>2 DEF SInv, TypeOK
<1>6. \A u \in Tables, i \in Ids : recorded[u][i] \in Nat
  BY Numbers DEF SInv
<1>7. Undisturbed => recorded[t][r.id] = 0
  BY <1>1 DEF OInv, LeftIsNew
<1>8. \A e \in Detectors : ~overlaps /\ e # d => pass'[e].pc = "idle"
  BY <1>2, <1>4 DEF OInv, Alone
<1>9. Alone'
  BY <1>2, <1>8 DEF Alone
<1>10. StoredIsBehind'
  <2> SUFFICES ASSUME Undisturbed
               PROVE  position[t] <= r.id
    BY <1>2, <1>3, <1>8 DEF StoredIsBehind, Undisturbed, Reading
  <2>1. position[t] <= pass[d].cursor /\ position[t] \in Int
    BY <1>2, Numbers DEF OInv, StoredIsBehind, Reading, SInv
  <2> QED
    BY <2>1, <1>2
<1>11. LeftIsNew'
  <2> SUFFICES ASSUME Undisturbed, NEW e \in Detectors, NEW q \in pass'[e].left
               PROVE  recorded'[pass'[e].table][q.id] = 0
    BY <1>2 DEF LeftIsNew, Undisturbed
  <2>1. e = d
    <3> SUFFICES ASSUME e # d PROVE FALSE
      OBVIOUS
    <3>1. pass'[e].pc = "idle" /\ pass'[e] = pass[e]
      BY <1>4, <1>8 DEF Undisturbed
    <3> QED
      BY <3>1 DEF SInv, BatchesHaveNoGaps
  <2>2. q \in pass[d].left /\ q # r /\ q.id \in Ids
    BY <2>1, <1>3, Passes, Numbers DEF SInv
  <2>3. q.id # r.id
    BY <1>1, <2>2 DEF SInv, BatchesHaveNoGaps
  <2>4. recorded[t][q.id] = 0
    BY <2>2 DEF OInv, LeftIsNew
  <2> QED
    BY <2>1, <2>2, <2>3, <2>4, <1>2, <1>3, <1>5
<1>12. RecordedIsPast'
  <2> SUFFICES ASSUME Undisturbed, NEW u \in Tables, NEW q \in rows[u],
                      recorded'[u][q.id] > 0
               PROVE  \/ q.id <= position[u]
                      \/ \E e \in Detectors : Recording(e, u, q.id)'
    BY <1>2 DEF RecordedIsPast, Undisturbed
  <2>1. q.id \in Ids /\ q.id \in Nat
    BY Numbers DEF SInv
  <2>2. CASE u = t /\ q.id = r.id
    <3>1. Recording(d, u, q.id)'
      BY <2>2, <1>2, <1>3 DEF Recording
    <3> QED
      BY <3>1
  <2>3. CASE ~(u = t /\ q.id = r.id)
    <3>1. recorded[u][q.id] > 0
      BY <2>1, <2>3, <1>5
    <3>2. CASE q.id <= position[u]
      BY <3>2
    <3>3. ASSUME NEW e \in Detectors, Recording(e, u, q.id)
          PROVE  Recording(d, u, q.id)'
      <4>1. e = d
        BY <3>3, <1>2 DEF Recording, OInv, Alone, Undisturbed
      <4> QED
        BY <4>1, <3>3, <2>1, <1>2, <1>3 DEF Recording
    <3> QED
      BY <3>1, <3>2, <3>3 DEF OInv, RecordedIsPast
  <2> QED
    BY <2>2, <2>3
<1>13. RecordedWasThere'
  <2> SUFFICES ASSUME NEW u \in Tables, NEW i \in Ids, recorded'[u][i] > 0
               PROVE  i <= inserted[u]
    BY <1>2 DEF RecordedWasThere
  <2> QED
    BY <1>2, <1>5 DEF OInv, RecordedWasThere
<1>14. OnceEach'
  <2> SUFFICES ASSUME Undisturbed, NEW u \in Tables, NEW i \in Ids
               PROVE  recorded'[u][i] <= 1
    BY <1>2 DEF OnceEach, Undisturbed
  <2>1. recorded[u][i] <= 1
    BY DEF OInv, OnceEach, Undisturbed
  <2> QED
    BY <2>1, <1>5, <1>6, <1>7
<1> QED
  BY <1>9, <1>10, <1>11, <1>12, <1>13, <1>14 DEF OInv

\* A step that moves the stored cursor to where a pass has read.
LEMMA OnceMoved ==
  ASSUME SInv, OInv, SInv', NEW d \in Detectors, Reading(d),
         position' = [position EXCEPT ![pass[d].table] = pass[d].cursor],
         UNCHANGED <<rows, inserted, recorded, overlaps, crashes>>,
         \A e \in Detectors \ {d} : pass'[e] = pass[e],
         pass'[d].left = {},
         \/ pass'[d].pc \in {"open", "idle"}
         \/ /\ pass'[d].pc = "fetch" /\ pass'[d].table = pass[d].table
            /\ pass'[d].cursor = pass[d].cursor
  PROVE  OInv'
<1>0. PICK t \in Tables : t = pass[d].table
  BY Passes DEF SInv
<1>1. t \in Tables /\ pass[d].cursor \in Int /\ position[t] \in Int
  BY <1>0, Passes, Numbers DEF SInv
<1>2. /\ position'[t] = pass[d].cursor
      /\ \A u \in Tables \ {t} : position'[u] = position[u]
  BY <1>0 DEF SInv, TypeOK
<1>3. CASE Undisturbed
  <2>1. position[t] <= position'[t]
    BY <1>0, <1>2, <1>3 DEF OInv, StoredIsBehind
  <2>2. \A r \in rows[t] : r.id <= position[t] \/ Recording(d, t, r.id) =>
                           r.id <= position'[t] \/ Recording(d, t, r.id)'
    BY <1>0, <1>1, <1>2, <2>1, Numbers DEF Recording, SInv
  <2>3. Reading(d)' => position'[pass'[d].table] <= pass'[d].cursor
    BY <1>0, <1>1, <1>2 DEF Reading
  <2>4. pass[d].pc # "idle" /\ pass'[d].pc # "first"
    BY DEF Reading
  <2>5. \A r \in pass'[d].left : recorded[pass'[d].table][r.id] = 0
    OBVIOUS
  <2> QED
    BY <1>0, <1>2, <2>2, <2>3, <2>4, <2>5, OncePass
<1>4. CASE ~Undisturbed
  <2>1. Alone'
    BY DEF OInv, Alone, Reading
  <2> QED
    BY <1>4, <2>1
       DEF OInv, StoredIsBehind, LeftIsNew, RecordedIsPast, RecordedWasThere,
           OnceEach, Undisturbed
<1> QED
  BY <1>3, <1>4

LEMMA OnceStep ==
  ASSUME SInv, OInv, [Next]_vars
  PROVE  OInv'
<1>0. SInv'
  BY SafeStep
<1>1. CASE UNCHANGED vars
  <2>1. \A t \in Tables : inserted[t] <= inserted'[t]
    BY <1>1, Numbers DEF vars, SInv
  <2>2. /\ UNCHANGED <<pass, recorded, skipped, overlaps, crashes>>
        /\ \A t \in Tables : position'[t] = position[t]
        /\ \A t \in Tables : \A r \in rows'[t] : r \in rows[t]
    BY <1>1 DEF vars
  <2> QED
    BY <1>0, <2>1, <2>2, OnceTables
<1>2. ASSUME NEW d \in Detectors, Begin(d)
      PROVE  OInv'
  <2>1. /\ pass'[d].pc = "open" /\ pass'[d].left = {}
        /\ \A e \in Detectors \ {d} : pass'[e] = pass[e]
        /\ pass[d].pc = "idle"
    BY <1>2 DEF Begin, At, SInv, TypeOK
  <2>2. /\ UNCHANGED <<rows, inserted, position, recorded, crashes>>
        /\ overlaps' = (overlaps \/ \E e \in Detectors : pass[e].pc # "idle")
    BY <1>2 DEF Begin
  <2>3. ~overlaps' => ~overlaps /\ \A e \in Detectors : pass[e].pc = "idle"
    BY <2>2 DEF SInv, TypeOK
  <2>4. \A e \in Detectors : ~overlaps' => pass'[e].pc \in {"idle", "open"}
    BY <2>1, <2>3
  <2>5. \A e \in Detectors : ~overlaps' => pass'[e].left = {}
    BY <2>1, <2>3 DEF SInv, BatchesHaveNoGaps
  <2>6. Alone' /\ StoredIsBehind' /\ LeftIsNew'
    BY <2>1, <2>3, <2>4, <2>5
       DEF Alone, StoredIsBehind, LeftIsNew, Reading, Undisturbed
  <2>7. RecordedIsPast'
    <3> SUFFICES ASSUME Undisturbed', NEW t \in Tables, NEW r \in rows[t],
                        recorded[t][r.id] > 0
                 PROVE  r.id <= position[t]
      BY <2>2 DEF RecordedIsPast
    <3>1. \A d1 \in Detectors : ~Recording(d1, t, r.id)
      BY <2>3 DEF Undisturbed, Recording
    <3> QED
      BY <3>1, <2>2, <2>3 DEF OInv, RecordedIsPast, Undisturbed
  <2>8. RecordedWasThere' /\ OnceEach'
    BY <2>2, <2>3 DEF OInv, RecordedWasThere, OnceEach
  <2> QED
    BY <2>6, <2>7, <2>8 DEF OInv
<1>3. ASSUME NEW d \in Detectors, GetCursor(d)
      PROVE  OInv'
  <2> DEFINE t == pass[d].table
  <2>1. /\ pass'[d].table = t /\ pass'[d].left = {}
        /\ pass'[d].cursor = position[t]
        /\ pass'[d].pc = IF position[t] = NoCursor THEN "first" ELSE "fetch"
    BY <1>3, Passes DEF GetCursor, SInv, TypeOK, BatchesHaveNoGaps
  <2>2. \A e \in Detectors \ {d} : pass'[e] = pass[e]
    BY <1>3 DEF GetCursor, SInv, TypeOK
  <2>3. t \in Tables /\ position[t] \in Int
    BY Passes, Numbers DEF SInv
  <2>4. /\ UNCHANGED <<rows, inserted, position, recorded, overlaps, crashes>>
        /\ pass[d].pc = "open"
    BY <1>3 DEF GetCursor
  <2>5. \A r \in rows[t] : r.id <= position[t] \/ Recording(d, t, r.id) =>
                           r.id <= position'[t] \/ Recording(d, t, r.id)'
    BY <2>4 DEF Recording
  <2> QED
    BY <1>0, <2>1, <2>2, <2>3, <2>4, <2>5, OncePass DEF Reading
<1>4. ASSUME NEW d \in Detectors, ReadMaxId(d)
      PROVE  OInv'
  <2> DEFINE t == pass[d].table
  <2>1. PICK i \in MaxId(t) :
          pass' = [pass EXCEPT ![d].cursor = i, ![d].pc = "start"]
    BY <1>4 DEF ReadMaxId
  <2>2. /\ pass'[d].pc = "start" /\ pass'[d].table = t
        /\ pass'[d].cursor = i /\ pass'[d].left = {}
    <3>1. pass[d].left = {}
      BY <1>4 DEF ReadMaxId, SInv, BatchesHaveNoGaps
    <3>2. pass'[d] = [pass[d] EXCEPT !.cursor = i, !.pc = "start"]
      BY <2>1 DEF SInv, TypeOK
    <3> QED
      BY <3>1, <3>2, Passes DEF SInv
  <2>3. \A e \in Detectors \ {d} : pass'[e] = pass[e]
    BY <2>1 DEF SInv, TypeOK
  <2>4. /\ UNCHANGED <<rows, inserted, position, recorded, overlaps, crashes>>
        /\ pass[d].pc = "first"
    BY <1>4 DEF ReadMaxId
  <2>5. t \in Tables /\ i \in Nat
    BY <2>1, Passes, Numbers DEF SInv, MaxId
  <2>6. Undisturbed => position[t] <= i
    BY <2>4, <2>5 DEF OInv, StoredIsBehind, NoCursor
  <2>7. \A r \in rows[t] : r.id <= position[t] \/ Recording(d, t, r.id) =>
                           r.id <= position'[t] \/ Recording(d, t, r.id)'
    BY <2>4 DEF Recording
  <2> QED
    BY <1>0, <2>2, <2>3, <2>4, <2>5, <2>6, <2>7, OncePass DEF Reading
<1>5. ASSUME NEW d \in Detectors, StartFromNow(d)
      PROVE  OInv'
  <2>1. /\ pass'[d].pc \in {"open", "idle"} /\ pass'[d].left = {}
        /\ \A e \in Detectors \ {d} : pass'[e] = pass[e]
    BY <1>5 DEF StartFromNow, SInv, TypeOK, Following, Idle, At
  <2> QED
    BY <1>0, <1>5, <2>1, OnceMoved DEF StartFromNow, Reading
<1>6. ASSUME NEW d \in Detectors, Fetch(d)
      PROVE  OInv'
  <2> DEFINE t == pass[d].table
             c == pass[d].cursor
  <2>1. /\ pass'[d].pc = "record" /\ pass'[d].table = t
        /\ pass'[d].cursor = c /\ pass'[d].left = RowsAfter(t, c)
    BY <1>6, Passes DEF Fetch, SInv, TypeOK
  <2>2. \A e \in Detectors \ {d} : pass'[e] = pass[e]
    BY <1>6 DEF Fetch, SInv, TypeOK
  <2>3. /\ UNCHANGED <<rows, inserted, position, recorded, overlaps, crashes>>
        /\ pass[d].pc = "fetch"
    BY <1>6 DEF Fetch
  <2>4. t \in Tables /\ c \in Int /\ position[t] \in Int
    BY Passes, Numbers DEF SInv
  <2>5. Undisturbed => position[t] <= c
    BY <2>3 DEF OInv, StoredIsBehind, Reading
  <2>6. ASSUME Undisturbed, NEW r \in RowsAfter(t, c)
        PROVE  recorded[t][r.id] = 0
    <3>1. r \in rows[t] /\ r.id > c /\ r.id \in Ids /\ r.id \in Nat
      BY <2>4, Numbers DEF RowsAfter, After, SInv
    <3>2. ~(r.id <= position[t])
      BY <2>4, <2>5, <2>6, <3>1
    <3>3. \A e \in Detectors : ~Recording(e, t, r.id)
      BY <2>3, <2>6 DEF OInv, Alone, Undisturbed, Recording
    <3>4. ~(recorded[t][r.id] > 0)
      BY <2>4, <2>6, <3>1, <3>2, <3>3 DEF OInv, RecordedIsPast
    <3>5. recorded[t][r.id] \in Nat
      BY <2>4, <3>1, Numbers DEF SInv
    <3> QED
      BY <3>4, <3>5
  <2>7. \A r \in rows[t] : r.id <= position[t] \/ Recording(d, t, r.id) =>
                           r.id <= position'[t] \/ Recording(d, t, r.id)'
    BY <2>3 DEF Recording
  <2> QED
    BY <1>0, <2>1, <2>2, <2>3, <2>4, <2>5, <2>6, <2>7, OncePass DEF Reading
<1>7. ASSUME NEW d \in Detectors, RecordChange(d)
      PROVE  OInv'
  BY <1>0, <1>7, OnceRecord
<1>8. ASSUME NEW d \in Detectors, SetCursor(d)
      PROVE  OInv'
  <2>1. \A e \in Detectors \ {d} : pass'[e] = pass[e]
    BY <1>8 DEF SetCursor, SInv, TypeOK
  <2>2. CASE pass[d].full
    <3>1. /\ pass'[d].pc = "fetch" /\ pass'[d].table = pass[d].table
          /\ pass'[d].cursor = pass[d].cursor /\ pass'[d].left = {}
      BY <1>8, <2>2, Passes DEF SetCursor, SInv, TypeOK
    <3> QED
      BY <1>0, <1>8, <2>1, <3>1, OnceMoved DEF SetCursor, Reading
  <2>3. CASE ~pass[d].full
    <3>1. pass'[d].pc \in {"open", "idle"} /\ pass'[d].left = {}
      BY <1>8, <2>3 DEF SetCursor, SInv, TypeOK, Following, Idle, At
    <3> QED
      BY <1>0, <1>8, <2>1, <3>1, OnceMoved DEF SetCursor, Reading
  <2> QED
    BY <2>2, <2>3
<1>9. ASSUME NEW d \in Detectors, EndEarly(d)
      PROVE  OInv'
  <2>1. /\ pass'[d].pc = "idle"
        /\ \A e \in Detectors \ {d} : pass'[e] = pass[e]
        /\ ~Undisturbed'
        /\ UNCHANGED <<rows, inserted, recorded, overlaps>>
    BY <1>9 DEF EndEarly, SInv, TypeOK, Idle, At, Undisturbed
  <2> QED
    BY <2>1 DEF OInv, Alone, StoredIsBehind, LeftIsNew, RecordedIsPast,
                RecordedWasThere, OnceEach, Undisturbed
<1>10. ASSUME NEW m \in Macs, RecordEvent(m)
       PROVE  OInv'
  <2>1. \A t \in Tables : inserted[t] <= inserted'[t]
    BY <1>10, Numbers DEF RecordEvent, SInv, TypeOK
  <2>2. \A t \in Tables : \A r \in rows'[t] : r \in rows[t] \/ r.id = inserted[t] + 1
    BY <1>10 DEF RecordEvent, With, SInv, TypeOK
  <2>3. UNCHANGED <<position, pass, recorded, skipped, overlaps, crashes>>
    BY <1>10 DEF RecordEvent
  <2> QED
    BY <1>0, <2>1, <2>2, <2>3, OnceTables
<1>11. ASSUME RecordDhcpServerFinding
       PROVE  OInv'
  <2>1. \A t \in Tables : inserted[t] <= inserted'[t]
    BY <1>11, Numbers DEF RecordDhcpServerFinding, SInv, TypeOK
  <2>2. \A t \in Tables : \A r \in rows'[t] : r \in rows[t] \/ r.id = inserted[t] + 1
    BY <1>11 DEF RecordDhcpServerFinding, Newest, With, SInv, TypeOK
  <2>3. UNCHANGED <<position, pass, recorded, skipped, overlaps, crashes>>
    BY <1>11 DEF RecordDhcpServerFinding
  <2> QED
    BY <1>0, <2>1, <2>2, <2>3, OnceTables
<1>12. ASSUME NEW m \in Macs, DeleteDevice(m)
       PROVE  OInv'
  <2>1. \A t \in Tables : rows'[t] \subseteq rows[t]
    BY <1>12 DEF DeleteDevice, SInv, TypeOK
  <2>2. UNCHANGED <<inserted, position, pass, recorded, skipped, overlaps, crashes>>
    BY <1>12 DEF DeleteDevice
  <2>3. \A t \in Tables : inserted[t] <= inserted'[t]
    BY <2>2, Numbers DEF SInv
  <2> QED
    BY <1>0, <2>1, <2>2, <2>3, OnceTables
<1>13. ASSUME ResetAll
       PROVE  OInv'
  BY <1>0, <1>13, OnceTables, Numbers DEF ResetAll, SInv
<1> QED
  BY <1>1, <1>2, <1>3, <1>4, <1>5, <1>6, <1>7, <1>8, <1>9, <1>10, <1>11,
     <1>12, <1>13 DEF Next, PassStep

LEMMA OnceInit == Init => OInv
<1> SUFFICES ASSUME Init PROVE OInv
  OBVIOUS
<1>1. \A d \in Detectors : pass[d].pc = "idle" /\ pass[d].left = {}
  BY DEF Init, Idle, At
<1>2. \A t \in Tables, i \in Ids : recorded[t][i] = 0
  BY DEF Init
<1>3. Alone /\ StoredIsBehind /\ LeftIsNew
  BY <1>1 DEF Alone, StoredIsBehind, Reading, LeftIsNew
<1>4. RecordedIsPast
  BY DEF Init, RecordedIsPast
<1>5. RecordedWasThere /\ OnceEach
  BY <1>2 DEF RecordedWasThere, OnceEach
<1> QED
  BY <1>3, <1>4, <1>5 DEF OInv

\* As long as no passes overlap and none ends early, a row becomes at most
\* one change, also when cursors are reset in the middle of a pass.
THEOREM ChangesOnce == Spec => []OnceEach
<1>1. Init => SInv /\ OInv
  BY SafeInit, OnceInit
<1>2. SInv /\ OInv /\ [Next]_vars => (SInv /\ OInv)'
  BY SafeStep, OnceStep
<1>3. SInv /\ OInv => OnceEach
  BY DEF OInv
<1> QED
  BY <1>1, <1>2, <1>3, PTL DEF Spec

=============================================================================
