--------------------------- MODULE BaselineProofs ---------------------------
(***************************************************************************)
(* Proofs about Baseline, for any ports, services and settings: nothing    *)
(* that gives remote administration is normal unless somebody said so,     *)
(* what the operator accepts between passes stays accepted, what is        *)
(* pending was told, and nothing is removed early. All need to know what   *)
(* the copies in a pass say, since they are written back.                  *)
(***************************************************************************)
EXTENDS Baseline, TLAPS

HasBase == pass.pc \in {"learn", "judge"} => pass.base # Absent

\* The copies that a pass may write back are approved, too.
CopiesAreApproved ==
  \A v \in Admin : pass.items[v] # Absent /\ pass.items[v].in => v \in approved

\* Nobody accepted anything since an undisturbed pass made its copies.
CopiesAreExpected ==
  ~disturbed /\ pass.pc \in {"seed", "learn", "judge"} =>
    \A v \in accepted : pass.items[v] # Absent /\ pass.items[v].in

StillJudged(v) ==
  \/ pass.pc \in {"seed", "learn"}
  \/ pass.pc = "judge" /\ v \in pass.todo

\* An item that is pending while it is still to be judged is pending in the
\* copies, too: the rows that an accept writes, even those that a reset has
\* removed in between, are in the baseline.
CopiesAreBehind ==
  \A v \in Items :
    StillJudged(v) /\ Pending(v) => pass.items[v] # Absent /\ ~pass.items[v].in

TInv == TypeOK /\ HasBase
AInv == TInv /\ AdminIsApproved /\ CopiesAreApproved
EInv == TInv /\ AcceptedIsExpected /\ CopiesAreExpected
BInv == TInv /\ CopiesAreBehind

-----------------------------------------------------------------------------
(* Types *)

LEMMA Bounds ==
  /\ AgeCap \in Nat /\ MaxInspections \in Nat /\ MaxCrashes \in Nat
  /\ 0 \in Ages /\ 0 \in 0..MaxInspections
  /\ \A age \in Ages : Older(age) \in Ages
BY AgeAssumption DEF Ages, Older, Min2

LEMMA IdleType == Idle \in Passes
BY Bounds DEF Idle, NoRows, Passes

\* What a pass writes to an item is a row.
LEMMA SaveType ==
  ASSUME TypeOK, NEW v \in Items, NEW row \in ItemRow, Save(v, row)
  PROVE  items' \in [Items -> ItemRow \cup {Absent}]
BY DEF TypeOK, Save

\* The copies of rows, and what they become.
LEMMA RowTypes ==
  ASSUME NEW row \in ItemRow \cup {Absent}, row # Absent
  PROVE  /\ row.in \in BOOLEAN /\ row.present \in BOOLEAN /\ row.age \in Ages
         /\ \A b \in BOOLEAN : [row EXCEPT !.present = b, !.age = 0] \in ItemRow
         /\ \A b \in BOOLEAN : [row EXCEPT !.present = b] \in ItemRow
         /\ \A b \in BOOLEAN : [row EXCEPT !.in = b] \in ItemRow
         /\ \A a \in Ages : [row EXCEPT !.age = a] \in ItemRow
BY Bounds DEF ItemRow

LEMMA JudgeTypes ==
  ASSUME TInv, NEW v \in Items, Judge(v)
  PROVE  items' \in [Items -> ItemRow \cup {Absent}] /\ pass' \in Passes
<1> DEFINE row == pass.items[v]
<1>1. pass \in Passes /\ row \in ItemRow \cup {Absent} /\ pass.todo \subseteq Items
  BY DEF TInv, TypeOK, Passes
<1>2. CASE JudgeNew(v)
  <2>1. \A b \in BOOLEAN : [in |-> b, present |-> TRUE, age |-> 0] \in ItemRow
    BY Bounds DEF ItemRow
  <2>2. PICK b \in BOOLEAN : Save(v, [in |-> b, present |-> TRUE, age |-> 0])
    BY <1>1, <1>2 DEF JudgeNew, Passes
  <2>3. items' \in [Items -> ItemRow \cup {Absent}]
    BY <2>1, <2>2, SaveType DEF TInv
  <2>4. pass' \in Passes
    <3>1. PICK t \in Items \cup {Absent} :
            pass' = [pass EXCEPT !.todo = pass.todo \ {v}, !.tell = t]
      BY <1>2 DEF JudgeNew
    <3> QED BY <1>1, <3>1 DEF Passes
  <2> QED BY <2>3, <2>4
<1>3. CASE JudgeReturned(v)
  <2>1. items' \in [Items -> ItemRow \cup {Absent}]
    BY <1>1, <1>3, RowTypes, SaveType DEF JudgeReturned, TInv
  <2>2. pass' \in Passes
    BY <1>1, <1>3 DEF JudgeReturned, Passes
  <2> QED BY <2>1, <2>2
<1>4. CASE JudgeSame(v)
  <2>1. items' \in [Items -> ItemRow \cup {Absent}]
    BY <1>1, <1>4, Bounds, RowTypes, SaveType DEF JudgeSame, TInv, TypeOK
  <2>2. pass' \in Passes
    BY <1>1, <1>4 DEF JudgeSame, Passes
  <2> QED BY <2>1, <2>2
<1>5. CASE JudgeMissing(v)
  <2>1. items' \in [Items -> ItemRow \cup {Absent}]
    BY <1>1, <1>5, RowTypes, SaveType DEF JudgeMissing, IsRemoved, TInv, TypeOK
  <2>2. pass' \in Passes
    BY <1>1, <1>5 DEF JudgeMissing, Passes
  <2> QED BY <2>1, <2>2
<1> QED BY <1>2, <1>3, <1>4, <1>5 DEF Judge

\* An accept that reads changes nothing but what is in hand.
LEMMA OperatorCases ==
  ASSUME Operator
  PROVE  \/ /\ UNCHANGED <<world, span, base, items, events, pass, history, crashes>>
            /\ \E chosen : hand' = [v \in Items |-> IF v \in chosen THEN items[v]
                                                   ELSE Absent]
         \/ ResetBaseline
         \/ \E v \in Items : WriteAccepted(v)
BY DEF Operator, AcceptPending, AcceptChange, ReadPending

\* An accept that writes makes its copy the row, in the baseline.
LEMMA Written ==
  ASSUME TInv, NEW v \in Items, WriteAccepted(v)
  PROVE  /\ items' \in [Items -> ItemRow \cup {Absent}]
         /\ hand' \in [Items -> ItemRow \cup {Absent}]
         /\ \A w \in Items \ {v} : items'[w] = items[w]
         /\ hand[v] # Absent /\ items'[v] # Absent /\ items'[v].in = TRUE
         /\ items'[v].present = hand[v].present /\ items'[v].age = hand[v].age
<1>1. /\ items \in [Items -> ItemRow \cup {Absent}]
      /\ hand \in [Items -> ItemRow \cup {Absent}]
  BY DEF TInv, TypeOK
<1>2. hand[v] # Absent /\ hand[v] \in ItemRow
  BY <1>1 DEF WriteAccepted
<1>3. \A row \in ItemRow :
        /\ [row EXCEPT !.in = TRUE] \in ItemRow
        /\ [row EXCEPT !.in = TRUE].in = TRUE
        /\ [row EXCEPT !.in = TRUE].present = row.present
        /\ [row EXCEPT !.in = TRUE].age = row.age
  BY DEF ItemRow
<1> DEFINE new == [hand[v] EXCEPT !.in = TRUE]
<1>4. items' = [items EXCEPT ![v] = new]
  BY DEF WriteAccepted, Save
<1>5. /\ new \in ItemRow /\ new.in = TRUE
      /\ new.present = hand[v].present /\ new.age = hand[v].age
  BY <1>2, <1>3
<1>6. new # Absent
  BY <1>5, ItemAssumption
<1> HIDE DEF new
<1>7. items'[v] = new /\ \A w \in Items \ {v} : items'[w] = items[w]
  BY <1>1, <1>4
<1>8. items' \in [Items -> ItemRow \cup {Absent}]
  BY <1>1, <1>4, <1>5
<1>9. hand' \in [Items -> ItemRow \cup {Absent}]
  BY <1>1 DEF WriteAccepted
<1> QED BY <1>2, <1>5, <1>6, <1>7, <1>8, <1>9

\* Every operation of the operator writes rows.
LEMMA OperatorTypes ==
  ASSUME TInv, Operator
  PROVE  TInv'
<1>1. items \in [Items -> ItemRow \cup {Absent}]
  BY DEF TInv, TypeOK
<1>2. ASSUME UNCHANGED <<world, span, base, items, events, pass, history, crashes>>,
             NEW chosen,
             hand' = [v \in Items |-> IF v \in chosen THEN items[v] ELSE Absent]
      PROVE  TInv'
  <2>1. hand' \in [Items -> ItemRow \cup {Absent}]
    BY <1>1, <1>2
  <2> QED BY <1>2, <2>1 DEF world, history, TInv, TypeOK, HasBase
<1>3. CASE ResetBaseline
  <2>1. items' \in [Items -> ItemRow \cup {Absent}]
    BY <1>3 DEF ResetBaseline, NoRows
  <2> QED BY <1>3, <2>1 DEF ResetBaseline, Interfere, world, TInv, TypeOK, HasBase
<1>4. ASSUME NEW v \in Items, WriteAccepted(v) PROVE TInv'
  <2>1. /\ items' \in [Items -> ItemRow \cup {Absent}]
        /\ hand' \in [Items -> ItemRow \cup {Absent}]
    BY <1>4, Written
  <2> QED BY <1>4, <2>1 DEF WriteAccepted, Interfere, world, TInv, TypeOK, HasBase
<1> QED BY <1>2, <1>3, <1>4, OperatorCases

LEMMA DeviceTypes ==
  ASSUME TInv, Device
  PROVE  TInv'
<1>1. CASE ComeOrGo
  BY <1>1 DEF ComeOrGo, history, TInv, TypeOK, HasBase
<1>2. ASSUME NEW v \in Items, Offer(v) PROVE TInv'
  BY <1>2 DEF Offer, history, TInv, TypeOK, HasBase
<1>3. ASSUME NEW open \in SUBSET Ports, Inspect(open) PROVE TInv'
  BY <1>3, Bounds DEF Inspect, Inspection, history, TInv, TypeOK, HasBase
<1> QED BY <1>1, <1>2, <1>3 DEF Device

LEMMA Ageing ==
  ASSUME NEW v \in Items, NEW age \in Ages
  PROVE  Min2(age + 1, OldestOf(v)) \in Ages
BY AgeAssumption DEF OldestOf, Min2, Ages

LEMMA TickTypes ==
  ASSUME TInv, Tick
  PROVE  TInv'
<1>0. base # Absent => base \in BaseRow /\ OlderBase \in Ages
  BY AgeAssumption DEF TInv, TypeOK, BaseRow, OlderBase, Min2, Ages
<1>1. base' \in BaseRow \cup {Absent}
  BY <1>0 DEF Tick, BaseRow
<1>2. span' \in Ages
  BY <1>0 DEF Tick, TInv, TypeOK
<1>3. items' \in [Items -> ItemRow \cup {Absent}]
  <2>1. ASSUME NEW v \in Items, items[v] # Absent
        PROVE  [items[v] EXCEPT !.age = Min2(items[v].age + 1, OldestOf(v))] \in ItemRow
    <3>1. items[v] \in ItemRow \cup {Absent}
      BY DEF TInv, TypeOK
    <3> QED BY <2>1, <3>1, Ageing, RowTypes
  <2> QED BY <2>1 DEF Tick
<1>4. missing' \in [Services -> Ages]
  BY Bounds DEF Tick, TInv, TypeOK
<1> QED BY <1>1, <1>2, <1>3, <1>4 DEF Tick, world, TInv, TypeOK, HasBase

LEMMA PassTypes ==
  ASSUME TInv, PassStep
  PROVE  TInv'
<1>1. pass \in Passes
  BY DEF TInv, TypeOK
<1>2. CASE Begin
  <2>1. pass' \in Passes /\ pass'.pc = "items"
    BY <1>1, <1>2 DEF Begin, TInv, TypeOK, Passes, Inspection, Items
  <2> QED BY <1>2, <2>1 DEF Begin, world, history, TInv, TypeOK, HasBase
<1>3. CASE ReadItems
  <2>1. pass' \in Passes /\ (pass'.pc = "learn" => pass'.base # Absent)
        /\ pass'.pc # "judge"
    BY <1>1, <1>3 DEF ReadItems, TInv, TypeOK, Passes
  <2> QED BY <1>3, <2>1 DEF ReadItems, world, history, TInv, TypeOK, HasBase
<1>4. CASE SeedBase
  <2>1. pass' \in Passes /\ pass'.pc = "seeding"
    BY <1>1, <1>4 DEF SeedBase, Passes
  <2>2. base' \in BaseRow /\ span' \in Ages
    BY <1>1, <1>4, Bounds DEF SeedBase, NewBaseline, BaseRow, Passes
  <2> QED BY <1>4, <2>1, <2>2 DEF SeedBase, world, history, TInv, TypeOK, HasBase
<1>5. CASE EndSeeding
  BY <1>5, IdleType DEF EndSeeding, Idle, world, history, TInv, TypeOK, HasBase
<1>6. CASE Learn
  <2>1. pass.base \in BaseRow
    BY <1>1, <1>6 DEF Learn, TInv, HasBase, Passes
  <2>2. PortsFresh(pass) \in BOOLEAN
    BY <1>1 DEF PortsFresh
  <2>3. Judged(pass) \subseteq Items
    BY DEF Judged, Items
  <2>4. PICK b \in BOOLEAN, i \in 0..MaxInspections, l \in BOOLEAN, c \in BOOLEAN :
          pass' = [pass EXCEPT !.learning = l, !.base.settled = b,
                               !.base.inspected = i, !.changed = c,
                               !.todo = Judged(pass), !.pc = "judge"]
    <3> DEFINE learning == ~pass.base.settled
               over == pass.base.age >= LearningDays /\ span >= LeastSpan
               i == IF PortsFresh(pass) THEN pass.inspected ELSE pass.base.inspected
    <3>1. /\ learning \in BOOLEAN
          /\ (pass.base.settled \/ over) \in BOOLEAN
          /\ ((learning /\ over) \/ PortsFresh(pass)) \in BOOLEAN
      BY <2>1, <2>2 DEF BaseRow
    <3>2. i \in 0..MaxInspections
      BY <1>1, <2>1 DEF Passes, BaseRow
    <3>3. pass' = [pass EXCEPT !.learning = learning,
                               !.base.settled = pass.base.settled \/ over,
                               !.base.inspected = i,
                               !.changed = (learning /\ over) \/ PortsFresh(pass),
                               !.todo = Judged(pass), !.pc = "judge"]
      BY <1>6 DEF Learn
    <3> HIDE DEF learning, over, i
    <3> QED
      BY <3>1, <3>2, <3>3
  <2>5. pass' \in Passes /\ pass'.base \in BaseRow
    <3>1. [pass.base EXCEPT !.settled = b, !.inspected = i] \in BaseRow
      BY <2>1, <2>4 DEF BaseRow
    <3>2. pass' = [pass EXCEPT !.learning = l, !.changed = c,
                     !.base = [pass.base EXCEPT !.settled = b, !.inspected = i],
                     !.todo = Judged(pass), !.pc = "judge"]
      BY <2>4
    <3> QED
      BY <1>1, <2>3, <3>1, <3>2 DEF Passes
  <2>6. pass'.base # Absent
    BY <2>5, ItemAssumption
  <2> QED BY <1>6, <2>5, <2>6 DEF Learn, world, history, TInv, TypeOK, HasBase
<1>7. CASE Finish
  BY <1>1, <1>7, IdleType DEF Finish, Passes, Idle, world, history, TInv, TypeOK, HasBase
<1>8. ASSUME NEW v \in Items, SeedItem(v) PROVE TInv'
  <2>1. [in |-> TRUE, present |-> TRUE, age |-> 0] \in ItemRow
    BY Bounds DEF ItemRow
  <2>2. items' \in [Items -> ItemRow \cup {Absent}]
    BY <1>8, <2>1 DEF SeedItem, TInv, TypeOK
  <2>3. pass' \in Passes /\ pass'.pc = "seeding"
    BY <1>1, <1>8 DEF SeedItem, Passes
  <2>4. missing' \in [Services -> Ages]
    BY <1>8, Bounds DEF SeedItem, TInv, TypeOK
  <2>5. approved' \subseteq Admin
    BY <1>8 DEF SeedItem, TInv, TypeOK
  <2> QED BY <1>8, <2>2, <2>3, <2>4, <2>5 DEF SeedItem, world, TInv, TypeOK, HasBase
<1>9. ASSUME NEW v \in Items, Judge(v) PROVE TInv'
  <2>1. items' \in [Items -> ItemRow \cup {Absent}] /\ pass' \in Passes
    BY <1>9, JudgeTypes
  <2>2. pass'.base = pass.base /\ pass'.pc = "judge"
    BY <1>1, <1>9 DEF Judge, JudgeNew, JudgeReturned, JudgeSame, JudgeMissing, Passes
  <2>3. missing' \in [Services -> Ages]
    BY <1>9, Bounds DEF Judge, TInv, TypeOK
  <2> QED BY <1>9, <2>1, <2>2, <2>3 DEF Judge, world, TInv, TypeOK, HasBase
<1>10. ASSUME NEW v \in Items, Tell(v) PROVE TInv'
  <2>1. pass' \in Passes /\ pass'.base = pass.base /\ pass'.pc = pass.pc
    BY <1>1, <1>10 DEF Tell, Passes
  <2> QED BY <1>10, <2>1 DEF Tell, world, TInv, TypeOK, HasBase
<1> QED BY <1>2, <1>3, <1>4, <1>5, <1>6, <1>7, <1>8, <1>9, <1>10 DEF PassStep

LEMMA TypeStep ==
  ASSUME TInv, [Next]_vars
  PROVE  TInv'
<1>1. CASE EndEarly
  BY <1>1, IdleType, Bounds DEF EndEarly, Idle, world, history, TInv, TypeOK, HasBase
<1>2. CASE UNCHANGED vars
  BY <1>2 DEF vars, world, history, TInv, TypeOK, HasBase
<1> QED
  BY <1>1, <1>2, PassTypes, OperatorTypes, DeviceTypes, TickTypes DEF Next

LEMMA TypeInit ==
  ASSUME Init
  PROVE  TInv
<1>1. pass \in Passes /\ HasBase
  BY IdleType DEF Init, Idle, HasBase
<1>2. inspection \in Inspection
  BY Bounds DEF Init, Inspection
<1>3. items \in [Items -> ItemRow \cup {Absent}] /\ missing \in [Services -> Ages]
  BY Bounds DEF Init, NoRows
<1>4. crashes \in 0..MaxCrashes /\ span \in Ages
  BY Bounds DEF Init
<1>5. hand \in [Items -> ItemRow \cup {Absent}]
  BY DEF Init, NoRows
<1> QED BY <1>1, <1>2, <1>3, <1>4, <1>5 DEF Init, TInv, TypeOK

\* All variables keep their types, and a pass that judges has a baseline.
THEOREM TypeCorrect == Spec => []TypeOK
<1>1. Spec => []TInv
  BY TypeInit, TypeStep, PTL DEF Spec
<1>2. TInv => TypeOK
  BY DEF TInv
<1> QED BY <1>1, <1>2, PTL

-----------------------------------------------------------------------------
(* What a judgement writes *)

LEMMA Judgement ==
  ASSUME TInv, NEW v \in Items, Judge(v)
  PROVE  /\ pass.pc = "judge" /\ v \in pass.todo
         /\ pass'.items = pass.items /\ pass'.pc = "judge"
         /\ pass'.todo = pass.todo \ {v}
         /\ \A w \in Items \ {v} : items'[w] = items[w]
         /\ \/ items'[v] = items[v]
            \/ /\ pass.items[v] = Absent
               /\ items'[v] \in ItemRow
               /\ items'[v].in => v \notin Admin
            \/ /\ pass.items[v] # Absent
               /\ items'[v] \in ItemRow
               /\ items'[v].in = pass.items[v].in
<1> DEFINE row == pass.items[v]
<1>1. /\ pass \in Passes /\ row \in ItemRow \cup {Absent}
      /\ items \in [Items -> ItemRow \cup {Absent}]
  BY DEF TInv, TypeOK, Passes
<1>2. /\ pass.pc = "judge" /\ v \in pass.todo
      /\ pass'.items = pass.items /\ pass'.pc = "judge"
      /\ pass'.todo = pass.todo \ {v}
  BY <1>1 DEF Judge, JudgeNew, JudgeReturned, JudgeSame, JudgeMissing, Passes
<1>3. \A w \in Items \ {v} : items'[w] = items[w]
  BY <1>1 DEF Judge, JudgeNew, JudgeReturned, JudgeSame, JudgeMissing, Save
<1>4. CASE JudgeNew(v)
  <2>1. PICK b \in BOOLEAN : /\ b => v \notin Admin
                             /\ items'[v] = [in |-> b, present |-> TRUE, age |-> 0]
    BY <1>1, <1>4 DEF JudgeNew, Save, Passes
  <2> QED BY <1>2, <1>3, <1>4, <2>1, Bounds DEF JudgeNew, ItemRow
<1>5. CASE JudgeReturned(v)
  <2>1. row # Absent /\ items'[v] = [row EXCEPT !.present = TRUE, !.age = 0]
    BY <1>1, <1>5 DEF JudgeReturned, Save
  <2> QED BY <1>1, <1>2, <1>3, <2>1, Bounds DEF ItemRow
<1>6. CASE JudgeSame(v)
  <2>1. row # Absent
        /\ (items'[v] = items[v] \/ items'[v] = [row EXCEPT !.age = 0])
    BY <1>1, <1>6 DEF JudgeSame, Save
  <2> QED BY <1>1, <1>2, <1>3, <2>1, Bounds DEF ItemRow
<1>7. CASE JudgeMissing(v)
  <2>1. \/ items'[v] = items[v]
        \/ row # Absent /\ items'[v] = [row EXCEPT !.present = FALSE]
    BY <1>1, <1>7 DEF JudgeMissing, IsRemoved, Save
  <2> QED BY <1>1, <1>2, <1>3, <2>1, Bounds DEF ItemRow
<1> QED BY <1>4, <1>5, <1>6, <1>7 DEF Judge

-----------------------------------------------------------------------------
(* What all other steps do *)

Copied == pass.pc \in {"seed", "learn", "judge"}

\* Rows are only taken back by a reset, and get into the baseline by being
\* accepted, some of them when a reset has removed them.
RowsSame(v) ==
  /\ items'[v] # Absent =>
       \/ items[v] # Absent /\ items'[v].in = items[v].in
       \/ items'[v].in /\ v \in accepted' /\ (v \in Admin => v \in approved')
  /\ v \in accepted' =>
       \/ items'[v] # Absent /\ items'[v].in
       \/ v \in accepted /\ (items[v] # Absent => items'[v] # Absent)

\* The copies stay, are made anew or are given up.
CopiesSame ==
  /\ \/ pass'.items = pass.items
     \/ pass'.items = items /\ items' = items /\ accepted' = accepted
     \/ \A v \in Items : pass'.items[v] = Absent
  /\ Copied' =>
       \/ pass'.items = items /\ items' = items /\ accepted' = accepted
       \/ /\ Copied /\ pass'.items = pass.items
          /\ pass.pc = "judge" => pass'.pc = "judge" /\ pass'.todo = pass.todo
          /\ disturbed' \/ accepted' = accepted

Others ==
  /\ \A v \in Items : RowsSame(v)
  /\ CopiesSame
  /\ approved \subseteq approved'
  /\ disturbed => disturbed'

LEMMA QuietSteps ==
  ASSUME TInv, UNCHANGED <<items, accepted, approved, disturbed>>,
         CopiesSame
  PROVE  Others
BY DEF Others, RowsSame

LEMMA OperatorRows ==
  ASSUME TInv, Operator
  PROVE  Others
<1>1. pass \in Passes /\ disturbed \in BOOLEAN
  BY DEF TInv, TypeOK
<1>2. CASE UNCHANGED <<world, span, base, items, events, pass, history, crashes>>
  BY <1>2, QuietSteps DEF history, CopiesSame, Copied
<1>3. ASSUME ResetBaseline \/ \E v \in Items : WriteAccepted(v)
      PROVE  Others
  <2>1. /\ pass' = pass /\ approved \subseteq approved'
        /\ disturbed => disturbed'
        /\ disturbed' \/ ~Copied
    BY <1>1, <1>3 DEF WriteAccepted, ResetBaseline, Interfere, Copied
  <2>2. CopiesSame
    <3>1. pass'.items = pass.items /\ pass'.pc = pass.pc /\ pass'.todo = pass.todo
          /\ (Copied' <=> Copied)
      BY <2>1 DEF Copied
    <3>2. Copied => (disturbed' \/ accepted' = accepted)
      BY <2>1, Zenon
    <3> QED BY <3>1, <3>2, Zenon DEF CopiesSame
  <2>3. ASSUME NEW w \in Items PROVE RowsSame(w)
    <3>1. CASE ResetBaseline
      BY <3>1 DEF ResetBaseline, NoRows, RowsSame
    <3>2. ASSUME NEW v \in Items, WriteAccepted(v) PROVE RowsSame(w)
      <4>1. /\ items'[v] # Absent /\ items'[v].in = TRUE
            /\ \A u \in Items \ {v} : items'[u] = items[u]
        BY <3>2, Written
      <4>2. /\ accepted' = accepted \cup {v}
            /\ v \in Admin => v \in approved'
        BY <3>2 DEF WriteAccepted
      <4>3. CASE w = v
        BY <4>1, <4>2, <4>3 DEF RowsSame
      <4>4. CASE w # v
        BY <4>1, <4>2, <4>4 DEF RowsSame
      <4> QED BY <4>3, <4>4
    <3> QED BY <1>3, <3>1, <3>2
  <2> QED BY <2>1, <2>2, <2>3 DEF Others
<1> QED BY <1>2, <1>3, OperatorCases

LEMMA TickRows ==
  ASSUME TInv, Tick
  PROVE  Others
<1>1. items \in [Items -> ItemRow \cup {Absent}]
  BY DEF TInv, TypeOK
<1>2. \A v \in Items : /\ items'[v] = Absent <=> items[v] = Absent
                       /\ items[v] # Absent => items'[v].in = items[v].in
  <2> SUFFICES ASSUME NEW v \in Items
               PROVE  /\ items'[v] = Absent <=> items[v] = Absent
                      /\ items[v] # Absent => items'[v].in = items[v].in
    OBVIOUS
  <2>1. CASE items[v] = Absent
    BY <2>1 DEF Tick
  <2>2. CASE items[v] # Absent
    <3> DEFINE older == Min2(items[v].age + 1, OldestOf(v))
    <3>0. older \in Ages
      BY <1>1, <2>2, Ageing DEF ItemRow
    <3>1. items'[v] = [items[v] EXCEPT !.age = older]
          /\ items[v] \in ItemRow
      BY <1>1, <2>2 DEF Tick
    <3>2. items'[v] \in ItemRow
      <4> HIDE DEF older
      <4> QED BY <3>0, <3>1 DEF ItemRow
    <3>3. items'[v].in = items[v].in
      <4> HIDE DEF older
      <4> QED BY <3>1 DEF ItemRow
    <3> QED BY <2>2, <3>2, <3>3, ItemAssumption
  <2> QED BY <2>1, <2>2
<1>3. \A v \in Items : RowsSame(v)
  BY <1>2 DEF Tick, RowsSame
<1>4. CopiesSame
  BY DEF Tick, CopiesSame, Copied
<1> QED BY <1>3, <1>4 DEF Others, Tick

LEMMA PassRows ==
  ASSUME TInv, PassStep, \A v \in Items : ~Judge(v) /\ ~SeedItem(v)
  PROVE  Others
<1>1. pass \in Passes
  BY DEF TInv, TypeOK
<1>2. UNCHANGED <<items, accepted, approved, disturbed>>
  BY DEF PassStep, Begin, ReadItems, SeedBase, EndSeeding, Learn, Finish, Tell, history
<1>3. CASE Begin
  BY <1>1, <1>2, <1>3, QuietSteps DEF Begin, Passes, CopiesSame, Copied
<1>4. CASE ReadItems
  <2>1. pass'.items = items
    BY <1>1, <1>4 DEF ReadItems, Passes
  <2> QED BY <1>2, <2>1, QuietSteps DEF CopiesSame
<1>5. CASE SeedBase
  BY <1>1, <1>2, <1>5, QuietSteps DEF SeedBase, Passes, CopiesSame, Copied
<1>6. CASE EndSeeding \/ Finish
  BY <1>2, <1>6, QuietSteps DEF EndSeeding, Finish, Idle, NoRows, CopiesSame, Copied
<1>7. CASE Learn
  BY <1>1, <1>2, <1>7, QuietSteps DEF Learn, Passes, CopiesSame, Copied
<1>8. CASE \E v \in Items : Tell(v)
  BY <1>1, <1>2, <1>8, QuietSteps DEF Tell, Passes, CopiesSame, Copied
<1> QED BY <1>3, <1>4, <1>5, <1>6, <1>7, <1>8 DEF PassStep

LEMMA OtherSteps ==
  ASSUME TInv, [Next]_vars, \A v \in Items : ~Judge(v) /\ ~SeedItem(v)
  PROVE  Others
<1>1. CASE Device
  BY <1>1, QuietSteps
  DEF Device, ComeOrGo, Offer, Inspect, history, CopiesSame, Copied
<1>2. CASE EndEarly
  BY <1>2, QuietSteps DEF EndEarly, Idle, NoRows, history, CopiesSame, Copied
<1>3. CASE UNCHANGED vars
  BY <1>3, QuietSteps DEF vars, history, CopiesSame, Copied
<1> QED
  BY <1>1, <1>2, <1>3, PassRows, OperatorRows, TickRows DEF Next

-----------------------------------------------------------------------------
(* What is approved *)

LEMMA Seeding ==
  ASSUME TInv, NEW v \in Items, SeedItem(v)
  PROVE  /\ pass'.pc = "seeding" /\ pass.pc = "seeding" /\ pass'.items = pass.items
         /\ \A w \in Items \ {v} : items'[w] = items[w]
         /\ items'[v] # Absent /\ items'[v].in = TRUE
         /\ approved' = approved \cup ({v} \cap Admin)
         /\ UNCHANGED <<accepted, disturbed>>
<1>1. [in |-> TRUE, present |-> TRUE, age |-> 0] \in ItemRow
  BY Bounds DEF ItemRow
<1>2. pass \in Passes /\ items \in [Items -> ItemRow \cup {Absent}]
  BY DEF TInv, TypeOK
<1> QED BY <1>1, <1>2, ItemAssumption DEF SeedItem, Passes

LEMMA ApprovedStep ==
  ASSUME AInv, [Next]_vars
  PROVE  AInv'
<1>1. TInv /\ TInv'
  BY TypeStep DEF AInv
<1>2. Admin \subseteq Items
  BY ItemAssumption
<1>3. ASSUME NEW v \in Items, Judge(v) PROVE AInv'
  <2>1. approved' = approved
    BY <1>3 DEF Judge
  <2>2. CopiesAreApproved'
    BY <1>1, <1>3, <2>1, Judgement DEF AInv, CopiesAreApproved
  <2>3. AdminIsApproved'
    BY <1>1, <1>2, <1>3, <2>1, Judgement
    DEF AInv, CopiesAreApproved, AdminIsApproved
  <2> QED BY <1>1, <2>2, <2>3 DEF AInv
<1>4. ASSUME NEW v \in Items, SeedItem(v) PROVE AInv'
  BY <1>1, <1>2, <1>4, Seeding DEF AInv, CopiesAreApproved, AdminIsApproved
<1>5. ASSUME \A v \in Items : ~Judge(v) /\ ~SeedItem(v) PROVE AInv'
  <2>1. Others
    BY <1>1, <1>5, OtherSteps
  <2>2. AdminIsApproved'
    BY <1>2, <2>1 DEF Others, RowsSame, AInv, AdminIsApproved
  <2>3. CopiesAreApproved'
    BY <1>2, <2>1 DEF Others, CopiesSame, AInv, AdminIsApproved, CopiesAreApproved
  <2> QED BY <1>1, <2>2, <2>3 DEF AInv
<1> QED BY <1>3, <1>4, <1>5

\* Remote administration never becomes normal by learning, whatever stale
\* copies are written back, in any order of passes, crashes and resets.
THEOREM AdminApproved == Spec => []AdminIsApproved
<1>1. ASSUME Init PROVE AInv
  <2>1. \A v \in Admin : v \in Items
    BY ItemAssumption
  <2>2. \A v \in Items : items[v] = Absent /\ pass.items[v] = Absent
    BY <1>1 DEF Init, Idle, NoRows
  <2> QED BY <1>1, <2>1, <2>2, TypeInit
          DEF AInv, AdminIsApproved, CopiesAreApproved
<1>2. Spec => []AInv
  BY <1>1, ApprovedStep, PTL DEF Spec
<1>3. AInv => AdminIsApproved
  BY DEF AInv
<1> QED BY <1>2, <1>3, PTL

-----------------------------------------------------------------------------
(* What is accepted *)

LEMMA ExpectedStep ==
  ASSUME EInv, [Next]_vars
  PROVE  EInv'
<1>1. TInv /\ TInv' /\ accepted \subseteq Items /\ accepted' \subseteq Items
  BY TypeStep DEF EInv, TInv, TypeOK
<1>2. ASSUME NEW v \in Items, Judge(v) PROVE EInv'
  <2>1. accepted' = accepted /\ disturbed' = disturbed
    BY <1>2 DEF Judge
  <2>2. CopiesAreExpected'
    BY <1>1, <1>2, <2>1, Judgement DEF EInv, CopiesAreExpected
  <2>3. AcceptedIsExpected'
    BY <1>1, <1>2, <2>1, Judgement, ItemAssumption
    DEF EInv, CopiesAreExpected, AcceptedIsExpected
  <2> QED BY <1>1, <2>2, <2>3 DEF EInv
<1>3. ASSUME NEW v \in Items, SeedItem(v) PROVE EInv'
  BY <1>1, <1>3, Seeding DEF EInv, CopiesAreExpected, AcceptedIsExpected
<1>4. ASSUME \A v \in Items : ~Judge(v) /\ ~SeedItem(v) PROVE EInv'
  <2>1. Others
    BY <1>1, <1>4, OtherSteps
  <2>2. AcceptedIsExpected'
    <3> SUFFICES ASSUME ~disturbed', NEW v \in accepted'
                 PROVE  items'[v] # Absent /\ items'[v].in
      BY DEF AcceptedIsExpected
    <3>1. RowsSame(v) /\ ~disturbed
      BY <1>1, <2>1 DEF Others
    <3>2. v \in accepted => items[v] # Absent /\ items[v].in
      BY <3>1 DEF EInv, AcceptedIsExpected
    <3> QED BY <3>1, <3>2 DEF RowsSame
  <2>3. CopiesAreExpected'
    <3> SUFFICES ASSUME ~disturbed', Copied', NEW v \in accepted'
                 PROVE  pass'.items[v] # Absent /\ pass'.items[v].in
      BY DEF CopiesAreExpected, Copied
    <3>1. ~disturbed
      BY <2>1 DEF Others
    <3>2. CASE pass'.items = items /\ accepted' = accepted
      BY <3>1, <3>2 DEF EInv, AcceptedIsExpected
    <3>3. CASE Copied /\ pass'.items = pass.items /\ accepted' = accepted
      BY <3>1, <3>3 DEF EInv, CopiesAreExpected, Copied
    <3> QED BY <2>1, <3>2, <3>3 DEF Others, CopiesSame
  <2> QED BY <1>1, <2>2, <2>3 DEF EInv
<1> QED BY <1>2, <1>3, <1>4

\* What was accepted between two passes stays in the baseline until it is
\* reset, whether it leaves and returns, is seeded or a pass ends early.
THEOREM AcceptedStays == Spec => []AcceptedIsExpected
<1>1. Init => EInv
  BY TypeInit DEF Init, EInv, AcceptedIsExpected, CopiesAreExpected
<1>2. Spec => []EInv
  BY <1>1, ExpectedStep, PTL DEF Spec
<1>3. EInv => AcceptedIsExpected
  BY DEF EInv
<1> QED BY <1>2, <1>3, PTL

-----------------------------------------------------------------------------
(* What time does not do *)

LEMMA BehindStep ==
  ASSUME BInv, [Next]_vars
  PROVE  BInv'
<1>1. TInv /\ TInv'
  BY TypeStep DEF BInv
<1>2. ASSUME NEW v \in Items, Judge(v) PROVE BInv'
  BY <1>1, <1>2, Judgement DEF BInv, CopiesAreBehind, StillJudged, Pending
<1>3. ASSUME NEW v \in Items, SeedItem(v) PROVE BInv'
  BY <1>1, <1>3, Seeding DEF BInv, CopiesAreBehind, StillJudged
<1>4. ASSUME \A v \in Items : ~Judge(v) /\ ~SeedItem(v) PROVE BInv'
  <2>1. Others
    BY <1>1, <1>4, OtherSteps
  <2> SUFFICES ASSUME NEW v \in Items, StillJudged(v)', Pending(v)'
               PROVE  pass'.items[v] # Absent /\ ~pass'.items[v].in
    BY <1>1 DEF BInv, CopiesAreBehind
  <2>2. Copied' /\ RowsSame(v) /\ CopiesSame
    BY <2>1 DEF Others, Copied, StillJudged
  <2>3. CASE pass'.items = items /\ items' = items
    BY <2>3 DEF Pending
  <2>4. CASE /\ Copied /\ pass'.items = pass.items
             /\ pass.pc = "judge" => pass'.pc = "judge" /\ pass'.todo = pass.todo
    <3>1. Pending(v)
      BY <2>2 DEF RowsSame, Pending
    <3>2. StillJudged(v)
      BY <2>4 DEF StillJudged, Copied
    <3> QED BY <2>4, <3>1, <3>2 DEF BInv, CopiesAreBehind
  <2> QED BY <2>2, <2>3, <2>4 DEF CopiesSame
<1> QED BY <1>2, <1>3, <1>4

\* No amount of time or passes takes a pending item into the baseline: only
\* the operator does, or a baseline that begins anew.
THEOREM TrustIsGiven == Spec => TimeNeverTrusts
<1>1. ASSUME Init PROVE BInv
  <2>1. pass.pc = "idle"
    BY <1>1 DEF Init, Idle
  <2> QED BY <1>1, <2>1, TypeInit DEF BInv, CopiesAreBehind, StillJudged
<1>2. ASSUME BInv, [Next]_vars, NEW v \in Items,
             Pending(v), items'[v] # Absent, items'[v].in
      PROVE  v \in accepted' \/ pass.pc = "seeding"
  <2>1. TInv
    BY <1>2 DEF BInv
  <2>2. ASSUME NEW w \in Items, Judge(w) PROVE FALSE
    BY <1>2, <2>1, <2>2, Judgement DEF BInv, CopiesAreBehind, StillJudged, Pending
  <2>3. ASSUME NEW w \in Items, SeedItem(w) PROVE pass.pc = "seeding"
    BY <2>3 DEF SeedItem
  <2>4. ASSUME \A w \in Items : ~Judge(w) /\ ~SeedItem(w) PROVE v \in accepted'
    BY <1>2, <2>1, <2>4, OtherSteps DEF Others, RowsSame, Pending
  <2> QED BY <2>2, <2>3, <2>4
<1>3. BInv /\ [Next]_vars =>
        [\A v \in Items :
           Pending(v) /\ items'[v] # Absent /\ items'[v].in =>
             v \in accepted' \/ pass.pc = "seeding"]_vars
  BY <1>2
<1>4. BInv /\ [Next]_vars => BInv'
  BY BehindStep
<1> QED BY <1>1, <1>3, <1>4, PTL DEF Spec, TimeNeverTrusts

-----------------------------------------------------------------------------
(* What is told *)

Undisturbed == crashes = 0 /\ ~disturbed

\* What is still to be judged is in the table as it is in the copies.
CopiesAreExact ==
  Undisturbed =>
    \A v \in Items :
      \/ pass.pc \in {"seed", "learn"}
      \/ pass.pc = "judge" /\ v \in pass.todo
      => pass.items[v] = items[v]

TellsWhileJudging == pass.tell # Absent => pass.pc = "judge"

NInv == TInv /\ PendingWasTold /\ CopiesAreExact /\ TellsWhileJudging

\* Steps that touch neither the items nor what was told.
LEMMA QuietTells ==
  ASSUME NInv, TInv', UNCHANGED <<items, told>>,
         Undisturbed' => Undisturbed /\ pass'.tell = pass.tell,
         pass'.tell # Absent => pass'.pc = "judge",
         \/ pass'.pc \notin {"seed", "learn", "judge"}
         \/ pass'.items = items
         \/ /\ pass'.items = pass.items
            /\ \/ pass.pc \in {"seed", "learn"}
               \/ pass.pc = "judge" /\ pass'.pc = "judge" /\ pass'.todo = pass.todo
  PROVE  NInv'
<1>1. PendingWasTold'
  BY DEF NInv, PendingWasTold, Pending, Undisturbed
<1>2. CopiesAreExact'
  BY DEF NInv, CopiesAreExact
<1>3. TellsWhileJudging'
  BY DEF TellsWhileJudging
<1> QED BY <1>1, <1>2, <1>3 DEF NInv

LEMMA JudgeTells ==
  ASSUME NInv, TInv', NEW v \in Items, Judge(v)
  PROVE  NInv'
<1> DEFINE row == pass.items[v]
<1>0. /\ TInv /\ pass \in Passes
      /\ items \in [Items -> ItemRow \cup {Absent}]
      /\ row \in ItemRow \cup {Absent}
  BY DEF NInv, TInv, TypeOK, Passes
<1>1. /\ pass.pc = "judge" /\ v \in pass.todo /\ pass.tell = Absent
      /\ pass'.pc = "judge" /\ pass'.items = pass.items /\ pass'.todo = pass.todo \ {v}
      /\ \A w \in Items \ {v} : items'[w] = items[w]
      /\ UNCHANGED <<crashes, disturbed>>
  BY <1>0, Judgement DEF Judge
<1>2. CopiesAreExact'
  BY <1>1 DEF NInv, CopiesAreExact, Undisturbed
<1>3. TellsWhileJudging'
  BY <1>1 DEF TellsWhileJudging
<1>4. \A w \in Items \ {v} : w \in told => w \in told'
  BY DEF Judge
<1>5. Undisturbed => items[v] = row
  BY <1>1 DEF NInv, CopiesAreExact
<1>6. ASSUME Undisturbed
      PROVE  Pending(v)' /\ items'[v].present => v \in told' \/ pass'.tell = v
  <2>1. CASE JudgeNew(v)
    <3>1. PICK b \in BOOLEAN : /\ items'[v] = [in |-> b, present |-> TRUE, age |-> 0]
                               /\ pass' = [pass EXCEPT !.todo = pass.todo \ {v},
                                                       !.tell = IF b THEN Absent ELSE v]
      BY <1>0, <2>1 DEF JudgeNew, Save, Passes
    <3>2. ~b => pass'.tell = v
      BY <1>0, <3>1 DEF Passes
    <3> QED BY <3>1, <3>2 DEF Pending
  <2>2. CASE JudgeReturned(v)
    <3>1. /\ row # Absent /\ items'[v] = [row EXCEPT !.present = TRUE, !.age = 0]
          /\ pass' = [pass EXCEPT !.todo = pass.todo \ {v},
                                  !.tell = IF row.in THEN Absent ELSE v]
      BY <1>0, <2>2 DEF JudgeReturned, Save
    <3>2. items'[v].in = row.in
      BY <1>0, <3>1 DEF ItemRow
    <3>3. ~row.in => pass'.tell = v
      BY <1>0, <3>1 DEF Passes
    <3> QED BY <3>2, <3>3 DEF Pending
  <2>3. CASE JudgeSame(v)
    <3>1. /\ row # Absent /\ row.present /\ v \in pass.seen
          /\ items'[v] = items[v] \/ items'[v] = [row EXCEPT !.age = 0]
      BY <1>0, <2>3 DEF JudgeSame, Save
    <3>2. items'[v].in = row.in
      BY <1>0, <1>5, <1>6, <3>1 DEF ItemRow
    <3>3. Pending(v)' => Pending(v) /\ items[v].present
      BY <1>5, <1>6, <3>1, <3>2 DEF Pending
    <3>4. Pending(v)' => v \in told
      BY <1>1, <1>6, <3>3, ItemAssumption DEF NInv, PendingWasTold, Undisturbed
    <3>5. told' = told
      BY <3>1 DEF Judge, IsRemoved
    <3> QED BY <3>4, <3>5
  <2>4. CASE JudgeMissing(v)
    <3>1. CASE IsRemoved(v)
      <4>1. items'[v] = [row EXCEPT !.present = FALSE] /\ row # Absent
        BY <1>0, <2>4, <3>1 DEF JudgeMissing, IsRemoved, Save
      <4>2. items'[v].present = FALSE
        BY <1>0, <4>1 DEF ItemRow
      <4> QED BY <4>2
    <3>2. CASE ~IsRemoved(v)
      <4>1. items' = items /\ told' = told
        BY <2>4, <3>2 DEF JudgeMissing, Judge
      <4> QED
        BY <1>1, <1>6, <4>1, ItemAssumption DEF NInv, PendingWasTold, Pending, Undisturbed
    <3> QED BY <3>1, <3>2
  <2> QED BY <2>1, <2>2, <2>3, <2>4 DEF Judge
<1>7. PendingWasTold'
  <2> SUFFICES ASSUME Undisturbed, NEW w \in Items,
                      Pending(w)', items'[w].present, pass'.tell # w
               PROVE  w \in told'
    BY <1>1 DEF PendingWasTold, Undisturbed
  <2>1. CASE w = v
    BY <1>6, <2>1
  <2>2. CASE w # v
    <3>1. Pending(w) /\ items[w].present /\ pass.tell # w
      BY <1>1, <2>2, ItemAssumption DEF Pending
    <3>2. w \in told
      BY <3>1 DEF NInv, PendingWasTold, Undisturbed
    <3> QED BY <1>4, <2>2, <3>2
  <2> QED BY <2>1, <2>2
<1> QED BY <1>2, <1>3, <1>7 DEF NInv

\* The operator takes items out of the pending ones and adds none.
LEMMA OperatorTells ==
  ASSUME NInv, TInv', Operator
  PROVE  NInv'
<1>0. /\ items \in [Items -> ItemRow \cup {Absent}] /\ disturbed \in BOOLEAN
      /\ TInv
  BY DEF NInv, TInv, TypeOK
<1>1. CASE UNCHANGED <<world, span, base, items, events, pass, history, crashes>>
  BY <1>1 DEF history, NInv, PendingWasTold, CopiesAreExact, TellsWhileJudging,
              Undisturbed, Pending
<1>2. ASSUME ResetBaseline \/ \E v \in Items : WriteAccepted(v)
      PROVE  NInv'
  <2>1. pass' = pass /\ crashes' = crashes
    BY <1>2 DEF WriteAccepted, ResetBaseline
  <2>2. Undisturbed' => Undisturbed /\ pass.pc = "idle"
    BY <1>0, <1>2, <2>1 DEF WriteAccepted, ResetBaseline, Interfere, Undisturbed
  <2>3. CopiesAreExact' /\ TellsWhileJudging'
    BY <2>1, <2>2 DEF NInv, CopiesAreExact, TellsWhileJudging
  <2>4. ASSUME NEW w \in Items, Pending(w)'
        PROVE  items'[w] = items[w] /\ told' = told
    <3>1. ~ResetBaseline
      BY <2>4 DEF ResetBaseline, NoRows, Pending
    <3>2. PICK v \in Items : WriteAccepted(v)
      BY <1>2, <3>1
    <3>3. items'[v].in = TRUE /\ \A u \in Items \ {v} : items'[u] = items[u]
      BY <1>0, <3>2, Written
    <3>4. w # v
      BY <2>4, <3>3 DEF Pending
    <3> QED BY <3>2, <3>3, <3>4 DEF WriteAccepted
  <2>5. PendingWasTold'
    BY <2>1, <2>2, <2>4 DEF NInv, PendingWasTold, Undisturbed, Pending
  <2> QED BY <2>3, <2>5 DEF NInv
<1> QED BY <1>1, <1>2, OperatorCases

LEMMA TickTells ==
  ASSUME NInv, TInv', Tick
  PROVE  NInv'
<1>0. items \in [Items -> ItemRow \cup {Absent}]
  BY DEF NInv, TInv, TypeOK
<1>1. /\ pass.pc = "idle" /\ UNCHANGED <<pass, told, disturbed, crashes>>
  BY DEF Tick, AtRest
<1>2. ASSUME NEW v \in Items, Pending(v)', items'[v].present
      PROVE  Pending(v) /\ items[v].present
  <2>1. items[v] # Absent
    BY <1>2 DEF Tick, Pending
  <2> DEFINE older == Min2(items[v].age + 1, OldestOf(v))
  <2>2. items'[v] = [items[v] EXCEPT !.age = older] /\ items[v] \in ItemRow
    BY <1>0, <2>1 DEF Tick
  <2> HIDE DEF older
  <2>3. items'[v].in = items[v].in /\ items'[v].present = items[v].present
    BY <2>2 DEF ItemRow
  <2> QED BY <1>2, <2>1, <2>3 DEF Pending
<1>3. PendingWasTold'
  BY <1>1, <1>2 DEF NInv, PendingWasTold
<1>4. CopiesAreExact' /\ TellsWhileJudging'
  BY <1>1 DEF NInv, CopiesAreExact, TellsWhileJudging
<1> QED BY <1>3, <1>4 DEF NInv

LEMMA TellStep ==
  ASSUME NInv, [Next]_vars
  PROVE  NInv'
<1>0. /\ TInv' /\ pass \in Passes /\ crashes \in Nat
      /\ items \in [Items -> ItemRow \cup {Absent}]
  BY TypeStep, Bounds DEF NInv, TInv, TypeOK
<1>1. ASSUME NEW v \in Items, Judge(v) PROVE NInv'
  BY <1>0, <1>1, JudgeTells
<1>2. ASSUME NEW v \in Items, SeedItem(v) PROVE NInv'
  <2>1. /\ pass'.pc = "seeding" /\ pass'.tell = pass.tell
        /\ \A w \in Items \ {v} : items'[w] = items[w]
        /\ items'[v].in = TRUE /\ UNCHANGED <<told, disturbed, crashes>>
    BY <1>0, <1>2 DEF SeedItem, Passes
  <2>2. PendingWasTold'
    BY <2>1 DEF NInv, PendingWasTold, Pending
  <2>3. CopiesAreExact'
    BY <2>1 DEF CopiesAreExact
  <2>4. TellsWhileJudging'
    BY <1>2, <2>1 DEF NInv, TellsWhileJudging, SeedItem
  <2> QED BY <1>0, <2>2, <2>3, <2>4 DEF NInv
<1>3. ASSUME NEW v \in Items, Tell(v) PROVE NInv'
  <2>1. /\ pass.pc = "judge" /\ pass.tell = v
        /\ pass'.pc = "judge" /\ pass'.tell = Absent
        /\ pass'.items = pass.items /\ pass'.todo = pass.todo
        /\ told' = told \cup {v} /\ UNCHANGED <<items, disturbed, crashes>>
    BY <1>0, <1>3 DEF Tell, Passes
  <2>2. PendingWasTold'
    BY <2>1 DEF NInv, PendingWasTold, Pending
  <2>3. CopiesAreExact' /\ TellsWhileJudging'
    BY <2>1 DEF NInv, CopiesAreExact, TellsWhileJudging, Undisturbed
  <2> QED BY <1>0, <2>2, <2>3 DEF NInv
<1>4. CASE Begin
  BY <1>0, <1>4, QuietTells
  DEF Begin, Passes, history, Undisturbed, NInv, TellsWhileJudging
<1>5. CASE ReadItems
  BY <1>0, <1>5, QuietTells
  DEF ReadItems, Passes, history, Undisturbed, NInv, TellsWhileJudging
<1>6. CASE SeedBase
  BY <1>0, <1>6, QuietTells
  DEF SeedBase, Passes, history, Undisturbed, NInv, TellsWhileJudging
<1>7. CASE EndSeeding \/ Finish
  BY <1>0, <1>7, QuietTells
  DEF EndSeeding, Finish, Idle, history, Undisturbed, NInv, TellsWhileJudging
<1>8. CASE Learn
  <2>1. /\ pass.pc = "learn" /\ pass'.pc = "judge" /\ pass'.items = pass.items
        /\ pass'.tell = pass.tell
    BY <1>0, <1>8 DEF Learn, Passes
  <2>2. UNCHANGED <<items, told, disturbed, crashes>>
    BY <1>8 DEF Learn, history
  <2> QED BY <1>0, <2>1, <2>2, QuietTells DEF Undisturbed
<1>9. CASE EndEarly
  <2>1. ~Undisturbed'
    BY <1>0, <1>9 DEF EndEarly, Undisturbed
  <2> QED BY <1>0, <1>9, <2>1, QuietTells DEF EndEarly, Idle, history
<1>10. CASE Device
  BY <1>0, <1>10, QuietTells
  DEF Device, ComeOrGo, Offer, Inspect, history, Undisturbed, NInv, TellsWhileJudging
<1>11. CASE UNCHANGED vars
  BY <1>11 DEF vars, history, NInv, TInv, TypeOK, HasBase, world, PendingWasTold,
               CopiesAreExact, TellsWhileJudging, Undisturbed, Pending
<1> QED
  BY <1>0, <1>1, <1>2, <1>3, <1>4, <1>5, <1>6, <1>7, <1>8, <1>9, <1>10, <1>11,
     OperatorTells, TickTells DEF Next, PassStep

\* What is present and not normal has become a change event, or is about to,
\* as long as passes end and the operator acts between them.
THEOREM PendingTold == Spec => []PendingWasTold
<1>1. ASSUME Init PROVE NInv
  <2>1. /\ pass.pc = "idle" /\ pass.tell = Absent
        /\ \A v \in Items : items[v] = Absent
    BY <1>1 DEF Init, Idle, NoRows
  <2>2. PendingWasTold
    BY <2>1 DEF PendingWasTold, Pending
  <2>3. CopiesAreExact /\ TellsWhileJudging
    BY <2>1 DEF CopiesAreExact, TellsWhileJudging
  <2> QED BY <1>1, <2>2, <2>3, TypeInit DEF NInv
<1>2. Spec => []NInv
  BY <1>1, TellStep, PTL DEF Spec
<1>3. NInv => PendingWasTold
  BY DEF NInv
<1> QED BY <1>2, <1>3, PTL

-----------------------------------------------------------------------------
(* What is removed *)

\* last_seen lags behind the last pass that saw the service by less than the
\* time after which it is refreshed.
Dated(row, v) == row # Absent /\ row.present => row.age < missing[v] + RefreshAge

\* No time passes within a pass or an accept: a service that still has a row
\* has it as old as the copy, unless an accept made it an older one.
CopiesAreAsOld ==
  \A v \in Services \ overwritten :
    StillJudged(v) /\ items[v] # Absent =>
      /\ pass.items[v] # Absent
      /\ pass.items[v].present = items[v].present /\ pass.items[v].age = items[v].age

RowsAreDated == \A v \in Services \ overwritten : Dated(items[v], v)

CopiesAreDated ==
  \A v \in Services \ overwritten : StillJudged(v) => Dated(pass.items[v], v)

RInv == TInv /\ CopiesAreAsOld /\ RowsAreDated /\ CopiesAreDated

\* Steps that judge nothing, and leave the items alone.
LEMMA QuietDates ==
  ASSUME RInv, TInv', UNCHANGED <<items, missing, overwritten>>,
         \/ pass'.pc \notin {"seed", "learn", "judge"}
         \/ pass'.items = items
         \/ /\ pass'.items = pass.items
            /\ \/ pass.pc \in {"seed", "learn"}
               \/ pass.pc = "judge" /\ pass'.pc = "judge" /\ pass'.todo = pass.todo
  PROVE  RInv'
<1>1. CopiesAreAsOld'
  BY DEF RInv, CopiesAreAsOld, StillJudged
<1>2. RowsAreDated'
  BY DEF RInv, RowsAreDated, Dated
<1>3. CopiesAreDated'
  BY DEF RInv, RowsAreDated, CopiesAreDated, Dated, StillJudged
<1> QED BY <1>1, <1>2, <1>3 DEF RInv

LEMMA JudgeDates ==
  ASSUME RefreshAge > 0, RInv, TInv', NEW v \in Items, Judge(v)
  PROVE  RInv'
<1> DEFINE row == pass.items[v]
<1>0. /\ TInv /\ pass \in Passes
      /\ items \in [Items -> ItemRow \cup {Absent}]
      /\ row \in ItemRow \cup {Absent}
      /\ RefreshAge \in Nat
      /\ \A w \in Services : w \in Items
  BY AgeAssumption DEF RInv, TInv, TypeOK, Passes, Items
<1>1. /\ pass.pc = "judge" /\ v \in pass.todo
      /\ pass'.pc = "judge" /\ pass'.items = pass.items /\ pass'.todo = pass.todo \ {v}
      /\ \A w \in Items \ {v} : items'[w] = items[w]
  BY <1>0, Judgement
<1>2. \A w \in Services : missing'[w] = IF w = v /\ v \in pass.seen THEN 0
                                         ELSE missing[w]
  BY DEF Judge
<1>3. overwritten' = IF v \in pass.seen /\ FoundPresent(items'[v])
                     THEN overwritten \ {v} ELSE overwritten
  BY DEF Judge
<1>4. StillJudged(v) /\ ~StillJudged(v)'
  BY <1>1 DEF StillJudged
<1>5. ASSUME NEW w \in Items \ {v}, StillJudged(w)'
      PROVE  StillJudged(w)
  BY <1>1, <1>5 DEF StillJudged
<1>6. \A w \in Services \ overwritten' : w # v => w \notin overwritten
  BY <1>3
<1>7. CopiesAreAsOld'
  BY <1>0, <1>1, <1>4, <1>5, <1>6 DEF RInv, CopiesAreAsOld
<1>8. CopiesAreDated'
  BY <1>0, <1>1, <1>2, <1>4, <1>5, <1>6 DEF RInv, CopiesAreDated, Dated
<1>9. ASSUME v \in Services \ overwritten' PROVE Dated(items[v], v)'
  <2>0. /\ missing'[v] = IF v \in pass.seen THEN 0 ELSE missing[v]
        /\ v \in overwritten => v \in pass.seen /\ FoundPresent(items'[v])
    BY <1>2, <1>3, <1>9
  <2>1. CASE JudgeNew(v) \/ JudgeReturned(v)
    <3>1. items'[v].age = 0
      <4>1. CASE JudgeNew(v)
        BY <1>0, <4>1 DEF JudgeNew, Save
      <4>2. CASE JudgeReturned(v)
        BY <1>0, <4>2 DEF JudgeReturned, Save, ItemRow
      <4> QED BY <2>1, <4>1, <4>2
    <3>2. missing'[v] = 0
      BY <2>0, <2>1 DEF JudgeNew, JudgeReturned
    <3> QED BY <1>0, <3>1, <3>2 DEF Dated
  <2>2. CASE JudgeSame(v)
    <3>1. missing'[v] = 0 /\ row # Absent
      BY <2>0, <2>2 DEF JudgeSame
    <3>2. CASE row.age >= RefreshAge
      <4>1. items'[v].age = 0
        BY <1>0, <2>2, <3>1, <3>2 DEF JudgeSame, Save, ItemRow
      <4> QED BY <1>0, <3>1, <4>1 DEF Dated
    <3>3. CASE ~(row.age >= RefreshAge)
      <4>1. items'[v] = items[v]
        BY <2>2, <3>3 DEF JudgeSame
      <4>2. \/ items'[v] # Absent => items'[v].age = row.age
            \/ items'[v].age = 0
        BY <1>4, <1>9, <2>0, <4>1 DEF RInv, CopiesAreAsOld, FoundPresent
      <4>3. row.age < RefreshAge
        <5>1. row.age \in Ages
          BY <1>0, <3>1 DEF ItemRow
        <5>2. row.age \in Int
          BY <5>1, Bounds DEF Ages
        <5> HIDE DEF row
        <5> QED BY <1>0, <3>3, <5>2
      <4> QED BY <1>0, <3>1, <4>1, <4>2, <4>3 DEF Dated
    <3> QED BY <3>2, <3>3
  <2>3. CASE JudgeMissing(v)
    <3>1. missing'[v] = missing[v] /\ v \notin overwritten
      BY <2>0, <2>3 DEF JudgeMissing
    <3>2. CASE IsRemoved(v)
      <4>1. items'[v] = [row EXCEPT !.present = FALSE] /\ row # Absent
        BY <1>0, <2>3, <3>2 DEF JudgeMissing, IsRemoved, Save
      <4>2. items'[v].present = FALSE
        BY <1>0, <4>1 DEF ItemRow
      <4> QED BY <4>2 DEF Dated
    <3>3. CASE ~IsRemoved(v)
      <4>1. items' = items
        BY <2>3, <3>3 DEF JudgeMissing
      <4> QED BY <1>9, <3>1, <4>1 DEF RInv, RowsAreDated, Dated
    <3> QED BY <3>2, <3>3
  <2> QED BY <2>1, <2>2, <2>3 DEF Judge
<1>10. RowsAreDated'
  BY <1>0, <1>1, <1>2, <1>6, <1>9 DEF RInv, RowsAreDated, Dated
<1> QED BY <1>7, <1>8, <1>10 DEF RInv

\* An accept changes no service's age unless its copy is older.
LEMMA OperatorDates ==
  ASSUME RInv, TInv', Operator
  PROVE  RInv'
<1>0. TInv /\ \A w \in Services : w \in Items
  BY DEF RInv, Items
<1>1. CASE UNCHANGED <<world, span, base, items, events, pass, history, crashes>>
  BY <1>1 DEF history, RInv, CopiesAreAsOld, RowsAreDated, CopiesAreDated, Dated, StillJudged
<1>2. ASSUME ResetBaseline \/ \E v \in Items : WriteAccepted(v)
      PROVE  RInv'
  <2>1. pass' = pass /\ missing' = missing /\ overwritten \subseteq overwritten'
    BY <1>2 DEF WriteAccepted, ResetBaseline
  <2>2. ASSUME NEW w \in Services \ overwritten', items'[w] # Absent
        PROVE  /\ items[w] # Absent
               /\ items'[w].present = items[w].present /\ items'[w].age = items[w].age
    <3>1. ~ResetBaseline
      BY <1>0, <2>2 DEF ResetBaseline, NoRows
    <3>2. PICK v \in Items : WriteAccepted(v)
      BY <1>2, <3>1
    <3>3. /\ \A u \in Items \ {v} : items'[u] = items[u]
          /\ hand[v] # Absent
          /\ items'[v].present = hand[v].present /\ items'[v].age = hand[v].age
      BY <1>0, <3>2, Written
    <3>4. CASE w = v
      <4>1. items[v] = hand[v]
        BY <2>2, <3>2, <3>4 DEF WriteAccepted
      <4> QED BY <3>3, <3>4, <4>1
    <3>5. CASE w # v
      BY <1>0, <2>2, <3>3, <3>5
    <3> QED BY <3>4, <3>5
  <2>3. CopiesAreAsOld'
    BY <2>1, <2>2 DEF RInv, CopiesAreAsOld, StillJudged
  <2>4. RowsAreDated'
    BY <2>1, <2>2 DEF RInv, RowsAreDated, Dated
  <2>5. CopiesAreDated'
    BY <2>1 DEF RInv, CopiesAreDated, Dated, StillJudged
  <2> QED BY <2>3, <2>4, <2>5 DEF RInv
<1> QED BY <1>1, <1>2, OperatorCases

LEMMA TickDates ==
  ASSUME RefreshAge > 0, RInv, TInv', Tick
  PROVE  RInv'
<1>0. /\ items \in [Items -> ItemRow \cup {Absent}] /\ missing \in [Services -> Ages]
      /\ RefreshAge \in Nat /\ AgeCap \in Nat
  BY AgeAssumption DEF RInv, TInv, TypeOK
<1>1. pass.pc = "idle" /\ pass' = pass /\ overwritten' = overwritten
  BY DEF Tick, AtRest
<1>2. CopiesAreAsOld' /\ CopiesAreDated'
  BY <1>1 DEF CopiesAreAsOld, CopiesAreDated, StillJudged
<1>3. ASSUME NEW v \in Services \ overwritten
      PROVE  Dated(items[v], v)'
  <2> SUFFICES ASSUME items'[v] # Absent, items'[v].present
               PROVE  items'[v].age < missing'[v] + RefreshAge
    BY DEF Dated
  <2>0. v \in Items /\ OldestOf(v) = AgeCap
    BY ItemAssumption DEF Items, OldestOf
  <2> DEFINE older == Min2(items[v].age + 1, OldestOf(v))
  <2>1. items[v] # Absent /\ items[v] \in ItemRow
        /\ items'[v] = [items[v] EXCEPT !.age = older]
    BY <1>0, <2>0 DEF Tick
  <2>2. older = Older(items[v].age)
    BY <2>0 DEF Older
  <2> HIDE DEF older
  <2>3. /\ items'[v].age = older /\ items[v].present
        /\ items[v].age \in Ages /\ missing[v] \in Ages
        /\ missing'[v] = Older(missing[v])
    BY <1>0, <2>1 DEF ItemRow, Tick
  <2>4. items[v].age < missing[v] + RefreshAge
    BY <2>1, <2>3 DEF RInv, RowsAreDated, Dated
  <2>5. \A a, m \in Ages : a < m + RefreshAge => Older(a) < Older(m) + RefreshAge
    BY <1>0 DEF Older, Min2, Ages
  <2> QED BY <2>2, <2>3, <2>4, <2>5
<1>4. RowsAreDated'
  BY <1>1, <1>3 DEF RowsAreDated
<1> QED BY <1>2, <1>4 DEF RInv

LEMMA DateStep ==
  ASSUME RefreshAge > 0, RInv, [Next]_vars
  PROVE  RInv'
<1>0. TInv' /\ pass \in Passes /\ RefreshAge \in Nat
      /\ items \in [Items -> ItemRow \cup {Absent}]
  BY TypeStep, AgeAssumption DEF RInv, TInv, TypeOK
<1>1. ASSUME NEW v \in Items, Judge(v) PROVE RInv'
  BY <1>0, <1>1, JudgeDates
<1>2. ASSUME NEW v \in Items, SeedItem(v) PROVE RInv'
  <2>0. \A w \in Services : w \in Items
    BY DEF Items
  <2>1. /\ pass'.pc = "seeding"
        /\ \A w \in Items \ {v} : items'[w] = items[w]
        /\ items'[v].age = 0
    BY <1>0, <1>2 DEF SeedItem, Passes
  <2>2. /\ \A w \in Services : missing'[w] = IF w = v THEN 0 ELSE missing[w]
        /\ overwritten' = overwritten \ {v}
    BY <1>2 DEF SeedItem
  <2>3. CopiesAreAsOld' /\ CopiesAreDated'
    BY <2>1 DEF CopiesAreAsOld, CopiesAreDated, StillJudged
  <2>4. ASSUME NEW w \in Services \ overwritten' PROVE Dated(items[w], w)'
    <3>1. CASE w = v
      BY <1>0, <2>1, <2>2, <3>1 DEF Dated
    <3>2. CASE w # v
      BY <2>0, <2>1, <2>2, <2>4, <3>2 DEF RInv, RowsAreDated, Dated
    <3> QED BY <3>1, <3>2
  <2>5. RowsAreDated'
    BY <2>4 DEF RowsAreDated
  <2> QED BY <1>0, <2>3, <2>5 DEF RInv
<1>3. CASE Begin
  BY <1>0, <1>3, QuietDates DEF Begin, Passes, history
<1>4. CASE ReadItems
  BY <1>0, <1>4, QuietDates DEF ReadItems, Passes, history
<1>5. CASE SeedBase
  BY <1>0, <1>5, QuietDates DEF SeedBase, Passes, history
<1>6. CASE EndSeeding \/ Finish \/ EndEarly
  BY <1>0, <1>6, QuietDates DEF EndSeeding, Finish, EndEarly, Idle, NoRows, history
<1>7. CASE Learn
  <2>1. pass.pc = "learn" /\ pass'.items = pass.items
    BY <1>0, <1>7 DEF Learn, Passes
  <2>2. UNCHANGED <<items, missing, overwritten>>
    BY <1>7 DEF Learn, history
  <2> QED BY <1>0, <2>1, <2>2, QuietDates
<1>8. ASSUME NEW v \in Items, Tell(v) PROVE RInv'
  <2>1. pass.pc = "judge" /\ pass'.pc = "judge" /\ pass'.items = pass.items
        /\ pass'.todo = pass.todo
    BY <1>0, <1>8 DEF Tell, Passes
  <2>2. UNCHANGED <<items, missing, overwritten>>
    BY <1>8 DEF Tell
  <2> QED BY <1>0, <2>1, <2>2, QuietDates
<1>9. CASE Device
  <2>1. UNCHANGED <<items, missing, overwritten, pass>> /\ pass.pc = "idle"
    BY <1>9 DEF Device, ComeOrGo, Offer, Inspect, AtRest, history
  <2> QED BY <1>0, <2>1, QuietDates
<1>10. CASE UNCHANGED vars
  <2>1. UNCHANGED <<items, missing, overwritten, pass>>
    BY <1>10 DEF vars, history
  <2>2. CopiesAreAsOld' /\ RowsAreDated'
    BY <2>1 DEF RInv, CopiesAreAsOld, RowsAreDated, Dated, StillJudged
  <2>3. CopiesAreDated'
    BY <2>1 DEF RInv, CopiesAreDated, Dated, StillJudged
  <2> QED BY <1>0, <2>2, <2>3 DEF RInv
<1> QED
  BY <1>0, <1>1, <1>2, <1>3, <1>4, <1>5, <1>6, <1>7, <1>8, <1>9, <1>10,
     OperatorDates, TickDates DEF Next, PassStep

\* Only the judgement of a service that is missing marks it as gone, or an
\* accept that writes an older row.
LEMMA GoneByJudgement ==
  ASSUME TInv, [Next]_vars, NEW v \in Services,
         items[v] # Absent, items[v].present, items'[v] # Absent, ~items'[v].present,
         v \notin overwritten'
  PROVE  Judge(v) /\ IsRemoved(v) /\ pass.pc = "judge" /\ v \in pass.todo
<1>0. /\ pass \in Passes /\ items \in [Items -> ItemRow \cup {Absent}]
      /\ v \in Items
  BY DEF TInv, TypeOK, Items
<1>1. ASSUME NEW w \in Items, Judge(w)
      PROVE  Judge(v) /\ IsRemoved(v) /\ pass.pc = "judge" /\ v \in pass.todo
  <2>1. w = v
    BY <1>0, <1>1, Judgement
  <2>2. pass.pc = "judge" /\ v \in pass.todo
    BY <1>1, <2>1 DEF Judge
  <2>3. ~JudgeNew(v)
    BY <1>0 DEF JudgeNew, Save
  <2>4. ASSUME JudgeReturned(v) PROVE FALSE
    <3>1. items'[v] = [pass.items[v] EXCEPT !.present = TRUE, !.age = 0]
          /\ pass.items[v] \in ItemRow
      BY <1>0, <2>4 DEF JudgeReturned, Save, Passes
    <3> QED BY <3>1 DEF ItemRow
  <2>5. ASSUME JudgeSame(v) PROVE FALSE
    <3>1. /\ items'[v] = items[v] \/ items'[v] = [pass.items[v] EXCEPT !.age = 0]
          /\ pass.items[v] \in ItemRow /\ pass.items[v].present
      BY <1>0, <2>5 DEF JudgeSame, Save, Passes
    <3> QED BY <3>1 DEF ItemRow
  <2>6. JudgeMissing(v)
    BY <1>1, <2>1, <2>3, <2>4, <2>5 DEF Judge
  <2>7. IsRemoved(v)
    BY <2>6 DEF JudgeMissing
  <2> QED BY <1>1, <2>1, <2>2, <2>7
<1>2. ASSUME NEW w \in Items, SeedItem(w) PROVE FALSE
  BY <1>0, <1>2 DEF SeedItem
<1>3. ASSUME \A w \in Items : ~Judge(w) /\ ~SeedItem(w) PROVE FALSE
  <2>1. CASE PassStep \/ Device \/ EndEarly \/ UNCHANGED vars
    <3>1. items' = items
      BY <1>3, <2>1
      DEF PassStep, Begin, ReadItems, SeedBase, EndSeeding, Learn, Finish, Tell,
          Device, ComeOrGo, Offer, Inspect, EndEarly, vars, history
    <3> QED BY <3>1
  <2>2. CASE Tick
    <3> DEFINE older == Min2(items[v].age + 1, OldestOf(v))
    <3>1. items'[v] = [items[v] EXCEPT !.age = older] /\ items[v] \in ItemRow
      BY <1>0, <2>2 DEF Tick
    <3> HIDE DEF older
    <3> QED BY <3>1 DEF ItemRow
  <2>3. CASE ResetBaseline
    BY <1>0, <2>3 DEF ResetBaseline, NoRows
  <2>4. ASSUME NEW w \in Items, WriteAccepted(w) PROVE FALSE
    <3>1. /\ \A u \in Items \ {w} : items'[u] = items[u]
          /\ items'[w].present = hand[w].present
      BY <2>4, Written
    <3>2. w = v /\ items[v] # hand[v]
      BY <1>0, <3>1
    <3> QED BY <2>4, <3>2 DEF WriteAccepted
  <2>5. CASE UNCHANGED <<world, span, base, items, events, pass, history, crashes>>
    BY <2>5
  <2> QED BY <2>1, <2>2, <2>3, <2>4, <2>5, OperatorCases DEF Next
<1> QED BY <1>1, <1>2, <1>3

\* No service is taken for removed before no pass has seen it for the removal
\* age, less what last_seen may lag behind, wherever passes end and whatever
\* the operator resets or accepts in the middle of one, unless the copy that
\* an accept wrote was older than the row.
THEOREM RemovalEarned ==
  ASSUME RefreshAge > 0
  PROVE  Spec => RemovalIsEarned
<1>1. ASSUME Init PROVE RInv
  <2>1. pass.pc = "idle" /\ \A v \in Items : items[v] = Absent
    BY <1>1 DEF Init, Idle, NoRows
  <2> QED BY <1>1, <2>1, TypeInit DEF RInv, CopiesAreAsOld, RowsAreDated, CopiesAreDated, Dated, StillJudged, Items
<1>2. RInv /\ [Next]_vars => RInv'
  BY DateStep
<1>3. ASSUME RInv, [Next]_vars, NEW v \in Services,
             items[v] # Absent, items[v].present, items'[v] # Absent, ~items'[v].present
      PROVE  v \in overwritten' \/ missing[v] > RemovalAge - RefreshAge
  <2> SUFFICES ASSUME v \notin overwritten'
               PROVE  missing[v] > RemovalAge - RefreshAge
    OBVIOUS
  <2>1. TInv /\ v \in Items /\ v \notin Ports
    BY <1>3, ItemAssumption DEF RInv, Items
  <2>2. Judge(v) /\ IsRemoved(v) /\ StillJudged(v) /\ v \notin pass.seen
    BY <1>3, <2>1, GoneByJudgement DEF StillJudged, IsRemoved
  <2>3. /\ pass.items[v] # Absent /\ pass.items[v].present
        /\ pass.items[v].age >= RemovalAge
    BY <2>1, <2>2 DEF IsRemoved
  <2>4. pass.items[v].age < missing[v] + RefreshAge
    <3>1. v \notin overwritten
      BY <2>2 DEF Judge
    <3> QED BY <1>3, <2>2, <2>3, <3>1 DEF RInv, CopiesAreDated, Dated
  <2>5. /\ pass.items[v].age \in Int /\ missing[v] \in Int
        /\ RemovalAge \in Int /\ RefreshAge \in Int
    <3>1. pass.items[v] \in ItemRow \cup {Absent} /\ missing[v] \in Ages
      BY <2>1 DEF TInv, TypeOK, Passes
    <3>2. pass.items[v].age \in Ages
      BY <2>3, <3>1 DEF ItemRow
    <3>3. \A a \in Ages : a \in Int
      BY Bounds DEF Ages
    <3>4. RemovalAge \in Ages /\ RefreshAge \in Ages
      BY AgeAssumption DEF Ages
    <3> QED BY <3>1, <3>2, <3>3, <3>4
  <2> QED BY <2>3, <2>4, <2>5
<1>4. RInv /\ [Next]_vars =>
        [\A v \in Services :
           items[v] # Absent /\ items[v].present /\ items'[v] # Absent
             /\ ~items'[v].present =>
               v \in overwritten' \/ missing[v] > RemovalAge - RefreshAge]_vars
  BY <1>3
<1> QED BY <1>1, <1>2, <1>4, PTL DEF Spec, RemovalIsEarned

=============================================================================
