--------------------------- MODULE HrMonth_proofs ----------------------------
(***************************************************************************)
(* For any roll, any number of operators and check-ins: the figures of the *)
(* month and of every register come from one payroll run, what was         *)
(* submitted is what is on file, a locked month changes only at the hands  *)
(* the property names, and only approved claims are paid.  Each rests on   *)
(* what the requests under way have in hand.                               *)
(***************************************************************************)
EXTENDS HrMonth, TLAPS

(* A payroll request knows the number of its run.                            *)
RunKnown ==
    \A a \in Actors :
        /\ desks[a].op = "payroll" => desks[a].run # 0
        /\ desks[a].pc = "check" => desks[a].op \in {"grid", "payroll"}
        /\ desks[a].pc \in {"delete", "wait", "rows"} => desks[a].op = "payroll"

TInv == TypeOK /\ RunKnown

-----------------------------------------------------------------------------
LEMMA FirstEmployee == 1 \in Employees
BY RollAssumption DEF Employees

LEMMA NoCellType == NoCell \in Cell
BY DEF NoCell, Cell, Swipe

LEMMA NoPayIsNoRow == NoPay \notin PayRow
<1>1. NoPay.run = 0
    BY DEF NoPay
<1>2. \A r \in PayRow : r.run # 0
    <2> SUFFICES ASSUME NEW r \in PayRow PROVE r.run # 0
        OBVIOUS
    <2>1. r.run \in 1 .. MaxClicks
        BY DEF PayRow
    <2> QED BY <2>1, BoundAssumption
<1> QED BY <1>1, <1>2

LEMMA KeptIsNoCell == Kept \notin Cell
<1>1. DOMAIN Kept = {"status"}
    BY DEF Kept
<1>2. ASSUME NEW c \in Cell PROVE "in" \in DOMAIN c
    BY DEF Cell
<1> QED BY <1>1, <1>2

LEMMA AwayType == Away \in Desk /\ Away.pc = "away" /\ Away.op = "none"
<1>1. 1 \in 1 .. Headcount + 1 /\ 0 \in 0 .. MaxClicks /\ 0 \in Nat
    BY RollAssumption, BoundAssumption
<1>2. [e \in Employees |-> Kept] \in [Employees -> Cell \cup {Kept}]
    OBVIOUS
<1>3. [e \in Employees |-> NoPay] \in Rows
    BY DEF Rows
<1>4. Away \in Desk
    BY <1>1, <1>2, <1>3, FirstEmployee, NoCellType DEF Away, Desk
<1> QED BY <1>4 DEF Away

LEMMA LateDesk ==
    ASSUME NEW d \in Desk
    PROVE  /\ [d EXCEPT !.late = TRUE] \in Desk
           /\ [d EXCEPT !.late = TRUE].op = d.op
           /\ [d EXCEPT !.late = TRUE].run = d.run
           /\ [d EXCEPT !.late = TRUE].pc = d.pc
BY DEF Desk

LEMMA OvertakenType ==
    ASSUME TypeOK, NEW pcs
    PROVE  /\ Overtaken(pcs) \in [Actors -> Desk]
           /\ \A a \in Actors :
                 /\ desks[a].pc \notin pcs => Overtaken(pcs)[a] = desks[a]
                 /\ desks[a].pc \in pcs => Overtaken(pcs)[a] = [desks[a] EXCEPT !.late = TRUE]
                 /\ Overtaken(pcs)[a].op = desks[a].op
                 /\ Overtaken(pcs)[a].run = desks[a].run
                 /\ Overtaken(pcs)[a].pc = desks[a].pc
<1>1. ASSUME NEW a \in Actors PROVE [desks[a] EXCEPT !.late = TRUE] \in Desk
    <2>1. desks[a] \in Desk
        BY DEF TypeOK
    <2> QED BY <2>1, LateDesk
<1>2. \A a \in Actors : Overtaken(pcs)[a] =
          IF desks[a].pc \in pcs THEN [desks[a] EXCEPT !.late = TRUE] ELSE desks[a]
    BY DEF Overtaken
<1>3. Overtaken(pcs) \in [Actors -> Desk]
    BY <1>1 DEF TypeOK, Overtaken
<1>4. \A a \in Actors : desks[a] \in Desk
    BY DEF TypeOK
<1> QED BY <1>2, <1>3, <1>4, LateDesk

(* A request that goes on, or begins, has a desk of the right shape.         *)
LEMMA EnteredType ==
    ASSUME NEW entry \in Entries
    PROVE  Entered(entry) \in Cell
<1>1. entry \in [status : {"none", "present", "off"}, in : Swipe, out : Swipe]
    BY EntryAssumption
<1>2. Window[1] \in Swipe /\ Window[2] \in Swipe
    BY TimeAssumption DEF Swipe
<1>3. entry \in Cell /\ [entry EXCEPT !.in = Window[1], !.out = Window[2]] \in Cell
    BY <1>1, <1>2 DEF Cell
<1> QED BY <1>3, NoCellType DEF Entered

LEMMA PunchedType ==
    ASSUME NEW seen \in Cell, NEW day \in Cell, NEW direction, NEW same, NEW time \in Times
    PROVE  Punched(seen, day, direction, same, time) \in Cell
<1> DEFINE row == IF direction = "out" /\ IsOpen(seen) /\ same THEN seen ELSE day
<1>1. row \in Cell
    OBVIOUS
<1>2. row.in \in Swipe /\ row.out \in Swipe /\ time \in Swipe
    BY <1>1 DEF Cell, Swipe
<1> QED BY <1>2 DEF Punched, Cell

LEMMA InitTyped == Init => TInv
<1> SUFFICES ASSUME Init PROVE TInv
    OBVIOUS
<1>1. desks \in [Actors -> Desk]
    BY AwayType DEF Init
<1>2. att \in [Employees -> Cell] /\ payroll \in Rows
    BY NoCellType DEF Init, Rows
<1>3. registers \in Seq(Register) /\ clicks \in 0 .. MaxClicks
    BY BoundAssumption DEF Init
<1>4. RunKnown
    BY AwayType DEF Init, RunKnown
<1> QED BY <1>1, <1>2, <1>3, <1>4 DEF Init, TInv, TypeOK

(* A step that only changes the desk of one actor.                           *)
LEMMA DeskStep ==
    ASSUME TInv, NEW a \in Actors, NEW d \in Desk, desks' = [desks EXCEPT ![a] = d],
           d.op = "payroll" => d.run # 0,
           d.pc = "check" => d.op \in {"grid", "payroll"},
           d.pc \in {"delete", "wait", "rows"} => d.op = "payroll"
    PROVE  desks' \in [Actors -> Desk] /\ RunKnown'
<1>1. desks' \in [Actors -> Desk]
    BY DEF TInv, TypeOK
<1>2. \A b \in Actors : desks'[b] = IF b = a THEN d ELSE desks[b]
    BY DEF TInv, TypeOK
<1> QED BY <1>1, <1>2 DEF TInv, RunKnown

LEMMA LeaveTyped ==
    ASSUME TInv, NEW a \in Actors, Leave(a)
    PROVE  desks' \in [Actors -> Desk] /\ RunKnown'
BY AwayType, DeskStep DEF Leave

LEMMA OvertakenKeeps ==
    ASSUME TInv, NEW pcs, NEW a \in Actors
    PROVE  /\ Overtaken(pcs)[a].op = desks[a].op
           /\ Overtaken(pcs)[a].run = desks[a].run
           /\ Overtaken(pcs)[a].pc = desks[a].pc
<1>1. TypeOK
    BY DEF TInv
<1> QED BY ZenonT(30), <1>1, OvertakenType

LEMMA OvertakenKnown ==
    ASSUME TInv, NEW pcs, desks' = Overtaken(pcs)
    PROVE  desks' \in [Actors -> Desk] /\ RunKnown'
<1>1. \A a \in Actors : desks'[a].op = desks[a].op /\ desks'[a].run = desks[a].run /\ desks'[a].pc = desks[a].pc
    BY OvertakenKeeps
<1> QED BY <1>1, OvertakenType DEF TInv, RunKnown

(* ... and of one that is marked late as well, and ends.                     *)
LEMMA EndLateTyped ==
    ASSUME TInv, NEW pcs, NEW a \in Actors, desks' = [Overtaken(pcs) EXCEPT ![a] = Away]
    PROVE  desks' \in [Actors -> Desk] /\ RunKnown'
<1>1. Overtaken(pcs) \in [Actors -> Desk]
    BY OvertakenType DEF TInv
<1>2. desks' \in [Actors -> Desk] /\ desks'[a] = Away /\ \A b \in Actors \ {a} : desks'[b] = Overtaken(pcs)[b]
    BY <1>1, AwayType
<1>3. \A b \in Actors \ {a} : desks'[b].op = desks[b].op /\ desks'[b].run = desks[b].run /\ desks'[b].pc = desks[b].pc
    BY <1>2, OvertakenKeeps
<1> QED BY <1>2, <1>3, AwayType DEF TInv, RunKnown

-----------------------------------------------------------------------------
LEMMA OperatorTyped ==
    ASSUME TInv, NEW o \in Operators,
           \/ \E op \in {"grid", "payroll", "register"} : Open(o, op)
           \/ AssertOpen(o) \/ Lock(o) \/ Unlock(o)
           \/ \E e \in Employees : Offboard(o, e)
    PROVE  TInv'
<1> o \in Actors /\ desks[o] \in Desk
    BY DEF Actors, TInv, TypeOK
<1>1. ASSUME NEW op \in {"grid", "payroll", "register"}, Open(o, op) PROVE TInv'
    <2> DEFINE d == [Away EXCEPT !.pc = IF op = "register" THEN "list" ELSE "check",
                                 !.op = op, !.run = IF op = "payroll" THEN clicks' ELSE 0]
    <2>1. clicks' \in 1 .. MaxClicks /\ 0 \in 0 .. MaxClicks
        BY <1>1, BoundAssumption DEF Open, Click, TInv, TypeOK
    <2>2. d \in Desk /\ d.op = op /\ d.run = (IF op = "payroll" THEN clicks' ELSE 0)
          /\ d.pc = (IF op = "register" THEN "list" ELSE "check")
        <3>1. Away \in Desk /\ clicks' \in 0 .. MaxClicks
            BY <2>1, AwayType, BoundAssumption
        <3> QED BY ZenonT(30), <3>1, <2>1 DEF Desk
    <2>3. desks' = [desks EXCEPT ![o] = d]
        BY <1>1 DEF Open
    <2> HIDE DEF d
    <2>4. desks' \in [Actors -> Desk] /\ RunKnown'
        <3>1. d.op = "payroll" => d.run # 0
            BY <2>1, <2>2, BoundAssumption
        <3>2. d.pc \notin {"delete", "wait", "rows"} /\ (d.pc = "check" => d.op \in {"grid", "payroll"})
            BY <2>2
        <3> QED BY <2>2, <2>3, <3>1, <3>2, DeskStep
    <2> QED BY <2>1, <2>4, <1>1, BoundAssumption DEF Open, TInv, TypeOK
<1>2. ASSUME AssertOpen(o) PROVE TInv'
    <2>1. CASE Leave(o)
        BY <2>1, <1>2, LeaveTyped DEF AssertOpen, TInv, TypeOK
    <2>2. CASE ~Leave(o)
        <3> DEFINE d == [desks[o] EXCEPT !.pc = IF desks[o].op = "grid" THEN "cells" ELSE "delete"]
        <3>1. desks' = [desks EXCEPT ![o] = d] /\ desks[o].pc = "check"
            BY <2>2, <1>2 DEF AssertOpen, At
        <3>2. d \in Desk /\ d.pc = (IF desks[o].op = "grid" THEN "cells" ELSE "delete")
              /\ d.op = desks[o].op /\ d.run = desks[o].run
            BY DEF Desk, Checked
        <3>3. desks[o].op \in {"grid", "payroll"} /\ (desks[o].op = "payroll" => desks[o].run # 0)
            BY <3>1 DEF TInv, RunKnown
        <3> HIDE DEF d
        <3>4. desks' \in [Actors -> Desk] /\ RunKnown'
            BY <3>1, <3>2, <3>3, DeskStep
        <3> QED BY <3>4, <1>2 DEF AssertOpen, TInv, TypeOK
    <2> QED BY <2>1, <2>2
<1>3. ASSUME Lock(o) \/ Unlock(o) PROVE TInv'
    <2>1. desks' \in [Actors -> Desk] /\ RunKnown'
        BY <1>3, OvertakenKnown DEF Lock, Unlock
    <2>2. clicks' \in 0 .. MaxClicks
        BY <1>3, BoundAssumption DEF Lock, Unlock, Click, TInv, TypeOK
    <2> QED BY <2>1, <2>2, <1>3 DEF Lock, Unlock, TInv, TypeOK
<1>4. ASSUME NEW e \in Employees, Offboard(o, e) PROVE TInv'
    <2>1. [NoCell EXCEPT !.status = "left"] \in Cell
        BY NoCellType DEF Cell
    <2>2. att' \in [Employees -> Cell]
        BY <2>1, <1>4 DEF Offboard, TInv, TypeOK
    <2>3. clicks' \in 0 .. MaxClicks
        BY <1>4, BoundAssumption DEF Offboard, Click, TInv, TypeOK
    <2> QED BY <2>2, <2>3, <1>4 DEF Offboard, TInv, TypeOK, RunKnown
<1> QED BY <1>1, <1>2, <1>3, <1>4

LEMMA DayTyped ==
    ASSUME TInv,
           \/ \E o \in Operators : GridStep(o) \/ ClaimStep(o)
           \/ \E k \in Kiosks : PunchStep(k)
           \/ \E e \in Employees : Submit(e)
           \/ \E a \in Actors : RollBack(a)
    PROVE  TInv'
<1> \A a \in Actors : desks[a] \in Desk
    BY DEF TInv, TypeOK
<1> Operators \subseteq Actors /\ Kiosks \subseteq Actors
    BY DEF Actors
<1>1. ASSUME NEW o \in Operators, CommitGrid(o) PROVE TInv'
    <2>1. ASSUME NEW e \in Employees, desks[o].cells[e] # Kept PROVE desks[o].cells[e] \in Cell
        BY <2>1 DEF Desk
    <2>2. att' \in [Employees -> Cell]
        BY <2>1, <1>1 DEF CommitGrid, TInv, TypeOK
    <2> QED BY <2>2, <1>1, LeaveTyped DEF CommitGrid, TInv, TypeOK
<1>2. ASSUME NEW o \in Operators, NEW e \in Employees, NEW entry \in Entries, EditDay(o, e, entry)
      PROVE  TInv'
    <2> DEFINE d == [desks[o] EXCEPT !.cells[e] = Entered(entry)]
    <2>1. Entered(entry) \in Cell /\ desks[o].pc = "cells"
        BY <1>2, EnteredType DEF EditDay, At
    <2>2. d \in Desk /\ d.pc = "cells" /\ d.op = desks[o].op /\ d.run = desks[o].run
        BY <2>1 DEF Desk
    <2>3. desks' = [desks EXCEPT ![o] = d]
        BY <1>2 DEF EditDay
    <2> HIDE DEF d
    <2>4. desks' \in [Actors -> Desk] /\ RunKnown'
        BY <2>2, <2>3, DeskStep DEF TInv, RunKnown
    <2> QED BY <2>4, <1>2 DEF EditDay, TInv, TypeOK
<1>3. ASSUME NEW o \in Operators, NEW e \in Employees, OpenClaim(o, e) PROVE TInv'
    <2> DEFINE d == [Away EXCEPT !.pc = "decide", !.emp = e, !.claim = claims[e]]
    <2>1. claims[e] \in {"none", "pending"} \cup Verdicts
        BY DEF TInv, TypeOK
    <2>2. d \in Desk /\ d.pc = "decide" /\ d.op = "none"
        BY <2>1, AwayType DEF Desk
    <2>3. desks' = [desks EXCEPT ![o] = d]
        BY <1>3 DEF OpenClaim
    <2> HIDE DEF d
    <2>4. desks' \in [Actors -> Desk] /\ RunKnown'
        BY <2>2, <2>3, DeskStep
    <2>5. clicks' \in 0 .. MaxClicks
        BY <1>3, BoundAssumption DEF OpenClaim, Click, TInv, TypeOK
    <2> QED BY <2>4, <2>5, <1>3 DEF OpenClaim, TInv, TypeOK
<1>4. ASSUME NEW o \in Operators, NEW v \in Verdicts, Decide(o, v) PROVE TInv'
    <2>1. desks[o].emp \in Employees
        BY DEF Desk
    <2>2. claims' \in [Employees -> {"none", "pending"} \cup Verdicts] /\ overruled' \subseteq Employees
        BY <2>1, <1>4 DEF Decide, TInv, TypeOK
    <2>3. desks' \in [Actors -> Desk] /\ RunKnown'
        BY <1>4, LeaveTyped DEF Decide
    <2> QED BY <2>2, <2>3, <1>4 DEF Decide, TInv, TypeOK
<1>5. ASSUME NEW k \in Kiosks, NEW e \in Employees, Recognise(k, e) PROVE TInv'
    <2> DEFINE d == [Away EXCEPT !.pc = "punch", !.emp = e, !.seen = att[e]]
    <2>1. att[e] \in Cell
        BY DEF TInv, TypeOK
    <2>2. d \in Desk /\ d.pc = "punch" /\ d.op = "none"
        BY <2>1, AwayType DEF Desk
    <2>3. desks' = [desks EXCEPT ![k] = d]
        BY <1>5 DEF Recognise
    <2> HIDE DEF d
    <2>4. desks' \in [Actors -> Desk] /\ RunKnown'
        BY <2>2, <2>3, DeskStep
    <2> QED BY <2>4, <1>5 DEF Recognise, TInv, TypeOK
<1>6. ASSUME NEW k \in Kiosks, NEW direction, NEW same, NEW time \in Times, Punch(k, direction, same, time)
      PROVE  TInv'
    <2>1. desks[k].emp \in Employees /\ desks[k].seen \in Cell
        BY DEF Desk
    <2>2. Punched(desks[k].seen, att[desks[k].emp], direction, same, time) \in Cell
        BY <2>1, PunchedType DEF TInv, TypeOK
    <2>3. att' \in [Employees -> Cell]
        BY <2>1, <2>2, <1>6 DEF Punch, TInv, TypeOK
    <2>4. desks' \in [Actors -> Desk] /\ RunKnown'
        BY <1>6, LeaveTyped DEF Punch
    <2> QED BY <2>3, <2>4, <1>6 DEF Punch, TInv, TypeOK
<1>7. ASSUME NEW e \in Employees, Submit(e) PROVE TInv'
    BY <1>7 DEF Submit, TInv, TypeOK, RunKnown
<1>8. ASSUME NEW a \in Actors, RollBack(a) PROVE TInv'
    BY <1>8, LeaveTyped DEF RollBack, TInv, TypeOK
<1> QED BY <1>1, <1>2, <1>3, <1>4, <1>5, <1>6, <1>7, <1>8 DEF GridStep, ClaimStep, PunchStep

LEMMA NewRowType ==
    ASSUME TInv, NEW o \in Operators, desks[o].pc = "rows", NEW e \in Employees
    PROVE  NewRow(o, e) \in PayRow /\ NewRow(o, e).run = desks[o].run
<1>1. o \in Actors /\ desks[o].run \in 0 .. MaxClicks /\ desks[o].run # 0
    BY DEF Actors, TInv, TypeOK, RunKnown, Desk
<1>2. desks[o].run \in 1 .. MaxClicks /\ att[e] \in Cell
    BY <1>1, BoundAssumption DEF TInv, TypeOK
<1> QED BY <1>2 DEF NewRow, PayRow

LEMMA MonthTyped ==
    ASSUME TInv, NEW o \in Operators, PayrollStep(o) \/ RegisterStep(o)
    PROVE  TInv'
<1> o \in Actors /\ desks[o] \in Desk /\ payroll \in Rows
    BY DEF Actors, TInv, TypeOK
<1>1. ASSUME DeleteMonth(o) \/ Deleted(o) PROVE TInv'
    <2> DEFINE d == IF DeleteMonth(o) THEN [desks[o] EXCEPT !.pc = "wait", !.base = payroll]
                    ELSE [desks[o] EXCEPT !.pc = "rows"]
    <2>1. d \in Desk /\ d.pc \in {"wait", "rows"} /\ d.op = desks[o].op /\ d.run = desks[o].run
        BY DEF Desk, Checked
    <2>2. desks' = [desks EXCEPT ![o] = d] /\ desks[o].pc \in {"delete", "wait"}
        BY <1>1 DEF DeleteMonth, Deleted, At
    <2>3. desks[o].op = "payroll" /\ desks[o].run # 0
        BY <2>2 DEF TInv, RunKnown
    <2> HIDE DEF d
    <2>4. desks' \in [Actors -> Desk] /\ RunKnown'
        BY <2>1, <2>2, <2>3, DeskStep
    <2> QED BY <2>4, <1>1 DEF DeleteMonth, Deleted, TInv, TypeOK
<1>2. ASSUME AddRow(o) PROVE TInv'
    <2> DEFINE e == desks[o].next
               d == [desks[o] EXCEPT !.next = e + 1, !.rows[e] = NewRow(o, e)]
    <2>1. desks[o].pc = "rows" /\ e \in Employees /\ desks' = [desks EXCEPT ![o] = d]
        BY <1>2 DEF AddRow, At
    <2>2. NewRow(o, e) \in PayRow /\ e + 1 \in 1 .. Headcount + 1
        BY <2>1, NewRowType, RollAssumption DEF Employees
    <2>3. d \in Desk /\ d.pc = "rows" /\ d.op = desks[o].op /\ d.run = desks[o].run
        BY <2>1, <2>2 DEF Desk, Rows
    <2>4. desks[o].op = "payroll" /\ desks[o].run # 0
        BY <2>1 DEF TInv, RunKnown
    <2> HIDE DEF d
    <2>5. desks' \in [Actors -> Desk] /\ RunKnown'
        BY <2>1, <2>3, <2>4, DeskStep
    <2> QED BY <2>5, <1>2 DEF AddRow, TInv, TypeOK
<1>3. ASSUME CommitPayroll(o) PROVE TInv'
    <2>1. desks[o].rows \in Rows
        BY DEF Desk
    <2>2. payroll' \in Rows
        BY <2>1, <1>3 DEF CommitPayroll, Rows
    <2>3. desks' \in [Actors -> Desk] /\ RunKnown'
        BY <1>3, EndLateTyped DEF CommitPayroll
    <2>4. reopened' \in BOOLEAN
        <3>1. desks[o].late \in BOOLEAN /\ reopened \in BOOLEAN
            BY DEF Desk, TInv, TypeOK
        <3> QED BY <3>1, <1>3 DEF CommitPayroll
    <2> QED BY <2>2, <2>3, <2>4, <1>3 DEF CommitPayroll, TInv, TypeOK
<1>4. ASSUME ListPayroll(o) PROVE TInv'
    <2>1. CASE Leave(o)
        BY <2>1, <1>4, LeaveTyped DEF ListPayroll, TInv, TypeOK
    <2>2. CASE ~Leave(o)
        <3> DEFINE d == [desks[o] EXCEPT !.pc = "archive", !.rows = payroll]
        <3>1. desks' = [desks EXCEPT ![o] = d]
            BY <2>2, <1>4 DEF ListPayroll
        <3>2. d \in Desk /\ d.pc = "archive" /\ d.op = desks[o].op /\ d.run = desks[o].run
            BY DEF Desk, Filing
        <3> HIDE DEF d
        <3>3. desks' \in [Actors -> Desk] /\ RunKnown'
            BY <3>1, <3>2, DeskStep DEF TInv, RunKnown
        <3> QED BY <3>3, <1>4 DEF ListPayroll, TInv, TypeOK
    <2> QED BY <2>1, <2>2
<1>5. ASSUME Archive(o) \/ Log(o) PROVE TInv'
    <2> DEFINE d == IF Archive(o) THEN [desks[o] EXCEPT !.pc = "log", !.version = Len(registers) + 1]
                    ELSE [desks[o] EXCEPT !.pc = "seal", !.locks = Locks]
    <2>1. Len(registers) + 1 \in Nat /\ Locks \in BOOLEAN
        BY DEF TInv, TypeOK, Locks
    <2>2. d \in Desk /\ d.pc \in {"log", "seal"} /\ d.op = desks[o].op /\ d.run = desks[o].run
        BY <2>1 DEF Desk, Filing
    <2>3. desks' = [desks EXCEPT ![o] = d]
        BY <1>5 DEF Archive, Log
    <2> HIDE DEF d
    <2>4. desks' \in [Actors -> Desk] /\ RunKnown'
        BY <2>2, <2>3, DeskStep DEF TInv, RunKnown
    <2> QED BY <2>4, <1>5 DEF Archive, Log, TInv, TypeOK
<1>6. ASSUME Seal(o) PROVE TInv'
    <2> DEFINE r == [version |-> desks[o].version, rows |-> desks[o].rows, exact |-> ~desks[o].late]
    <2>1. r \in Register
        BY DEF Desk, Register
    <2>2. registers' \in Seq(Register)
        BY <2>1, <1>6 DEF Seal, TInv, TypeOK
    <2>3. desks' \in [Actors -> Desk] /\ RunKnown'
        <3>1. CASE desks[o].locks
            BY <3>1, <1>6, EndLateTyped DEF Seal
        <3>2. CASE ~desks[o].locks
            BY <3>2, <1>6, LeaveTyped DEF Seal, Leave
        <3> QED BY <3>1, <3>2
    <2>4. locked' \in BOOLEAN
        <3>1. desks[o].locks \in BOOLEAN /\ locked \in BOOLEAN
            BY DEF Desk, TInv, TypeOK
        <3> QED BY <3>1, <1>6 DEF Seal
    <2> QED BY <2>2, <2>3, <2>4, <1>6 DEF Seal, TInv, TypeOK
<1> QED BY <1>1, <1>2, <1>3, <1>4, <1>5, <1>6 DEF PayrollStep, RegisterStep

LEMMA NextTyped == TInv /\ [Next]_vars => TInv'
<1> SUFFICES ASSUME TInv, [Next]_vars PROVE TInv'
    OBVIOUS
<1>1. CASE Next
    BY <1>1, OperatorTyped, DayTyped, MonthTyped DEF Next
<1>2. CASE UNCHANGED vars
    BY <1>2 DEF vars, TInv, TypeOK, RunKnown
<1> QED BY <1>1, <1>2

(* Type correctness for any roll and any number of requests, the number a    *)
(* payroll run gives its rows included.                                      *)
THEOREM TypeCorrect == Spec => []TypeOK
<1>1. Spec => []TInv
    BY InitTyped, NextTyped, PTL DEF Spec
<1>2. TInv => TypeOK
    BY DEF TInv
<1> QED BY <1>1, <1>2, PTL
-----------------------------------------------------------------------------
(* While the month is locked every request past the guard is a late one.     *)
LockSeen == locked => \A a \in Actors : desks[a].pc \in Checked => desks[a].late

LEMMA OvertakenLate ==
    ASSUME TInv, NEW pcs, NEW a \in Actors
    PROVE  /\ desks[a].pc \in pcs => Overtaken(pcs)[a].late
           /\ desks[a].late => Overtaken(pcs)[a].late
<1>1. desks[a] \in Desk
    BY DEF TInv, TypeOK
<1>2. [desks[a] EXCEPT !.late = TRUE].late = TRUE
    BY <1>1 DEF Desk
<1>3. Overtaken(pcs)[a] = IF desks[a].pc \in pcs THEN [desks[a] EXCEPT !.late = TRUE] ELSE desks[a]
    BY DEF Overtaken
<1> QED BY <1>2, <1>3

(* A desk that changes: it leaves, it is past the guard as it was before, or *)
(* it gets to a place where there is nothing to be late for.                 *)
Moves(a) ==
    \/ desks'[a] = desks[a]
    \/ desks'[a].pc \notin Checked
    \/ desks[a].pc \in Checked /\ desks'[a].late = desks[a].late

LEMMA OneMoves ==
    ASSUME TInv, NEW a \in Actors, NEW d, desks' = [desks EXCEPT ![a] = d],
           d.pc \in Checked => desks[a].pc \in Checked /\ d.late = desks[a].late
    PROVE  \A b \in Actors : Moves(b)
BY DEF TInv, TypeOK, Moves

LEMMA AwayMoves ==
    ASSUME TInv, NEW a \in Actors, Leave(a)
    PROVE  \A b \in Actors : Moves(b)
BY OneMoves, AwayType DEF Leave, Checked

LEMMA MovesKeep ==
    ASSUME LockSeen, locked' = locked, \A a \in Actors : Moves(a)
    PROVE  LockSeen'
BY DEF LockSeen, Moves

LEMMA NextLockSeen == TInv /\ LockSeen /\ [Next]_vars => LockSeen'
<1> SUFFICES ASSUME TInv, LockSeen, [Next]_vars PROVE LockSeen'
    OBVIOUS
<1> Operators \subseteq Actors /\ Kiosks \subseteq Actors
    BY DEF Actors
<1> \A a \in Actors : desks[a] \in Desk
    BY DEF TInv, TypeOK
<1>1. ASSUME NEW o \in Operators, NEW op \in {"grid", "payroll", "register"}, Open(o, op) PROVE LockSeen'
    <2> DEFINE d == [Away EXCEPT !.pc = IF op = "register" THEN "list" ELSE "check",
                                 !.op = op, !.run = IF op = "payroll" THEN clicks' ELSE 0]
    <2>1. d.pc \notin Checked
        BY AwayType DEF Desk, Checked
    <2>2. desks' = [desks EXCEPT ![o] = d] /\ locked' = locked
        BY <1>1 DEF Open
    <2> HIDE DEF d
    <2> QED BY <2>1, <2>2, OneMoves, MovesKeep
<1>2. ASSUME NEW o \in Operators, AssertOpen(o) PROVE LockSeen'
    <2>1. CASE ~locked
        BY <2>1, <1>2 DEF AssertOpen, LockSeen
    <2>2. CASE locked
        BY <2>2, <1>2, AwayMoves, MovesKeep DEF AssertOpen, OpenMonth
    <2> QED BY <2>1, <2>2
<1>3. ASSUME NEW o \in Operators, Lock(o) PROVE LockSeen'
    BY <1>3, OvertakenKeeps, OvertakenLate DEF Lock, LockSeen
<1>4. ASSUME NEW o \in Operators, Unlock(o) PROVE LockSeen'
    BY <1>4 DEF Unlock, LockSeen
<1>5. ASSUME NEW o \in Operators, Seal(o) PROVE LockSeen'
    <2>1. CASE desks[o].locks
        <3>1. desks' = [Overtaken(Checked) EXCEPT ![o] = Away]
            BY <2>1, <1>5 DEF Seal
        <3>2. Overtaken(Checked) \in [Actors -> Desk]
            BY OvertakenType DEF TInv
        <3>3. desks'[o].pc = "away" /\ \A a \in Actors \ {o} : desks'[a] = Overtaken(Checked)[a]
            BY <3>1, <3>2, AwayType
        <3>4. \A a \in Actors \ {o} : desks'[a].pc \in Checked => desks'[a].late
            BY <3>3, OvertakenKeeps, OvertakenLate
        <3> QED BY <3>3, <3>4 DEF LockSeen, Checked
    <2>2. CASE ~desks[o].locks
        <3>1. locked' = locked
            BY <2>2, <1>5 DEF Seal, TInv, TypeOK
        <3>2. Leave(o)
            BY <2>2, <1>5 DEF Seal, Leave
        <3> QED BY <3>1, <3>2, AwayMoves, MovesKeep
    <2> QED BY <2>1, <2>2
<1>6. ASSUME NEW o \in Operators, CommitPayroll(o) PROVE LockSeen'
    <2>1. desks' = [Overtaken(Filing) EXCEPT ![o] = Away] /\ locked' = locked
        BY <1>6 DEF CommitPayroll
    <2>2. Overtaken(Filing) \in [Actors -> Desk]
        BY OvertakenType DEF TInv
    <2>3. desks'[o].pc = "away" /\ \A a \in Actors \ {o} : desks'[a] = Overtaken(Filing)[a]
        BY <2>1, <2>2, AwayType
    <2>4. ASSUME locked, NEW a \in Actors \ {o}, desks'[a].pc \in Checked PROVE desks'[a].late
        BY <2>3, <2>4, OvertakenKeeps, OvertakenLate DEF LockSeen
    <2> QED BY <2>1, <2>3, <2>4 DEF LockSeen, Checked
<1>7. ASSUME NEW o \in Operators, NEW e \in Employees, NEW entry \in Entries, EditDay(o, e, entry)
      PROVE  LockSeen'
    <2> DEFINE d == [desks[o] EXCEPT !.cells[e] = Entered(entry)]
    <2>1. desks' = [desks EXCEPT ![o] = d] /\ locked' = locked /\ desks[o].pc = "cells"
        BY <1>7 DEF EditDay, At
    <2>2. d.late = desks[o].late
        BY DEF Desk
    <2> HIDE DEF d
    <2> QED BY <2>1, <2>2, OneMoves, MovesKeep DEF Checked
<1>8. ASSUME NEW o \in Operators, DeleteMonth(o) \/ Deleted(o) \/ AddRow(o) PROVE LockSeen'
    <2> DEFINE e == desks[o].next
               d == IF DeleteMonth(o) THEN [desks[o] EXCEPT !.pc = "wait", !.base = payroll]
                    ELSE IF Deleted(o) THEN [desks[o] EXCEPT !.pc = "rows"]
                    ELSE [desks[o] EXCEPT !.next = e + 1, !.rows[e] = NewRow(o, e)]
    <2>1. desks' = [desks EXCEPT ![o] = d] /\ locked' = locked /\ desks[o].pc \in Checked
        BY <1>8 DEF DeleteMonth, Deleted, AddRow, At, Checked
    <2>2. d.late = desks[o].late
        BY DEF Desk
    <2> HIDE DEF d
    <2> QED BY <2>1, <2>2, OneMoves, MovesKeep
<1>9. ASSUME NEW o \in Operators, ListPayroll(o) \/ Archive(o) \/ Log(o) PROVE LockSeen'
    <2> DEFINE d == IF Archive(o) THEN [desks[o] EXCEPT !.pc = "log", !.version = Len(registers) + 1]
                    ELSE IF Log(o) THEN [desks[o] EXCEPT !.pc = "seal", !.locks = Locks]
                    ELSE [desks[o] EXCEPT !.pc = "archive", !.rows = payroll]
    <2>1. locked' = locked /\ (Leave(o) \/ desks' = [desks EXCEPT ![o] = d])
        BY <1>9 DEF ListPayroll, Archive, Log, Locks, Leave
    <2>2. d.pc \notin Checked
        BY DEF Desk, Checked
    <2> HIDE DEF d
    <2> QED BY <2>1, <2>2, OneMoves, AwayMoves, MovesKeep
<1>10. ASSUME NEW a \in Actors, NEW e \in Employees, OpenClaim(a, e) \/ Recognise(a, e) PROVE LockSeen'
    <2> DEFINE d == IF OpenClaim(a, e) THEN [Away EXCEPT !.pc = "decide", !.emp = e, !.claim = claims[e]]
                    ELSE [Away EXCEPT !.pc = "punch", !.emp = e, !.seen = att[e]]
    <2>1. locked' = locked /\ desks' = [desks EXCEPT ![a] = d]
        BY <1>10 DEF OpenClaim, Recognise
    <2>2. d.pc \notin Checked
        BY AwayType DEF Desk, Checked
    <2> HIDE DEF d
    <2> QED BY <2>1, <2>2, OneMoves, MovesKeep
<1>11. ASSUME NEW a \in Actors, Leave(a), locked' = locked PROVE LockSeen'
    BY <1>11, AwayMoves, MovesKeep
<1>12. ASSUME UNCHANGED <<desks, locked>> PROVE LockSeen'
    BY <1>12 DEF LockSeen
<1>13. CASE UNCHANGED vars
    BY <1>13, <1>12 DEF vars
<1>14. ASSUME NEW o \in Operators,
              \/ GridStep(o) \/ ClaimStep(o)
              \/ \E e \in Employees : Offboard(o, e)
       PROVE  LockSeen'
    BY <1>14, <1>7, <1>10, <1>11, <1>12 DEF GridStep, CommitGrid, ClaimStep, Decide, Offboard
<1>15. ASSUME NEW o \in Operators, PayrollStep(o) \/ RegisterStep(o) PROVE LockSeen'
    BY <1>15, <1>5, <1>6, <1>8, <1>9 DEF PayrollStep, RegisterStep
<1>16. ASSUME NEW k \in Kiosks, PunchStep(k) PROVE LockSeen'
    BY <1>16, <1>10, <1>11 DEF PunchStep, Punch
<1>17. ASSUME NEW a \in Actors, RollBack(a) PROVE LockSeen'
    BY <1>17, <1>11 DEF RollBack
<1>18. ASSUME NEW e \in Employees, Submit(e) PROVE LockSeen'
    BY <1>18, <1>12 DEF Submit
<1> QED BY <1>1, <1>2, <1>3, <1>4, <1>13, <1>14, <1>15, <1>16, <1>17, <1>18 DEF Next

Frozen ==
    locked /\ <<att', payroll'>> # <<att, payroll>> =>
          \/ \E a \in Actors : Ends(a) /\ (desks[a].late \/ At(a, "punch"))
          \/ payroll' = payroll /\ \E e \in Employees : att'[e] # att[e] /\ att'[e].status = "left"

LEMMA StepFrozen == TInv /\ LockSeen /\ [Next]_vars => Frozen
<1> SUFFICES ASSUME TInv, LockSeen, [Next]_vars, locked, <<att', payroll'>> # <<att, payroll>> PROVE Frozen
    BY DEF Frozen
<1> Operators \subseteq Actors /\ Kiosks \subseteq Actors
    BY DEF Actors
<1>1. ASSUME NEW a \in Actors, Leave(a) \/ desks' = [Overtaken(Filing) EXCEPT ![a] = Away], ~At(a, "away")
      PROVE  Ends(a)
    <2>1. desks'[a] = Away
        BY <1>1, OvertakenType DEF Leave, TInv, TypeOK
    <2> QED BY <2>1, <1>1, AwayType DEF Ends, At
<1>2. ASSUME NEW o \in Operators, CommitGrid(o) \/ CommitPayroll(o) PROVE Frozen
    <2>1. desks[o].late /\ ~At(o, "away")
        BY <1>2 DEF LockSeen, CommitGrid, CommitPayroll, At, Checked
    <2> QED BY <2>1, <1>1, <1>2 DEF CommitGrid, CommitPayroll, Frozen
<1>3. ASSUME NEW o \in Operators, NEW e \in Employees, Offboard(o, e) PROVE Frozen
    <2>1. payroll' = payroll /\ att' = [att EXCEPT ![e] = [NoCell EXCEPT !.status = "left"]]
        BY <1>3 DEF Offboard
    <2>2. att'[e].status = "left" /\ att'[e] # att[e]
        BY <2>1, NoCellType DEF TInv, TypeOK, Cell
    <2> QED BY <2>1, <2>2 DEF Frozen
<1>4. ASSUME NEW k \in Kiosks, PunchStep(k) PROVE Frozen
    <2>1. At(k, "punch") /\ Leave(k)
        BY <1>4 DEF PunchStep, Recognise, Punch
    <2> QED BY <2>1, <1>1 DEF Frozen, At
<1>5. ASSUME NEW o \in Operators, PayrollStep(o), ~CommitPayroll(o) PROVE Frozen
    BY <1>5 DEF PayrollStep, DeleteMonth, Deleted, AddRow
<1>6. ASSUME NEW o \in Operators, RegisterStep(o) PROVE Frozen
    BY <1>6 DEF RegisterStep, ListPayroll, Archive, Log, Seal
<1>7. ASSUME NEW o \in Operators, (GridStep(o) /\ ~CommitGrid(o)) \/ ClaimStep(o) PROVE Frozen
    BY <1>7 DEF GridStep, EditDay, ClaimStep, OpenClaim, Decide
<1>8. ASSUME NEW o \in Operators,
             \/ \E op \in {"grid", "payroll", "register"} : Open(o, op)
             \/ AssertOpen(o) \/ Lock(o) \/ Unlock(o)
      PROVE  Frozen
    BY <1>8 DEF Open, AssertOpen, Lock, Unlock
<1>9. ASSUME (\E e \in Employees : Submit(e)) \/ (\E a \in Actors : RollBack(a)) \/ UNCHANGED vars PROVE Frozen
    BY <1>9 DEF Submit, RollBack, vars
<1> QED BY <1>2, <1>3, <1>4, <1>5, <1>6, <1>7, <1>8, <1>9 DEF Next

(* A locked month's attendance and payroll change at the hands of late       *)
(* requests, check-ins and offboardings only, however requests interleave.   *)
THEOREM LockedStandsStill == Spec => FrozenOnceLocked
<1>1. Init => LockSeen
    BY DEF Init, LockSeen
<1>2. Spec => [](TInv /\ LockSeen)
    BY <1>1, InitTyped, NextTyped, NextLockSeen, PTL DEF Spec
<1>3. TInv /\ LockSeen /\ [Next]_vars => [Frozen]_vars
    BY StepFrozen
<1>4. [][Frozen]_vars <=> FrozenOnceLocked
    BY DEF Frozen, FrozenOnceLocked
<1> QED BY <1>2, <1>3, <1>4, PTL DEF Spec
-----------------------------------------------------------------------------
(* What a request has in hand.  A payroll run: rows of its own for everybody *)
(* before the next one.  A register: the rows of one run, those on file      *)
(* unless it is late, and at the end a number of its own and a lock.         *)
InHand(d) ==
    /\ d.pc # "rows" => d.next = 1
    /\ d.pc = "rows" => \A e \in Employees : e < d.next => d.rows[e].run = d.run
    /\ d.pc \in Filing => OneRun(d.rows) /\ d.rows[1] # NoPay /\ (d.late \/ d.rows = payroll)
    /\ d.pc = "seal" => d.version = Len(registers) + 1 /\ (d.late \/ locked \/ d.locks)

OneSeals == \A a, b \in Actors : At(a, "seal") /\ At(b, "seal") => a = b

HInv == OneSeals /\ \A a \in Actors : InHand(desks[a])

LEMMA AwayInHand ==
    InHand(Away) /\ InHand(Away)' /\ Away.pc = "away" /\ Away.next = 1
<1>1. Away.pc = "away" /\ Away.next = 1
    BY DEF Away
<1> QED BY <1>1 DEF InHand, Filing

LEMMA OneRow ==
    ASSUME TInv, NEW a \in Actors, NEW d, desks' = [desks EXCEPT ![a] = d],
           UNCHANGED <<payroll, registers, locked>>, HInv, InHand(d),
           d.pc = "seal" => \A b \in Actors \ {a} : ~At(b, "seal")
    PROVE  HInv'
<1>1. \A b \in Actors : desks'[b] = IF b = a THEN d ELSE desks[b]
    BY DEF TInv, TypeOK
<1>2. \A b \in Actors : InHand(desks[b])'
    <2> SUFFICES ASSUME NEW b \in Actors PROVE InHand(desks[b])'
        OBVIOUS
    <2>1. InHand(IF b = a THEN d ELSE desks[b])
        BY DEF HInv
    <2> QED BY <1>1, <2>1 DEF InHand
<1>3. OneSeals'
    BY <1>1 DEF HInv, OneSeals, At
<1> QED BY <1>2, <1>3 DEF HInv

LEMMA LeaveInHand ==
    ASSUME TInv, HInv, NEW a \in Actors, Leave(a), UNCHANGED <<payroll, registers, locked>>
    PROVE  HInv'
BY AwayInHand, OneRow DEF Leave

LEMMA OvertakenHas ==
    ASSUME TInv, NEW pcs, NEW a \in Actors
    PROVE  /\ Overtaken(pcs)[a].pc = desks[a].pc
           /\ Overtaken(pcs)[a].next = desks[a].next
           /\ Overtaken(pcs)[a].run = desks[a].run
           /\ Overtaken(pcs)[a].rows = desks[a].rows
           /\ Overtaken(pcs)[a].version = desks[a].version
           /\ Overtaken(pcs)[a].locks = desks[a].locks
           /\ desks[a].late \/ desks[a].pc \in pcs => Overtaken(pcs)[a].late
<1>1. desks[a] \in Desk
    BY DEF TInv, TypeOK
<1>2. Overtaken(pcs)[a] = IF desks[a].pc \in pcs THEN [desks[a] EXCEPT !.late = TRUE] ELSE desks[a]
    BY DEF Overtaken
<1>3. CASE desks[a].pc \in pcs
    BY <1>1, <1>2, <1>3 DEF Desk
<1>4. CASE desks[a].pc \notin pcs
    BY <1>2, <1>4
<1> QED BY <1>3, <1>4

(* The month changes at the hand of o, who leaves; the others may be late.   *)
LEMMA OthersInHand ==
    ASSUME TInv, HInv, NEW pcs, NEW o \in Actors,
           desks' = Overtaken(pcs) \/ desks' = [Overtaken(pcs) EXCEPT ![o] = Away],
           \A a \in Actors :
              /\ desks[a].pc \in Filing => desks'[a].late \/ payroll' = payroll \/ a = o
              /\ At(a, "seal") => desks'[a].late \/ locked' \/ locked' = locked \/ a = o
              /\ At(a, "seal") => registers' = registers \/ a = o,
           desks' = Overtaken(pcs) => payroll' = payroll /\ registers' = registers
                                      /\ (locked' \/ \A a \in Actors : At(a, "seal") => desks'[a].late)
    PROVE  HInv'
<1>1. Overtaken(pcs) \in [Actors -> Desk]
    BY OvertakenType DEF TInv
<1>2. ASSUME NEW a \in Actors PROVE desks'[a] = Overtaken(pcs)[a] \/ (a = o /\ desks'[a] = Away)
    BY <1>1
<1>3. ASSUME NEW a \in Actors, desks'[a] = Overtaken(pcs)[a], a # o \/ desks' = Overtaken(pcs)
      PROVE  InHand(desks[a])'
    <2>1. /\ desks'[a].pc = desks[a].pc /\ desks'[a].next = desks[a].next
          /\ desks'[a].run = desks[a].run /\ desks'[a].rows = desks[a].rows
          /\ desks'[a].version = desks[a].version /\ desks'[a].locks = desks[a].locks
          /\ desks[a].late => desks'[a].late
        BY <1>3, OvertakenHas
    <2>2. InHand(desks[a])
        BY DEF HInv
    <2>3. desks[a].pc \in Filing => desks'[a].late \/ payroll' = payroll
        BY <1>3
    <2>4. At(a, "seal") => registers' = registers /\ (desks'[a].late \/ locked' \/ locked' = locked)
        BY <1>3
    <2> QED BY <2>1, <2>2, <2>3, <2>4 DEF InHand, OneRun, At, Filing
<1>4. ASSUME NEW a \in Actors, desks'[a] = Away PROVE InHand(desks[a])'
    BY <1>4, AwayInHand DEF InHand, Filing
<1>5. \A a \in Actors : InHand(desks[a])'
    <2> SUFFICES ASSUME NEW a \in Actors PROVE InHand(desks[a])'
        OBVIOUS
    <2>1. CASE desks' = Overtaken(pcs)
        BY <2>1, <1>3
    <2>2. CASE a # o
        BY <2>2, <1>2, <1>3
    <2>3. CASE a = o /\ desks' = [Overtaken(pcs) EXCEPT ![o] = Away]
        BY <2>3, <1>1, <1>4
    <2> QED BY <2>1, <2>2, <2>3
<1>6. \A a \in Actors : desks'[a].pc \in {desks[a].pc, "away"}
    BY <1>2, OvertakenHas, AwayInHand
<1>7. OneSeals'
    BY <1>6 DEF HInv, OneSeals, At
<1> QED BY <1>5, <1>7 DEF HInv

(* The rows a payroll run has written come from its run, so they are rows.   *)
LEMMA RunIsARow ==
    ASSUME TInv, NEW o \in Operators, At(o, "rows"), NEW e \in Employees, desks[o].rows[e].run = desks[o].run
    PROVE  desks[o].rows[e] # NoPay
<1>1. desks[o].run # 0
    BY DEF TInv, RunKnown, At, Actors
<1> QED BY <1>1 DEF NoPay

(* One run everywhere in the month: nobody is without a row if one has one.  *)
LEMMA OneRunAll ==
    ASSUME NEW rows \in Rows, OneRun(rows), PayrollRun(rows)
    PROVE  rows[1] # NoPay
<1>1. PICK e \in Employees : rows[e] # NoPay
    BY DEF PayrollRun
<1>2. rows[e] \in PayRow /\ rows[e].run # 0
    <2>1. rows[e] \in PayRow
        BY <1>1 DEF Rows
    <2>2. rows[e].run \in 1 .. MaxClicks
        BY <2>1 DEF PayRow
    <2> QED BY <2>1, <2>2, BoundAssumption
<1> QED BY <1>2, FirstEmployee DEF OneRun, NoPay

LEMMA RequestInHand ==
    ASSUME TInv, HInv, OneRun(payroll), NEW o \in Operators,
           \/ \E op \in {"grid", "payroll", "register"} : Open(o, op)
           \/ AssertOpen(o) \/ DeleteMonth(o) \/ Deleted(o) \/ AddRow(o)
           \/ ListPayroll(o) \/ Archive(o) \/ Log(o)
           \/ GridStep(o) \/ ClaimStep(o)
    PROVE  HInv'
<1> DEFINE d == desks'[o]
<1>0. o \in Actors /\ desks[o] \in Desk /\ payroll \in Rows /\ InHand(desks[o])
    BY DEF Actors, TInv, TypeOK, HInv
<1>1. UNCHANGED <<payroll, registers, locked>>
    BY DEF Open, AssertOpen, DeleteMonth, Deleted, AddRow, ListPayroll, Archive, Log,
           GridStep, CommitGrid, EditDay, ClaimStep, OpenClaim, Decide
<1>2. ASSUME NEW x, desks' = [desks EXCEPT ![o] = x], InHand(x),
             x.pc = "seal" => \A b \in Actors \ {o} : ~At(b, "seal")
      PROVE  HInv'
    BY <1>0, <1>1, <1>2, OneRow
<1>3. ASSUME Leave(o) PROVE HInv'
    BY <1>0, <1>1, <1>3, LeaveInHand
<1>4. ASSUME NEW op \in {"grid", "payroll", "register"}, Open(o, op) PROVE HInv'
    <2> DEFINE x == [Away EXCEPT !.pc = IF op = "register" THEN "list" ELSE "check",
                                 !.op = op, !.run = IF op = "payroll" THEN clicks' ELSE 0]
    <2>1. desks' = [desks EXCEPT ![o] = x]
        BY <1>4 DEF Open
    <2>2. x.pc \in {"list", "check"} /\ x.next = 1
        BY AwayType, AwayInHand DEF Desk
    <2> HIDE DEF x
    <2>3. InHand(x)
        BY <2>2 DEF InHand, Filing
    <2> QED BY <2>1, <2>2, <2>3, <1>2
<1>5. ASSUME AssertOpen(o) PROVE HInv'
    <2> DEFINE x == [desks[o] EXCEPT !.pc = IF desks[o].op = "grid" THEN "cells" ELSE "delete"]
    <2>1. Leave(o) \/ desks' = [desks EXCEPT ![o] = x]
        BY <1>5 DEF AssertOpen
    <2>2. x.pc \in {"cells", "delete"} /\ x.next = 1
        BY <1>0, <1>5 DEF Desk, AssertOpen, At, InHand
    <2> HIDE DEF x
    <2>3. InHand(x)
        BY <2>2 DEF InHand, Filing
    <2> QED BY <2>1, <2>2, <2>3, <1>2, <1>3
<1>6. ASSUME NEW e \in Employees, NEW entry \in Entries, EditDay(o, e, entry) PROVE HInv'
    <2> DEFINE x == [desks[o] EXCEPT !.cells[e] = Entered(entry)]
    <2>1. desks' = [desks EXCEPT ![o] = x]
        BY <1>6 DEF EditDay
    <2>2. x.pc = "cells" /\ x.next = 1
        BY <1>0, <1>6 DEF Desk, EditDay, At, InHand
    <2> HIDE DEF x
    <2>3. InHand(x)
        BY <2>2 DEF InHand, Filing
    <2> QED BY <2>1, <2>2, <2>3, <1>2
<1>7. ASSUME NEW e \in Employees, OpenClaim(o, e) PROVE HInv'
    <2> DEFINE x == [Away EXCEPT !.pc = "decide", !.emp = e, !.claim = claims[e]]
    <2>1. desks' = [desks EXCEPT ![o] = x]
        BY <1>7 DEF OpenClaim
    <2>2. x.pc = "decide" /\ x.next = 1
        BY AwayType, AwayInHand DEF Desk
    <2> HIDE DEF x
    <2>3. InHand(x)
        BY <2>2 DEF InHand, Filing
    <2> QED BY <2>1, <2>2, <2>3, <1>2
<1>8. ASSUME DeleteMonth(o) \/ Deleted(o) PROVE HInv'
    <2> DEFINE x == IF DeleteMonth(o) THEN [desks[o] EXCEPT !.pc = "wait", !.base = payroll]
                    ELSE [desks[o] EXCEPT !.pc = "rows"]
    <2>1. desks' = [desks EXCEPT ![o] = x]
        BY <1>8 DEF DeleteMonth, Deleted
    <2>2. x.pc \in {"wait", "rows"} /\ x.next = 1
        BY <1>0, <1>8 DEF Desk, DeleteMonth, Deleted, At, InHand
    <2> HIDE DEF x
    <2>3. \A e \in Employees : ~(e < x.next)
        BY <2>2 DEF Employees
    <2>4. InHand(x)
        BY <2>2, <2>3 DEF InHand, Filing
    <2> QED BY <2>1, <2>2, <2>4, <1>2
<1>9. ASSUME AddRow(o) PROVE HInv'
    <2> DEFINE n == desks[o].next
               x == [desks[o] EXCEPT !.next = n + 1, !.rows[n] = NewRow(o, n)]
    <2>1. desks' = [desks EXCEPT ![o] = x] /\ desks[o].pc = "rows" /\ n \in Employees
        BY <1>9 DEF AddRow, At
    <2>2. /\ x.pc = "rows" /\ x.next = n + 1 /\ x.run = desks[o].run
          /\ x.rows[n] = NewRow(o, n) /\ \A e \in Employees \ {n} : x.rows[e] = desks[o].rows[e]
        BY <1>0, <2>1 DEF Desk, Rows
    <2>3. NewRow(o, n).run = desks[o].run
        BY DEF NewRow
    <2>4. ASSUME NEW e \in Employees, e < n + 1 PROVE e = n \/ e < n
        BY <2>1, <2>4 DEF Employees
    <2> HIDE DEF x
    <2>5. InHand(x)
        BY <1>0, <2>1, <2>2, <2>3, <2>4 DEF InHand, Filing
    <2> QED BY <2>1, <2>2, <2>5, <1>2
<1>10. ASSUME ListPayroll(o) PROVE HInv'
    <2> DEFINE x == [desks[o] EXCEPT !.pc = "archive", !.rows = payroll]
    <2>1. Leave(o) \/ (PayrollRun(payroll) /\ desks' = [desks EXCEPT ![o] = x])
        BY <1>10 DEF ListPayroll
    <2>2. x.pc = "archive" /\ x.next = 1 /\ x.rows = payroll
        BY <1>0, <1>10 DEF Desk, ListPayroll, At, InHand
    <2> HIDE DEF x
    <2>3. ASSUME PayrollRun(payroll) PROVE InHand(x)
        BY <1>0, <2>2, <2>3, OneRunAll DEF InHand, Filing
    <2> QED BY <2>1, <2>2, <2>3, <1>2, <1>3
<1>11. ASSUME Archive(o) PROVE HInv'
    <2> DEFINE x == [desks[o] EXCEPT !.pc = "log", !.version = Len(registers) + 1]
    <2>1. desks' = [desks EXCEPT ![o] = x] /\ desks[o].pc = "archive"
        BY <1>11 DEF Archive, At
    <2>2. x.pc = "log" /\ x.next = desks[o].next /\ x.rows = desks[o].rows /\ x.late = desks[o].late
        BY <1>0 DEF Desk
    <2> HIDE DEF x
    <2>3. InHand(x)
        BY <1>0, <2>1, <2>2 DEF InHand, Filing
    <2> QED BY <2>1, <2>2, <2>3, <1>2
<1>12. ASSUME Log(o) PROVE HInv'
    <2> DEFINE x == [desks[o] EXCEPT !.pc = "seal", !.locks = Locks]
    <2>1. desks' = [desks EXCEPT ![o] = x] /\ desks[o].pc = "log" /\ desks[o].version = Len(registers) + 1
        BY <1>12 DEF Log, At
    <2>2. /\ x.pc = "seal" /\ x.next = desks[o].next /\ x.rows = desks[o].rows
          /\ x.late = desks[o].late /\ x.version = desks[o].version /\ x.locks = ~locked
        BY <1>0 DEF Desk, Locks
    <2> HIDE DEF x
    <2>3. InHand(x)
        BY <1>0, <2>1, <2>2 DEF InHand, Filing
    <2>4. \A b \in Actors \ {o} : ~At(b, "seal")
        BY <1>12 DEF Log
    <2> QED BY <2>1, <2>3, <2>4, <1>2
<1>13. ASSUME CommitGrid(o) \/ \E v \in Verdicts : Decide(o, v) PROVE HInv'
    BY <1>13, <1>3 DEF CommitGrid, Decide
<1> QED BY <1>4, <1>5, <1>6, <1>7, <1>8, <1>9, <1>10, <1>11, <1>12, <1>13 DEF GridStep, ClaimStep

LEMMA MonthInHand ==
    ASSUME TInv, HInv, NEW o \in Operators, Lock(o) \/ Unlock(o) \/ CommitPayroll(o) \/ Seal(o)
    PROVE  HInv'
<1> o \in Actors /\ desks[o] \in Desk
    BY DEF Actors, TInv, TypeOK
<1>1. ASSUME Lock(o) PROVE HInv'
    <2>1. desks' = Overtaken(Checked) /\ locked' /\ UNCHANGED <<payroll, registers>>
        BY <1>1 DEF Lock
    <2> QED BY <2>1, OthersInHand
<1>2. ASSUME Unlock(o) PROVE HInv'
    <2>1. desks' = Overtaken({"seal"}) /\ UNCHANGED <<payroll, registers>>
        BY <1>2 DEF Unlock
    <2>2. \A a \in Actors : At(a, "seal") => desks'[a].late
        BY <2>1, OvertakenHas DEF At
    <2> QED BY <2>1, <2>2, OthersInHand
<1>3. ASSUME CommitPayroll(o) PROVE HInv'
    <2>1. desks' = [Overtaken(Filing) EXCEPT ![o] = Away] /\ UNCHANGED <<locked, registers>>
        BY <1>3 DEF CommitPayroll
    <2>2. Overtaken(Filing) \in [Actors -> Desk]
        BY OvertakenType DEF TInv
    <2>3. ASSUME NEW a \in Actors, desks[a].pc \in Filing PROVE desks'[a].late \/ a = o
        BY <2>1, <2>2, <2>3, OvertakenHas
    <2>4. desks' # Overtaken(Filing)
        <3>1. Overtaken(Filing)[o].pc = "rows" /\ desks'[o].pc = "away"
            BY <1>3, <2>1, <2>2, OvertakenHas, AwayInHand DEF CommitPayroll, At
        <3> QED BY <3>1
    <2> QED BY <2>1, <2>3, <2>4, OthersInHand
<1>4. ASSUME Seal(o) PROVE HInv'
    <2> DEFINE pcs == IF desks[o].locks THEN Checked ELSE {}
    <2>1. Overtaken({}) = desks
        BY DEF Overtaken, TInv, TypeOK
    <2>2. desks' = [Overtaken(pcs) EXCEPT ![o] = Away] /\ payroll' = payroll
        BY <1>4, <2>1 DEF Seal
    <2>3. locked' \/ locked' = locked
        BY <1>4 DEF Seal, TInv, TypeOK
    <2>4. \A a \in Actors : At(a, "seal") => a = o
        BY <1>4 DEF Seal, HInv, OneSeals
    <2>5. desks' # Overtaken(pcs)
        <3>1. Overtaken(pcs) \in [Actors -> Desk]
            BY OvertakenType DEF TInv
        <3>2. Overtaken(pcs)[o].pc = "seal" /\ desks'[o].pc = "away"
            BY <1>4, <2>2, <3>1, OvertakenHas, AwayInHand DEF Seal, At
        <3> QED BY <3>2
    <2> HIDE DEF pcs
    <2> QED BY <2>2, <2>3, <2>4, <2>5, OthersInHand
<1> QED BY <1>1, <1>2, <1>3, <1>4

LEMMA NextInHand == TInv /\ HInv /\ OneRun(payroll) /\ [Next]_vars => HInv'
<1> SUFFICES ASSUME TInv, HInv, OneRun(payroll), [Next]_vars PROVE HInv'
    OBVIOUS
<1>1. ASSUME NEW a \in Actors, Leave(a), UNCHANGED <<payroll, registers, locked>> PROVE HInv'
    BY <1>1, LeaveInHand
<1>2. ASSUME UNCHANGED <<payroll, registers, locked, desks>> PROVE HInv'
    BY <1>2 DEF HInv, OneSeals, InHand, At
<1>3. ASSUME NEW k \in Kiosks, NEW e \in Employees, Recognise(k, e) PROVE HInv'
    <2> DEFINE x == [Away EXCEPT !.pc = "punch", !.emp = e, !.seen = att[e]]
    <2>1. desks' = [desks EXCEPT ![k] = x] /\ UNCHANGED <<payroll, registers, locked>> /\ k \in Actors
        BY <1>3 DEF Recognise, Actors
    <2>2. x.pc = "punch" /\ x.next = 1
        BY AwayType, AwayInHand DEF Desk
    <2> HIDE DEF x
    <2>3. InHand(x)
        BY <2>2 DEF InHand, Filing
    <2> QED BY <2>1, <2>2, <2>3, OneRow
<1>4. ASSUME NEW k \in Kiosks, PunchStep(k) PROVE HInv'
    BY <1>4, <1>1, <1>3 DEF PunchStep, Punch, Actors
<1>5. ASSUME \E a \in Actors : RollBack(a) PROVE HInv'
    BY <1>5, <1>1 DEF RollBack
<1>6. ASSUME \/ UNCHANGED vars \/ \E e \in Employees : Submit(e)
             \/ \E o \in Operators, e \in Employees : Offboard(o, e)
      PROVE  HInv'
    BY <1>6, <1>2 DEF vars, Submit, Offboard
<1>7. ASSUME NEW o \in Operators,
             \/ \E op \in {"grid", "payroll", "register"} : Open(o, op)
             \/ AssertOpen(o) \/ Lock(o) \/ Unlock(o)
             \/ GridStep(o) \/ PayrollStep(o) \/ RegisterStep(o) \/ ClaimStep(o)
      PROVE  HInv'
    BY <1>7, RequestInHand, MonthInHand DEF PayrollStep, RegisterStep
<1> QED BY <1>4, <1>5, <1>6, <1>7 DEF Next

(* The payroll changes at a commit, the registers when one is sealed.        *)
LEMMA WhatChanges ==
    ASSUME [Next]_vars
    PROVE  /\ payroll' = payroll \/ \E o \in Operators : CommitPayroll(o)
           /\ registers' = registers \/ \E o \in Operators : Seal(o)
<1> USE DEF GridStep, CommitGrid, EditDay, ClaimStep, OpenClaim, Decide, Open, AssertOpen, Lock, Unlock,
            Offboard, Submit, PunchStep, Recognise, Punch, RollBack, vars
<1>1. CASE UNCHANGED vars
    BY <1>1
<1>2. CASE \E o \in Operators : PayrollStep(o)
    BY <1>2 DEF PayrollStep, DeleteMonth, Deleted, AddRow, CommitPayroll
<1>3. CASE \E o \in Operators : RegisterStep(o)
    BY <1>3 DEF RegisterStep, ListPayroll, Archive, Log, Seal
<1>4. CASE Next /\ ~(\E o \in Operators : PayrollStep(o) \/ RegisterStep(o))
    BY <1>4 DEF Next
<1> QED BY <1>1, <1>2, <1>3, <1>4

(* A run that commits has written the rows of everybody.                     *)
LEMMA CommitReplaces ==
    ASSUME TInv, HInv, NEW o \in Operators, CommitPayroll(o)
    PROVE  payroll' = desks[o].rows /\ OneRun(payroll')
<1>1. o \in Actors /\ desks[o] \in Desk /\ desks[o].rows \in Rows /\ At(o, "rows") /\ InHand(desks[o])
    BY DEF Actors, TInv, TypeOK, HInv, CommitPayroll, Desk
<1>2. \A e \in Employees : e < desks[o].next
    <2>1. desks[o].next \in 1 .. Headcount + 1 /\ desks[o].next > Headcount
        BY <1>1 DEF Desk, CommitPayroll
    <2> QED BY <2>1, RollAssumption DEF Employees
<1>3. \A e \in Employees : desks[o].rows[e].run = desks[o].run /\ desks[o].rows[e] # NoPay
    BY <1>1, <1>2, RunIsARow DEF InHand, At
<1>4. payroll' = [e \in Employees |-> desks[o].rows[e]]
    BY <1>3 DEF CommitPayroll
<1> QED BY <1>1, <1>3, <1>4 DEF OneRun, Rows

LEMMA StepOneRun == TInv /\ HInv /\ FiguresOfOneRun /\ [Next]_vars => FiguresOfOneRun'
<1> SUFFICES ASSUME TInv, HInv, FiguresOfOneRun, [Next]_vars PROVE FiguresOfOneRun'
    OBVIOUS
<1>1. OneRun(payroll')
    BY WhatChanges, CommitReplaces DEF FiguresOfOneRun
<1>2. CASE registers' = registers
    BY <1>1, <1>2 DEF FiguresOfOneRun, OneRun
<1>3. ASSUME NEW o \in Operators, Seal(o) PROVE FiguresOfOneRun'
    <2> DEFINE r == [version |-> desks[o].version, rows |-> desks[o].rows, exact |-> ~desks[o].late]
    <2>1. registers' = Append(registers, r) /\ registers \in Seq(Register) /\ desks[o] \in Desk
        BY <1>3 DEF Seal, TInv, TypeOK, Actors
    <2>2. r.version = Len(registers) + 1 /\ OneRun(r.rows) /\ r.rows[1] # NoPay
        BY <1>3 DEF Seal, HInv, InHand, At, Actors, Filing
    <2>3. r \in Register
        BY <2>1 DEF Desk, Register
    <2> HIDE DEF r
    <2>4. /\ Len(registers') = Len(registers) + 1 /\ registers'[Len(registers) + 1] = r
          /\ \A i \in 1 .. Len(registers) : registers'[i] = registers[i]
          /\ Len(registers) \in Nat
        BY <2>1, <2>3
    <2>5. ASSUME NEW i \in 1 .. Len(registers')
          PROVE  registers'[i].version = i /\ OneRun(registers'[i].rows) /\ registers'[i].rows[1] # NoPay
        <3>1. i \in 1 .. Len(registers) \/ i = Len(registers) + 1
            BY <2>4
        <3> QED BY <3>1, <2>2, <2>4 DEF FiguresOfOneRun
    <2> QED BY <1>1, <2>5 DEF FiguresOfOneRun, OneRun
<1> QED BY <1>2, <1>3, WhatChanges

LEMMA InitInHand == Init => HInv /\ FiguresOfOneRun
<1> SUFFICES ASSUME Init PROVE HInv /\ FiguresOfOneRun
    OBVIOUS
<1>1. HInv
    BY AwayInHand DEF Init, HInv, OneSeals, At
<1>2. FiguresOfOneRun
    BY DEF Init, FiguresOfOneRun, OneRun
<1> QED BY <1>1, <1>2

LEMMA MonthInv == Spec => [](TInv /\ LockSeen /\ HInv /\ FiguresOfOneRun)
<1>1. Init => LockSeen
    BY DEF Init, LockSeen
<1>2. FiguresOfOneRun => OneRun(payroll)
    BY DEF FiguresOfOneRun
<1> QED BY <1>1, <1>2, InitTyped, NextTyped, NextLockSeen, InitInHand, NextInHand, StepOneRun, PTL DEF Spec

(* The payroll of the month and every register hold the figures of one run,  *)
(* however payroll runs and register requests interleave.                    *)
THEOREM OneRunThroughout == Spec => []FiguresOfOneRun
BY MonthInv, PTL

-----------------------------------------------------------------------------
(* What is submitted is what is on file.                                     *)
LEMMA StepOnFile ==
    TInv /\ LockSeen /\ HInv /\ SubmittedIsOnFile /\ [Next]_vars => SubmittedIsOnFile'
<1> SUFFICES ASSUME TInv, LockSeen, HInv, SubmittedIsOnFile, [Next]_vars PROVE SubmittedIsOnFile'
    OBVIOUS
<1>1. ASSUME NEW o \in Operators, CommitPayroll(o) PROVE SubmittedIsOnFile'
    <2>1. desks[o].late \/ ~locked
        BY <1>1 DEF LockSeen, CommitPayroll, At, Checked, Actors
    <2>2. reopened' = (reopened \/ desks[o].late) /\ UNCHANGED <<registers, locked>>
        BY <1>1 DEF CommitPayroll
    <2> QED BY <2>1, <2>2 DEF SubmittedIsOnFile
<1>2. ASSUME NEW o \in Operators, Seal(o) PROVE SubmittedIsOnFile'
    <2> DEFINE r == [version |-> desks[o].version, rows |-> desks[o].rows, exact |-> ~desks[o].late]
    <2>1. registers' = Append(registers, r) /\ registers \in Seq(Register) /\ desks[o] \in Desk
        BY <1>2 DEF Seal, TInv, TypeOK, Actors
    <2>2. r \in Register /\ r.rows = desks[o].rows /\ (r.exact => ~desks[o].late)
        BY <2>1 DEF Desk, Register
    <2> HIDE DEF r
    <2>3. registers'[Len(registers')] = r
        BY <2>1, <2>2
    <2>4. ~desks[o].late => desks[o].rows = payroll /\ (locked \/ desks[o].locks)
        BY <1>2 DEF Seal, HInv, InHand, At, Actors, Filing
    <2>5. locked' = (locked \/ desks[o].locks) /\ payroll' = payroll
        BY <1>2 DEF Seal
    <2> QED BY <2>2, <2>3, <2>4, <2>5 DEF SubmittedIsOnFile
<1>3. ASSUME NEW o \in Operators, Unlock(o) PROVE SubmittedIsOnFile'
    BY <1>3 DEF Unlock, SubmittedIsOnFile
<1>4. ASSUME payroll' = payroll, registers' = registers, locked => locked', reopened' = reopened PROVE SubmittedIsOnFile'
    BY <1>4 DEF SubmittedIsOnFile
<1>5. CASE UNCHANGED vars
    BY <1>4, <1>5 DEF vars
<1>6. ASSUME NEW o \in Operators,
             \/ \E op \in {"grid", "payroll", "register"} : Open(o, op)
             \/ AssertOpen(o) \/ Lock(o) \/ GridStep(o) \/ ClaimStep(o)
             \/ \E e \in Employees : Offboard(o, e)
      PROVE  SubmittedIsOnFile'
    BY <1>4, <1>6 DEF Open, AssertOpen, Lock, GridStep, CommitGrid, EditDay, ClaimStep, OpenClaim, Decide, Offboard
<1>7. ASSUME NEW o \in Operators, PayrollStep(o) \/ RegisterStep(o) PROVE SubmittedIsOnFile'
    BY <1>1, <1>2, <1>4, <1>7
       DEF PayrollStep, DeleteMonth, Deleted, AddRow, RegisterStep, ListPayroll, Archive, Log
<1>8. ASSUME \/ \E e \in Employees : Submit(e)
             \/ \E k \in Kiosks : PunchStep(k)
             \/ \E a \in Actors : RollBack(a)
      PROVE  SubmittedIsOnFile'
    BY <1>4, <1>8 DEF Submit, PunchStep, Recognise, Punch, RollBack
<1> QED BY <1>3, <1>5, <1>6, <1>7, <1>8 DEF Next

(* The figures of the last register are those on file, behind a lock, until  *)
(* the month is unlocked or a late request writes.                           *)
THEOREM SubmittedStands == Spec => []SubmittedIsOnFile
<1>1. Init => SubmittedIsOnFile
    BY DEF Init, SubmittedIsOnFile
<1>2. Spec => [](TInv /\ LockSeen /\ HInv)
    BY MonthInv, PTL
<1> QED BY <1>1, <1>2, StepOnFile, PTL DEF Spec

-----------------------------------------------------------------------------
(* A row pays the claim of its employee only if it is approved.              *)
Earned(row, e) == row # NoPay /\ row.reimbursed => claims[e] = "approved"

PInv ==
    \A e \in Employees \ overruled :
        Earned(payroll[e], e) /\ \A a \in Actors : Earned(desks[a].rows[e], e)

(* An approved claim stays approved, unless it is overruled.                 *)
LEMMA ClaimsStand ==
    ASSUME TInv, [Next]_vars, NEW e \in Employees \ overruled'
    PROVE  e \notin overruled /\ (claims[e] = "approved" => claims'[e] = "approved")
<1>1. ASSUME NEW o \in Operators, NEW v \in Verdicts, Decide(o, v)
      PROVE  e \notin overruled /\ (claims[e] = "approved" => claims'[e] = "approved")
    <2>1. desks[o].claim = "pending" /\ claims' = [claims EXCEPT ![desks[o].emp] = v]
          /\ overruled' = IF claims[desks[o].emp] = desks[o].claim THEN overruled ELSE overruled \cup {desks[o].emp}
        BY <1>1 DEF Decide, Undecided
    <2>2. e = desks[o].emp => claims[e] = "pending"
        BY <2>1
    <2>3. e # desks[o].emp => claims'[e] = claims[e]
        BY <2>1 DEF TInv, TypeOK
    <2> QED BY <2>1, <2>2, <2>3
<1>2. ASSUME NEW f \in Employees, Submit(f)
      PROVE  e \notin overruled /\ (claims[e] = "approved" => claims'[e] = "approved")
    BY <1>2 DEF Submit, TInv, TypeOK
<1>3. \/ UNCHANGED <<claims, overruled>>
      \/ \E o \in Operators, v \in Verdicts : Decide(o, v)
      \/ \E f \in Employees : Submit(f)
    <2> USE DEF GridStep, CommitGrid, EditDay, ClaimStep, OpenClaim, Open, AssertOpen, Lock, Unlock,
                Offboard, PunchStep, Recognise, Punch, RollBack, vars
    <2>1. CASE UNCHANGED vars
        BY <2>1
    <2>2. CASE \E o \in Operators : PayrollStep(o) \/ RegisterStep(o)
        BY <2>2 DEF PayrollStep, DeleteMonth, Deleted, AddRow, CommitPayroll,
                    RegisterStep, ListPayroll, Archive, Log, Seal
    <2>3. CASE Next /\ ~(\E o \in Operators : PayrollStep(o) \/ RegisterStep(o))
        BY <2>3 DEF Next
    <2> QED BY <2>1, <2>2, <2>3
<1> QED BY <1>1, <1>2, <1>3

(* Where a request has its rows from.                                        *)
RowsFrom(a) ==
    \A e \in Employees :
        \/ desks'[a].rows[e] \in {NoPay, desks[a].rows[e], payroll[e]}
        \/ desks'[a].rows[e].reimbursed => claims[e] = "approved"

LEMMA OneWrites ==
    ASSUME TInv, NEW o \in Actors, NEW d, desks' = [desks EXCEPT ![o] = d],
           \A e \in Employees :
              \/ d.rows[e] \in {NoPay, desks[o].rows[e], payroll[e]}
              \/ d.rows[e].reimbursed => claims[e] = "approved"
    PROVE  \A a \in Actors : RowsFrom(a)
<1>1. \A a \in Actors : desks'[a] = IF a = o THEN d ELSE desks[a]
    BY DEF TInv, TypeOK
<1> QED BY <1>1 DEF RowsFrom

LEMMA AwayRows == \A e \in Employees : Away.rows[e] = NoPay
BY DEF Away

LEMMA LeaveWrites ==
    ASSUME TInv, NEW o \in Actors, Leave(o)
    PROVE  \A a \in Actors : RowsFrom(a)
<1> DEFINE d == Away
<1>1. desks' = [desks EXCEPT ![o] = d] /\ \A e \in Employees : d.rows[e] \in {NoPay, desks[o].rows[e], payroll[e]}
    BY AwayRows DEF Leave
<1> HIDE DEF d
<1> QED BY <1>1, OneWrites

LEMMA OvertakenWrites ==
    ASSUME TInv, NEW pcs, NEW o \in Actors,
           desks' = Overtaken(pcs) \/ desks' = [Overtaken(pcs) EXCEPT ![o] = Away]
    PROVE  \A a \in Actors : RowsFrom(a)
<1>1. Overtaken(pcs) \in [Actors -> Desk]
    BY OvertakenType DEF TInv
<1>2. \A a \in Actors : desks'[a] = Overtaken(pcs)[a] \/ desks'[a] = Away
    BY <1>1
<1> QED BY <1>2, OvertakenHas, AwayRows DEF RowsFrom

LEMMA WriteRows == TInv /\ [Next]_vars => \A a \in Actors : RowsFrom(a)
<1> SUFFICES ASSUME TInv, [Next]_vars PROVE \A a \in Actors : RowsFrom(a)
    OBVIOUS
<1> DEFINE Goal == \A a \in Actors : RowsFrom(a)
<1>0. \A a \in Actors : desks[a] \in Desk
    BY DEF TInv, TypeOK
<1>1. ASSUME UNCHANGED desks PROVE Goal
    BY <1>1 DEF RowsFrom
<1>2. ASSUME NEW a \in Actors, Leave(a) PROVE Goal
    BY <1>2, LeaveWrites
<1>3. ASSUME NEW o \in Operators, NEW op \in {"grid", "payroll", "register"}, Open(o, op) PROVE Goal
    <2> DEFINE d == [Away EXCEPT !.pc = IF op = "register" THEN "list" ELSE "check",
                                 !.op = op, !.run = IF op = "payroll" THEN clicks' ELSE 0]
    <2>1. desks' = [desks EXCEPT ![o] = d] /\ o \in Actors
        BY <1>3 DEF Open, Actors
    <2>2. d.rows = Away.rows
        BY AwayType DEF Desk
    <2>3. \A e \in Employees : d.rows[e] \in {NoPay, desks[o].rows[e], payroll[e]}
        BY <2>2, AwayRows
    <2> HIDE DEF d
    <2> QED BY <2>1, <2>3, OneWrites
<1>4. ASSUME NEW a \in Actors, NEW e \in Employees, OpenClaim(a, e) \/ Recognise(a, e) PROVE Goal
    <2> DEFINE d == IF OpenClaim(a, e) THEN [Away EXCEPT !.pc = "decide", !.emp = e, !.claim = claims[e]]
                    ELSE [Away EXCEPT !.pc = "punch", !.emp = e, !.seen = att[e]]
    <2>1. desks' = [desks EXCEPT ![a] = d]
        BY <1>4 DEF OpenClaim, Recognise
    <2>2. d.rows = Away.rows
        BY AwayType DEF Desk
    <2>3. \A f \in Employees : d.rows[f] \in {NoPay, desks[a].rows[f], payroll[f]}
        BY <2>2, AwayRows
    <2> HIDE DEF d
    <2> QED BY <2>1, <2>3, OneWrites
<1>5. ASSUME NEW o \in Operators, AssertOpen(o) PROVE Goal
    <2> DEFINE d == [desks[o] EXCEPT !.pc = IF desks[o].op = "grid" THEN "cells" ELSE "delete"]
    <2>1. (Leave(o) \/ desks' = [desks EXCEPT ![o] = d]) /\ o \in Actors
        BY <1>5 DEF AssertOpen, Actors
    <2>2. d.rows = desks[o].rows
        BY <1>0, <2>1 DEF Desk
    <2> HIDE DEF d
    <2> QED BY <2>1, <2>2, <1>2, OneWrites
<1>6. ASSUME NEW o \in Operators, NEW e \in Employees, NEW entry \in Entries, EditDay(o, e, entry) PROVE Goal
    <2> DEFINE d == [desks[o] EXCEPT !.cells[e] = Entered(entry)]
    <2>1. desks' = [desks EXCEPT ![o] = d] /\ o \in Actors
        BY <1>6 DEF EditDay, Actors
    <2>2. d.rows = desks[o].rows
        BY <1>0, <2>1 DEF Desk
    <2> HIDE DEF d
    <2> QED BY <2>1, <2>2, OneWrites
<1>7. ASSUME NEW o \in Operators, DeleteMonth(o) \/ Deleted(o) \/ Archive(o) \/ Log(o) PROVE Goal
    <2> DEFINE d == IF DeleteMonth(o) THEN [desks[o] EXCEPT !.pc = "wait", !.base = payroll]
                    ELSE IF Deleted(o) THEN [desks[o] EXCEPT !.pc = "rows"]
                    ELSE IF Archive(o) THEN [desks[o] EXCEPT !.pc = "log", !.version = Len(registers) + 1]
                    ELSE [desks[o] EXCEPT !.pc = "seal", !.locks = Locks]
    <2>1. desks' = [desks EXCEPT ![o] = d] /\ o \in Actors
        BY <1>7 DEF DeleteMonth, Deleted, Archive, Log, Actors
    <2>2. d.rows = desks[o].rows
        BY <1>0, <2>1 DEF Desk
    <2> HIDE DEF d
    <2> QED BY <2>1, <2>2, OneWrites
<1>8. ASSUME NEW o \in Operators, AddRow(o) PROVE Goal
    <2> DEFINE n == desks[o].next
               d == [desks[o] EXCEPT !.next = n + 1, !.rows[n] = NewRow(o, n)]
    <2>1. desks' = [desks EXCEPT ![o] = d] /\ n \in Employees /\ o \in Actors
        BY <1>8 DEF AddRow, Actors
    <2>2. d.rows[n] = NewRow(o, n) /\ \A e \in Employees \ {n} : d.rows[e] = desks[o].rows[e]
        BY <1>0, <2>1 DEF Desk, Rows
    <2>3. NewRow(o, n).reimbursed => claims[n] = "approved"
        BY DEF NewRow
    <2>4. \A e \in Employees :
             \/ d.rows[e] \in {NoPay, desks[o].rows[e], payroll[e]}
             \/ d.rows[e].reimbursed => claims[e] = "approved"
        BY <2>2, <2>3
    <2> HIDE DEF d
    <2> QED BY <2>1, <2>4, OneWrites
<1>9. ASSUME NEW o \in Operators, ListPayroll(o) PROVE Goal
    <2> DEFINE d == [desks[o] EXCEPT !.pc = "archive", !.rows = payroll]
    <2>1. (Leave(o) \/ desks' = [desks EXCEPT ![o] = d]) /\ o \in Actors
        BY <1>9 DEF ListPayroll, Actors
    <2>2. d.rows = payroll
        BY <1>0, <2>1 DEF Desk
    <2> HIDE DEF d
    <2> QED BY <2>1, <2>2, <1>2, OneWrites
<1>10. ASSUME NEW o \in Operators, Lock(o) \/ Unlock(o) \/ CommitPayroll(o) \/ Seal(o) PROVE Goal
    <2>1. o \in Actors
        BY DEF Actors
    <2>2. \/ Leave(o)
          \/ \E pcs \in {Checked, {"seal"}, Filing} :
                desks' = Overtaken(pcs) \/ desks' = [Overtaken(pcs) EXCEPT ![o] = Away]
        BY <1>10 DEF Lock, Unlock, CommitPayroll, Seal, Leave
    <2> QED BY <2>1, <2>2, <1>2, OvertakenWrites
<1>11. ASSUME NEW o \in Operators,
              \/ \E op \in {"grid", "payroll", "register"} : Open(o, op)
              \/ AssertOpen(o) \/ Lock(o) \/ Unlock(o)
              \/ \E e \in Employees : Offboard(o, e)
       PROVE  Goal
    BY <1>11, <1>1, <1>3, <1>5, <1>10 DEF Offboard
<1>12. ASSUME NEW o \in Operators, GridStep(o) \/ ClaimStep(o) PROVE Goal
    BY <1>12, <1>2, <1>4, <1>6 DEF GridStep, CommitGrid, ClaimStep, Decide, Actors
<1>13. ASSUME NEW o \in Operators, PayrollStep(o) \/ RegisterStep(o) PROVE Goal
    BY <1>13, <1>7, <1>8, <1>9, <1>10 DEF PayrollStep, RegisterStep
<1>14. ASSUME \/ UNCHANGED vars \/ \E e \in Employees : Submit(e)
              \/ \E k \in Kiosks : PunchStep(k)
              \/ \E a \in Actors : RollBack(a)
       PROVE  Goal
    BY <1>14, <1>1, <1>2, <1>4 DEF vars, Submit, PunchStep, Punch, RollBack, Actors
<1> QED BY <1>11, <1>12, <1>13, <1>14 DEF Next

LEMMA NextEarned == TInv /\ HInv /\ PInv /\ [Next]_vars => PInv'
<1> SUFFICES ASSUME TInv, HInv, PInv, [Next]_vars, NEW e \in Employees, e \notin overruled'
             PROVE  Earned(payroll[e], e)' /\ \A a \in Actors : Earned(desks[a].rows[e], e)'
    BY DEF PInv
<1>1. e \notin overruled /\ (claims[e] = "approved" => claims'[e] = "approved")
    BY ClaimsStand
<1>2. payroll'[e] = payroll[e] \/ \E o \in Operators : payroll'[e] = desks[o].rows[e]
    BY WhatChanges, CommitReplaces
<1>3. Earned(payroll[e], e) /\ \A a \in Actors : Earned(desks[a].rows[e], e)
    BY <1>1 DEF PInv
<1>4. Earned(payroll[e], e)'
    BY <1>1, <1>2, <1>3 DEF Earned, Actors
<1>5. ASSUME NEW a \in Actors PROVE Earned(desks[a].rows[e], e)'
    <2>1. \/ desks'[a].rows[e] \in {NoPay, desks[a].rows[e], payroll[e]}
          \/ desks'[a].rows[e].reimbursed => claims[e] = "approved"
        BY WriteRows DEF RowsFrom
    <2> QED BY <2>1, <1>1, <1>3 DEF Earned
<1> QED BY <1>4, <1>5

(* Only approved claims are paid, for any roll and however decisions and     *)
(* payroll runs interleave; a claim decided twice from old copies excepted.  *)
THEOREM OnlyApprovedPaid == Spec => []PaidClaimsApproved
<1>1. Init => PInv
    BY AwayRows DEF Init, PInv, Earned
<1>2. PInv => PaidClaimsApproved
    BY DEF PInv, PaidClaimsApproved, Earned
<1>3. Spec => [](TInv /\ HInv)
    BY MonthInv, PTL
<1> QED BY <1>1, <1>2, <1>3, NextEarned, PTL DEF Spec

-----------------------------------------------------------------------------
(* A punch on the day it looked at keeps the other swipe.                    *)
OtherKept ==
    \A k \in Kiosks : LET e == desks[k].emp IN
        At(k, "punch") /\ att'[e] # att[e] /\ Ends(k) /\ desks[k].seen = att[e] =>
            att'[e].in = att[e].in \/ att'[e].out = att[e].out

LEMMA StepKeeps == TInv /\ [Next]_vars => OtherKept
<1> SUFFICES ASSUME TInv, [Next]_vars, NEW k \in Kiosks, At(k, "punch"), Ends(k),
                    att'[desks[k].emp] # att[desks[k].emp], desks[k].seen = att[desks[k].emp]
             PROVE  \/ att'[desks[k].emp].in = att[desks[k].emp].in
                    \/ att'[desks[k].emp].out = att[desks[k].emp].out
    BY DEF OtherKept
<1>1. k \in Actors /\ desks[k] \in Desk /\ att \in [Employees -> Cell] /\ desks[k].emp \in Employees
    BY DEF Actors, TInv, TypeOK, Desk
<1>2. \/ \E o \in Operators : CommitGrid(o)
      \/ UNCHANGED desks
      \/ \E q \in Kiosks, direction \in {"in", "out"}, same \in BOOLEAN, time \in Times : Punch(q, direction, same, time)
      \/ UNCHANGED att
    <2> USE DEF GridStep, EditDay, ClaimStep, OpenClaim, Decide, Open, AssertOpen, Lock, Unlock,
                Offboard, Submit, PunchStep, Recognise, RollBack, vars
    <2>1. CASE UNCHANGED vars
        BY <2>1
    <2>2. CASE \E o \in Operators : PayrollStep(o) \/ RegisterStep(o)
        BY <2>2 DEF PayrollStep, DeleteMonth, Deleted, AddRow, CommitPayroll,
                    RegisterStep, ListPayroll, Archive, Log, Seal
    <2>3. CASE Next /\ ~(\E o \in Operators : PayrollStep(o) \/ RegisterStep(o))
        BY <2>3 DEF Next
    <2> QED BY <2>1, <2>2, <2>3
<1>3. ASSUME NEW a \in Actors, Leave(a) PROVE a = k
    BY <1>1, <1>3 DEF Leave, Ends, TInv, TypeOK
<1>4. ~(\E o \in Operators : CommitGrid(o))
    BY <1>3 DEF CommitGrid, At, Actors
<1>5. ~UNCHANGED desks
    BY AwayType DEF Ends
<1>6. PICK direction \in {"in", "out"}, same \in BOOLEAN, time \in Times : Punch(k, direction, same, time)
    BY <1>2, <1>3, <1>4, <1>5 DEF Punch, Actors
<1>7. att'[desks[k].emp] = Punched(desks[k].seen, att[desks[k].emp], direction, same, time)
    BY <1>1, <1>6 DEF Punch
<1> QED BY <1>7 DEF Punched

(* However check-ins, grid edits and offboardings interleave, a punch does   *)
(* not lose the swipe that was there when the check-in looked.               *)
THEOREM SwipesKept == Spec => PunchKeepsTheOther
<1>1. Spec => []TInv
    BY InitTyped, NextTyped, PTL DEF Spec
<1>2. TInv /\ [Next]_vars => [OtherKept]_vars
    BY StepKeeps
<1>3. [][OtherKept]_vars <=> PunchKeepsTheOther
    BY DEF OtherKept, PunchKeepsTheOther
<1> QED BY <1>1, <1>2, <1>3, PTL DEF Spec
=============================================================================
