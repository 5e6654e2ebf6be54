------------------------------- MODULE HrMonth -------------------------------
(***************************************************************************)
(* One month of the HR module: operators edit the attendance grid, run the *)
(* payroll, generate the statutory register (which locks the month), lock, *)
(* unlock and decide expense claims, while check-ins and offboardings      *)
(* write attendance too.  Grid, payroll and register requests are          *)
(* transactions at READ COMMITTED: their writes show at the commit, and a  *)
(* row or a unique key another transaction has written is waited for.      *)
(***************************************************************************)
EXTENDS Naturals, Sequences

CONSTANTS
    Headcount,     \* employees on the roll, in the order of their codes
    Operators,     \* people at the HR screens
    Kiosks,        \* check-ins at a time
    Enrolled,      \* employees whose face is known
    Claimants,     \* employees with expenses in the month
    Times,         \* swipe times
    NoTime,        \* no swipe
    Window,        \* <<in, out>>: the shift's standard window
    Entries,       \* what an operator may type into a day
    MaxClicks      \* bound: operator requests

Employees == 1 .. Headcount
Actors    == Operators \cup Kiosks
Verdicts  == {"approved", "rejected"}

(* The day of an employee the model looks at, for example the last of the    *)
(* month: a night shift's row is completed in the next one.                  *)
Swipe  == Times \cup {NoTime}
Cell   == [status : {"none", "present", "off", "left"}, in : Swipe, out : Swipe]
NoCell == [status |-> "none", in |-> NoTime, out |-> NoTime]
Kept   == [status |-> "kept"]                  \* a cell a transaction leaves alone
NoPay  == [run |-> 0]
PayRow == [run : 1 .. MaxClicks, cell : Cell, reimbursed : BOOLEAN]

ASSUME RollAssumption   == Headcount \in Nat \ {0} /\ Operators \cap Kiosks = {}
ASSUME StaffAssumption  == Enrolled \subseteq Employees /\ Claimants \subseteq Employees
ASSUME TimeAssumption   == NoTime \notin Times /\ Window \in Times \X Times
ASSUME EntryAssumption  == Entries \subseteq [status : {"none", "present", "off"}, in : Swipe, out : Swipe]
ASSUME BoundAssumption  == MaxClicks \in Nat

VARIABLES
    att,        \* the Attendance rows
    payroll,    \* the Payroll rows of the month
    claims,     \* one expense claim per employee, dated in the month
    registers,  \* the GenerationLog rows
    locked,     \* BusinessPeriod.is_locked
    desks,      \* the request an actor has under way
    overruled,  \* history: employees whose claim was decided from an old copy
    reopened,   \* history: unlocked, or written by a late request, since the last register
    clicks

vars == <<att, payroll, claims, registers, locked, desks, overruled, reopened, clicks>>

(* cells: the edits of a grid request; base, rows: the payroll rows a run    *)
(* deletes and inserts, or those a register reads;                           *)
(* late: the month was locked or unlocked, or the payroll replaced, after    *)
(* the request had looked.                                                   *)
Away == [pc |-> "away", op |-> "none", emp |-> 1, run |-> 0, next |-> 1, version |-> 0,
         cells |-> [e \in Employees |-> Kept], base |-> [e \in Employees |-> NoPay],
         rows |-> [e \in Employees |-> NoPay], seen |-> NoCell, claim |-> "none",
         locks |-> FALSE, late |-> FALSE]

Init ==
    /\ att = [e \in Employees |-> NoCell]
    /\ payroll = [e \in Employees |-> NoPay]
    /\ claims = [e \in Employees |-> "none"]
    /\ registers = <<>>
    /\ locked = FALSE
    /\ desks = [a \in Actors |-> Away]
    /\ overruled = {} /\ reopened = FALSE
    /\ clicks = 0

At(a, pc) == desks[a].pc = pc

(* Requests past assert_open are late from the moment the month is locked,   *)
(* registers under way from the moment the payroll changes, or the month is  *)
(* unlocked after they found it locked.                                      *)
Overtaken(pcs) == [a \in Actors |-> IF desks[a].pc \in pcs THEN [desks[a] EXCEPT !.late = TRUE] ELSE desks[a]]
Checked == {"cells", "delete", "wait", "rows"}
Filing  == {"archive", "log", "seal"}

Leave(a) == desks' = [desks EXCEPT ![a] = Away]

(* Another transaction has written the day and not committed.                *)
DayHeld(e, a) == \E b \in Actors \ {a} : At(b, "cells") /\ desks[b].cells[e] # Kept

-----------------------------------------------------------------------------
(* Requests of operators, and the guard of the period.                       *)
Click == clicks < MaxClicks /\ clicks' = clicks + 1

Open(o, op) ==
    /\ At(o, "away") /\ Click
    /\ desks' = [desks EXCEPT ![o] = [Away EXCEPT !.pc = IF op = "register" THEN "list" ELSE "check",
                                                  !.op = op, !.run = IF op = "payroll" THEN clicks' ELSE 0]]
    /\ UNCHANGED <<att, payroll, claims, registers, locked, overruled, reopened>>

(* Variant: nobody looks at the lock.                                        *)
OpenMonthAlways == TRUE
OpenMonth       == ~locked

AssertOpen(o) ==
    /\ At(o, "check")
    /\ \/ /\ OpenMonth
          /\ desks' = [desks EXCEPT ![o].pc = IF desks[o].op = "grid" THEN "cells" ELSE "delete"]
       \/ ~OpenMonth /\ Leave(o)
    /\ UNCHANGED <<att, payroll, claims, registers, locked, overruled, reopened, clicks>>

(* A transaction that fails is rolled back: a unique key taken meanwhile, a  *)
(* row gone, a deadlock, an error.  A check-in may end without a punch: not  *)
(* recognised, flagged, too soon, or a punch of another day.                 *)
RollBack(a) ==
    /\ ~At(a, "away") /\ Leave(a)
    /\ UNCHANGED <<att, payroll, claims, registers, locked, overruled, reopened, clicks>>

(* A register about to be committed holds the period it locks.               *)
PeriodFree == \A p \in Operators : ~(At(p, "seal") /\ desks[p].locks)

Lock(o) ==
    /\ At(o, "away") /\ Click /\ ~locked /\ PeriodFree
    /\ locked' = TRUE /\ desks' = Overtaken(Checked)
    /\ UNCHANGED <<att, payroll, claims, registers, overruled, reopened>>

Unlock(o) ==
    /\ At(o, "away") /\ Click /\ locked
    /\ locked' = FALSE /\ reopened' = TRUE /\ desks' = Overtaken({"seal"})
    /\ UNCHANGED <<att, payroll, claims, registers, overruled>>

-----------------------------------------------------------------------------
(* save_grid: a blank status clears the day, present without swipes is the   *)
(* shift's window.                                                           *)
Entered(entry) ==
    IF entry.status = "none" THEN NoCell
    ELSE IF entry.status = "present" /\ entry.in = NoTime /\ entry.out = NoTime
         THEN [entry EXCEPT !.in = Window[1], !.out = Window[2]] ELSE entry

EditDay(o, e, entry) ==
    /\ At(o, "cells") /\ ~DayHeld(e, o)
    /\ desks' = [desks EXCEPT ![o].cells[e] = Entered(entry)]
    /\ UNCHANGED <<att, payroll, claims, registers, locked, overruled, reopened, clicks>>

(* Variant: days that were not sent are written as well.                     *)
CommitWholeGrid(o) ==
    /\ At(o, "cells") /\ Leave(o)
    /\ att' = desks[o].cells
    /\ UNCHANGED <<payroll, claims, registers, locked, overruled, reopened, clicks>>

CommitGrid(o) ==
    /\ At(o, "cells") /\ Leave(o)
    /\ att' = [e \in Employees |-> IF desks[o].cells[e] = Kept THEN att[e] ELSE desks[o].cells[e]]
    /\ UNCHANGED <<payroll, claims, registers, locked, overruled, reopened, clicks>>

(* offboard marks the days after the leaving date, in whatever month.        *)
Offboard(o, e) ==
    /\ At(o, "away") /\ Click /\ ~DayHeld(e, o)
    /\ att' = [att EXCEPT ![e] = [NoCell EXCEPT !.status = "left"]]
    /\ UNCHANGED <<payroll, claims, registers, locked, desks, overruled, reopened>>

-----------------------------------------------------------------------------
(* check_in: the open record is read first, the punch is a transaction.      *)
Recognise(k, e) ==
    /\ At(k, "away") /\ e \in Enrolled
    /\ desks' = [desks EXCEPT ![k] = [Away EXCEPT !.pc = "punch", !.emp = e, !.seen = att[e]]]
    /\ UNCHANGED <<att, payroll, claims, registers, locked, overruled, reopened, clicks>>

IsOpen(cell) == cell.in # NoTime /\ cell.out = NoTime

(* Variant: the day is not read again.                                       *)
PunchedCopy(seen, day, direction, same, time) ==
    LET row == IF IsOpen(seen) THEN seen ELSE NoCell
    IN [status |-> "present", in |-> IF direction = "in" THEN time ELSE row.in,
        out |-> IF direction = "in" THEN row.out ELSE time]

(* A punch out that closes the open record of its own shift works on the     *)
(* copy, every other punch on the day as it stands.                          *)
Punched(seen, day, direction, same, time) ==
    LET row == IF direction = "out" /\ IsOpen(seen) /\ same THEN seen ELSE day
    IN [status |-> "present", in |-> IF direction = "in" THEN time ELSE row.in,
        out |-> IF direction = "in" THEN row.out ELSE time]

Punch(k, direction, same, time) ==
    LET e == desks[k].emp
    IN /\ At(k, "punch") /\ ~DayHeld(e, k)
       /\ att' = [att EXCEPT ![e] = Punched(desks[k].seen, @, direction, same, time)]
       /\ Leave(k)
       /\ UNCHANGED <<payroll, claims, registers, locked, overruled, reopened, clicks>>

-----------------------------------------------------------------------------
(* Expense claims.  get_object reads the claim, decide acts on that copy.    *)
Submit(e) ==
    /\ claims[e] = "none" /\ e \in Claimants
    /\ claims' = [claims EXCEPT ![e] = "pending"]
    /\ UNCHANGED <<att, payroll, registers, locked, desks, overruled, reopened, clicks>>

OpenClaim(o, e) ==
    /\ At(o, "away") /\ claims[e] # "none" /\ Click
    /\ desks' = [desks EXCEPT ![o] = [Away EXCEPT !.pc = "decide", !.emp = e, !.claim = claims[e]]]
    /\ UNCHANGED <<att, payroll, claims, registers, locked, overruled, reopened>>

(* Variant: a decision can be changed.                                       *)
UndecidedAlways(claim) == TRUE
Undecided(claim)       == claim = "pending"

Decide(o, verdict) ==
    LET d == desks[o]
    IN /\ At(o, "decide") /\ Undecided(d.claim)
       /\ claims' = [claims EXCEPT ![d.emp] = verdict]
       /\ overruled' = IF claims[d.emp] = d.claim THEN overruled ELSE overruled \cup {d.emp}
       /\ Leave(o)
       /\ UNCHANGED <<att, payroll, registers, locked, reopened, clicks>>

-----------------------------------------------------------------------------
(* generate_payroll: the rows of the month are deleted, as the statement     *)
(* finds them, waiting for a run that holds one of them; ...                 *)
DeleteMonth(o) ==
    /\ At(o, "delete")
    /\ desks' = [desks EXCEPT ![o].pc = "wait", ![o].base = payroll]
    /\ UNCHANGED <<att, payroll, claims, registers, locked, overruled, reopened, clicks>>

Deleted(o) ==
    /\ At(o, "wait")
    /\ \A p \in Operators \ {o}, e \in Employees :
          At(p, "rows") => desks[p].base[e] = NoPay \/ desks[p].base[e] # desks[o].base[e]
    /\ desks' = [desks EXCEPT ![o].pc = "rows"]
    /\ UNCHANGED <<att, payroll, claims, registers, locked, overruled, reopened, clicks>>

(* ... then one row after the other is worked out and inserted.              *)
KeyFree(o, e) ==
    /\ payroll[e] \in {NoPay, desks[o].base[e]}
    /\ \A p \in Operators \ {o} : ~(At(p, "rows") /\ desks[p].rows[e] # NoPay)

NewRow(o, e) == [run |-> desks[o].run, cell |-> att[e], reimbursed |-> claims[e] = "approved"]

(* Variant: every row shows at once.                                         *)
AddRowAtOnce(o) ==
    LET e == desks[o].next
    IN /\ At(o, "rows") /\ e \in Employees
       /\ payroll' = [payroll EXCEPT ![e] = NewRow(o, e)]
       /\ desks' = [desks EXCEPT ![o].next = e + 1, ![o].rows[e] = NewRow(o, e)]
       /\ UNCHANGED <<att, claims, registers, locked, overruled, reopened, clicks>>

AddRow(o) ==
    LET e == desks[o].next
    IN /\ At(o, "rows") /\ e \in Employees /\ KeyFree(o, e)
       /\ desks' = [desks EXCEPT ![o].next = e + 1, ![o].rows[e] = NewRow(o, e)]
       /\ UNCHANGED <<att, payroll, claims, registers, locked, overruled, reopened, clicks>>

CommitPayroll(o) ==
    /\ At(o, "rows") /\ desks[o].next > Headcount
    /\ payroll' = [e \in Employees |-> IF desks[o].rows[e] # NoPay THEN desks[o].rows[e] ELSE payroll[e]]
    /\ desks' = [Overtaken(Filing) EXCEPT ![o] = Away]
    /\ reopened' = (reopened \/ desks[o].late)
    /\ UNCHANGED <<att, claims, registers, locked, overruled, clicks>>

-----------------------------------------------------------------------------
(* RegisterService.generate, refused before any payroll.                     *)
PayrollRun(rows) == \E e \in Employees : rows[e] # NoPay

ListPayroll(o) ==
    /\ At(o, "list")
    /\ \/ PayrollRun(payroll) /\ desks' = [desks EXCEPT ![o].pc = "archive", ![o].rows = payroll]
       \/ ~PayrollRun(payroll) /\ Leave(o)
    /\ UNCHANGED <<att, payroll, claims, registers, locked, overruled, reopened, clicks>>

(* The workbook is built from them and the muster roll, numbered and stored. *)
Archive(o) ==
    /\ At(o, "archive")
    /\ desks' = [desks EXCEPT ![o].pc = "log", ![o].version = Len(registers) + 1]
    /\ UNCHANGED <<att, payroll, claims, registers, locked, overruled, reopened, clicks>>

(* Variant: generating does not lock.                                        *)
LocksNever == FALSE
Locks      == ~locked

(* The row's version must be a new one, and an open month is locked.         *)
Log(o) ==
    /\ At(o, "log") /\ desks[o].version = Len(registers) + 1
    /\ \A a \in Actors \ {o} : ~At(a, "seal")
    /\ desks' = [desks EXCEPT ![o].pc = "seal", ![o].locks = Locks]
    /\ UNCHANGED <<att, payroll, claims, registers, locked, overruled, reopened, clicks>>

Seal(o) ==
    LET d == desks[o]
    IN /\ At(o, "seal")
       /\ registers' = Append(registers, [version |-> d.version, rows |-> d.rows, exact |-> ~d.late])
       /\ locked' = (locked \/ d.locks)
       /\ desks' = [(IF d.locks THEN Overtaken(Checked) ELSE desks) EXCEPT ![o] = Away]
       /\ reopened' = FALSE
       /\ UNCHANGED <<att, payroll, claims, overruled, clicks>>

-----------------------------------------------------------------------------
GridStep(o) == CommitGrid(o) \/ \E e \in Employees, entry \in Entries : EditDay(o, e, entry)

PayrollStep(o) == DeleteMonth(o) \/ Deleted(o) \/ AddRow(o) \/ CommitPayroll(o)

RegisterStep(o) == ListPayroll(o) \/ Archive(o) \/ Log(o) \/ Seal(o)

ClaimStep(o) == (\E e \in Employees : OpenClaim(o, e)) \/ (\E v \in Verdicts : Decide(o, v))

PunchStep(k) ==
    \/ \E e \in Employees : Recognise(k, e)
    \/ \E direction \in {"in", "out"}, same \in BOOLEAN, time \in Times : Punch(k, direction, same, time)

Next ==
    \/ \E o \in Operators :
          \/ \E op \in {"grid", "payroll", "register"} : Open(o, op)
          \/ AssertOpen(o) \/ Lock(o) \/ Unlock(o)
          \/ \E e \in Employees : Offboard(o, e)
          \/ GridStep(o) \/ PayrollStep(o) \/ RegisterStep(o) \/ ClaimStep(o)
    \/ \E e \in Employees : Submit(e)
    \/ \E k \in Kiosks : PunchStep(k)
    \/ \E a \in Actors : RollBack(a)

Spec == Init /\ [][Next]_vars

-----------------------------------------------------------------------------
Rows == [Employees -> PayRow \cup {NoPay}]
Desk == [pc : {"away", "check", "decide", "punch", "list"} \cup Checked \cup Filing,
         op : {"none", "grid", "payroll", "register"}, emp : Employees, run : 0 .. MaxClicks,
         next : 1 .. Headcount + 1, version : Nat, cells : [Employees -> Cell \cup {Kept}],
         base : Rows, rows : Rows, seen : Cell, claim : {"none", "pending"} \cup Verdicts,
         locks : BOOLEAN, late : BOOLEAN]
Register == [version : Nat, rows : Rows, exact : BOOLEAN]

(* Every variable holds what the code can put in it.                         *)
TypeOK ==
    /\ att \in [Employees -> Cell]
    /\ payroll \in Rows
    /\ claims \in [Employees -> {"none", "pending"} \cup Verdicts]
    /\ registers \in Seq(Register)
    /\ locked \in BOOLEAN
    /\ desks \in [Actors -> Desk]
    /\ overruled \subseteq Employees /\ reopened \in BOOLEAN
    /\ clicks \in 0 .. MaxClicks

(* The figures of the month are those of one run, for everybody on the roll, *)
(* whichever runs overlapped; so are those of every register, and registers  *)
(* are numbered without gap or repeat.                                       *)
OneRun(rows) == \A e, f \in Employees : rows[e].run = rows[f].run

FiguresOfOneRun ==
    /\ OneRun(payroll)
    /\ \A i \in 1 .. Len(registers) :
          /\ registers[i].version = i
          /\ OneRun(registers[i].rows) /\ registers[i].rows[1] # NoPay

(* What was submitted last is what is on file, behind a lock, until somebody *)
(* unlocks the month with a reason; unless a payroll run had passed the      *)
(* guard before the lock or replaced the figures under the generator.        *)
SubmittedIsOnFile ==
    LET last == registers[Len(registers)]
    IN registers # <<>> /\ ~reopened /\ last.exact => locked /\ last.rows = payroll

(* "A locked period refuses writes": while the month is locked its figures   *)
(* change at the hands of requests that had passed the guard before, of      *)
(* check-ins and of offboardings only.                                       *)
Ends(a) == desks[a] # Away /\ desks'[a] = Away

FrozenOnceLocked ==
    [][locked /\ <<att', payroll'>> # <<att, payroll>> =>
          \/ \E a \in Actors : Ends(a) /\ (desks[a].late \/ At(a, "punch"))
          \/ payroll' = payroll /\ \E e \in Employees : att'[e] # att[e] /\ att'[e].status = "left"]_vars

(* "The figures behind a submitted register cannot silently change           *)
(* afterwards."                                                              *)
SubmittedFiguresFrozen ==
    [][locked /\ registers # <<>> => att' = att /\ payroll' = payroll]_vars

(* Only an approved claim is paid with the salary, and it stays approved,    *)
(* unless it was decided a second time from an old copy.                     *)
PaidClaimsApproved ==
    \A e \in Employees \ overruled :
        payroll[e] # NoPay /\ payroll[e].reimbursed => claims[e] = "approved"

(* A punch keeps the other swipe of its day, unless the day was changed      *)
(* since the check-in looked at it.                                          *)
PunchKeepsTheOther ==
    [][\A k \in Kiosks : LET e == desks[k].emp IN
          At(k, "punch") /\ att'[e] # att[e] /\ Ends(k) /\ desks[k].seen = att[e] =>
              att'[e].in = att[e].in \/ att'[e].out = att[e].out]_vars
=============================================================================
