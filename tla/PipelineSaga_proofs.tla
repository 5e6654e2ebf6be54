------------------------ MODULE PipelineSaga_proofs ------------------------
(***************************************************************************)
(* A run that nobody cancels or retries and whose locks are respected is a *)
(* Saga: for every number of steps, workers, attempts and crash points, it *)
(* goes forward one step at a time, gives up once, unwinds what succeeded  *)
(* and ends once.                                                          *)
(***************************************************************************)
EXTENDS PipelineEngine_proofs

(* No cancel, no retry, no worker outlasts its lock, no tick meets a run     *)
(* whose rows are still being created.                                       *)
Undisturbed == Ops \subseteq {"pause", "resume"} /\ ~SlowSteps /\ ~EagerTicks

Undoing == {"compensating", "compensated", "compensation_failed"}
GaveUp  == run.status \in {"compensating", "failed"}

(* The rows before the index have succeeded (and may have been undone), the  *)
(* one at the index is worked at, those after it were never touched.         *)
RowsInOrder ==
    /\ run.index <= NumSteps
    /\ \A i \in Idx :
          /\ i < run.index => steps[i].status \in {"success"} \cup Undoing
          /\ i = run.index => steps[i].status \in {"absent", "pending", "running", "success", "failed"}
          /\ i > run.index => steps[i].status \in {"absent", "pending", "skipped"}
          /\ ~GaveUp => steps[i].status \notin Undoing \cup {"skipped"}

(* Nothing moves before the rows are there; a run gives up over a step that  *)
(* failed, and has ended only with every step done or every success undone.  *)
RunInOrder ==
    /\ run.status # "cancelled" /\ run.reason # "cancelled"
    /\ caller = "idle" <=> run.status = "absent"
    /\ caller # "done" =>
          /\ run.index = 0 /\ run.status \in {"absent", "queued", "running", "paused"}
          /\ \A i \in Idx : steps[i].status \in {"absent", "pending"}
          /\ \A w \in Workers : workers[w].pc = "idle"
    /\ caller = "idle" => \A i \in Idx : steps[i].status = "absent"
    /\ caller = "done" => \A i \in Idx : steps[i].status # "absent"
    /\ GaveUp => run.index \in Idx /\ steps[run.index].status = "failed"
    /\ run.status = "success" => run.index = NumSteps
    /\ run.status = "failed" => Succeeded = {}
    /\ \A o \in Operators : operators[o].pc \in {"idle", "resume"}

(* However old its copy, what a worker is about to do still fits the rows.   *)
InOrder(r) ==
    /\ r.run.index <= run.index /\ r.run.reason # "cancelled"
    /\ r.pc = "claim" => r.step = r.run.index
    /\ r.pc \in ForwardPCs \cup {"saveRun"} => r.step = run.index /\ r.run.index = run.index
    /\ r.pc = "saveRun" => steps[r.step].status = "success"
    /\ r.pc = "failRun" => run.index \in Idx /\ steps[run.index].status = "failed" /\ ~GaveUp
    /\ r.pc \in {"unwind", "skip", "claimUndo", "undo", "saveUndo"} => GaveUp
    /\ r.pc = "skip" => Succeeded = {}
    /\ r.pc = "claimUndo" => \A j \in Succeeded : j <= r.step
    /\ r.pc = "finish" => \/ r.outcome = "success" /\ run.index = NumSteps
                          \/ r.outcome = "failed" /\ GaveUp /\ Succeeded = {}
    /\ r.pc = "publish" => run.status = r.outcome /\ published[r.outcome] = 0

LonePCs == {"saveRun", "failRun", "publish"}

WorkersInOrder ==
    /\ \A w \in Workers : InOrder(workers[w])
    /\ \A v, w \in Workers :
          workers[v].pc = workers[w].pc /\ workers[w].pc \in LonePCs => v = w

NothingAnnounced == \A s \in TERMINAL_STATUSES : published[s] = 0

Announcing ==
    /\ run.status \notin TERMINAL_STATUSES => NothingAnnounced
    /\ AnnouncedOnce

SagaInv == RowsInOrder /\ RunInOrder /\ WorkersInOrder /\ Announcing

-----------------------------------------------------------------------------
LEMMA SagaInit == Init => SagaInv
  <1> SUFFICES ASSUME Init PROVE SagaInv
      OBVIOUS
  <1>1. RowsInOrder
    BY NumStepsAssumption, IdxNat DEF Init, RowsInOrder, NoRun, NoStep, Undoing, GaveUp
  <1>2. RunInOrder
    BY DEF Init, RunInOrder, NoRun, NoStep, IdleWorker, IdleOperator, GaveUp
  <1>3. WorkersInOrder
    BY DEF Init, WorkersInOrder, InOrder, IdleWorker, NoRun, LonePCs, ForwardPCs
  <1>4. Announcing
    BY DEF Init, Announcing, NothingAnnounced, AnnouncedOnce
  <1> QED BY <1>1, <1>2, <1>3, <1>4 DEF SagaInv

(* A worker that only reads, or returns.                                     *)
LEMMA SagaMove ==
    ASSUME TypeInv, SagaInv, NEW w \in Workers, NEW r, workers' = [workers EXCEPT ![w] = r],
           caller = "done" \/ r.pc = "idle", InOrder(r), r.pc \notin LonePCs,
           UNCHANGED <<run, steps, caller, operators, published>>
    PROVE  SagaInv'
  <1>1. /\ workers'[w] = r
        /\ \A v \in Workers : v # w => workers'[v] = workers[v]
    BY DEF TypeInv, TypeOK
  <1>2. RowsInOrder' /\ Announcing'
    BY DEF SagaInv, RowsInOrder, Announcing, NothingAnnounced, AnnouncedOnce, GaveUp
  <1>3. RunInOrder'
    BY <1>1 DEF SagaInv, RunInOrder, GaveUp, Succeeded
  <1>4. \A v \in Workers : InOrder(workers'[v])
    BY <1>1 DEF SagaInv, WorkersInOrder
  <1>5. WorkersInOrder'
    BY <1>1, <1>4 DEF SagaInv, WorkersInOrder, InOrder, GaveUp, Succeeded
  <1> QED BY <1>2, <1>3, <1>5 DEF SagaInv

LEMMA IdleInOrder == ASSUME TypeInv PROVE InOrder(IdleWorker)
  BY DEF InOrder, IdleWorker, ForwardPCs, NoRun, TypeInv, TypeOK, RunRow

LEMMA SagaReturn ==
    ASSUME TypeInv, SagaInv, NEW w \in Workers, Return(w),
           UNCHANGED <<run, steps, caller, operators, published>>
    PROVE  SagaInv'
  BY IdleInOrder, SagaMove DEF Return, IdleWorker, LonePCs

(* A worker that is doing something does it for a run that was created.      *)
LEMMA Busy ==
    ASSUME SagaInv, NEW w \in Workers, workers[w].pc # "idle"
    PROVE  caller = "done" /\ InOrder(workers[w])
  BY DEF SagaInv, RunInOrder, WorkersInOrder

LEMMA SagaRead ==
    ASSUME Undisturbed, TypeInv, ExclInv, SagaInv, NEW w \in Workers,
           \/ Select(w) \/ Look(w) \/ ClaimLoses(w) \/ Refresh(w) \/ BodySucceeds(w)
           \/ BodyFails(w) \/ Unwind(w) \/ ClaimUndoLoses(w) \/ Undo(w) \/ FinishLoses(w)
           \/ WorkerCrash(w)
    PROVE  SagaInv'
  <1> USE DEF At, rows
  <1>1. CASE Select(w)
    <2> DEFINE r == [IdleWorker EXCEPT
                     !.pc = IF run.status = "compensating" THEN "unwind" ELSE "look",
                     !.run = run]
    <2>1. caller = "done" /\ workers' = [workers EXCEPT ![w] = r]
      BY <1>1 DEF Select, Undisturbed
    <2>2. r.run = run /\ r.pc \in {"unwind", "look"} /\ (r.pc = "unwind" => GaveUp)
      BY DEF IdleWorker, GaveUp
    <2> HIDE DEF r
    <2>3. run.index \in Nat
      BY DEF TypeInv, TypeOK, RunRow
    <2>4. InOrder(r)
      BY <2>2, <2>3 DEF InOrder, ForwardPCs, SagaInv, RunInOrder
    <2> QED BY <1>1, <2>1, <2>2, <2>4, SagaMove DEF Select, LonePCs
  <1>2. CASE Look(w)
    <2> DEFINE i == workers[w].run.index
    <2>1. caller = "done" /\ InOrder(workers[w])
      BY <1>2, Busy DEF Look
    <2>2. i \in Nat /\ run.index \in Nat /\ i <= run.index /\ workers[w].run.reason # "cancelled"
      BY <1>2, <2>1 DEF Look, InOrder, TypeInv, TypeOK, RunRow, Worker
    <2>3. CASE Return(w)
      BY <1>2, <2>3, SagaReturn DEF Look
    <2>4. CASE /\ i \notin Idx \/ (i \in Idx /\ steps[i].status = "absent")
               /\ workers' = [workers EXCEPT ![w].pc = "finish", ![w].outcome = "success"]
      <3> DEFINE r == [workers[w] EXCEPT !.pc = "finish", !.outcome = "success"]
      <3>1. r.pc = "finish" /\ r.outcome = "success" /\ r.run = workers[w].run
        BY DEF TypeInv, TypeOK, Worker
      <3>2. workers' = [workers EXCEPT ![w] = r]
        BY <2>4
      <3> HIDE DEF r
      <3>3. i \notin Idx
        BY <2>1, <2>4 DEF SagaInv, RunInOrder
      <3>4. run.index = NumSteps
        BY <2>2, <3>3, NumStepsAssumption DEF SagaInv, RowsInOrder, Idx
      <3>5. InOrder(r)
        BY <2>2, <3>1, <3>4 DEF InOrder, ForwardPCs
      <3> QED BY <1>2, <2>1, <3>1, <3>2, <3>5, SagaMove DEF Look, LonePCs
    <2>5. CASE workers' = [workers EXCEPT ![w].pc = "claim", ![w].step = i]
      <3> DEFINE r == [workers[w] EXCEPT !.pc = "claim", !.step = i]
      <3>1. r.pc = "claim" /\ r.step = i /\ r.run = workers[w].run
        BY DEF TypeInv, TypeOK, Worker
      <3>2. workers' = [workers EXCEPT ![w] = r]
        BY <2>5
      <3> HIDE DEF r
      <3>3. InOrder(r)
        BY <2>2, <3>1 DEF InOrder, ForwardPCs
      <3> QED BY <1>2, <2>1, <3>1, <3>2, <3>3, SagaMove DEF Look, LonePCs
    <2> QED BY <1>2, <2>3, <2>4, <2>5 DEF Look
  <1>3. CASE Refresh(w)
    <2> DEFINE r == [workers[w] EXCEPT
                       !.pc = IF workers[w].run.status = "queued" THEN "mark" ELSE "body",
                       !.attempt = steps[workers[w].step].attempt]
    <2>1. r.pc \in {"mark", "body"} /\ r.step = workers[w].step /\ r.run = workers[w].run
      BY DEF TypeInv, TypeOK, Worker
    <2>2. workers' = [workers EXCEPT ![w] = r] /\ workers[w].pc = "refresh"
      BY <1>3 DEF Refresh
    <2> HIDE DEF r
    <2>3. InOrder(r) /\ caller = "done"
      BY <2>1, <2>2, Busy DEF InOrder, ForwardPCs
    <2> QED BY <1>3, <2>1, <2>2, <2>3, SagaMove DEF Refresh, LonePCs
  <1>4. CASE BodySucceeds(w) \/ BodyFails(w)
    <2>1. PICK pc \in {"saveStep", "retryStep", "failStep"} : Goto(w, pc)
      BY <1>4 DEF BodySucceeds, BodyFails
    <2> DEFINE r == [workers[w] EXCEPT !.pc = pc]
    <2>2. r.pc = pc /\ r.step = workers[w].step /\ r.run = workers[w].run
      BY DEF TypeInv, TypeOK, Worker
    <2>3. workers' = [workers EXCEPT ![w] = r] /\ workers[w].pc = "body"
      BY <1>4, <2>1 DEF BodySucceeds, BodyFails, Goto
    <2> HIDE DEF r
    <2>4. InOrder(r) /\ caller = "done"
      BY <2>2, <2>3, Busy DEF InOrder, ForwardPCs
    <2> QED BY <1>4, <2>2, <2>3, <2>4, SagaMove DEF BodySucceeds, BodyFails, LonePCs
  <1>5. CASE Unwind(w)
    <2>1. caller = "done" /\ InOrder(workers[w]) /\ GaveUp
      BY <1>5, Busy DEF Unwind, InOrder
    <2>2. CASE Succeeded = {} /\ Goto(w, "skip")
      <3> DEFINE r == [workers[w] EXCEPT !.pc = "skip"]
      <3>1. r.pc = "skip" /\ r.run = workers[w].run
        BY DEF TypeInv, TypeOK, Worker
      <3>2. workers' = [workers EXCEPT ![w] = r]
        BY <2>2 DEF Goto
      <3> HIDE DEF r
      <3>3. InOrder(r)
        BY <1>5, <2>1, <2>2, <3>1 DEF InOrder, ForwardPCs, Unwind
      <3> QED BY <1>5, <2>1, <3>1, <3>2, <3>3, SagaMove DEF Unwind, LonePCs
    <2>3. ASSUME NEW i \in Succeeded, \A j \in Succeeded : j <= i,
                 workers' = [workers EXCEPT ![w].pc = "claimUndo", ![w].step = i]
          PROVE  SagaInv'
      <3> DEFINE r == [workers[w] EXCEPT !.pc = "claimUndo", !.step = i]
      <3>1. r.pc = "claimUndo" /\ r.step = i /\ r.run = workers[w].run
        BY DEF TypeInv, TypeOK, Worker
      <3>2. workers' = [workers EXCEPT ![w] = r]
        BY <2>3
      <3> HIDE DEF r
      <3>3. InOrder(r)
        BY <1>5, <2>1, <2>3, <3>1 DEF InOrder, ForwardPCs, Unwind
      <3> QED BY <1>5, <2>1, <3>1, <3>2, <3>3, SagaMove DEF Unwind, LonePCs
    <2> QED BY <1>5, <2>2, <2>3 DEF Unwind
  <1>6. CASE Undo(w)
    <2>1. PICK o : workers' = [workers EXCEPT ![w].pc = "saveUndo", ![w].outcome = o]
      BY <1>6 DEF Undo
    <2> DEFINE r == [workers[w] EXCEPT !.pc = "saveUndo", !.outcome = o]
    <2>2. r.pc = "saveUndo" /\ r.step = workers[w].step /\ r.run = workers[w].run
      BY DEF TypeInv, TypeOK, Worker
    <2>3. workers' = [workers EXCEPT ![w] = r] /\ workers[w].pc = "undo"
      BY <1>6, <2>1 DEF Undo
    <2> HIDE DEF r
    <2>4. InOrder(r) /\ caller = "done"
      BY <2>2, <2>3, Busy DEF InOrder, ForwardPCs
    <2> QED BY <1>6, <2>2, <2>3, <2>4, SagaMove DEF Undo, LonePCs
  <1>7. CASE ClaimLoses(w) \/ ClaimUndoLoses(w) \/ FinishLoses(w) \/ WorkerCrash(w)
    BY <1>7, SagaReturn DEF ClaimLoses, ClaimUndoLoses, FinishLoses, WorkerCrash
  <1> QED BY <1>1, <1>2, <1>3, <1>4, <1>5, <1>6, <1>7

(* Rows while the run goes forward: only the one at the index moves, and     *)
(* nobody else is about to save the run for it.                              *)
LEMMA SagaForwardRow ==
    ASSUME TypeInv, SagaInv, NEW w \in Workers, NEW r, workers' = [workers EXCEPT ![w] = r],
           UNCHANGED <<run, caller, operators, published>>, caller = "done",
           ~GaveUp, run.index \in Idx, steps[run.index].status \in {"pending", "running"},
           \A i \in Idx : i # run.index => steps'[i] = steps[i],
           steps'[run.index].status \in {"pending", "running", "success", "failed"},
           InOrder(workers[w])', r.pc # "publish"
    PROVE  SagaInv'
  <1> USE DEF SagaInv
  <1>1. /\ workers'[w] = r
        /\ \A v \in Workers : v # w => workers'[v] = workers[v]
    BY DEF TypeInv, TypeOK
  <1>2. RowsInOrder'
    BY IdxNat DEF RowsInOrder, GaveUp, Undoing
  <1>3. RunInOrder'
    BY <1>1 DEF RunInOrder, GaveUp, Succeeded
  <1>4. Announcing'
    BY DEF Announcing, NothingAnnounced, AnnouncedOnce
  <1>5. \A v \in Workers : workers[v].pc \notin {"saveRun", "failRun"}
    BY DEF WorkersInOrder, InOrder
  <1>6. ASSUME NEW v \in Workers, v # w PROVE InOrder(workers[v])'
    <2>1. InOrder(workers[v]) /\ workers'[v] = workers[v]
      BY <1>1, <1>6 DEF WorkersInOrder
    <2>2. run.index # NumSteps
      BY NumStepsAssumption DEF Idx
    <2> QED BY <1>5, <2>1, <2>2 DEF InOrder, GaveUp
  <1>7. WorkersInOrder'
    BY <1>1, <1>5, <1>6 DEF WorkersInOrder, LonePCs
  <1> QED BY <1>2, <1>3, <1>4, <1>7

(* Rows while it unwinds: what was pending is skipped, what succeeded is     *)
(* undone.                                                                   *)
LEMMA SagaUndoRow ==
    ASSUME TypeInv, SagaInv, NEW w \in Workers, NEW r, workers' = [workers EXCEPT ![w] = r],
           UNCHANGED <<run, caller, operators, published>>, GaveUp,
           \A i \in Idx :
              \/ steps'[i].status = steps[i].status
              \/ steps[i].status = "pending" /\ steps'[i].status = "skipped"
              \/ steps[i].status \in {"success", "compensating"} /\ steps'[i].status \in Undoing,
           InOrder(workers[w])', r.pc \notin LonePCs
    PROVE  SagaInv'
  <1> USE DEF SagaInv
  <1>1. /\ workers'[w] = r
        /\ \A v \in Workers : v # w => workers'[v] = workers[v]
    BY DEF TypeInv, TypeOK
  <1>2. caller = "done" /\ run.index \in Idx /\ steps[run.index].status = "failed"
    BY DEF RunInOrder, GaveUp
  <1>3. RowsInOrder'
    BY <1>2, IdxNat DEF RowsInOrder, GaveUp, Undoing
  <1>4. Succeeded' \subseteq Succeeded
    BY DEF Succeeded, Undoing
  <1>5. RunInOrder'
    BY <1>1, <1>2, <1>4 DEF RunInOrder, GaveUp, Undoing
  <1>6. Announcing'
    BY DEF Announcing, NothingAnnounced, AnnouncedOnce
  <1>7. \A v \in Workers : workers[v].pc \notin {"saveRun", "failRun"}
    BY <1>2 DEF WorkersInOrder, InOrder
  <1>8. ASSUME NEW v \in Workers, v # w PROVE InOrder(workers[v])'
    <2>1. InOrder(workers[v]) /\ workers'[v] = workers[v]
      BY <1>1, <1>8 DEF WorkersInOrder
    <2> QED BY <1>4, <1>7, <2>1 DEF InOrder, GaveUp
  <1>9. WorkersInOrder'
    BY <1>1, <1>8 DEF WorkersInOrder
  <1> QED BY <1>3, <1>5, <1>6, <1>9

(* The executor of a step works at the row the index names.                  *)
LEMMA ExecutorInOrder ==
    ASSUME TypeInv, ExclInv, SagaInv, NEW w \in Workers, workers[w].pc \in ForwardPCs
    PROVE  /\ caller = "done" /\ run.index \in Idx /\ workers[w].step = run.index
           /\ workers[w].run.index = run.index /\ workers[w].run.reason # "cancelled"
           /\ steps[run.index].status = "running" /\ ~GaveUp
           /\ run.status \in {"queued", "running", "paused"}
  <1>1. caller = "done" /\ InOrder(workers[w])
    BY Busy DEF ForwardPCs
  <1>2. workers[w].step \in Idx
    BY HoldsStep
  <1>3. workers[w].step = run.index /\ workers[w].run.index = run.index
        /\ workers[w].run.reason # "cancelled"
    BY <1>1 DEF InOrder, ForwardPCs
  <1>4. steps[run.index].status = "running"
    BY <1>2, <1>3 DEF ExclInv, Executing
  <1>5. ~GaveUp
    BY <1>4 DEF SagaInv, RunInOrder
  <1>6. run.status \in {"queued", "running", "paused"}
    BY <1>1, <1>2, <1>3, <1>5, NumStepsAssumption
    DEF SagaInv, RunInOrder, GaveUp, TypeInv, TypeOK, RunRow, PipelineRunStatus,
        ACTIVE_STATUSES, TERMINAL_STATUSES, Idx
  <1> QED BY <1>1, <1>2, <1>3, <1>4, <1>5, <1>6

LEMMA SagaForward ==
    ASSUME TypeInv, ExclInv, SagaInv, NEW w \in Workers,
           ClaimWins(w) \/ SaveStep(w) \/ RetryStep(w) \/ FailStep(w)
    PROVE  SagaInv'
  <1> USE DEF At, rows
  <1>1. CASE ClaimWins(w)
    <2> DEFINE r == [workers[w] EXCEPT !.pc = "refresh"]
               s == workers[w].step
    <2>1. r.pc = "refresh" /\ r.step = s /\ r.run = workers[w].run
      BY DEF TypeInv, TypeOK, Worker
    <2>2. workers' = [workers EXCEPT ![w] = r] /\ workers[w].pc = "claim" /\ workers'[w] = r
          /\ UNCHANGED <<run, caller, operators, published>>
      BY <1>1 DEF ClaimWins, Goto, TypeInv, TypeOK
    <2> HIDE DEF r
    <2>3. s \in Idx /\ steps[s].status = "pending"
      BY <1>1, HoldsStep DEF ClaimWins, ClaimStep
    <2>4. caller = "done" /\ s = workers[w].run.index /\ s <= run.index
          /\ workers[w].run.reason # "cancelled"
      BY <2>2, Busy DEF InOrder
    <2>5. s = run.index /\ ~GaveUp
      <3>1. s \in Nat /\ run.index \in Nat
        BY <2>3, IdxNat DEF TypeInv, TypeOK, RunRow
      <3>2. ~(s < run.index)
        BY <2>3 DEF SagaInv, RowsInOrder, Undoing
      <3>3. s = run.index
        BY <2>4, <3>1, <3>2
      <3> QED BY <2>3, <3>3 DEF SagaInv, RunInOrder
    <2>6. /\ steps'[s].status = "running"
          /\ \A i \in Idx : i # s => steps'[i] = steps[i]
      BY <1>1, <2>3 DEF ClaimWins, ClaimStep, TypeInv, TypeOK, StepRow
    <2>7. InOrder(workers[w])'
      BY <2>1, <2>2, <2>4, <2>5, IdxNat, <2>3 DEF InOrder, ForwardPCs
    <2> QED BY <2>1, <2>2, <2>3, <2>4, <2>5, <2>6, <2>7, SagaForwardRow
  <1>2. CASE SaveStep(w) \/ FailStep(w)
    <2> DEFINE s == workers[w].step
    <2>1. PICK pc \in {"saveRun", "failRun"}, status \in {"success", "failed"} :
             /\ Goto(w, pc) /\ SetStep(s, status)
             /\ pc = "saveRun" <=> status = "success"
      BY <1>2 DEF SaveStep, FailStep
    <2> DEFINE r == [workers[w] EXCEPT !.pc = pc]
    <2>2. r.pc = pc /\ r.step = s /\ r.run = workers[w].run
      BY DEF TypeInv, TypeOK, Worker
    <2>3. workers' = [workers EXCEPT ![w] = r] /\ workers[w].pc \in ForwardPCs /\ workers'[w] = r
          /\ UNCHANGED <<run, caller, operators, published>>
      BY <1>2, <2>1 DEF SaveStep, FailStep, Goto, ForwardPCs, TypeInv, TypeOK
    <2> HIDE DEF r
    <2>4. /\ caller = "done" /\ run.index \in Idx /\ s = run.index
          /\ workers[w].run.index = run.index /\ workers[w].run.reason # "cancelled"
          /\ steps[run.index].status = "running" /\ ~GaveUp
      BY <2>3, ExecutorInOrder
    <2>5. /\ steps'[s].status = status
          /\ \A i \in Idx : i # s => steps'[i] = steps[i]
      BY <2>1, <2>4 DEF SetStep, TypeInv, TypeOK, StepRow
    <2>6. InOrder(workers[w])'
      BY <2>1, <2>2, <2>3, <2>4, <2>5, IdxNat DEF InOrder, ForwardPCs, GaveUp
    <2> QED BY <2>1, <2>2, <2>3, <2>4, <2>5, <2>6, SagaForwardRow
  <1>3. CASE RetryStep(w)
    <2>1. workers' = [workers EXCEPT ![w] = IdleWorker] /\ workers[w].pc \in ForwardPCs
          /\ workers'[w] = IdleWorker /\ UNCHANGED <<run, caller, operators, published>>
      BY <1>3 DEF RetryStep, Return, ForwardPCs, TypeInv, TypeOK
    <2>2. /\ caller = "done" /\ run.index \in Idx /\ workers[w].step = run.index
          /\ steps[run.index].status = "running" /\ ~GaveUp
      BY <2>1, ExecutorInOrder
    <2>3. /\ steps'[run.index].status = "pending"
          /\ \A i \in Idx : i # run.index => steps'[i] = steps[i]
      BY <1>3, <2>2 DEF RetryStep, TypeInv, TypeOK, StepRow
    <2>4. InOrder(workers[w])' /\ IdleWorker.pc # "publish"
      BY <2>1, IdleInOrder DEF InOrder, IdleWorker, ForwardPCs
    <2> QED BY <2>1, <2>2, <2>3, <2>4, SagaForwardRow
  <1> QED BY <1>1, <1>2, <1>3

LEMMA SagaReclaim ==
    ASSUME TypeInv, ExclInv, SagaInv, NEW w \in Workers, NEW i \in Idx, Reclaim(w, i)
    PROVE  SagaInv'
  <1>1. PICK status \in {"pending", "failed"} :
           /\ SetStep(i, status)
           /\ \/ status = "pending" /\ UNCHANGED workers
              \/ status = "failed" /\ Goto(w, "failRun")
    BY DEF Reclaim
  <1>2. steps[i].status = "running" /\ workers[w].pc = "idle"
        /\ UNCHANGED <<run, caller, operators, published>>
    BY DEF Reclaim, Stale, At
  <1>3. caller = "done" /\ i = run.index /\ ~GaveUp
    BY SMTT(30), <1>2, IdxNat DEF SagaInv, RunInOrder, RowsInOrder, Undoing, TypeInv, TypeOK, RunRow
  <1>4. /\ steps'[i].status = status
        /\ \A j \in Idx : j # i => steps'[j] = steps[j]
    BY <1>1 DEF SetStep, TypeInv, TypeOK, StepRow
  <1>5. CASE status = "pending"
    <2>1. workers' = [workers EXCEPT ![w] = workers[w]]
      BY <1>1, <1>5 DEF TypeInv, TypeOK
    <2>2. InOrder(workers[w])'
      BY <1>1, <1>2, <1>5 DEF InOrder, ForwardPCs, SagaInv, WorkersInOrder
    <2> QED BY <1>2, <1>3, <1>4, <1>5, <2>1, <2>2, SagaForwardRow
  <1>6. CASE status = "failed"
    <2> DEFINE r == [workers[w] EXCEPT !.pc = "failRun"]
    <2>1. r.pc = "failRun" /\ r.run = workers[w].run
      BY DEF TypeInv, TypeOK, Worker
    <2>2. workers' = [workers EXCEPT ![w] = r] /\ workers'[w] = r
      BY <1>1, <1>6 DEF Goto, TypeInv, TypeOK
    <2> HIDE DEF r
    <2>3. r.run.index <= run.index /\ r.run.reason # "cancelled"
      BY <2>1 DEF SagaInv, WorkersInOrder, InOrder
    <2>4. InOrder(workers[w])'
      BY <1>2, <1>3, <1>4, <1>6, <2>1, <2>2, <2>3 DEF InOrder, ForwardPCs, GaveUp
    <2> QED BY <1>2, <1>3, <1>4, <1>6, <2>1, <2>2, <2>4, SagaForwardRow
  <1> QED BY <1>5, <1>6

LEMMA SagaUnwind ==
    ASSUME TypeInv, ExclInv, SagaInv, NEW w \in Workers,
           SkipPending(w) \/ ClaimUndoWins(w) \/ SaveUndo(w)
    PROVE  SagaInv'
  <1> USE DEF At, rows
  <1>1. caller = "done" /\ InOrder(workers[w]) /\ GaveUp
    BY Busy DEF SkipPending, ClaimUndoWins, SaveUndo, InOrder
  <1>2. CASE SkipPending(w)
    <2> DEFINE r == [workers[w] EXCEPT !.pc = "finish",
                       !.outcome = IF workers[w].run.reason = "cancelled"
                                   THEN "cancelled" ELSE "failed"]
    <2>1. r.pc = "finish" /\ r.outcome = "failed" /\ r.run = workers[w].run
      BY <1>1 DEF InOrder, TypeInv, TypeOK, Worker
    <2>2. workers' = [workers EXCEPT ![w] = r] /\ workers'[w] = r
          /\ UNCHANGED <<run, caller, operators, published>>
      BY <1>2 DEF SkipPending, TypeInv, TypeOK
    <2> HIDE DEF r
    <2>3. \A i \in Idx : \/ steps'[i].status = steps[i].status
                         \/ steps[i].status = "pending" /\ steps'[i].status = "skipped"
      BY <1>2 DEF SkipPending, TypeInv, TypeOK, StepRow
    <2>4. Succeeded = {} /\ Succeeded' = {}
      BY <1>1, <1>2, <2>3 DEF SkipPending, InOrder, Succeeded
    <2>5. InOrder(workers[w])'
      BY <1>1, <2>1, <2>2, <2>4 DEF InOrder, ForwardPCs, GaveUp
    <2> QED BY <1>1, <2>1, <2>2, <2>3, <2>5, SagaUndoRow DEF LonePCs
  <1>3. CASE ClaimUndoWins(w)
    <2> DEFINE r == [workers[w] EXCEPT !.pc = "undo"]
               s == workers[w].step
    <2>1. r.pc = "undo" /\ r.step = s /\ r.run = workers[w].run
      BY DEF TypeInv, TypeOK, Worker
    <2>2. workers' = [workers EXCEPT ![w] = r] /\ workers'[w] = r
          /\ UNCHANGED <<run, caller, operators, published>>
      BY <1>3 DEF ClaimUndoWins, Goto, TypeInv, TypeOK
    <2> HIDE DEF r
    <2>3. s \in Idx /\ steps[s].status = "success" /\ steps'[s].status = "compensating"
          /\ \A i \in Idx : i # s => steps'[i] = steps[i]
      BY <1>3, HoldsStep DEF ClaimUndoWins, ClaimStep, TypeInv, TypeOK, StepRow
    <2>4. InOrder(workers[w])'
      BY <1>1, <2>1, <2>2 DEF InOrder, ForwardPCs, GaveUp
    <2> QED BY <1>1, <2>1, <2>2, <2>3, <2>4, SagaUndoRow DEF LonePCs, Undoing
  <1>4. CASE SaveUndo(w)
    <2> DEFINE s == workers[w].step
    <2>1. workers' = [workers EXCEPT ![w] = IdleWorker] /\ workers'[w] = IdleWorker
          /\ UNCHANGED <<run, caller, operators, published>>
      BY <1>4 DEF SaveUndo, Return, TypeInv, TypeOK
    <2>2. s \in Idx /\ steps[s].status = "compensating"
      BY <1>4, HoldsStep DEF SaveUndo, ExclInv, Compensating, UndoPCs
    <2>3. steps'[s].status \in Undoing /\ \A i \in Idx : i # s => steps'[i] = steps[i]
      BY <1>4, <2>2 DEF SaveUndo, SetStep, TypeInv, TypeOK, MemoryOK, Sound, StepRow, Undoing
    <2>4. InOrder(workers[w])'
      BY <2>1, IdleInOrder DEF InOrder, IdleWorker, ForwardPCs
    <2>5. IdleWorker.pc \notin LonePCs
      BY DEF IdleWorker, LonePCs
    <2> QED BY <1>1, <2>1, <2>2, <2>3, <2>4, <2>5, SagaUndoRow
  <1> QED BY <1>2, <1>3, <1>4

LEMMA NobodyPublishes ==
    ASSUME TypeInv, SagaInv, run.status \notin TERMINAL_STATUSES, NEW w \in Workers
    PROVE  workers[w].pc # "publish"
  BY DEF TypeInv, MemoryOK, Sound, SagaInv, WorkersInOrder, InOrder

(* The run row changes its status while it goes forward; its executor may    *)
(* move on to the body.                                                      *)
LEMMA SagaStatus ==
    ASSUME TypeInv, SagaInv, run.status \in {"queued", "running", "paused"},
           run'.status \in {"queued", "running", "paused"},
           run'.index = run.index, run'.reason = run.reason,
           UNCHANGED <<steps, caller, published>>,
           \A o \in Operators : operators'[o].pc \in {"idle", "resume"},
           \A v \in Workers :
              \/ workers'[v] = workers[v]
              \/ /\ workers[v].pc = "mark" /\ workers'[v].pc = "body"
                 /\ workers'[v].step = workers[v].step
                 /\ workers'[v].run.index = workers[v].run.index
                 /\ workers'[v].run.reason = workers[v].run.reason
    PROVE  SagaInv'
  <1> USE DEF SagaInv
  <1>1. ~GaveUp /\ ~GaveUp'
    BY DEF GaveUp
  <1>2. RowsInOrder'
    BY <1>1 DEF RowsInOrder
  <1>3. RunInOrder'
    BY <1>1 DEF RunInOrder
  <1>4. Announcing'
    BY DEF Announcing, NothingAnnounced, AnnouncedOnce, TERMINAL_STATUSES
  <1>5. \A v \in Workers : workers[v].pc # "publish"
    BY NobodyPublishes DEF TERMINAL_STATUSES
  <1>6. ASSUME NEW v \in Workers PROVE InOrder(workers[v])'
    <2>1. InOrder(workers[v])
      BY DEF WorkersInOrder
    <2>2. CASE workers'[v] = workers[v]
      BY <1>1, <1>5, <2>1, <2>2 DEF InOrder, Succeeded
    <2>3. CASE workers'[v] # workers[v]
      BY <1>1, <2>1, <2>3 DEF InOrder, ForwardPCs
    <2> QED BY <2>2, <2>3
  <1>7. WorkersInOrder'
    BY <1>6 DEF WorkersInOrder, LonePCs
  <1> QED BY <1>2, <1>3, <1>4, <1>7

LEMMA SagaMarkRunning ==
    ASSUME TypeInv, ExclInv, SagaInv, NEW w \in Workers, MarkRunning(w) PROVE SagaInv'
  <1>1. run.status \in {"queued", "running", "paused"}
    BY ExecutorInOrder DEF MarkRunning, At, ForwardPCs
  <1>2. run'.status = "running" /\ run'.index = run.index /\ run'.reason = run.reason
    BY DEF MarkRunning, TypeInv, TypeOK, RunRow
  <1>3. /\ \A v \in Workers : v # w => workers'[v] = workers[v]
        /\ workers[w].pc = "mark" /\ workers'[w].pc = "body"
        /\ workers'[w].step = workers[w].step
        /\ workers'[w].run.index = workers[w].run.index
        /\ workers'[w].run.reason = workers[w].run.reason
    BY DEF MarkRunning, At, TypeInv, TypeOK, Worker, RunRow
  <1>4. UNCHANGED <<steps, caller, operators, published>>
    BY DEF MarkRunning
  <1> QED BY <1>1, <1>2, <1>3, <1>4, SagaStatus DEF SagaInv, RunInOrder

(* The index moves past a step that has succeeded.                           *)
LEMMA SagaSaveRun ==
    ASSUME TypeInv, ExclInv, SagaInv, NEW w \in Workers, SaveRun(w) PROVE SagaInv'
  <1> USE DEF SagaInv
  <1> DEFINE s == workers[w].step
  <1>1. s \in Idx
    BY HoldsStep DEF SaveRun, At
  <1>2. caller = "done" /\ InOrder(workers[w]) /\ workers[w].pc = "saveRun"
    BY Busy DEF SaveRun, At
  <1>3. s = run.index /\ workers[w].run.index = run.index /\ steps[s].status = "success"
    BY <1>2 DEF InOrder
  <1>4. ~GaveUp
    BY <1>1, <1>3 DEF RunInOrder
  <1>5. /\ run'.index = run.index + 1 /\ run'.status = run.status /\ run'.reason = run.reason
        /\ UNCHANGED <<steps, caller, operators, published>>
    BY <1>3 DEF SaveRun, TypeInv, TypeOK, RunRow
  <1>6. run.index \in Nat /\ run.index < NumSteps /\ run.index + 1 <= NumSteps
    BY <1>1, <1>3, NumStepsAssumption DEF Idx
  <1>7. ~GaveUp'
    BY <1>4, <1>5 DEF GaveUp
  <1>8. run.status \in {"queued", "running", "paused"}
    BY <1>2, <1>4, <1>6 DEF RunInOrder, GaveUp, TypeInv, TypeOK, RunRow, PipelineRunStatus,
                             ACTIVE_STATUSES, TERMINAL_STATUSES
  <1>9. RowsInOrder'
    <2> SUFFICES ASSUME NEW i \in Idx
                 PROVE  /\ i < run'.index => steps[i].status \in {"success"} \cup Undoing
                        /\ i >= run'.index => steps[i].status \in {"absent", "pending"}
                        /\ steps[i].status \notin Undoing \cup {"skipped"}
        BY <1>5, <1>6, <1>7, IdxNat DEF RowsInOrder
    <2>1. /\ i < run'.index => i < run.index \/ i = run.index
          /\ i >= run'.index => i > run.index
      BY <1>5, <1>6, IdxNat
    <2> QED BY <1>3, <1>4, <1>6, <2>1 DEF RowsInOrder
  <1>10. /\ workers'[w] = IdleWorker
         /\ \A v \in Workers : v # w => workers'[v] = workers[v]
    BY DEF SaveRun, Return, TypeInv, TypeOK
  <1>11. RunInOrder'
    BY <1>2, <1>5, <1>7, <1>8, <1>10 DEF RunInOrder
  <1>12. Announcing'
    BY <1>5 DEF Announcing, NothingAnnounced, AnnouncedOnce
  <1>13. \A v \in Workers : v # w =>
            workers[v].pc \notin ForwardPCs \cup {"saveRun", "failRun", "publish", "finish"}
    <2> SUFFICES ASSUME NEW v \in Workers, v # w
                 PROVE  workers[v].pc \notin ForwardPCs \cup {"saveRun", "failRun", "publish", "finish"}
        OBVIOUS
    <2>1. InOrder(workers[v])
      BY DEF WorkersInOrder
    <2>2. workers[v].pc \notin ForwardPCs
      BY <1>3, ExecutorInOrder
    <2>3. workers[v].pc \notin {"saveRun"}
      BY <1>2 DEF WorkersInOrder, LonePCs
    <2>4. workers[v].pc # "publish"
      BY <1>8, NobodyPublishes DEF TERMINAL_STATUSES
    <2>5. workers[v].pc \notin {"failRun", "finish"}
      BY <1>3, <1>4, <1>6, <2>1 DEF InOrder
    <2> QED BY <2>2, <2>3, <2>4, <2>5
  <1>14. ASSUME NEW v \in Workers PROVE InOrder(workers[v])'
    <2>1. InOrder(workers[v]) /\ workers[v].run.index \in Nat
      BY DEF WorkersInOrder, TypeInv, TypeOK, Worker, RunRow
    <2>2. CASE v = w
      BY <1>5, <1>6, <1>10, <2>2 DEF InOrder, IdleWorker, NoRun, ForwardPCs
    <2>3. CASE v # w
      <3>1. workers[v].run.index <= run.index + 1
        BY <1>6, <2>1 DEF InOrder
      <3> QED BY <1>4, <1>5, <1>10, <1>13, <2>1, <2>3, <3>1 DEF InOrder
    <2> QED BY <2>2, <2>3
  <1>15. WorkersInOrder'
    BY <1>10, <1>13, <1>14 DEF WorkersInOrder, IdleWorker, LonePCs
  <1> QED BY <1>9, <1>11, <1>12, <1>15

(* The run gives up: nobody works at a step, nobody has finished.            *)
LEMMA SagaFailRun ==
    ASSUME TypeInv, ExclInv, SagaInv, NEW w \in Workers, FailRun(w) PROVE SagaInv'
  <1> USE DEF SagaInv
  <1>1. caller = "done" /\ InOrder(workers[w]) /\ workers[w].pc = "failRun"
    BY Busy DEF FailRun, At
  <1>2. run.index \in Idx /\ steps[run.index].status = "failed" /\ ~GaveUp
    BY <1>1 DEF InOrder
  <1>3. run.index # NumSteps
    BY <1>2, NumStepsAssumption DEF Idx
  <1>4. run.status \in {"queued", "running", "paused"}
    BY <1>1, <1>2, <1>3 DEF RunInOrder, GaveUp, TypeInv, TypeOK, RunRow, PipelineRunStatus,
                             ACTIVE_STATUSES, TERMINAL_STATUSES
  <1>5. /\ run'.status = "compensating" /\ run'.reason = "failed" /\ run'.index = run.index
        /\ UNCHANGED <<steps, caller, operators, published>>
    BY DEF FailRun, TypeInv, TypeOK, RunRow
  <1>6. /\ workers'[w] = IdleWorker
        /\ \A v \in Workers : v # w => workers'[v] = workers[v]
    BY DEF FailRun, Return, TypeInv, TypeOK
  <1>7. \A v \in Workers : v # w => workers[v].pc \in {"idle", "look", "claim"}
    <2> SUFFICES ASSUME NEW v \in Workers, v # w
                 PROVE  workers[v].pc \in {"idle", "look", "claim"}
        OBVIOUS
    <2>1. InOrder(workers[v]) /\ workers[v].pc \in PCs
      BY DEF WorkersInOrder, TypeInv, TypeOK, Worker
    <2>2. workers[v].pc \notin ForwardPCs
      BY <1>2, ExecutorInOrder
    <2>3. workers[v].pc # "failRun"
      BY <1>1 DEF WorkersInOrder, LonePCs
    <2>4. workers[v].pc # "publish"
      BY <1>4, NobodyPublishes DEF TERMINAL_STATUSES
    <2>5. workers[v].pc \notin {"saveRun", "finish"} \cup {"unwind", "skip", "claimUndo"} \cup UndoPCs
      BY <1>2, <1>3, <2>1 DEF InOrder, UndoPCs
    <2> QED BY <2>1, <2>2, <2>3, <2>4, <2>5 DEF PCs
  <1>8. RowsInOrder'
    BY <1>2, <1>5 DEF RowsInOrder
  <1>9. RunInOrder'
    BY <1>1, <1>2, <1>5 DEF RunInOrder, GaveUp
  <1>10. Announcing'
    BY <1>4, <1>5 DEF Announcing, NothingAnnounced, AnnouncedOnce, TERMINAL_STATUSES
  <1>11. ASSUME NEW v \in Workers PROVE InOrder(workers[v])'
    <2>1. InOrder(workers[v])
      BY DEF WorkersInOrder
    <2>2. run.index \in Nat
      BY DEF TypeInv, TypeOK, RunRow
    <2> QED BY <1>5, <1>6, <1>7, <2>1, <2>2 DEF InOrder, IdleWorker, NoRun, ForwardPCs
  <1>12. WorkersInOrder'
    BY <1>6, <1>7, <1>11 DEF WorkersInOrder, IdleWorker, LonePCs
  <1> QED BY <1>8, <1>9, <1>10, <1>12

LEMMA SagaFinish ==
    ASSUME TypeInv, ExclInv, SagaInv, NEW w \in Workers, FinishWins(w) PROVE SagaInv'
  <1> USE DEF SagaInv
  <1> DEFINE o == workers[w].outcome
  <1>1. caller = "done" /\ InOrder(workers[w]) /\ workers[w].pc = "finish"
    BY Busy DEF FinishWins, At
  <1>2. run.status \in {"queued", "running", "compensating"}
    BY DEF FinishWins, Finishable, ACTIVE_STATUSES
  <1>3. /\ run'.status = o /\ run'.reason = run.reason /\ run'.index = run.index
        /\ UNCHANGED <<steps, caller, operators, published>>
    BY DEF FinishWins, TypeInv, TypeOK, RunRow
  <1>4. /\ workers'[w].pc = "publish" /\ workers'[w].outcome = o
        /\ workers'[w].run = workers[w].run
        /\ \A v \in Workers : v # w => workers'[v] = workers[v]
    BY DEF FinishWins, Goto, TypeInv, TypeOK, Worker
  <1>5. \/ o = "success" /\ run.index = NumSteps /\ ~GaveUp
        \/ o = "failed" /\ GaveUp /\ Succeeded = {}
    BY <1>1, NumStepsAssumption DEF InOrder, RunInOrder, Idx
  <1>6. (GaveUp' <=> GaveUp) /\ Succeeded' = Succeeded
    BY <1>3, <1>5 DEF GaveUp, Succeeded
  <1>7. \A s \in TERMINAL_STATUSES : published[s] = 0
    BY <1>2 DEF Announcing, NothingAnnounced, TERMINAL_STATUSES
  <1>8. RowsInOrder'
    BY <1>3, <1>6 DEF RowsInOrder
  <1>9. RunInOrder'
    BY <1>1, <1>3, <1>5, <1>6 DEF RunInOrder
  <1>10. Announcing'
    BY <1>3, <1>5, <1>7 DEF Announcing, AnnouncedOnce, TERMINAL_STATUSES
  <1>11. \A v \in Workers : workers[v].pc # "publish"
    BY <1>2, NobodyPublishes DEF TERMINAL_STATUSES
  <1>12. ASSUME NEW v \in Workers PROVE InOrder(workers[v])'
    <2>1. InOrder(workers[v])
      BY DEF WorkersInOrder
    <2>2. CASE v = w
      BY <1>1, <1>3, <1>4, <1>5, <1>7, <2>2 DEF InOrder, ForwardPCs, TERMINAL_STATUSES
    <2>3. CASE v # w
      BY <1>3, <1>4, <1>6, <1>11, <2>1, <2>3 DEF InOrder
    <2> QED BY <2>2, <2>3
  <1>13. WorkersInOrder'
    BY <1>4, <1>11, <1>12 DEF WorkersInOrder, LonePCs
  <1> QED BY <1>8, <1>9, <1>10, <1>13

LEMMA SagaPublish ==
    ASSUME TypeInv, SagaInv, NEW w \in Workers, Publish(w) PROVE SagaInv'
  <1> USE DEF SagaInv
  <1> DEFINE o == workers[w].outcome
  <1>1. caller = "done" /\ InOrder(workers[w]) /\ workers[w].pc = "publish"
    BY Busy DEF Publish, At
  <1>2. o \in TERMINAL_STATUSES /\ run.status = o /\ published[o] = 0
    BY <1>1 DEF InOrder, TypeInv, MemoryOK, Sound
  <1>3. UNCHANGED <<run, steps, caller, operators>>
    BY DEF Publish, rows
  <1>4. published'[o] = 1 /\ \A s \in TERMINAL_STATUSES : s # o => published'[s] = published[s]
    BY <1>2 DEF Publish, TypeInv, TypeOK
  <1>5. /\ workers'[w] = IdleWorker
        /\ \A v \in Workers : v # w => workers'[v] = workers[v]
    BY DEF Publish, Return, TypeInv, TypeOK
  <1>6. RowsInOrder' /\ RunInOrder'
    BY <1>1, <1>3 DEF RowsInOrder, RunInOrder, GaveUp, Succeeded
  <1>7. Announcing'
    BY <1>2, <1>3, <1>4 DEF Announcing, AnnouncedOnce
  <1>8. \A v \in Workers : v # w => workers[v].pc # "publish"
    BY <1>1 DEF WorkersInOrder, LonePCs
  <1>9. ASSUME NEW v \in Workers PROVE InOrder(workers[v])'
    <2>1. InOrder(workers[v])
      BY DEF WorkersInOrder
    <2>2. CASE v = w
      BY <1>3, <1>5, <2>2, IdleInOrder DEF InOrder, IdleWorker, ForwardPCs
    <2>3. CASE v # w
      BY <1>3, <1>5, <1>8, <2>1, <2>3 DEF InOrder, GaveUp, Succeeded
    <2> QED BY <2>2, <2>3
  <1>10. WorkersInOrder'
    BY <1>5, <1>9 DEF WorkersInOrder, IdleWorker, LonePCs
  <1> QED BY <1>6, <1>7, <1>10

-----------------------------------------------------------------------------
(* Outside the workers.                                                      *)
LEMMA SagaSame ==
    ASSUME TypeInv, SagaInv, UNCHANGED <<run, caller, workers, published>>,
           \A i \in Idx : steps'[i].status = steps[i].status,
           \A o \in Operators : operators'[o].pc \in {"idle", "resume"}
    PROVE  SagaInv'
  <1> USE DEF SagaInv
  <1>1. Succeeded' = Succeeded /\ GaveUp' = GaveUp
    BY DEF Succeeded, GaveUp
  <1>2. RowsInOrder'
    BY <1>1 DEF RowsInOrder
  <1>3. RunInOrder'
    BY <1>1 DEF RunInOrder
  <1>4. Announcing'
    BY DEF Announcing, NothingAnnounced, AnnouncedOnce
  <1>5. ASSUME NEW v \in Workers PROVE InOrder(workers[v])'
    <2>1. InOrder(workers[v])
      BY DEF WorkersInOrder
    <2>2. workers[v].pc = "saveRun" => workers[v].step \in Idx
      BY HoldsStep
    <2> QED BY <1>1, <2>1, <2>2 DEF InOrder
  <1>6. WorkersInOrder'
    BY <1>5 DEF WorkersInOrder
  <1> QED BY <1>2, <1>3, <1>4, <1>6

LEMMA SagaStart ==
    ASSUME TypeInv, SagaInv, Start \/ CallerCrash PROVE SagaInv'
  <1> USE DEF SagaInv
  <1>1. caller # "done" /\ caller' # "idle" /\ UNCHANGED <<workers, operators, published>>
    BY DEF Start, CreateRun, CreateStep, CallerCrash
  <1>2. /\ run.index = 0 /\ run.status \in {"absent", "queued", "running", "paused"}
        /\ \A i \in Idx : steps[i].status \in {"absent", "pending"}
        /\ \A v \in Workers : workers[v].pc = "idle"
    BY <1>1 DEF RunInOrder
  <1>3. /\ run'.index = 0 /\ run'.status \in {"queued", "running", "paused"}
        /\ run'.reason # "cancelled"
        /\ \A i \in Idx : steps'[i].status \in {"absent", "pending"}
        /\ caller' = "done" => \A i \in Idx : steps'[i].status = "pending"
    <2>1. CASE CreateRun
      BY <1>2, <2>1, NumStepsAssumption DEF CreateRun, NoRun, Idx
    <2>2. ASSUME NEW i \in Idx, CreateStep(i)
          PROVE  /\ \A j \in Idx : steps'[j].status \in {"absent", "pending"}
                 /\ caller' = "done" => \A j \in Idx : steps'[j].status = "pending"
                 /\ run' = run /\ caller # "idle"
      <3>1. /\ steps'[i].status = "pending"
            /\ \A j \in Idx : j # i => steps'[j] = steps[j]
        BY <2>2 DEF CreateStep, SetStep, TypeInv, TypeOK, StepRow
      <3>2. \A j \in Idx : j < i => steps[j].status = "pending"
        BY <1>2, <2>2 DEF CreateStep
      <3>3. caller' = "done" => i + 1 = NumSteps
        BY <2>2 DEF CreateStep
      <3>4. i + 1 = NumSteps => \A j \in Idx : j # i => j < i
        BY NumStepsAssumption DEF Idx
      <3> QED BY <1>2, <2>2, <3>1, <3>2, <3>3, <3>4 DEF CreateStep
    <2>3. CASE CallerCrash
      BY <1>2, <2>3 DEF CallerCrash, rows, RunInOrder
    <2> QED BY <1>2, <2>1, <2>2, <2>3 DEF Start, RunInOrder
  <1>4. RowsInOrder'
    BY <1>3, IdxNat, NumStepsAssumption DEF RowsInOrder, Undoing
  <1>5. RunInOrder'
    BY <1>1, <1>2, <1>3 DEF RunInOrder, GaveUp
  <1>6. Announcing'
    BY <1>1, <1>2, <1>3 DEF Announcing, NothingAnnounced, AnnouncedOnce, TERMINAL_STATUSES
  <1>7. WorkersInOrder'
    BY <1>1, <1>2, <1>3 DEF WorkersInOrder, InOrder, ForwardPCs, LonePCs
  <1> QED BY <1>4, <1>5, <1>6, <1>7

LEMMA SagaControl ==
    ASSUME Undisturbed, TypeInv, SagaInv,
           RequestPause \/ RequestCancel \/ \E o \in Operators : Control(o)
    PROVE  SagaInv'
  <1> USE DEF SagaInv
  <1>1. ~RequestCancel /\ \A o \in Operators : ~FetchForRetry(o) /\ ~RearmSteps(o) /\ ~Requeue(o)
    BY DEF Undisturbed, RequestCancel, FetchForRetry, RearmSteps, Requeue, RunInOrder
  <1>2. CASE RequestPause
    <2>1. /\ run'.status = "paused" /\ run'.index = run.index /\ run'.reason = run.reason
          /\ run.status \in {"queued", "running"}
          /\ UNCHANGED <<steps, caller, workers, operators, published>>
      BY <1>2 DEF RequestPause, TypeInv, TypeOK, RunRow
    <2> QED BY <2>1, SagaStatus DEF RunInOrder
  <1>3. ASSUME NEW o \in Operators, FetchForResume(o) PROVE SagaInv'
    <2>1. \A p \in Operators : operators'[p].pc \in {"idle", "resume"}
      BY <1>3 DEF FetchForResume, RunInOrder, TypeInv, TypeOK
    <2> QED BY <1>3, <2>1, SagaSame DEF FetchForResume, rows
  <1>4. ASSUME NEW o \in Operators, RequestResume(o) PROVE SagaInv'
    <2>1. \A p \in Operators : operators'[p].pc \in {"idle", "resume"}
      BY <1>4 DEF RequestResume, RunInOrder, TypeInv, TypeOK, IdleOperator
    <2>2. CASE run.status = "paused"
      <3>1. /\ run'.status \in {"running", "queued"} /\ run'.index = run.index
            /\ run'.reason = run.reason
        BY <1>4, <2>2 DEF RequestResume, TypeInv, TypeOK, RunRow
      <3> QED BY <1>4, <2>1, <2>2, <3>1, SagaStatus DEF RequestResume
    <2>3. CASE run.status # "paused"
      BY <1>4, <2>1, <2>3, SagaSame DEF RequestResume
    <2> QED BY <2>2, <2>3
  <1> QED BY <1>1, <1>2, <1>3, <1>4 DEF Control

LEMMA SagaAdvance ==
    ASSUME Undisturbed, TypeInv, ExclInv, SagaInv, NEW w \in Workers, Advance(w)
    PROVE  SagaInv'
  BY SagaRead, SagaForward, SagaUnwind, SagaMarkRunning, SagaSaveRun, SagaFailRun, SagaFinish,
     SagaPublish DEF Advance

LEMMA SagaInvNext ==
    ASSUME Undisturbed, TypeInv, ExclInv, SagaInv, [Next]_vars PROVE SagaInv'
  <1>1. ASSUME NEW i \in Idx, BackoffElapses(i) \/ LockExpires(i) PROVE SagaInv'
    <2>1. \A j \in Idx : steps'[j].status = steps[j].status
      BY <1>1 DEF BackoffElapses, LockExpires, TypeInv, TypeOK, StepRow
    <2> QED BY <1>1, <2>1, SagaSame DEF BackoffElapses, LockExpires, SagaInv, RunInOrder
  <1>2. CASE UNCHANGED vars
    BY <1>2, SagaSame DEF vars, SagaInv, RunInOrder
  <1>3. ASSUME NEW w \in Workers, WorkerCrash(w) PROVE SagaInv'
    BY <1>3, SagaRead
  <1>4. ASSUME NEW o \in Operators, Control(o) PROVE SagaInv'
    BY <1>4, SagaControl
  <1> QED BY <1>1, <1>2, <1>3, <1>4, SagaAdvance, SagaReclaim, SagaStart, SagaControl
          DEF Next, Time

LEMMA SagaAlways == ASSUME Undisturbed PROVE Spec => [](TypeInv /\ ExclInv /\ SagaInv)
  <1>1. TypeInv /\ ExclInv /\ [Next]_vars => ExclInv'
    BY ExclNext DEF Undisturbed
  <1>2. TypeInv /\ ExclInv /\ SagaInv /\ [Next]_vars => SagaInv'
    BY SagaInvNext
  <1> QED BY TypeInit, TypeNext, ExclInit, SagaInit, <1>1, <1>2, PTL DEF Spec

(* One event per run, naming the status the run really has: whatever crashes *)
(* and however old the copies, of a run nobody cancels or retries one        *)
(* outcome is published, once.                                               *)
THEOREM OneAnnouncement == ASSUME Undisturbed PROVE Spec => []AnnouncedOnce
  <1>1. SagaInv => AnnouncedOnce
    BY DEF SagaInv, Announcing
  <1> QED BY SagaAlways, <1>1, PTL

-----------------------------------------------------------------------------
(* Refinement: a claim or a save is a step of the Saga, everything else is   *)
(* none.                                                                     *)
LEMMA PhaseIs ==
    ASSUME TypeInv, SagaInv
    PROVE  /\ run.status = "absent" => Phase = "absent"
           /\ run.status \in {"queued", "running", "paused"} => Phase = "forward"
           /\ run.status = "compensating" => Phase = "unwinding"
           /\ run.status = "success" => Phase = "success"
           /\ run.status = "failed" => Phase = "failed"
           /\ run.status \in {"absent", "queued", "running", "paused", "compensating", "success",
                              "failed"}
  BY DEF Phase, TypeInv, TypeOK, RunRow, PipelineRunStatus, ACTIVE_STATUSES, TERMINAL_STATUSES,
         SagaInv, RunInOrder

(* While the run goes forward, what succeeded are the steps before the index *)
(* and, until the run is saved, the one at the index.                        *)
LEMMA ForwardDone ==
    ASSUME TypeInv, SagaInv, ~GaveUp,
           run.index \in Idx => steps[run.index].status # "success"
    PROVE  Succeeded = 0 .. run.index - 1
  <1> SUFFICES ASSUME NEW i PROVE i \in Succeeded <=> i \in 0 .. run.index - 1
      OBVIOUS
  <1>1. run.index \in Nat /\ run.index <= NumSteps
    BY DEF TypeInv, TypeOK, RunRow, SagaInv, RowsInOrder
  <1>2. i \in 0 .. run.index - 1 => i \in Idx /\ i < run.index
    BY <1>1, NumStepsAssumption DEF Idx
  <1>3. i \in Idx /\ i < run.index => i \in 0 .. run.index - 1
    BY <1>1, NumStepsAssumption DEF Idx
  <1>4. i \in Idx => (steps[i].status = "success" <=> i < run.index)
    <2> SUFFICES ASSUME i \in Idx PROVE steps[i].status = "success" <=> i < run.index
        OBVIOUS
    <2>1. i \in Nat
      BY IdxNat
    <2>2. CASE i < run.index
      BY <2>2 DEF SagaInv, RowsInOrder
    <2>3. CASE i = run.index
      BY <1>1, <2>3
    <2>4. CASE i > run.index
      BY <1>1, <2>1, <2>4 DEF SagaInv, RowsInOrder
    <2> QED BY <1>1, <2>1, <2>2, <2>3, <2>4
  <1> QED BY <1>2, <1>3, <1>4 DEF Succeeded

LEMMA SucceededSame ==
    ASSUME \A i \in Idx : steps'[i].status = "success" <=> steps[i].status = "success"
    PROVE  Succeeded' = Succeeded
  BY DEF Succeeded

(* What a step of the program is to the Saga.                                *)
LEMMA ClaimStepOfSaga ==
    ASSUME Undisturbed, TypeInv, ExclInv, SagaInv, TypeInv', SagaInv', NEW w \in Workers,
           Advance(w)
    PROVE  ByClaim!SagaNext \/ UNCHANGED <<Phase, Succeeded>>
  <1> USE DEF At, rows
  <1>1. UNCHANGED run => UNCHANGED Phase
    BY DEF Phase
  <1>2. UNCHANGED steps => UNCHANGED Succeeded
    BY DEF Succeeded
  <1>3. CASE SaveStep(w)
    <2> DEFINE i == workers[w].step
    <2>1. /\ i \in Idx /\ i = run.index /\ steps[i].status = "running" /\ ~GaveUp
          /\ Phase = "forward" /\ UNCHANGED run
      BY <1>3, ExecutorInOrder, PhaseIs DEF SaveStep, ForwardPCs
    <2>2. Succeeded = 0 .. i - 1
      BY <2>1, ForwardDone
    <2>3. /\ steps'[i].status = "success"
          /\ \A j \in Idx : j # i => steps'[j] = steps[j]
      BY <1>3, <2>1 DEF SaveStep, SetStep, TypeInv, TypeOK, StepRow
    <2>4. Succeeded' = Succeeded \cup {i}
      BY <2>1, <2>3 DEF Succeeded
    <2>5. ByClaim!Succeed(i)
      BY <1>1, <2>1, <2>2, <2>4 DEF ByClaim!Succeed
    <2> QED BY <2>1, <2>5 DEF ByClaim!SagaNext, Idx
  <1>4. CASE ClaimUndoWins(w)
    <2> DEFINE i == workers[w].step
    <2>1. i \in Idx /\ steps[i].status = "success" /\ UNCHANGED run
      BY <1>4, HoldsStep DEF ClaimUndoWins, ClaimStep
    <2>2. GaveUp /\ \A j \in Succeeded : j <= i
      BY <1>4, Busy DEF ClaimUndoWins, InOrder
    <2>3. i \in Succeeded /\ run.status = "compensating"
      BY <2>1, <2>2 DEF Succeeded, GaveUp, SagaInv, RunInOrder
    <2>4. /\ steps'[i].status = "compensating"
          /\ \A j \in Idx : j # i => steps'[j] = steps[j]
      BY <1>4, <2>1 DEF ClaimUndoWins, ClaimStep, TypeInv, TypeOK, StepRow
    <2>5. Succeeded' = Succeeded \ {i}
      BY <2>1, <2>4 DEF Succeeded
    <2>6. ByClaim!Undo(i)
      BY <1>1, <2>1, <2>2, <2>3, <2>5, PhaseIs DEF ByClaim!Undo
    <2> QED BY <2>1, <2>6 DEF ByClaim!SagaNext, Idx
  <1>5. CASE FailRun(w)
    <2>1. run.index \in Idx /\ steps[run.index].status = "failed" /\ ~GaveUp /\ caller = "done"
      BY <1>5, Busy DEF FailRun, InOrder
    <2>2. run.status \in {"queued", "running", "paused"}
      BY <2>1, PhaseIs, NumStepsAssumption DEF GaveUp, SagaInv, RunInOrder, Idx
    <2>3. run'.status = "compensating" /\ UNCHANGED steps
      BY <1>5 DEF FailRun, TypeInv, TypeOK, RunRow
    <2>4. Phase = "forward" /\ Phase' = "unwinding"
      BY <2>2, <2>3, PhaseIs DEF Phase
    <2>5. Succeeded # 0 .. NumSteps - 1
      BY <2>1 DEF Succeeded, Idx
    <2> QED BY <1>2, <2>3, <2>4, <2>5 DEF ByClaim!SagaNext, ByClaim!GiveUp
  <1>6. CASE FinishWins(w)
    <2> DEFINE o == workers[w].outcome
    <2>1. /\ caller = "done" /\ run.status \in {"queued", "running", "compensating"}
          /\ \/ o = "success" /\ run.index = NumSteps
             \/ o = "failed" /\ GaveUp /\ Succeeded = {}
      BY <1>6, Busy DEF FinishWins, Finishable, ACTIVE_STATUSES, InOrder
    <2>2. run'.status = o /\ UNCHANGED steps
      BY <1>6 DEF FinishWins, TypeInv, TypeOK, RunRow
    <2>3. CASE o = "success" /\ run.index = NumSteps
      <3>1. run.index \notin Idx /\ ~GaveUp
        BY <2>3, NumStepsAssumption DEF SagaInv, RunInOrder, Idx
      <3>2. Succeeded = 0 .. NumSteps - 1
        BY <2>3, <3>1, ForwardDone
      <3>3. Phase = "forward" /\ Phase' = "success"
        BY <2>1, <2>2, <2>3, <3>1, PhaseIs DEF GaveUp, Phase
      <3> QED BY <1>2, <2>2, <3>2, <3>3 DEF ByClaim!SagaNext, ByClaim!Complete
    <2>4. CASE o = "failed" /\ GaveUp /\ Succeeded = {}
      <3>1. Phase = "unwinding" /\ Phase' = "failed"
        BY <2>1, <2>2, <2>4, PhaseIs DEF GaveUp, Phase
      <3> QED BY <1>2, <2>2, <2>4, <3>1 DEF ByClaim!SagaNext, ByClaim!Settle
    <2> QED BY <2>1, <2>3, <2>4
  <1>7. CASE MarkRunning(w)
    <2>1. /\ run.status \in {"queued", "running", "paused"} /\ run'.status = "running"
          /\ UNCHANGED steps
      BY <1>7, ExecutorInOrder DEF MarkRunning, ForwardPCs, TypeInv, TypeOK, RunRow
    <2> QED BY <1>2, <2>1 DEF Phase
  <1>8. CASE SaveRun(w)
    <2>1. run'.status = run.status /\ UNCHANGED steps
      BY <1>8 DEF SaveRun, TypeInv, TypeOK, RunRow
    <2> QED BY <1>2, <2>1 DEF Phase
  <1>9. CASE ClaimWins(w) \/ RetryStep(w) \/ FailStep(w) \/ SaveUndo(w)
    <2> DEFINE i == workers[w].step
    <2>1. i \in Idx /\ UNCHANGED run
      BY <1>9, HoldsStep DEF ClaimWins, RetryStep, FailStep, SaveUndo, ForwardPCs, UndoPCs
    <2>2. steps[i].status # "success"
      BY <1>9, <2>1 DEF ClaimWins, ClaimStep, RetryStep, FailStep, SaveUndo, ExclInv, Executing,
                        Compensating, ForwardPCs, UndoPCs
    <2>3. steps'[i].status # "success" /\ \A j \in Idx : j # i => steps'[j] = steps[j]
      <3> USE DEF TypeInv, TypeOK, StepRow
      <3>1. CASE ClaimWins(w)
        BY <2>1, <3>1 DEF ClaimWins, ClaimStep
      <3>2. CASE RetryStep(w)
        BY <2>1, <3>2 DEF RetryStep, SetStep
      <3>3. CASE FailStep(w)
        BY <2>1, <3>3 DEF FailStep, SetStep
      <3>4. CASE SaveUndo(w)
        <4>1. workers[w].outcome \in {"compensated", "compensation_failed"}
          BY <3>4 DEF SaveUndo, MemoryOK, Sound
        <4> QED BY <2>1, <3>4, <4>1 DEF SaveUndo, SetStep
      <3> QED BY <1>9, <3>1, <3>2, <3>3, <3>4
    <2> QED BY <1>1, <2>1, <2>2, <2>3, SucceededSame
  <1>10. CASE SkipPending(w)
    <2>1. \A j \in Idx : steps'[j].status = "success" <=> steps[j].status = "success"
      BY <1>10 DEF SkipPending, TypeInv, TypeOK, StepRow
    <2> QED BY <1>1, <1>10, <2>1, SucceededSame DEF SkipPending
  <1>11. CASE \/ Select(w) \/ Look(w) \/ ClaimLoses(w) \/ Refresh(w) \/ BodySucceeds(w)
              \/ BodyFails(w) \/ Unwind(w) \/ ClaimUndoLoses(w) \/ Undo(w) \/ FinishLoses(w)
              \/ Publish(w)
    BY <1>1, <1>2, <1>11 DEF Select, Look, ClaimLoses, Refresh, BodySucceeds, BodyFails, Unwind,
                             ClaimUndoLoses, Undo, FinishLoses, Publish
  <1> QED BY <1>3, <1>4, <1>5, <1>6, <1>7, <1>8, <1>9, <1>10, <1>11 DEF Advance

LEMMA CreationBegins ==
    ASSUME SagaInv, CreateRun
    PROVE  Phase = "absent" /\ Phase' = "forward" /\ UNCHANGED steps
  BY DEF CreateRun, NoRun, SagaInv, RunInOrder, Phase

LEMMA OthersStutter ==
    ASSUME Undisturbed, TypeInv, SagaInv, [Next]_vars, ~CreateRun,
           \A w \in Workers : ~Advance(w)
    PROVE  UNCHANGED <<Phase, Succeeded>>
  <1>1. UNCHANGED run => UNCHANGED Phase
    BY DEF Phase
  <1>2. UNCHANGED steps => UNCHANGED Succeeded
    BY DEF Succeeded
  <1>4. ASSUME NEW i \in Idx, CreateStep(i)
        PROVE  UNCHANGED <<Phase, Succeeded>>
    <2>1. steps[i].status # "success" /\ UNCHANGED run
      BY <1>4 DEF CreateStep
    <2>2. steps'[i].status # "success" /\ \A j \in Idx : j # i => steps'[j] = steps[j]
      BY <1>4 DEF CreateStep, SetStep, TypeInv, TypeOK, StepRow
    <2> QED BY <1>1, <2>1, <2>2, SucceededSame
  <1>5. ASSUME NEW w \in Workers, NEW i \in Idx, Reclaim(w, i)
        PROVE  UNCHANGED <<Phase, Succeeded>>
    <2>1. steps[i].status # "success" /\ UNCHANGED run
      BY <1>5 DEF Reclaim, Stale
    <2>2. steps'[i].status # "success" /\ \A j \in Idx : j # i => steps'[j] = steps[j]
      BY <1>5 DEF Reclaim, SetStep, TypeInv, TypeOK, StepRow
    <2> QED BY <1>1, <2>1, <2>2, SucceededSame
  <1>6. ASSUME NEW i \in Idx, BackoffElapses(i) \/ LockExpires(i)
        PROVE  UNCHANGED <<Phase, Succeeded>>
    <2>1. \A j \in Idx : steps'[j].status = steps[j].status
      BY <1>6 DEF BackoffElapses, LockExpires, TypeInv, TypeOK, StepRow
    <2> QED BY <1>1, <1>6, <2>1, SucceededSame DEF BackoffElapses, LockExpires
  <1>7. ~RequestCancel /\ \A o \in Operators : ~FetchForRetry(o) /\ ~RearmSteps(o) /\ ~Requeue(o)
    BY DEF Undisturbed, RequestCancel, FetchForRetry, RearmSteps, Requeue, SagaInv, RunInOrder
  <1>8. CASE RequestPause
    <2>1. /\ run.status \in {"queued", "running"} /\ run'.status = "paused" /\ UNCHANGED steps
      BY <1>8 DEF RequestPause, TypeInv, TypeOK, RunRow
    <2>2. Phase' = Phase
      BY <2>1 DEF Phase
    <2> QED BY <1>2, <2>1, <2>2
  <1>9. ASSUME NEW o \in Operators, FetchForResume(o) \/ RequestResume(o)
        PROVE  UNCHANGED <<Phase, Succeeded>>
    <2>1. \/ run' = run
          \/ run.status = "paused" /\ run'.status \in {"running", "queued"}
      BY <1>9 DEF FetchForResume, RequestResume, rows, TypeInv, TypeOK, RunRow
    <2>2. Phase' = Phase
      BY <2>1 DEF Phase
    <2> QED BY <1>2, <1>9, <2>2 DEF FetchForResume, RequestResume, rows
  <1>10. CASE CallerCrash \/ UNCHANGED vars
    BY <1>1, <1>2, <1>10 DEF CallerCrash, vars, rows
  <1>11. ASSUME NEW w \in Workers, WorkerCrash(w) PROVE UNCHANGED <<Phase, Succeeded>>
    BY <1>1, <1>2, <1>11 DEF WorkerCrash, rows
  <1> QED BY <1>4, <1>5, <1>6, <1>7, <1>8, <1>9, <1>10, <1>11 DEF Next, Start, Time, Control

LEMMA ClaimOtherSteps ==
    ASSUME Undisturbed, TypeInv, SagaInv, [Next]_vars, \A w \in Workers : ~Advance(w)
    PROVE  ByClaim!SagaNext \/ UNCHANGED <<Phase, Succeeded>>
  <1>1. CASE CreateRun
    BY <1>1, CreationBegins DEF ByClaim!SagaNext, ByClaim!Begin, Succeeded
  <1> QED BY <1>1, OthersStutter

(* A run that nobody cancels or retries implements Saga, a step counting as  *)
(* done until its compensation is claimed: however many ticks race, whatever *)
(* they hold in memory and wherever they crash, successes come in order, the *)
(* unwinding claims them from the last to the first, and the run ends once,  *)
(* with everything done or everything undone.                                *)
THEOREM ClaimsRefineSaga == ASSUME Undisturbed PROVE Spec => ClaimsImplementSaga
  <1>1. Init => ByClaim!SagaInit
    BY DEF Init, ByClaim!SagaInit, Phase, Succeeded, NoRun, NoStep
  <1>2. ASSUME TypeInv, ExclInv, SagaInv, TypeInv', SagaInv', [Next]_vars
        PROVE  [ByClaim!SagaNext]_(ByClaim!saga)
    <2>1. ByClaim!SagaNext \/ UNCHANGED <<Phase, Succeeded>>
      BY <1>2, ClaimStepOfSaga, ClaimOtherSteps
    <2> QED BY <2>1 DEF ByClaim!saga
  <1> QED BY SagaAlways, <1>1, <1>2, PTL DEF Spec, ClaimsImplementSaga, ByClaim!SagaSpec
=============================================================================
