----------------------- MODULE PipelineEngine_proofs -----------------------
(***************************************************************************)
(* Theorems about PipelineEngine for every number of steps, workers and    *)
(* operators, every attempt and retry budget, every set of crash points    *)
(* and both switches, unless a theorem names the switch it needs.          *)
(***************************************************************************)
EXTENDS PipelineEngine, TLAPS

(* What a worker's memory must hold for its next statement to be well typed: *)
(* past the lookup it has the index of a step, and before a save of an       *)
(* outcome an outcome of the kind it saves.                                  *)
Sound(r) ==
    /\ r.pc \in ForwardPCs \cup UndoPCs \cup {"claim", "claimUndo", "saveRun"}
          => r.step \in Idx
    /\ r.pc \in {"finish", "publish"} => r.outcome \in TERMINAL_STATUSES
    /\ r.pc = "saveUndo" => r.outcome \in {"compensated", "compensation_failed"}

MemoryOK == \A w \in Workers : Sound(workers[w])

TypeInv == TypeOK /\ MemoryOK

LEMMA HoldsStep ==
    ASSUME TypeInv, NEW w \in Workers,
           workers[w].pc \in ForwardPCs \cup UndoPCs \cup {"claim", "claimUndo", "saveRun"}
    PROVE  workers[w].step \in Idx
  BY DEF TypeInv, MemoryOK, Sound

LEMMA IdxNat == \A i \in Idx : i \in Nat
  BY NumStepsAssumption DEF Idx

LEMMA IdleTyped == IdleWorker \in Worker /\ Sound(IdleWorker)
  BY DEF IdleWorker, Worker, RunRow, NoRun, PCs, TerminationReason, Sound, ForwardPCs, UndoPCs

LEMMA WorkerChange ==
    ASSUME TypeInv, NEW w \in Workers, NEW r \in Worker, Sound(r),
           workers' = [workers EXCEPT ![w] = r]
    PROVE  workers' \in [Workers -> Worker] /\ MemoryOK'
  BY DEF TypeInv, TypeOK, MemoryOK

LEMMA ReturnTyped ==
    ASSUME TypeInv, NEW w \in Workers, Return(w)
    PROVE  workers' \in [Workers -> Worker] /\ MemoryOK'
  BY IdleTyped, WorkerChange DEF Return

LEMMA GotoTyped ==
    ASSUME TypeInv, NEW w \in Workers, NEW pc \in PCs, Goto(w, pc),
           Sound([workers[w] EXCEPT !.pc = pc])
    PROVE  workers' \in [Workers -> Worker] /\ MemoryOK'
  <1>1. [workers[w] EXCEPT !.pc = pc] \in Worker
    BY DEF TypeInv, TypeOK, Worker
  <1> QED BY <1>1, WorkerChange DEF Goto

LEMMA SetStepTyped ==
    ASSUME TypeInv, NEW i \in Idx, NEW s \in StepRunStatus, SetStep(i, s)
    PROVE  steps' \in [Idx -> StepRow]
  BY DEF SetStep, StepRow, TypeInv, TypeOK

LEMMA ClaimStepTyped ==
    ASSUME TypeInv, NEW i \in Idx, NEW f, NEW s \in StepRunStatus, ClaimStep(i, f, s)
    PROVE  steps' \in [Idx -> StepRow]
  BY DEF ClaimStep, StepRow, TypeInv, TypeOK

LEMMA TypeInit == Init => TypeInv
  <1> SUFFICES ASSUME Init PROVE TypeInv
      OBVIOUS
  <1>1. run \in RunRow
    BY DEF Init, NoRun, RunRow, TerminationReason
  <1>2. steps \in [Idx -> StepRow]
    BY DEF Init, NoStep, StepRow
  <1>3. workers \in [Workers -> Worker] /\ MemoryOK
    BY IdleTyped DEF Init, MemoryOK
  <1>4. operators \in [Operators -> Operator]
    BY DEF Init, IdleOperator, Operator
  <1> QED BY <1>1, <1>2, <1>3, <1>4 DEF Init, TypeInv, TypeOK

LEMMA SelectTyped == ASSUME TypeInv, NEW w \in Workers, Select(w) PROVE TypeInv'
  <1>1. workers' \in [Workers -> Worker] /\ MemoryOK'
    <2> DEFINE r == [IdleWorker EXCEPT
                     !.pc = IF run.status = "compensating" THEN "unwind" ELSE "look", !.run = run]
    <2>1. r \in Worker /\ Sound(r)
      BY DEF Select, Sound, At, ForwardPCs, UndoPCs, PCs, TypeInv, TypeOK, MemoryOK, Worker, IdleWorker, NoRun
    <2>2. workers' = [workers EXCEPT ![w] = r]
      BY DEF Select
    <2> QED BY <2>1, <2>2, WorkerChange
  <1> QED BY <1>1 DEF Select, TypeInv, TypeOK, rows

LEMMA LookTyped == ASSUME TypeInv, NEW w \in Workers, Look(w) PROVE TypeInv'
  <1>1. workers' \in [Workers -> Worker] /\ MemoryOK'
    <2>1. CASE Return(w)
      BY <2>1, ReturnTyped
    <2>2. CASE workers' = [workers EXCEPT ![w].pc = "finish", ![w].outcome = "success"]
      <3> DEFINE r == [workers[w] EXCEPT !.pc = "finish", !.outcome = "success"]
      <3>1. r \in Worker /\ Sound(r)
        BY DEF Sound, ForwardPCs, UndoPCs, PCs, TypeInv, TypeOK, Worker, TERMINAL_STATUSES
      <3> QED BY <2>2, <3>1, WorkerChange
    <2>3. ASSUME NEW i \in Idx, workers' = [workers EXCEPT ![w].pc = "claim", ![w].step = i]
          PROVE  workers' \in [Workers -> Worker] /\ MemoryOK'
      <3> DEFINE r == [workers[w] EXCEPT !.pc = "claim", !.step = i]
      <3>1. r \in Worker /\ Sound(r)
        BY IdxNat DEF Sound, ForwardPCs, UndoPCs, PCs, TypeInv, TypeOK, Worker
      <3> QED BY <2>3, <3>1, WorkerChange
    <2> QED BY <2>1, <2>2, <2>3 DEF Look
  <1> QED BY <1>1 DEF Look, TypeInv, TypeOK, rows

LEMMA ClaimWinsTyped == ASSUME TypeInv, NEW w \in Workers, ClaimWins(w) PROVE TypeInv'
  <1>1. workers' \in [Workers -> Worker] /\ MemoryOK'
    BY GotoTyped DEF ClaimWins, Sound, At, ForwardPCs, UndoPCs, PCs, TypeInv, TypeOK, MemoryOK, Worker
  <1>2. steps' \in [Idx -> StepRow]
    BY ClaimStepTyped DEF ClaimWins, At, ForwardPCs, UndoPCs, TypeInv, MemoryOK, Sound, StepRunStatus
  <1> QED BY <1>1, <1>2 DEF ClaimWins, TypeInv, TypeOK, rows

LEMMA ClaimLosesTyped == ASSUME TypeInv, NEW w \in Workers, ClaimLoses(w) PROVE TypeInv'
  <1>1. workers' \in [Workers -> Worker] /\ MemoryOK'
    BY ReturnTyped DEF ClaimLoses
  <1> QED BY <1>1 DEF ClaimLoses, TypeInv, TypeOK, rows

LEMMA RefreshTyped == ASSUME TypeInv, NEW w \in Workers, Refresh(w) PROVE TypeInv'
  <1>1. workers' \in [Workers -> Worker] /\ MemoryOK'
    <2> DEFINE r == [workers[w] EXCEPT
                     !.pc = IF workers[w].run.status = "queued" THEN "mark" ELSE "body",
                     !.attempt = steps[workers[w].step].attempt]
    <2>1. steps[workers[w].step].attempt \in Nat
      BY DEF Refresh, At, ForwardPCs, TypeInv, TypeOK, MemoryOK, Sound, StepRow
    <2>2. r \in Worker /\ Sound(r)
      BY <2>1 DEF Refresh, Sound, At, ForwardPCs, UndoPCs, PCs, TypeInv, TypeOK, MemoryOK, Worker
    <2> QED BY <2>2, WorkerChange DEF Refresh
  <1> QED BY <1>1 DEF Refresh, TypeInv, TypeOK, rows

LEMMA MarkRunningTyped == ASSUME TypeInv, NEW w \in Workers, MarkRunning(w) PROVE TypeInv'
  <1>1. workers' \in [Workers -> Worker] /\ MemoryOK'
    <2> DEFINE r == [workers[w] EXCEPT !.pc = "body", !.run.status = "running",
                                       !.run.started = TRUE]
    <2> DEFINE u == [workers[w].run EXCEPT !.status = "running", !.started = TRUE]
    <2>1. u \in RunRow
      BY DEF TypeInv, TypeOK, Worker, RunRow, PipelineRunStatus, ACTIVE_STATUSES
    <2>2. workers[w].step \in Idx
      BY HoldsStep DEF MarkRunning, At, ForwardPCs
    <2>3. r = [workers[w] EXCEPT !.pc = "body", !.run = u]
      BY DEF TypeInv, TypeOK, Worker
    <2>4. [workers[w] EXCEPT !.pc = "body", !.run = u] \in Worker
      BY ZenonT(30), <2>1 DEF TypeInv, TypeOK, Worker, PCs, ForwardPCs
    <2>5. Sound(r)
      BY <2>2 DEF Sound, TypeInv, TypeOK, Worker
    <2>6. workers' = [workers EXCEPT ![w] = r]
      BY DEF MarkRunning
    <2> HIDE DEF r
    <2> QED BY <2>3, <2>4, <2>5, <2>6, WorkerChange
  <1>2. run' \in RunRow
    BY DEF MarkRunning, TypeInv, TypeOK, RunRow, PipelineRunStatus, ACTIVE_STATUSES, TerminationReason
  <1> QED BY <1>1, <1>2 DEF MarkRunning, TypeInv, TypeOK, rows

LEMMA BodySucceedsTyped == ASSUME TypeInv, NEW w \in Workers, BodySucceeds(w) PROVE TypeInv'
  <1>1. workers' \in [Workers -> Worker] /\ MemoryOK'
    BY GotoTyped DEF BodySucceeds, Sound, At, ForwardPCs, UndoPCs, PCs, TypeInv, TypeOK, MemoryOK, Worker
  <1>2. ran' \in [Idx -> Nat]
    BY HoldsStep DEF BodySucceeds, At, ForwardPCs, TypeInv, TypeOK
  <1> QED BY <1>1, <1>2 DEF BodySucceeds, TypeInv, TypeOK, rows

LEMMA BodyFailsTyped == ASSUME TypeInv, NEW w \in Workers, BodyFails(w) PROVE TypeInv'
  <1>1. workers' \in [Workers -> Worker] /\ MemoryOK'
    BY GotoTyped DEF BodyFails, Sound, At, ForwardPCs, UndoPCs, PCs, TypeInv, TypeOK, MemoryOK, Worker
  <1> QED BY <1>1 DEF BodyFails, TypeInv, TypeOK, rows

LEMMA SaveStepTyped == ASSUME TypeInv, NEW w \in Workers, SaveStep(w) PROVE TypeInv'
  <1>1. workers' \in [Workers -> Worker] /\ MemoryOK'
    BY GotoTyped DEF SaveStep, Sound, At, ForwardPCs, UndoPCs, PCs, TypeInv, TypeOK, MemoryOK, Worker
  <1>2. steps' \in [Idx -> StepRow]
    BY SetStepTyped DEF SaveStep, At, ForwardPCs, UndoPCs, TypeInv, MemoryOK, Sound, StepRunStatus
  <1> QED BY <1>1, <1>2 DEF SaveStep, TypeInv, TypeOK, rows

LEMMA SaveRunTyped == ASSUME TypeInv, NEW w \in Workers, SaveRun(w) PROVE TypeInv'
  <1>1. workers' \in [Workers -> Worker] /\ MemoryOK'
    BY ReturnTyped DEF SaveRun
  <1>2. run' \in RunRow
    <2>1. workers[w].step \in Idx
      BY HoldsStep DEF SaveRun, At
    <2>2. workers[w].run \in RunRow
      BY DEF TypeInv, TypeOK, Worker
    <2>3. /\ workers[w].run.context \cup {workers[w].step} \in SUBSET Idx
          /\ workers[w].run.index + 1 \in Nat
      BY <2>1, <2>2 DEF RunRow
    <2>4. run' = [run EXCEPT !.context = workers[w].run.context \cup {workers[w].step},
                             !.index = workers[w].run.index + 1]
      BY DEF SaveRun
    <2> QED BY <2>3, <2>4 DEF TypeInv, TypeOK, RunRow
  <1> QED BY <1>1, <1>2 DEF SaveRun, TypeInv, TypeOK, rows

LEMMA RetryStepTyped == ASSUME TypeInv, NEW w \in Workers, RetryStep(w) PROVE TypeInv'
  <1>1. workers' \in [Workers -> Worker] /\ MemoryOK'
    BY ReturnTyped DEF RetryStep
  <1>2. steps' \in [Idx -> StepRow]
    <2>1. workers[w].step \in Idx
      BY HoldsStep DEF RetryStep, At, ForwardPCs
    <2> QED BY <2>1 DEF RetryStep, TypeInv, TypeOK, StepRow, StepRunStatus
  <1> QED BY <1>1, <1>2 DEF RetryStep, TypeInv, TypeOK, rows

LEMMA FailStepTyped == ASSUME TypeInv, NEW w \in Workers, FailStep(w) PROVE TypeInv'
  <1>1. workers' \in [Workers -> Worker] /\ MemoryOK'
    BY GotoTyped DEF FailStep, Sound, At, ForwardPCs, UndoPCs, PCs, TypeInv, TypeOK, MemoryOK, Worker
  <1>2. steps' \in [Idx -> StepRow]
    BY SetStepTyped DEF FailStep, At, ForwardPCs, UndoPCs, TypeInv, MemoryOK, Sound, StepRunStatus
  <1> QED BY <1>1, <1>2 DEF FailStep, TypeInv, TypeOK, rows

LEMMA FailRunTyped == ASSUME TypeInv, NEW w \in Workers, FailRun(w) PROVE TypeInv'
  <1>1. workers' \in [Workers -> Worker] /\ MemoryOK'
    BY ReturnTyped DEF FailRun
  <1>2. run' \in RunRow
    BY DEF FailRun, TypeInv, TypeOK, RunRow, PipelineRunStatus, ACTIVE_STATUSES, TerminationReason
  <1> QED BY <1>1, <1>2 DEF FailRun, TypeInv, TypeOK, rows

LEMMA UnwindTyped == ASSUME TypeInv, NEW w \in Workers, Unwind(w) PROVE TypeInv'
  <1>1. workers' \in [Workers -> Worker] /\ MemoryOK'
    <2>1. CASE Goto(w, "skip")
      BY <2>1, GotoTyped DEF Sound, ForwardPCs, UndoPCs, PCs, TypeInv, TypeOK, Worker
    <2>2. ASSUME NEW i \in Idx, workers' = [workers EXCEPT ![w].pc = "claimUndo", ![w].step = i]
          PROVE  workers' \in [Workers -> Worker] /\ MemoryOK'
      <3> DEFINE r == [workers[w] EXCEPT !.pc = "claimUndo", !.step = i]
      <3>1. r \in Worker /\ Sound(r)
        BY IdxNat DEF Sound, ForwardPCs, UndoPCs, PCs, TypeInv, TypeOK, Worker
      <3> QED BY <2>2, <3>1, WorkerChange
    <2> QED BY <2>1, <2>2 DEF Unwind, Succeeded
  <1> QED BY <1>1 DEF Unwind, TypeInv, TypeOK, rows

LEMMA SkipPendingTyped == ASSUME TypeInv, NEW w \in Workers, SkipPending(w) PROVE TypeInv'
  <1>1. workers' \in [Workers -> Worker] /\ MemoryOK'
    <2> DEFINE r == [workers[w] EXCEPT !.pc = "finish",
                     !.outcome = IF workers[w].run.reason = "cancelled" THEN "cancelled" ELSE "failed"]
    <2>1. r \in Worker /\ Sound(r)
      BY DEF Sound, ForwardPCs, UndoPCs, PCs, TypeInv, TypeOK, Worker, TERMINAL_STATUSES
    <2> QED BY <2>1, WorkerChange DEF SkipPending
  <1>2. steps' \in [Idx -> StepRow]
    BY DEF SkipPending, TypeInv, TypeOK, StepRow, StepRunStatus
  <1> QED BY <1>1, <1>2 DEF SkipPending, TypeInv, TypeOK, rows

LEMMA ClaimUndoWinsTyped == ASSUME TypeInv, NEW w \in Workers, ClaimUndoWins(w) PROVE TypeInv'
  <1>1. workers' \in [Workers -> Worker] /\ MemoryOK'
    BY GotoTyped DEF ClaimUndoWins, Sound, At, ForwardPCs, UndoPCs, PCs, TypeInv, TypeOK, MemoryOK, Worker
  <1>2. steps' \in [Idx -> StepRow]
    BY ClaimStepTyped DEF ClaimUndoWins, At, ForwardPCs, UndoPCs, TypeInv, MemoryOK, Sound, StepRunStatus
  <1> QED BY <1>1, <1>2 DEF ClaimUndoWins, TypeInv, TypeOK, rows

LEMMA ClaimUndoLosesTyped == ASSUME TypeInv, NEW w \in Workers, ClaimUndoLoses(w) PROVE TypeInv'
  <1>1. workers' \in [Workers -> Worker] /\ MemoryOK'
    BY ReturnTyped DEF ClaimUndoLoses
  <1> QED BY <1>1 DEF ClaimUndoLoses, TypeInv, TypeOK, rows

LEMMA UndoTyped == ASSUME TypeInv, NEW w \in Workers, Undo(w) PROVE TypeInv'
  <1>1. workers' \in [Workers -> Worker] /\ MemoryOK'
    <2>1. ASSUME NEW outcome \in {"compensated", "compensation_failed"},
                 workers' = [workers EXCEPT ![w].pc = "saveUndo", ![w].outcome = outcome]
          PROVE  workers' \in [Workers -> Worker] /\ MemoryOK'
      <3> DEFINE r == [workers[w] EXCEPT !.pc = "saveUndo", !.outcome = outcome]
      <3>1. r \in Worker /\ Sound(r)
        BY DEF Undo, Sound, At, ForwardPCs, UndoPCs, PCs, TypeInv, TypeOK, MemoryOK, Worker,
               StepRunStatus
      <3> QED BY <2>1, <3>1, WorkerChange
    <2> QED BY <2>1 DEF Undo
  <1>2. undone' \in [Idx -> Nat]
    BY DEF Undo, TypeInv, TypeOK
  <1> QED BY <1>1, <1>2 DEF Undo, TypeInv, TypeOK, rows

LEMMA SaveUndoTyped == ASSUME TypeInv, NEW w \in Workers, SaveUndo(w) PROVE TypeInv'
  <1>1. workers' \in [Workers -> Worker] /\ MemoryOK'
    BY ReturnTyped DEF SaveUndo
  <1>2. steps' \in [Idx -> StepRow]
    BY SetStepTyped DEF SaveUndo, At, ForwardPCs, UndoPCs, TypeInv, MemoryOK, Sound, StepRunStatus
  <1> QED BY <1>1, <1>2 DEF SaveUndo, TypeInv, TypeOK, rows

LEMMA FinishWinsTyped == ASSUME TypeInv, NEW w \in Workers, FinishWins(w) PROVE TypeInv'
  <1>1. workers' \in [Workers -> Worker] /\ MemoryOK'
    BY GotoTyped DEF FinishWins, Sound, At, ForwardPCs, UndoPCs, PCs, TypeInv, TypeOK, MemoryOK, Worker
  <1>2. run' \in RunRow
    BY DEF FinishWins, At, TypeInv, TypeOK, MemoryOK, Sound, RunRow, PipelineRunStatus
  <1> QED BY <1>1, <1>2 DEF FinishWins, TypeInv, TypeOK, rows

LEMMA FinishLosesTyped == ASSUME TypeInv, NEW w \in Workers, FinishLoses(w) PROVE TypeInv'
  <1>1. workers' \in [Workers -> Worker] /\ MemoryOK'
    BY ReturnTyped DEF FinishLoses
  <1> QED BY <1>1 DEF FinishLoses, TypeInv, TypeOK, rows

LEMMA PublishTyped == ASSUME TypeInv, NEW w \in Workers, Publish(w) PROVE TypeInv'
  <1>1. workers' \in [Workers -> Worker] /\ MemoryOK'
    BY ReturnTyped DEF Publish
  <1>2. published' \in [TERMINAL_STATUSES -> Nat]
    <2>1. workers[w].outcome \in TERMINAL_STATUSES
      BY DEF Publish, At, TypeInv, MemoryOK, Sound
    <2> QED BY <2>1 DEF Publish, TypeInv, TypeOK
  <1> QED BY <1>1, <1>2 DEF Publish, TypeInv, TypeOK, rows

LEMMA WorkerCrashTyped == ASSUME TypeInv, NEW w \in Workers, WorkerCrash(w) PROVE TypeInv'
  <1>1. workers' \in [Workers -> Worker] /\ MemoryOK'
    BY ReturnTyped DEF WorkerCrash
  <1> QED BY <1>1 DEF WorkerCrash, TypeInv, TypeOK, rows

LEMMA AdvanceTyped == ASSUME TypeInv, NEW w \in Workers, Advance(w) PROVE TypeInv'
  BY SelectTyped, LookTyped, ClaimWinsTyped, ClaimLosesTyped, RefreshTyped, MarkRunningTyped,
     BodySucceedsTyped, BodyFailsTyped, SaveStepTyped, SaveRunTyped, RetryStepTyped,
     FailStepTyped, FailRunTyped, UnwindTyped, SkipPendingTyped, ClaimUndoWinsTyped,
     ClaimUndoLosesTyped, UndoTyped, SaveUndoTyped, FinishWinsTyped, FinishLosesTyped,
     PublishTyped
  DEF Advance

LEMMA ReclaimTyped ==
    ASSUME TypeInv, NEW w \in Workers, NEW i \in Idx, Reclaim(w, i) PROVE TypeInv'
  <1>1. workers' \in [Workers -> Worker] /\ MemoryOK'
    <2>1. CASE Goto(w, "failRun")
      BY <2>1, GotoTyped DEF Sound, ForwardPCs, UndoPCs, PCs, TypeInv, TypeOK, Worker
    <2>2. CASE UNCHANGED workers
      BY <2>2 DEF TypeInv, TypeOK, MemoryOK
    <2> QED BY <2>1, <2>2 DEF Reclaim
  <1>2. steps' \in [Idx -> StepRow]
    BY SetStepTyped DEF Reclaim, StepRunStatus
  <1> QED BY <1>1, <1>2 DEF Reclaim, TypeInv, TypeOK

LEMMA ControlTyped == ASSUME TypeInv, NEW o \in Operators, Control(o) PROVE TypeInv'
  <1> USE DEF TypeInv, TypeOK, MemoryOK
  <1>1. IdleOperator \in Operator
    BY DEF IdleOperator, Operator
  <1>2. CASE FetchForResume(o)
    BY <1>2 DEF FetchForResume, Operator, RunRow, rows
  <1>3. CASE RequestResume(o)
    <2>1. run' \in RunRow
      BY <1>3 DEF RequestResume, RunRow, PipelineRunStatus, ACTIVE_STATUSES
    <2> QED BY <1>1, <1>3, <2>1 DEF RequestResume
  <1>4. CASE FetchForRetry(o)
    BY <1>4 DEF FetchForRetry, Operator, rows
  <1>5. CASE RearmSteps(o)
    <2>1. steps' \in [Idx -> StepRow]
      BY ZenonT(30), <1>5 DEF RearmSteps, StepRow, StepRunStatus
    <2>2. operators' \in [Operators -> Operator]
      BY <1>5 DEF RearmSteps, Operator
    <2> QED BY <1>5, <2>1, <2>2 DEF RearmSteps
  <1>6. CASE Requeue(o)
    <2>1. run' \in RunRow
      BY <1>6 DEF Requeue, RunRow, PipelineRunStatus, ACTIVE_STATUSES, TerminationReason
    <2> QED BY <1>1, <1>6, <2>1 DEF Requeue
  <1> QED BY <1>2, <1>3, <1>4, <1>5, <1>6 DEF Control

LEMMA TypeNext == TypeInv /\ [Next]_vars => TypeInv'
  <1> SUFFICES ASSUME TypeInv, [Next]_vars PROVE TypeInv'
      OBVIOUS
  <1>1. CASE CreateRun
    BY <1>1 DEF CreateRun, NoRun, TypeInv, TypeOK, MemoryOK, RunRow, PipelineRunStatus,
                ACTIVE_STATUSES, TerminationReason
  <1>2. ASSUME NEW i \in Idx, CreateStep(i) PROVE TypeInv'
    <2>1. steps' \in [Idx -> StepRow]
      BY <1>2, SetStepTyped DEF CreateStep, StepRunStatus
    <2> QED BY <1>2, <2>1 DEF CreateStep, TypeInv, TypeOK, MemoryOK
  <1>3. CASE CallerCrash
    BY <1>3 DEF CallerCrash, rows, TypeInv, TypeOK, MemoryOK
  <1>4. ASSUME NEW i \in Idx, BackoffElapses(i) \/ LockExpires(i) PROVE TypeInv'
    <2>1. CASE BackoffElapses(i)
      <3>1. steps' \in [Idx -> StepRow]
        BY <2>1 DEF BackoffElapses, StepRow, TypeInv, TypeOK
      <3> QED BY <2>1, <3>1 DEF BackoffElapses, TypeInv, TypeOK, MemoryOK
    <2>2. CASE LockExpires(i)
      <3>1. steps' \in [Idx -> StepRow]
        BY <2>2 DEF LockExpires, StepRow, TypeInv, TypeOK
      <3> QED BY <2>2, <3>1 DEF LockExpires, TypeInv, TypeOK, MemoryOK
    <2> QED BY <1>4, <2>1, <2>2
  <1>5. CASE RequestPause \/ RequestCancel
    BY <1>5 DEF RequestPause, RequestCancel, TypeInv, TypeOK, MemoryOK, RunRow,
                PipelineRunStatus, ACTIVE_STATUSES, TerminationReason
  <1>6. CASE UNCHANGED vars
    BY <1>6 DEF vars, TypeInv, TypeOK, MemoryOK
  <1> QED
    BY <1>1, <1>2, <1>3, <1>4, <1>5, <1>6, AdvanceTyped, WorkerCrashTyped, ReclaimTyped,
       ControlTyped
    DEF Next, Start, Time

(* The rows and every in-memory copy hold values their columns allow.        *)
THEOREM TypeCorrect == Spec => []TypeOK
  <1>1. TypeInv => TypeOK
    BY DEF TypeInv
  <1> QED BY TypeInit, TypeNext, <1>1, PTL DEF Spec

-----------------------------------------------------------------------------
(* Nothing is lost between the copies.  The invariant speaks of every copy   *)
(* of the run, not only of the row: a late worker may write its copy back,   *)
(* so each copy must be complete up to its own index; and a worker executes  *)
(* the step its copy points at.                                              *)
Complete(r, n) ==
    \A j \in Idx : j < r.index => n[j] > 0 /\ j \in r.context

Carries(r, n) ==
    /\ Complete(r.run, n)
    /\ r.pc \in ForwardPCs \cup {"claim", "saveRun"} => r.step = r.run.index
    /\ r.pc \in {"saveStep", "saveRun"} => n[r.step] > 0

KeptInv == Complete(run, ran) /\ \A w \in Workers : Carries(workers[w], ran)

LEMMA KeptInit == Init => KeptInv
  BY DEF Init, KeptInv, Carries, Complete, NoRun, IdleWorker, ForwardPCs, Idx

LEMMA IdleCarries == \A n : Carries(IdleWorker, n)
  BY NumStepsAssumption DEF Carries, Complete, IdleWorker, NoRun, ForwardPCs, Idx

(* A step that leaves index, context and ran alone and gives one worker a    *)
(* memory that carries what it must.                                         *)
LEMMA KeptWorker ==
    ASSUME TypeInv, KeptInv, NEW w \in Workers, NEW r, Carries(r, ran),
           workers' = [workers EXCEPT ![w] = r], UNCHANGED ran,
           run'.index = run.index, run'.context = run.context
    PROVE  KeptInv'
  BY DEF TypeInv, TypeOK, KeptInv, Complete, Carries

LEMMA KeptReturn ==
    ASSUME TypeInv, KeptInv, NEW w \in Workers, Return(w), UNCHANGED ran,
           run'.index = run.index, run'.context = run.context
    PROVE  KeptInv'
  BY IdleCarries, KeptWorker DEF Return

LEMMA KeptGoto ==
    ASSUME TypeInv, KeptInv, NEW w \in Workers, NEW pc, Goto(w, pc), UNCHANGED ran,
           run'.index = run.index, run'.context = run.context,
           pc \in ForwardPCs \cup {"claim", "saveRun"}
              => workers[w].pc \in ForwardPCs \cup {"claim", "saveRun"},
           pc \in {"saveStep", "saveRun"} => ran[workers[w].step] > 0
    PROVE  KeptInv'
  <1> DEFINE r == [workers[w] EXCEPT !.pc = pc]
  <1>1. r.pc = pc /\ r.step = workers[w].step /\ r.run = workers[w].run
    BY DEF TypeInv, TypeOK, Worker
  <1>2. Carries(workers[w], ran)
    BY DEF KeptInv
  <1>3. workers' = [workers EXCEPT ![w] = r]
    BY DEF Goto
  <1> HIDE DEF r
  <1>4. Carries(r, ran)
    BY <1>1, <1>2 DEF Carries
  <1> QED BY <1>3, <1>4, KeptWorker

LEMMA KeptAdvance ==
    ASSUME TypeInv, KeptInv, NEW w \in Workers, Advance(w) PROVE KeptInv'
  <1> USE DEF At, rows
  <1>1. ASSUME Return(w), UNCHANGED <<run, ran>> PROVE KeptInv'
    BY <1>1, KeptReturn
  <1>2. CASE Select(w)
    <2> DEFINE r == [IdleWorker EXCEPT
                       !.pc = IF run.status = "compensating" THEN "unwind" ELSE "look",
                       !.run = run]
    <2>1. Carries(r, ran)
      BY DEF IdleWorker, Carries, ForwardPCs, KeptInv
    <2>2. workers' = [workers EXCEPT ![w] = r] /\ UNCHANGED <<run, ran>>
      BY <1>2 DEF Select
    <2> HIDE DEF r
    <2> QED BY <2>1, <2>2, KeptWorker
  <1>3. CASE Look(w)
    <2>1. Carries(workers[w], ran) /\ UNCHANGED <<run, ran>>
      BY <1>3 DEF Look, KeptInv
    <2>2. ASSUME NEW r, workers' = [workers EXCEPT ![w] = r], r.run = workers[w].run,
                 \/ r.pc = "finish"
                 \/ r.pc = "claim" /\ r.step = workers[w].run.index
          PROVE  KeptInv'
      <3>1. Carries(r, ran)
        BY <2>1, <2>2 DEF Carries, ForwardPCs
      <3> QED BY <2>1, <2>2, <3>1, KeptWorker
    <2>3. CASE workers' = [workers EXCEPT ![w].pc = "finish", ![w].outcome = "success"]
      <3> DEFINE r == [workers[w] EXCEPT !.pc = "finish", !.outcome = "success"]
      <3>1. r.run = workers[w].run /\ r.pc = "finish"
        BY DEF TypeInv, TypeOK, Worker
      <3> HIDE DEF r
      <3>2. workers' = [workers EXCEPT ![w] = r]
        BY <2>3 DEF r
      <3> QED BY <2>2, <3>1, <3>2
    <2>4. CASE workers' = [workers EXCEPT ![w].pc = "claim", ![w].step = workers[w].run.index]
      <3> DEFINE r == [workers[w] EXCEPT !.pc = "claim", !.step = workers[w].run.index]
      <3>1. r.run = workers[w].run /\ r.pc = "claim" /\ r.step = workers[w].run.index
        BY DEF TypeInv, TypeOK, Worker
      <3>2. workers' = [workers EXCEPT ![w] = r]
        BY <2>4
      <3> HIDE DEF r
      <3> QED BY <2>2, <3>1, <3>2
    <2> QED BY <1>1, <1>3, <2>1, <2>3, <2>4 DEF Look
  <1>4. CASE ClaimWins(w)
    BY <1>4, KeptGoto DEF ClaimWins, ForwardPCs
  <1>5. CASE Refresh(w)
    <2> DEFINE r == [workers[w] EXCEPT
                       !.pc = IF workers[w].run.status = "queued" THEN "mark" ELSE "body",
                       !.attempt = steps[workers[w].step].attempt]
    <2>1. r.run = workers[w].run /\ r.step = workers[w].step /\ r.pc \in {"mark", "body"}
      BY DEF TypeInv, TypeOK, Worker
    <2>2. workers' = [workers EXCEPT ![w] = r] /\ UNCHANGED <<run, ran>>
      BY <1>5 DEF Refresh
    <2>3. Carries(workers[w], ran) /\ workers[w].pc = "refresh"
      BY <1>5 DEF Refresh, KeptInv
    <2> HIDE DEF r
    <2>4. Carries(r, ran)
      BY <2>1, <2>3 DEF Carries, ForwardPCs
    <2> QED BY <2>2, <2>4, KeptWorker
  <1>6. CASE MarkRunning(w)
    <2> DEFINE r == [workers[w] EXCEPT !.pc = "body", !.run.status = "running",
                                       !.run.started = TRUE]
    <2>1. /\ r.run.index = workers[w].run.index /\ r.run.context = workers[w].run.context
          /\ r.step = workers[w].step /\ r.pc = "body"
      BY ZenonT(30) DEF TypeInv, TypeOK, Worker, RunRow
    <2>2. workers' = [workers EXCEPT ![w] = r] /\ UNCHANGED ran
      BY <1>6 DEF MarkRunning
    <2>3. run'.index = run.index /\ run'.context = run.context
      BY <1>6 DEF MarkRunning, TypeInv, TypeOK, RunRow
    <2>4. Carries(workers[w], ran) /\ workers[w].pc = "mark"
      BY <1>6 DEF MarkRunning, KeptInv
    <2> HIDE DEF r
    <2>5. Carries(r, ran)
      BY <2>1, <2>4 DEF Carries, Complete, ForwardPCs
    <2> QED BY <2>2, <2>3, <2>5, KeptWorker
  <1>7. CASE BodySucceeds(w)
    <2> DEFINE s == workers[w].step
    <2>1. s \in Idx /\ ran' = [ran EXCEPT ![s] = @ + 1] /\ UNCHANGED run
      BY <1>7, HoldsStep DEF BodySucceeds, ForwardPCs
    <2>2. ran'[s] > 0 /\ \A j \in Idx : ran[j] > 0 => ran'[j] > 0
      BY <2>1 DEF TypeInv, TypeOK
    <2>3. Complete(run, ran)'
      BY <2>1, <2>2 DEF KeptInv, Complete
    <2>4. ASSUME NEW v \in Workers PROVE Carries(workers[v], ran)'
      <3>1. Carries(workers[v], ran)
        BY DEF KeptInv
      <3>2. /\ workers'[v].run = workers[v].run /\ workers'[v].step = workers[v].step
            /\ workers'[v].pc = IF v = w THEN "saveStep" ELSE workers[v].pc
        BY <1>7 DEF BodySucceeds, Goto, TypeInv, TypeOK, Worker
      <3>3. Complete(workers[v].run, ran)'
        BY <2>2, <3>1, <3>2 DEF Carries, Complete
      <3>4. workers'[v].pc \in ForwardPCs \cup {"claim", "saveRun"}
               => workers'[v].step = workers'[v].run.index
        BY <1>7, <3>1, <3>2 DEF Carries, BodySucceeds, ForwardPCs
      <3>5. workers'[v].pc \in {"saveStep", "saveRun"} => ran'[workers'[v].step] > 0
        <4>1. CASE v = w
          BY <2>2, <3>2, <4>1
        <4>2. CASE v # w /\ workers[v].pc \in {"saveStep", "saveRun"}
          BY <2>2, <3>1, <3>2, <4>2, HoldsStep DEF Carries, ForwardPCs
        <4> QED BY <3>2, <4>1, <4>2
      <3> QED BY <3>3, <3>4, <3>5 DEF Carries
    <2> QED BY <2>3, <2>4 DEF KeptInv
  <1>8. CASE BodyFails(w)
    BY <1>8, KeptGoto DEF BodyFails, ForwardPCs
  <1>9. CASE SaveStep(w)
    BY <1>9, KeptGoto DEF SaveStep, ForwardPCs, KeptInv, Carries
  <1>10. CASE SaveRun(w)
    <2> DEFINE m == workers[w].run
    <2>1. Carries(workers[w], ran) /\ workers[w].pc = "saveRun"
      BY <1>10 DEF SaveRun, KeptInv
    <2>2. /\ run'.index = m.index + 1 /\ run'.context = m.context \cup {m.index}
          /\ UNCHANGED ran /\ Return(w)
      BY <1>10, <2>1 DEF SaveRun, TypeInv, TypeOK, RunRow, Carries
    <2>3. m.index \in Nat /\ ran[m.index] > 0
      BY <2>1 DEF Carries, TypeInv, TypeOK, Worker, RunRow
    <2>4. Complete(run, ran)'
      BY <2>1, <2>2, <2>3, IdxNat DEF Carries, Complete
    <2>5. \A v \in Workers : Carries(workers[v], ran)'
      BY <2>2, IdleCarries DEF Return, KeptInv, Carries, TypeInv, TypeOK
    <2> QED BY <2>4, <2>5 DEF KeptInv
  <1>11. CASE FailStep(w)
    BY <1>11, KeptGoto DEF FailStep, ForwardPCs
  <1>12. CASE FailRun(w)
    BY <1>12, KeptReturn DEF FailRun, TypeInv, TypeOK, RunRow
  <1>13. CASE Unwind(w)
    <2>1. CASE Goto(w, "skip")
      BY <1>13, <2>1, KeptGoto DEF Unwind, ForwardPCs
    <2>2. ASSUME NEW i \in Idx, workers' = [workers EXCEPT ![w].pc = "claimUndo", ![w].step = i]
          PROVE  KeptInv'
      <3> DEFINE r == [workers[w] EXCEPT !.pc = "claimUndo", !.step = i]
      <3>1. r.run = workers[w].run /\ r.pc = "claimUndo"
        BY DEF TypeInv, TypeOK, Worker
      <3>2. workers' = [workers EXCEPT ![w] = r] /\ UNCHANGED <<run, ran>>
        BY <1>13, <2>2 DEF Unwind
      <3> HIDE DEF r
      <3>3. Carries(r, ran)
        BY <3>1 DEF Carries, ForwardPCs, KeptInv
      <3> QED BY <3>2, <3>3, KeptWorker
    <2> QED BY <1>13, <2>1, <2>2 DEF Unwind, Succeeded
  <1>14. CASE SkipPending(w)
    <2> DEFINE r == [workers[w] EXCEPT !.pc = "finish",
                       !.outcome = IF workers[w].run.reason = "cancelled"
                                   THEN "cancelled" ELSE "failed"]
    <2>1. r.run = workers[w].run /\ r.pc = "finish"
      BY DEF TypeInv, TypeOK, Worker
    <2>2. workers' = [workers EXCEPT ![w] = r] /\ UNCHANGED <<run, ran>>
      BY <1>14 DEF SkipPending
    <2> HIDE DEF r
    <2>3. Carries(r, ran)
      BY <2>1 DEF Carries, ForwardPCs, KeptInv
    <2> QED BY <2>2, <2>3, KeptWorker
  <1>15. CASE ClaimUndoWins(w)
    BY <1>15, KeptGoto DEF ClaimUndoWins, ForwardPCs
  <1>16. CASE Undo(w)
    <2>1. ASSUME NEW o, workers' = [workers EXCEPT ![w].pc = "saveUndo", ![w].outcome = o]
          PROVE  KeptInv'
      <3> DEFINE r == [workers[w] EXCEPT !.pc = "saveUndo", !.outcome = o]
      <3>1. r.run = workers[w].run /\ r.pc = "saveUndo"
        BY DEF TypeInv, TypeOK, Worker
      <3>2. workers' = [workers EXCEPT ![w] = r] /\ UNCHANGED <<run, ran>>
        BY <1>16, <2>1 DEF Undo
      <3> HIDE DEF r
      <3>3. Carries(r, ran)
        BY <3>1 DEF Carries, ForwardPCs, KeptInv
      <3> QED BY <3>2, <3>3, KeptWorker
    <2> QED BY <1>16, <2>1 DEF Undo
  <1>17. CASE FinishWins(w)
    BY <1>17, KeptGoto DEF FinishWins, ForwardPCs, TypeInv, TypeOK, RunRow
  <1>18. CASE ClaimLoses(w) \/ RetryStep(w) \/ ClaimUndoLoses(w) \/ SaveUndo(w)
              \/ FinishLoses(w) \/ Publish(w)
    BY <1>1, <1>18 DEF ClaimLoses, RetryStep, ClaimUndoLoses, SaveUndo, FinishLoses, Publish
  <1> QED
    BY <1>2, <1>3, <1>4, <1>5, <1>6, <1>7, <1>8, <1>9, <1>10, <1>11, <1>12, <1>13, <1>14,
       <1>15, <1>16, <1>17, <1>18 DEF Advance

LEMMA KeptNext == TypeInv /\ KeptInv /\ [Next]_vars => KeptInv'
  <1> SUFFICES ASSUME TypeInv, KeptInv, [Next]_vars PROVE KeptInv'
      OBVIOUS
  <1>1. CASE CreateRun
    <2>1. Complete(run, ran)'
      BY <1>1, NumStepsAssumption DEF CreateRun, NoRun, Complete, Idx
    <2> QED BY <1>1, <2>1 DEF CreateRun, KeptInv, Carries, Complete
  <1>2. ASSUME UNCHANGED <<workers, ran>>, run'.index = run.index, run'.context = run.context
        PROVE  KeptInv'
    BY <1>2 DEF KeptInv, Carries, Complete
  <1>3. ASSUME NEW i \in Idx, CreateStep(i) \/ BackoffElapses(i) \/ LockExpires(i)
        PROVE  KeptInv'
    BY <1>2, <1>3 DEF CreateStep, BackoffElapses, LockExpires
  <1>4. CASE CallerCrash \/ RequestPause \/ RequestCancel
    BY <1>2, <1>4 DEF CallerCrash, RequestPause, RequestCancel, rows, TypeInv, TypeOK, RunRow
  <1>5. ASSUME NEW o \in Operators, Control(o) PROVE KeptInv'
    BY <1>2, <1>5 DEF Control, FetchForResume, RequestResume, FetchForRetry, RearmSteps,
                      Requeue, rows, TypeInv, TypeOK, RunRow
  <1>6. ASSUME NEW w \in Workers, WorkerCrash(w) PROVE KeptInv'
    BY <1>6, KeptReturn DEF WorkerCrash, rows
  <1>7. ASSUME NEW w \in Workers, NEW i \in Idx, Reclaim(w, i) PROVE KeptInv'
    <2>1. CASE UNCHANGED workers
      BY <1>2, <1>7, <2>1 DEF Reclaim
    <2>2. CASE Goto(w, "failRun")
      BY <1>7, <2>2, KeptGoto DEF Reclaim, ForwardPCs
    <2> QED BY <1>7, <2>1, <2>2 DEF Reclaim
  <1>8. CASE UNCHANGED vars
    BY <1>2, <1>8 DEF vars
  <1> QED
    BY <1>1, <1>3, <1>4, <1>5, <1>6, <1>7, <1>8, KeptAdvance DEF Next, Start, Time

(* No output is lost and no step is jumped over, whatever crashes, whoever   *)
(* cancels or retries, and even when live workers outlast their locks.       *)
THEOREM OutputsAreKept == Spec => []OutputsKept
  <1>1. KeptInv => OutputsKept
    BY DEF KeptInv, Complete, OutputsKept
  <1> QED BY TypeInit, TypeNext, KeptInit, KeptNext, <1>1, PTL DEF Spec

(* Every step's run callback starts with the outputs of all earlier steps.   *)
THEOREM InputsAreReady == Spec => []InputsReady
  <1>1. KeptInv => InputsReady
    BY DEF KeptInv, Carries, Complete, InputsReady
  <1> QED BY TypeInit, TypeNext, KeptInit, KeptNext, <1>1, PTL DEF Spec

-----------------------------------------------------------------------------
(* While live workers do not outlast their locks (~SlowSteps), the status of *)
(* a step row is a lock: "running" belongs to at most one executing worker,  *)
(* "compensating" to at most one compensating worker, and the lock of a live *)
(* executor has not expired.                                                 *)
ExclInv ==
    \A w \in Workers, i \in Idx :
        /\ Executing(w, i) =>
              /\ steps[i].status = "running" /\ ~steps[i].expired
              /\ \A v \in Workers : Executing(v, i) => v = w
        /\ Compensating(w, i) =>
              /\ steps[i].status = "compensating"
              /\ \A v \in Workers : Compensating(v, i) => v = w

(* The rows of steps nobody owns may change, those of owned steps not.       *)
OwnersKeepRows ==
    /\ \A v \in Workers, i \in Idx :
          /\ Executing(v, i)' => Executing(v, i) /\ steps'[i] = steps[i]
          /\ Compensating(v, i)' => Compensating(v, i) /\ steps'[i] = steps[i]

LEMMA ExclKeeps == ASSUME ExclInv, OwnersKeepRows PROVE ExclInv'
  BY DEF ExclInv, OwnersKeepRows

LEMMA PCsDisjoint == \A pc : pc \in ForwardPCs => pc \notin UndoPCs
  BY DEF ForwardPCs, UndoPCs

(* A worker that returns to idle owns nothing; the others own what they did. *)
LEMMA ReturnOwns ==
    ASSUME TypeInv, NEW w \in Workers, Return(w), NEW v \in Workers, NEW i \in Idx
    PROVE  /\ Executing(v, i)' => Executing(v, i) /\ v # w
           /\ Compensating(v, i)' => Compensating(v, i) /\ v # w
  BY DEF TypeInv, TypeOK, Return, IdleWorker, Executing, Compensating, ForwardPCs, UndoPCs

(* A worker that moves on within its phase, or out of it, gains no step.     *)
LEMMA MoveOwns ==
    ASSUME TypeInv, NEW w \in Workers, NEW r, workers' = [workers EXCEPT ![w] = r],
           r.pc \in ForwardPCs => workers[w].pc \in ForwardPCs /\ r.step = workers[w].step,
           r.pc \in UndoPCs => workers[w].pc \in UndoPCs /\ r.step = workers[w].step,
           NEW v \in Workers, NEW i \in Idx
    PROVE  /\ Executing(v, i)' => Executing(v, i)
           /\ Compensating(v, i)' => Compensating(v, i)
           /\ v = w /\ Executing(v, i)' => r.pc \in ForwardPCs
           /\ v = w /\ Compensating(v, i)' => r.pc \in UndoPCs
  BY DEF TypeInv, TypeOK, Executing, Compensating

LEMMA ExclMove ==
    ASSUME TypeInv, ExclInv, NEW w \in Workers, NEW r, workers' = [workers EXCEPT ![w] = r],
           r.pc \in ForwardPCs => workers[w].pc \in ForwardPCs /\ r.step = workers[w].step,
           r.pc \in UndoPCs => workers[w].pc \in UndoPCs /\ r.step = workers[w].step,
           UNCHANGED steps
    PROVE  ExclInv'
  BY MoveOwns, ExclKeeps DEF OwnersKeepRows

(* A worker that saves the row of the step it owns and gives the step up.    *)
LEMMA ExclRelease ==
    ASSUME TypeInv, ExclInv, NEW w \in Workers, NEW r, workers' = [workers EXCEPT ![w] = r],
           workers[w].pc \in ForwardPCs \cup UndoPCs, r.pc \notin ForwardPCs \cup UndoPCs,
           \A i \in Idx : i # workers[w].step => steps'[i] = steps[i]
    PROVE  ExclInv'
  <1> SUFFICES ASSUME NEW v \in Workers, NEW i \in Idx
               PROVE  /\ Executing(v, i)' => Executing(v, i) /\ steps'[i] = steps[i]
                      /\ Compensating(v, i)' => Compensating(v, i) /\ steps'[i] = steps[i]
      BY ExclKeeps DEF OwnersKeepRows
  <1>1. /\ Executing(v, i)' => Executing(v, i) /\ v # w
        /\ Compensating(v, i)' => Compensating(v, i) /\ v # w
    BY MoveOwns
  <1>2. (Executing(v, i) \/ Compensating(v, i)) /\ v # w => i # workers[w].step
    BY PCsDisjoint DEF ExclInv, Executing, Compensating
  <1> QED BY <1>1, <1>2

(* Rows change, workers do not, and no changed row is owned.                 *)
LEMMA ExclRows ==
    ASSUME TypeInv, ExclInv, UNCHANGED workers,
           \A i \in Idx : steps[i].status \in {"running", "compensating"}
                            => steps'[i] = steps[i]
    PROVE  ExclInv'
  BY ExclKeeps DEF OwnersKeepRows, ExclInv, Executing, Compensating

LEMMA ExclInit == Init => ExclInv
  BY DEF Init, ExclInv, Executing, Compensating, IdleWorker, ForwardPCs, UndoPCs

LEMMA ExclReturn ==
    ASSUME TypeInv, ExclInv, NEW w \in Workers, Return(w), UNCHANGED steps
    PROVE  ExclInv'
  BY ExclMove DEF Return, IdleWorker, ForwardPCs, UndoPCs

LEMMA ExclGoto ==
    ASSUME TypeInv, ExclInv, NEW w \in Workers, NEW pc, Goto(w, pc), UNCHANGED steps,
           pc \in ForwardPCs => workers[w].pc \in ForwardPCs,
           pc \in UndoPCs => workers[w].pc \in UndoPCs
    PROVE  ExclInv'
  <1> DEFINE r == [workers[w] EXCEPT !.pc = pc]
  <1>1. r.pc = pc /\ r.step = workers[w].step
    BY DEF TypeInv, TypeOK, Worker
  <1>2. workers' = [workers EXCEPT ![w] = r]
    BY DEF Goto
  <1> HIDE DEF r
  <1> QED BY <1>1, <1>2, ExclMove

(* The winner of a claim finds no other owner: an owned row has another      *)
(* status than the one the claim asks for.                                   *)
LEMMA ExclClaim ==
    ASSUME TypeInv, ExclInv, NEW w \in Workers, ClaimWins(w) \/ ClaimUndoWins(w)
    PROVE  ExclInv'
  <1> DEFINE s == workers[w].step
  <1>1. s \in Idx
    BY HoldsStep DEF ClaimWins, ClaimUndoWins, At
  <1>2. steps[s].status \notin {"running", "compensating"}
    BY DEF ClaimWins, ClaimUndoWins, ClaimStep
  <1>3. \A v \in Workers : ~Executing(v, s) /\ ~Compensating(v, s)
    BY <1>1, <1>2 DEF ExclInv
  <1>4. \A i \in Idx : i # s => steps'[i] = steps[i]
    BY DEF ClaimWins, ClaimUndoWins, ClaimStep, TypeInv, TypeOK
  <1>5. /\ \A v \in Workers : v # w => workers'[v] = workers[v]
        /\ workers'[w].step = s
    BY DEF ClaimWins, ClaimUndoWins, Goto, TypeInv, TypeOK, Worker
  <1>6. CASE ClaimWins(w)
    <2>1. steps'[s].status = "running" /\ ~steps'[s].expired
      BY <1>1, <1>6 DEF ClaimWins, ClaimStep, TypeInv, TypeOK, StepRow
    <2>2. workers'[w].pc = "refresh"
      BY <1>6 DEF ClaimWins, Goto, TypeInv, TypeOK, Worker
    <2> QED BY <1>1, <1>3, <1>4, <1>5, <2>1, <2>2
            DEF ExclInv, Executing, Compensating, ForwardPCs, UndoPCs
  <1>7. CASE ClaimUndoWins(w)
    <2>1. steps'[s].status = "compensating"
      BY <1>1, <1>7 DEF ClaimUndoWins, ClaimStep, TypeInv, TypeOK, StepRow
    <2>2. workers'[w].pc = "undo"
      BY <1>7 DEF ClaimUndoWins, Goto, TypeInv, TypeOK, Worker
    <2> QED BY <1>1, <1>3, <1>4, <1>5, <2>1, <2>2
            DEF ExclInv, Executing, Compensating, ForwardPCs, UndoPCs
  <1> QED BY <1>6, <1>7

LEMMA ExclAdvance ==
    ASSUME TypeInv, ExclInv, NEW w \in Workers, Advance(w) PROVE ExclInv'
  <1> USE DEF At, rows
  <1>1. CASE Select(w)
    <2> DEFINE r == [IdleWorker EXCEPT
                       !.pc = IF run.status = "compensating" THEN "unwind" ELSE "look",
                       !.run = run]
    <2>1. r.pc \notin ForwardPCs \cup UndoPCs
      BY DEF IdleWorker, ForwardPCs, UndoPCs
    <2>2. workers' = [workers EXCEPT ![w] = r] /\ UNCHANGED steps
      BY <1>1 DEF Select
    <2> HIDE DEF r
    <2> QED BY <2>1, <2>2, ExclMove
  <1>2. ASSUME NEW pc \in {"finish", "claim", "claimUndo", "skip"}, NEW o, NEW i,
               UNCHANGED steps,
               \/ workers' = [workers EXCEPT ![w].pc = pc, ![w].outcome = o]
               \/ workers' = [workers EXCEPT ![w].pc = pc, ![w].step = i]
               \/ workers' = [workers EXCEPT ![w].pc = pc]
        PROVE  ExclInv'
    <2>1. PICK r : workers' = [workers EXCEPT ![w] = r] /\ r.pc = pc
      <3>1. CASE workers' = [workers EXCEPT ![w].pc = pc, ![w].outcome = o]
        <4> WITNESS [workers[w] EXCEPT !.pc = pc, !.outcome = o]
        <4> QED BY <3>1 DEF TypeInv, TypeOK, Worker
      <3>2. CASE workers' = [workers EXCEPT ![w].pc = pc, ![w].step = i]
        <4> WITNESS [workers[w] EXCEPT !.pc = pc, !.step = i]
        <4> QED BY <3>2 DEF TypeInv, TypeOK, Worker
      <3>3. CASE workers' = [workers EXCEPT ![w].pc = pc]
        <4> WITNESS [workers[w] EXCEPT !.pc = pc]
        <4> QED BY <3>3 DEF TypeInv, TypeOK, Worker
      <3> QED BY <1>2, <3>1, <3>2, <3>3
    <2>2. r.pc \notin ForwardPCs \cup UndoPCs
      BY <2>1 DEF ForwardPCs, UndoPCs
    <2> QED BY <1>2, <2>1, <2>2, ExclMove
  <1>3. CASE Look(w)
    BY <1>2, <1>3, ExclReturn DEF Look
  <1>4. CASE ClaimWins(w) \/ ClaimUndoWins(w)
    BY <1>4, ExclClaim
  <1>5. CASE Refresh(w)
    <2> DEFINE r == [workers[w] EXCEPT
                       !.pc = IF workers[w].run.status = "queued" THEN "mark" ELSE "body",
                       !.attempt = steps[workers[w].step].attempt]
    <2>1. r.step = workers[w].step /\ r.pc \in {"mark", "body"}
      BY DEF TypeInv, TypeOK, Worker
    <2>2. workers' = [workers EXCEPT ![w] = r] /\ UNCHANGED steps /\ workers[w].pc = "refresh"
      BY <1>5 DEF Refresh
    <2> HIDE DEF r
    <2> QED BY <2>1, <2>2, ExclMove DEF ForwardPCs, UndoPCs
  <1>6. CASE MarkRunning(w)
    <2> DEFINE r == [workers[w] EXCEPT !.pc = "body", !.run.status = "running",
                                       !.run.started = TRUE]
    <2>1. r.step = workers[w].step /\ r.pc = "body"
      BY DEF TypeInv, TypeOK, Worker, RunRow
    <2>2. workers' = [workers EXCEPT ![w] = r] /\ UNCHANGED steps /\ workers[w].pc = "mark"
      BY <1>6 DEF MarkRunning
    <2> HIDE DEF r
    <2> QED BY <2>1, <2>2, ExclMove DEF ForwardPCs, UndoPCs
  <1>7. CASE BodySucceeds(w) \/ BodyFails(w)
    BY <1>7, ExclGoto DEF BodySucceeds, BodyFails, ForwardPCs, UndoPCs
  <1>8. CASE SaveStep(w) \/ FailStep(w)
    <2>1. PICK pc \in {"saveRun", "failRun"} : Goto(w, pc)
      BY <1>8 DEF SaveStep, FailStep
    <2> DEFINE r == [workers[w] EXCEPT !.pc = pc]
    <2>2. r.pc = pc
      BY DEF TypeInv, TypeOK, Worker
    <2>3. workers' = [workers EXCEPT ![w] = r]
      BY <2>1 DEF Goto
    <2>4. \A i \in Idx : i # workers[w].step => steps'[i] = steps[i]
      BY <1>8 DEF SaveStep, FailStep, SetStep, TypeInv, TypeOK
    <2> HIDE DEF r
    <2> QED BY <1>8, <2>2, <2>3, <2>4, ExclRelease DEF SaveStep, FailStep, ForwardPCs, UndoPCs
  <1>9. CASE RetryStep(w) \/ SaveUndo(w)
    <2>1. workers' = [workers EXCEPT ![w] = IdleWorker]
      BY <1>9 DEF RetryStep, SaveUndo, Return
    <2>2. \A i \in Idx : i # workers[w].step => steps'[i] = steps[i]
      BY <1>9 DEF RetryStep, SaveUndo, SetStep, TypeInv, TypeOK
    <2> QED BY <1>9, <2>1, <2>2, ExclRelease
            DEF RetryStep, SaveUndo, IdleWorker, ForwardPCs, UndoPCs
  <1>10. CASE Unwind(w)
    BY <1>2, <1>10 DEF Unwind, Goto
  <1>11. CASE SkipPending(w)
    <2> DEFINE r == [workers[w] EXCEPT !.pc = "finish",
                       !.outcome = IF workers[w].run.reason = "cancelled"
                                   THEN "cancelled" ELSE "failed"]
    <2>1. r.pc \notin ForwardPCs \cup UndoPCs
      BY DEF ForwardPCs, UndoPCs, TypeInv, TypeOK, Worker
    <2>2. workers' = [workers EXCEPT ![w] = r]
      BY <1>11 DEF SkipPending
    <2> HIDE DEF r
    <2>3. \A i \in Idx : steps[i].status # "pending" => steps'[i] = steps[i]
      BY <1>11 DEF SkipPending
    <2>4. OwnersKeepRows
      BY <2>1, <2>2, <2>3, MoveOwns DEF OwnersKeepRows, ExclInv
    <2> QED BY <2>4, ExclKeeps
  <1>12. CASE Undo(w)
    <2>1. PICK o : workers' = [workers EXCEPT ![w].pc = "saveUndo", ![w].outcome = o]
      BY <1>12 DEF Undo
    <2> DEFINE r == [workers[w] EXCEPT !.pc = "saveUndo", !.outcome = o]
    <2>2. r.step = workers[w].step /\ r.pc = "saveUndo"
      BY DEF TypeInv, TypeOK, Worker
    <2>3. workers' = [workers EXCEPT ![w] = r] /\ UNCHANGED steps /\ workers[w].pc = "undo"
      BY <1>12, <2>1 DEF Undo
    <2> HIDE DEF r
    <2> QED BY <2>2, <2>3, ExclMove DEF ForwardPCs, UndoPCs
  <1>13. CASE FinishWins(w)
    BY <1>13, ExclGoto DEF FinishWins, ForwardPCs, UndoPCs
  <1>14. CASE ClaimLoses(w) \/ SaveRun(w) \/ FailRun(w) \/ ClaimUndoLoses(w)
              \/ FinishLoses(w) \/ Publish(w)
    BY <1>14, ExclReturn DEF ClaimLoses, SaveRun, FailRun, ClaimUndoLoses, FinishLoses, Publish
  <1> QED
    BY <1>1, <1>3, <1>4, <1>5, <1>6, <1>7, <1>8, <1>9, <1>10, <1>11, <1>12, <1>13, <1>14
    DEF Advance

LEMMA ExclNext == ~SlowSteps /\ TypeInv /\ ExclInv /\ [Next]_vars => ExclInv'
  <1> SUFFICES ASSUME ~SlowSteps, TypeInv, ExclInv, [Next]_vars PROVE ExclInv'
      OBVIOUS
  <1>1. ASSUME UNCHANGED <<workers, steps>> PROVE ExclInv'
    BY <1>1 DEF ExclInv, Executing, Compensating
  <1>2. CASE CreateRun \/ CallerCrash \/ RequestPause \/ RequestCancel \/ UNCHANGED vars
    BY <1>1, <1>2 DEF CreateRun, CallerCrash, RequestPause, RequestCancel, rows, vars
  <1>3. ASSUME NEW i \in Idx, CreateStep(i) PROVE ExclInv'
    <2>1. \A j \in Idx : steps[j].status # "absent" => steps'[j] = steps[j]
      BY <1>3 DEF CreateStep, SetStep, TypeInv, TypeOK
    <2> QED BY <1>3, <2>1, ExclRows DEF CreateStep
  <1>4. ASSUME NEW i \in Idx, BackoffElapses(i) PROVE ExclInv'
    <2>1. \A j \in Idx : /\ steps'[j].status = steps[j].status
                         /\ steps'[j].expired = steps[j].expired
      BY <1>4 DEF BackoffElapses, TypeInv, TypeOK, StepRow
    <2> QED BY <1>4, <2>1 DEF BackoffElapses, ExclInv, Executing, Compensating
  <1>5. ASSUME NEW i \in Idx, LockExpires(i) PROVE ExclInv'
    <2>1. steps[i].status = "running" /\ UNCHANGED workers /\ \A v \in Workers : ~Executing(v, i)
      BY <1>5 DEF LockExpires
    <2>2. \A j \in Idx : j # i => steps'[j] = steps[j]
      BY <1>5 DEF LockExpires, TypeInv, TypeOK
    <2>3. OwnersKeepRows
      BY <2>1, <2>2 DEF OwnersKeepRows, ExclInv, Executing, Compensating
    <2> QED BY <2>3, ExclKeeps
  <1>6. ASSUME NEW o \in Operators, Control(o) PROVE ExclInv'
    <2>1. CASE RearmSteps(o)
      BY <2>1, ExclRows DEF RearmSteps
    <2> QED BY <1>1, <1>6, <2>1
            DEF Control, FetchForResume, RequestResume, FetchForRetry, Requeue, rows
  <1>7. ASSUME NEW w \in Workers, WorkerCrash(w) PROVE ExclInv'
    BY <1>7, ExclReturn DEF WorkerCrash, rows
  <1>8. ASSUME NEW w \in Workers, NEW i \in Idx, Reclaim(w, i) PROVE ExclInv'
    <2>1. steps[i].status = "running" /\ steps[i].expired
      BY <1>8 DEF Reclaim, Stale
    <2>2. \A v \in Workers : ~Executing(v, i) /\ ~Compensating(v, i)
      BY <2>1 DEF ExclInv
    <2>3. \A j \in Idx : j # i => steps'[j] = steps[j]
      BY <1>8 DEF Reclaim, SetStep, TypeInv, TypeOK
    <2>4. \A v \in Workers, j \in Idx :
             /\ Executing(v, j)' => Executing(v, j)
             /\ Compensating(v, j)' => Compensating(v, j)
      BY <1>8 DEF Reclaim, Goto, TypeInv, TypeOK, Worker, Executing, Compensating, ForwardPCs,
                  UndoPCs
    <2> QED BY <2>2, <2>3, <2>4, ExclKeeps DEF OwnersKeepRows
  <1> QED
    BY <1>2, <1>3, <1>4, <1>5, <1>6, <1>7, <1>8, ExclAdvance DEF Next, Start, Time

(* Mutual exclusion of step execution, for any number of workers: as long as *)
(* live workers do not outlast their locks, crashes and reclaims, cancels    *)
(* and retries never let two workers execute the same step.                  *)
THEOREM OneExecutorPerStep == ASSUME ~SlowSteps PROVE Spec => []OneExecutor
  <1>1. ExclInv => OneExecutor
    BY DEF ExclInv, OneExecutor
  <1>2. TypeInv /\ ExclInv /\ [Next]_vars => ExclInv'
    BY ExclNext
  <1> QED BY TypeInit, TypeNext, ExclInit, <1>1, <1>2, PTL DEF Spec

-----------------------------------------------------------------------------
(* A step is compensated at most once, whatever is retried: once compensate  *)
(* was called, its row never again has a status a claim asks for.            *)
UndoneInv ==
    /\ \A i \in Idx :
          /\ undone[i] <= 1
          /\ undone[i] > 0
                => steps[i].status \in {"compensating", "compensated", "compensation_failed"}
    /\ \A w \in Workers : workers[w].pc = "undo" => undone[workers[w].step] = 0

LEMMA UndoneInit == Init => UndoneInv
  BY DEF Init, UndoneInv, IdleWorker

(* No worker reaches "undo", and no row leaves the compensated statuses.     *)
LEMMA UndoneKeeps ==
    ASSUME TypeInv, UndoneInv, UNCHANGED undone,
           \A w \in Workers : workers'[w].pc = "undo" => workers'[w] = workers[w],
           \A i \in Idx :
              steps[i].status \in {"compensating", "compensated", "compensation_failed"}
                => steps'[i].status \in {"compensating", "compensated", "compensation_failed"}
    PROVE  UndoneInv'
  BY DEF UndoneInv

LEMMA UndoneNext == TypeInv /\ ExclInv /\ UndoneInv /\ [Next]_vars => UndoneInv'
  <1> SUFFICES ASSUME TypeInv, ExclInv, UndoneInv, [Next]_vars PROVE UndoneInv'
      OBVIOUS
  <1> USE DEF At, rows
  <1>1. ASSUME UNCHANGED <<workers, steps, undone>> PROVE UndoneInv'
    BY <1>1 DEF UndoneInv
  <1>2. ASSUME NEW w \in Workers, NEW pc, Goto(w, pc), pc # "undo"
        PROVE  \A v \in Workers : workers'[v].pc = "undo" => workers'[v] = workers[v]
    BY <1>2 DEF Goto, TypeInv, TypeOK, Worker
  <1>3. ASSUME NEW w \in Workers, Return(w)
        PROVE  \A v \in Workers : workers'[v].pc = "undo" => workers'[v] = workers[v]
    BY <1>3 DEF Return, IdleWorker, TypeInv, TypeOK
  <1>5. ASSUME NEW w \in Workers, Advance(w) PROVE UndoneInv'
    <2>1. CASE Undo(w)
      <3> DEFINE s == workers[w].step
      <3>1. s \in Idx /\ steps[s].status = "compensating" /\ undone[s] = 0
        BY <2>1, HoldsStep DEF Undo, ExclInv, Compensating, UndoPCs, UndoneInv
      <3>2. \A v \in Workers : v # w /\ workers[v].pc = "undo" => workers[v].step # s
        BY <2>1, <3>1 DEF Undo, ExclInv, Compensating, UndoPCs
      <3>3. /\ \A v \in Workers : v # w => workers'[v] = workers[v]
            /\ workers'[w].pc = "saveUndo"
        BY <2>1 DEF Undo, TypeInv, TypeOK, Worker
      <3>4. /\ \A i \in Idx : i # s => undone'[i] = undone[i]
            /\ undone'[s] <= 1 /\ UNCHANGED steps
        BY <2>1, <3>1 DEF Undo, TypeInv, TypeOK
      <3>5. \A i \in Idx :
              /\ undone'[i] <= 1
              /\ undone'[i] > 0
                   => steps'[i].status \in {"compensating", "compensated", "compensation_failed"}
        BY <3>1, <3>4 DEF UndoneInv
      <3>6. \A v \in Workers : workers'[v].pc = "undo" => undone'[workers'[v].step] = 0
        BY <3>2, <3>3, <3>4, HoldsStep DEF UndoneInv, UndoPCs
      <3> QED BY <3>5, <3>6 DEF UndoneInv
    <2>2. CASE ClaimUndoWins(w)
      <3> DEFINE s == workers[w].step
      <3>1. s \in Idx /\ steps[s].status = "success" /\ undone[s] = 0
        BY <2>2, HoldsStep DEF ClaimUndoWins, ClaimStep, UndoneInv, TypeInv, TypeOK
      <3>2. /\ \A v \in Workers : v # w => workers'[v] = workers[v]
            /\ workers'[w].step = s
        BY <2>2 DEF ClaimUndoWins, Goto, TypeInv, TypeOK, Worker
      <3>3. \A i \in Idx : i # s => steps'[i] = steps[i]
        BY <2>2 DEF ClaimUndoWins, ClaimStep, TypeInv, TypeOK
      <3> QED BY <2>2, <3>1, <3>2, <3>3 DEF ClaimUndoWins, UndoneInv
    <2>3. CASE ClaimWins(w)
      <3>1. \A i \in Idx : steps[i].status # "pending" => steps'[i] = steps[i]
        BY <2>3 DEF ClaimWins, ClaimStep, TypeInv, TypeOK
      <3> QED BY <1>2, <2>3, <3>1, UndoneKeeps DEF ClaimWins
    <2>4. CASE SaveStep(w) \/ RetryStep(w) \/ FailStep(w)
      <3>1. workers[w].step \in Idx /\ steps[workers[w].step].status = "running"
        BY <2>4, HoldsStep DEF SaveStep, RetryStep, FailStep, ExclInv, Executing, ForwardPCs
      <3>2. \A i \in Idx : steps[i].status # "running" => steps'[i] = steps[i]
        BY <2>4, <3>1 DEF SaveStep, RetryStep, FailStep, SetStep, TypeInv, TypeOK
      <3> QED BY <1>2, <1>3, <2>4, <3>2, UndoneKeeps DEF SaveStep, RetryStep, FailStep
    <2>5. CASE SaveUndo(w)
      <3>1. workers[w].outcome \in {"compensated", "compensation_failed"}
            => \A i \in Idx :
                 steps[i].status \in {"compensating", "compensated", "compensation_failed"}
                   => steps'[i].status \in {"compensating", "compensated", "compensation_failed"}
        BY <2>5 DEF SaveUndo, SetStep, TypeInv, TypeOK, StepRow
      <3>2. workers[w].outcome \in {"compensated", "compensation_failed"}
        BY <2>5 DEF SaveUndo, TypeInv, MemoryOK, Sound
      <3> QED BY <1>3, <2>5, <3>1, <3>2, UndoneKeeps DEF SaveUndo
    <2>6. CASE SkipPending(w)
      <3>1. \A v \in Workers : workers'[v].pc = "undo" => workers'[v] = workers[v]
        BY <2>6 DEF SkipPending, TypeInv, TypeOK, Worker
      <3> QED BY <2>6, <3>1, UndoneKeeps DEF SkipPending
    <2>7. CASE Select(w) \/ Look(w) \/ Refresh(w) \/ MarkRunning(w) \/ Unwind(w)
      <3>1. \A v \in Workers : workers'[v].pc = "undo" => workers'[v] = workers[v]
        <4>1. CASE Select(w)
          BY <4>1 DEF Select, IdleWorker, TypeInv, TypeOK, Worker
        <4>2. CASE Look(w)
          BY <1>3, <4>2 DEF Look, TypeInv, TypeOK, Worker
        <4>3. CASE Refresh(w)
          BY <4>3 DEF Refresh, TypeInv, TypeOK, Worker
        <4>4. CASE MarkRunning(w)
          BY <4>4 DEF MarkRunning, TypeInv, TypeOK, Worker
        <4>5. CASE Unwind(w)
          BY <1>2, <4>5 DEF Unwind, TypeInv, TypeOK, Worker
        <4> QED BY <2>7, <4>1, <4>2, <4>3, <4>4, <4>5
      <3> QED BY <2>7, <3>1, UndoneKeeps DEF Select, Look, Refresh, MarkRunning, Unwind
    <2>8. CASE BodySucceeds(w) \/ BodyFails(w) \/ FinishWins(w)
      BY <1>2, <2>8, UndoneKeeps DEF BodySucceeds, BodyFails, FinishWins
    <2>9. CASE ClaimLoses(w) \/ SaveRun(w) \/ FailRun(w) \/ ClaimUndoLoses(w)
               \/ FinishLoses(w) \/ Publish(w)
      BY <1>3, <2>9, UndoneKeeps
      DEF ClaimLoses, SaveRun, FailRun, ClaimUndoLoses, FinishLoses, Publish
    <2> QED BY <1>5, <2>1, <2>2, <2>3, <2>4, <2>5, <2>6, <2>7, <2>8, <2>9 DEF Advance
  <1>6. CASE CreateRun \/ CallerCrash \/ RequestPause \/ RequestCancel \/ UNCHANGED vars
    BY <1>1, <1>6 DEF CreateRun, CallerCrash, RequestPause, RequestCancel, vars
  <1>7. ASSUME NEW i \in Idx, CreateStep(i) PROVE UndoneInv'
    <2>1. \A j \in Idx : steps[j].status # "absent" => steps'[j] = steps[j]
      BY <1>7 DEF CreateStep, SetStep, TypeInv, TypeOK
    <2> QED BY <1>7, <2>1, UndoneKeeps DEF CreateStep
  <1>8. ASSUME NEW i \in Idx, BackoffElapses(i) \/ LockExpires(i) PROVE UndoneInv'
    <2>1. \A j \in Idx : steps'[j].status = steps[j].status
      BY <1>8 DEF BackoffElapses, LockExpires, TypeInv, TypeOK, StepRow
    <2> QED BY <1>8, <2>1, UndoneKeeps DEF BackoffElapses, LockExpires
  <1>9. ASSUME NEW o \in Operators, Control(o) PROVE UndoneInv'
    <2>1. CASE RearmSteps(o)
      BY <2>1, UndoneKeeps DEF RearmSteps
    <2> QED BY <1>1, <1>9, <2>1
            DEF Control, FetchForResume, RequestResume, FetchForRetry, Requeue
  <1>10. ASSUME NEW w \in Workers, WorkerCrash(w) PROVE UndoneInv'
    BY <1>3, <1>10, UndoneKeeps DEF WorkerCrash
  <1>11. ASSUME NEW w \in Workers, NEW i \in Idx, Reclaim(w, i) PROVE UndoneInv'
    <2>1. \A j \in Idx : steps[j].status # "running" => steps'[j] = steps[j]
      BY <1>11 DEF Reclaim, Stale, SetStep, TypeInv, TypeOK
    <2>2. \A v \in Workers : workers'[v].pc = "undo" => workers'[v] = workers[v]
      BY <1>2, <1>11 DEF Reclaim
    <2> QED BY <1>11, <2>1, <2>2, UndoneKeeps DEF Reclaim
  <1> QED
    BY <1>5, <1>6, <1>7, <1>8, <1>9, <1>10, <1>11 DEF Next, Start, Time

(* No success is undone twice, for any number of workers, crashes, cancels   *)
(* and retries, as long as live workers do not outlast their locks.          *)
THEOREM CompensatedOnce == ASSUME ~SlowSteps PROVE Spec => []UndoneOnce
  <1>1. UndoneInv => UndoneOnce
    BY DEF UndoneInv, UndoneOnce
  <1>2. TypeInv /\ ExclInv /\ [Next]_vars => ExclInv'
    BY ExclNext
  <1> QED
    BY TypeInit, TypeNext, ExclInit, UndoneInit, UndoneNext, <1>1, <1>2, PTL DEF Spec

=============================================================================
