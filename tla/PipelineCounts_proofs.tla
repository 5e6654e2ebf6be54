------------------------ MODULE PipelineCounts_proofs ------------------------
(***************************************************************************)
(* How often a step's callbacks are called: compensate never more often    *)
(* than run, run never more often than the attempts and the operators'     *)
(* retries allow.  Both are budgets that workers share, so the invariants  *)
(* count the workers that are about to spend from them.                    *)
(***************************************************************************)
EXTENDS PipelineEngine_proofs, FiniteSetTheorems

(* A worker between run and the save of its success, one between the claim   *)
(* of a compensation and the call.                                           *)
CallPCs == {"saveStep", "undo"}

Savers(i)  == {w \in Workers : workers[w].pc = "saveStep" /\ workers[w].step = i}
Undoers(i) == {w \in Workers : workers[w].pc = "undo" /\ workers[w].step = i}

Standing(i) == IF steps[i].status = "success" THEN 1 ELSE 0

(* Every call of compensate, made or claimed, was paid for by a run of its   *)
(* own: a success is saved once and claimed once.                            *)
Balance ==
    \A i \in Idx :
        undone[i] + Cardinality(Undoers(i)) + Cardinality(Savers(i)) + Standing(i) <= ran[i]

LEMMA SetsCounted ==
    ASSUME IsFiniteSet(Workers), NEW i
    PROVE  /\ IsFiniteSet(Undoers(i)) /\ Cardinality(Undoers(i)) \in Nat
           /\ IsFiniteSet(Savers(i)) /\ Cardinality(Savers(i)) \in Nat
  <1>1. Undoers(i) \in SUBSET Workers /\ Savers(i) \in SUBSET Workers
    BY DEF Undoers, Savers
  <1> QED BY <1>1, FS_Subset, FS_CardinalityType

LEMMA SetsCountedNext ==
    ASSUME IsFiniteSet(Workers), NEW i
    PROVE  /\ IsFiniteSet(Undoers(i)') /\ Cardinality(Undoers(i)') \in Nat
           /\ IsFiniteSet(Savers(i)') /\ Cardinality(Savers(i)') \in Nat
  <1>1. Undoers(i)' \in SUBSET Workers /\ Savers(i)' \in SUBSET Workers
    BY DEF Undoers, Savers
  <1> QED BY <1>1, FS_Subset, FS_CardinalityType

LEMMA BalanceInit == Init => Balance
  <1> SUFFICES ASSUME Init, NEW i \in Idx
               PROVE  undone[i] + Cardinality(Undoers(i)) + Cardinality(Savers(i)) + Standing(i)
                          <= ran[i]
      BY DEF Balance
  <1>1. Undoers(i) = {} /\ Savers(i) = {}
    BY DEF Init, Undoers, Savers, IdleWorker
  <1>2. undone[i] = 0 /\ ran[i] = 0 /\ Standing(i) = 0
    BY DEF Init, Standing, NoStep
  <1> QED BY <1>1, <1>2, FS_EmptySet

(* Nobody comes to a call and no row becomes a success.                      *)
LEMMA BalanceKeeps ==
    ASSUME IsFiniteSet(Workers), TypeInv, Balance, UNCHANGED <<ran, undone>>,
           \A w \in Workers : workers'[w].pc \in CallPCs => workers'[w] = workers[w],
           \A i \in Idx : steps'[i].status = "success" => steps[i].status = "success"
    PROVE  Balance'
  <1> SUFFICES ASSUME NEW i \in Idx
               PROVE  undone[i]' + Cardinality(Undoers(i)') + Cardinality(Savers(i)')
                          + Standing(i)' <= ran[i]'
      BY DEF Balance
  <1>1. Undoers(i)' \in SUBSET Undoers(i) /\ Savers(i)' \in SUBSET Savers(i)
    BY DEF Undoers, Savers, CallPCs
  <1>2. /\ Cardinality(Undoers(i)') <= Cardinality(Undoers(i))
        /\ Cardinality(Savers(i)') <= Cardinality(Savers(i))
    BY <1>1, SetsCounted, FS_Subset
  <1>3. Standing(i)' <= Standing(i) /\ Standing(i) \in Nat /\ Standing(i)' \in Nat
    BY DEF Standing
  <1>4. undone[i] \in Nat /\ ran[i] \in Nat
    BY DEF TypeInv, TypeOK
  <1>5. undone[i] + Cardinality(Undoers(i)) + Cardinality(Savers(i)) + Standing(i) <= ran[i]
    BY DEF Balance
  <1> QED BY <1>2, <1>3, <1>4, <1>5, SetsCounted, SetsCountedNext

(* Only the step of the worker that moves is affected by its move.           *)
LEMMA SetsOfOthers ==
    ASSUME TypeInv, NEW w \in Workers, NEW r, workers' = [workers EXCEPT ![w] = r],
           NEW i, workers[w].step # i, r.step # i
    PROVE  Undoers(i)' = Undoers(i) /\ Savers(i)' = Savers(i)
  BY DEF Undoers, Savers, TypeInv, TypeOK

LEMMA SetsOfMover ==
    ASSUME TypeInv, NEW w \in Workers, NEW r, workers' = [workers EXCEPT ![w] = r],
           NEW i, workers[w].step = i, r.step = i
    PROVE  /\ r.pc # "undo" => Undoers(i)' = Undoers(i) \ {w}
           /\ r.pc = "undo" => Undoers(i)' = Undoers(i) \cup {w}
           /\ r.pc # "saveStep" => Savers(i)' = Savers(i) \ {w}
           /\ r.pc = "saveStep" => Savers(i)' = Savers(i) \cup {w}
  BY DEF Undoers, Savers, TypeInv, TypeOK

LEMMA CallsCounted ==
    ASSUME IsFiniteSet(Workers), TypeInv, NEW w \in Workers, NEW r,
           workers' = [workers EXCEPT ![w] = r], NEW i, workers[w].step = i, r.step = i
    PROVE  /\ (r.pc = "undo" <=> workers[w].pc = "undo")
                 => Cardinality(Undoers(i)') = Cardinality(Undoers(i))
           /\ r.pc = "undo" /\ workers[w].pc # "undo"
                 => Cardinality(Undoers(i)') = Cardinality(Undoers(i)) + 1
           /\ r.pc # "undo" /\ workers[w].pc = "undo"
                 => Cardinality(Undoers(i)') = Cardinality(Undoers(i)) - 1
           /\ (r.pc = "saveStep" <=> workers[w].pc = "saveStep")
                 => Cardinality(Savers(i)') = Cardinality(Savers(i))
           /\ r.pc = "saveStep" /\ workers[w].pc # "saveStep"
                 => Cardinality(Savers(i)') = Cardinality(Savers(i)) + 1
           /\ r.pc # "saveStep" /\ workers[w].pc = "saveStep"
                 => Cardinality(Savers(i)') = Cardinality(Savers(i)) - 1
  <1>1. /\ w \in Undoers(i) <=> workers[w].pc = "undo"
        /\ w \in Savers(i) <=> workers[w].pc = "saveStep"
    BY DEF Undoers, Savers
  <1>2. \A S : IsFiniteSet(S) =>
           /\ Cardinality(S \cup {w}) = IF w \in S THEN Cardinality(S) ELSE Cardinality(S) + 1
           /\ Cardinality(S \ {w}) = IF w \in S THEN Cardinality(S) - 1 ELSE Cardinality(S)
    BY FS_AddElement, FS_RemoveElement
  <1>3. IsFiniteSet(Undoers(i)) /\ IsFiniteSet(Savers(i))
    BY SetsCounted
  <1>4. /\ r.pc = "undo" => Cardinality(Undoers(i)') = Cardinality(Undoers(i) \cup {w})
        /\ r.pc # "undo" => Cardinality(Undoers(i)') = Cardinality(Undoers(i) \ {w})
        /\ r.pc = "saveStep" => Cardinality(Savers(i)') = Cardinality(Savers(i) \cup {w})
        /\ r.pc # "saveStep" => Cardinality(Savers(i)') = Cardinality(Savers(i) \ {w})
    BY SetsOfMover
  <1> QED BY <1>1, <1>2, <1>3, <1>4

LEMMA BalanceOfOne ==
    ASSUME IsFiniteSet(Workers), TypeInv, TypeInv', Balance, NEW w \in Workers, NEW r,
           workers' = [workers EXCEPT ![w] = r],
           NEW s \in Idx, workers[w].step = s, r.step = s,
           \A i \in Idx : i # s =>
               steps'[i] = steps[i] /\ ran'[i] = ran[i] /\ undone'[i] = undone[i],
           undone'[s] + Cardinality(Undoers(s)') + Cardinality(Savers(s)') + Standing(s)' <= ran'[s]
    PROVE  Balance'
  <1> SUFFICES ASSUME NEW i \in Idx
               PROVE  undone'[i] + Cardinality(Undoers(i)') + Cardinality(Savers(i)')
                          + Standing(i)' <= ran'[i]
      BY DEF Balance
  <1>1. CASE i = s
    BY <1>1
  <1>2. CASE i # s
    <2>1. Undoers(i)' = Undoers(i) /\ Savers(i)' = Savers(i)
      BY ZenonT(30), <1>2, SetsOfOthers
    <2>2. Standing(i)' = Standing(i) /\ undone'[i] = undone[i] /\ ran'[i] = ran[i]
      BY <1>2 DEF Standing
    <2> QED BY <2>1, <2>2 DEF Balance
  <1> QED BY <1>1, <1>2

(* The four statements at which a call is made, recorded or claimed.         *)
LEMMA BalanceCalls ==
    ASSUME IsFiniteSet(Workers), TypeInv, TypeInv', Balance, NEW w \in Workers,
           BodySucceeds(w) \/ SaveStep(w) \/ ClaimUndoWins(w) \/ Undo(w)
    PROVE  Balance'
  <1> USE DEF At, rows
  <1>1. PICK s \in Idx : workers[w].step = s
    BY HoldsStep DEF BodySucceeds, SaveStep, ClaimUndoWins, Undo, ForwardPCs, UndoPCs
  <1>2. /\ undone[s] \in Nat /\ ran[s] \in Nat
        /\ undone[s] + Cardinality(Undoers(s)) + Cardinality(Savers(s)) + Standing(s) <= ran[s]
        /\ Cardinality(Undoers(s)) \in Nat /\ Cardinality(Savers(s)) \in Nat
        /\ Standing(s) \in {0, 1}
    BY <1>1, SetsCounted DEF Balance, TypeInv, TypeOK, Standing
  <1>3. CASE BodySucceeds(w)
    <2> DEFINE r == [workers[w] EXCEPT !.pc = "saveStep"]
    <2>1. /\ workers' = [workers EXCEPT ![w] = r] /\ r.step = s /\ r.pc = "saveStep"
          /\ workers[w].pc = "body"
      BY <1>1, <1>3 DEF BodySucceeds, Goto, TypeInv, TypeOK, Worker
    <2> HIDE DEF r
    <2>2. /\ Cardinality(Undoers(s)') = Cardinality(Undoers(s))
          /\ Cardinality(Savers(s)') = Cardinality(Savers(s)) + 1
      BY ZenonT(30), <1>1, <2>1, CallsCounted
    <2>3. /\ ran'[s] = ran[s] + 1 /\ UNCHANGED <<steps, undone>>
          /\ \A i \in Idx : i # s => ran'[i] = ran[i]
      BY <1>1, <1>3 DEF BodySucceeds, TypeInv, TypeOK
    <2>4. Standing(s)' = Standing(s)
      BY <2>3 DEF Standing
    <2>5. undone'[s] + Cardinality(Undoers(s)') + Cardinality(Savers(s)') + Standing(s)' <= ran'[s]
      BY <1>2, <2>2, <2>3, <2>4
    <2> QED BY <1>1, <2>1, <2>3, <2>5, BalanceOfOne
  <1>4. CASE SaveStep(w)
    <2> DEFINE r == [workers[w] EXCEPT !.pc = "saveRun"]
    <2>1. /\ workers' = [workers EXCEPT ![w] = r] /\ r.step = s /\ r.pc = "saveRun"
          /\ workers[w].pc = "saveStep"
      BY <1>1, <1>4 DEF SaveStep, Goto, TypeInv, TypeOK, Worker
    <2> HIDE DEF r
    <2>2. /\ Cardinality(Undoers(s)') = Cardinality(Undoers(s))
          /\ Cardinality(Savers(s)') = Cardinality(Savers(s)) - 1
      BY <1>1, <2>1, CallsCounted
    <2>3. /\ steps'[s].status = "success" /\ UNCHANGED <<ran, undone>>
          /\ \A i \in Idx : i # s => steps'[i] = steps[i]
      BY <1>1, <1>4 DEF SaveStep, SetStep, TypeInv, TypeOK, StepRow
    <2>4. Standing(s)' = 1
      BY <2>3 DEF Standing
    <2>5. undone'[s] + Cardinality(Undoers(s)') + Cardinality(Savers(s)') + Standing(s)' <= ran'[s]
      BY <1>2, <2>2, <2>3, <2>4
    <2> QED BY <1>1, <2>1, <2>3, <2>5, BalanceOfOne
  <1>5. CASE ClaimUndoWins(w)
    <2> DEFINE r == [workers[w] EXCEPT !.pc = "undo"]
    <2>1. /\ workers' = [workers EXCEPT ![w] = r] /\ r.step = s /\ r.pc = "undo"
          /\ workers[w].pc = "claimUndo"
      BY <1>1, <1>5 DEF ClaimUndoWins, Goto, TypeInv, TypeOK, Worker
    <2> HIDE DEF r
    <2>2. /\ Cardinality(Undoers(s)') = Cardinality(Undoers(s)) + 1
          /\ Cardinality(Savers(s)') = Cardinality(Savers(s))
      BY ZenonT(30), <1>1, <2>1, CallsCounted
    <2>3. /\ steps[s].status = "success" /\ steps'[s].status = "compensating"
          /\ UNCHANGED <<ran, undone>>
          /\ \A i \in Idx : i # s => steps'[i] = steps[i]
      BY <1>1, <1>5 DEF ClaimUndoWins, ClaimStep, TypeInv, TypeOK, StepRow
    <2>4. Standing(s) = 1 /\ Standing(s)' = 0
      BY <2>3 DEF Standing
    <2>5. undone'[s] + Cardinality(Undoers(s)') + Cardinality(Savers(s)') + Standing(s)' <= ran'[s]
      BY <1>2, <2>2, <2>3, <2>4
    <2> QED BY <1>1, <2>1, <2>3, <2>5, BalanceOfOne
  <1>6. CASE Undo(w)
    <2>1. PICK o : workers' = [workers EXCEPT ![w].pc = "saveUndo", ![w].outcome = o]
      BY <1>6 DEF Undo
    <2> DEFINE r == [workers[w] EXCEPT !.pc = "saveUndo", !.outcome = o]
    <2>2. /\ workers' = [workers EXCEPT ![w] = r] /\ r.step = s /\ r.pc = "saveUndo"
          /\ workers[w].pc = "undo"
      BY <1>1, <1>6, <2>1 DEF Undo, TypeInv, TypeOK, Worker
    <2> HIDE DEF r
    <2>3. /\ Cardinality(Undoers(s)') = Cardinality(Undoers(s)) - 1
          /\ Cardinality(Savers(s)') = Cardinality(Savers(s))
      BY ZenonT(30), <1>1, <2>2, CallsCounted
    <2>4. /\ undone'[s] \in {undone[s], undone[s] + 1} /\ UNCHANGED <<steps, ran>>
          /\ \A i \in Idx : i # s => undone'[i] = undone[i]
      BY <1>1, <1>6 DEF Undo, TypeInv, TypeOK
    <2>5. Standing(s)' = Standing(s)
      BY <2>4 DEF Standing
    <2>6. undone'[s] + Cardinality(Undoers(s)') + Cardinality(Savers(s)') + Standing(s)' <= ran'[s]
      BY <1>2, <2>3, <2>4, <2>5
    <2> QED BY <1>1, <2>2, <2>4, <2>6, BalanceOfOne
  <1> QED BY <1>3, <1>4, <1>5, <1>6

(* Everything else a worker does.                                            *)
LEMMA BalanceAdvance ==
    ASSUME IsFiniteSet(Workers), TypeInv, TypeInv', Balance, NEW w \in Workers, Advance(w)
    PROVE  Balance'
  <1> USE DEF At, rows
  <1>1. ASSUME NEW pc, Goto(w, pc), pc \notin CallPCs
        PROVE  \A v \in Workers : workers'[v].pc \in CallPCs => workers'[v] = workers[v]
    BY <1>1 DEF Goto, TypeInv, TypeOK, Worker
  <1>2. ASSUME Return(w)
        PROVE  \A v \in Workers : workers'[v].pc \in CallPCs => workers'[v] = workers[v]
    BY <1>2 DEF Return, IdleWorker, TypeInv, TypeOK, CallPCs
  <1>3. ASSUME NEW v \in Workers, workers'[v].pc \in CallPCs,
               Select(w) \/ Look(w) \/ Refresh(w) \/ MarkRunning(w) \/ Unwind(w) \/ SkipPending(w)
        PROVE  workers'[v] = workers[v]
    <2>1. CASE Select(w)
      BY <1>3, <2>1 DEF Select, IdleWorker, TypeInv, TypeOK, CallPCs
    <2>2. CASE Look(w)
      BY <1>2, <1>3, <2>2 DEF Look, TypeInv, TypeOK, Worker, CallPCs
    <2>3. CASE Refresh(w)
      BY <1>3, <2>3 DEF Refresh, TypeInv, TypeOK, Worker, CallPCs
    <2>4. CASE MarkRunning(w)
      BY <1>3, <2>4 DEF MarkRunning, TypeInv, TypeOK, Worker, CallPCs
    <2>5. CASE Unwind(w)
      BY <1>1, <1>3, <2>5 DEF Unwind, TypeInv, TypeOK, Worker, CallPCs
    <2>6. CASE SkipPending(w)
      BY <1>3, <2>6 DEF SkipPending, TypeInv, TypeOK, Worker, CallPCs
    <2> QED BY <1>3, <2>1, <2>2, <2>3, <2>4, <2>5, <2>6
  <1>4. CASE Select(w) \/ Look(w) \/ Refresh(w) \/ MarkRunning(w) \/ Unwind(w)
    BY <1>3, <1>4, BalanceKeeps DEF Select, Look, Refresh, MarkRunning, Unwind
  <1>5. CASE SkipPending(w)
    <2>1. \A i \in Idx : steps'[i].status = "success" => steps[i].status = "success"
      BY <1>5 DEF SkipPending, TypeInv, TypeOK, StepRow
    <2> QED BY <1>3, <1>5, <2>1, BalanceKeeps DEF SkipPending
  <1>6. CASE ClaimWins(w) \/ RetryStep(w) \/ FailStep(w) \/ SaveUndo(w)
    <2>1. \A i \in Idx : steps'[i].status = "success" => steps[i].status = "success"
      <3>1. workers[w].pc = "saveUndo" => workers[w].outcome # "success"
        BY DEF TypeInv, MemoryOK, Sound
      <3>2. CASE ClaimWins(w)
        BY SMTT(30), <3>2 DEF ClaimWins, ClaimStep, TypeInv, TypeOK, StepRow
      <3>3. CASE RetryStep(w)
        BY <3>3 DEF RetryStep, TypeInv, TypeOK, StepRow
      <3>4. CASE FailStep(w)
        BY <3>4 DEF FailStep, SetStep, TypeInv, TypeOK, StepRow
      <3>5. CASE SaveUndo(w)
        BY <3>1, <3>5 DEF SaveUndo, SetStep, TypeInv, TypeOK, StepRow
      <3> QED BY <1>6, <3>2, <3>3, <3>4, <3>5
    <2>2. \A v \in Workers : workers'[v].pc \in CallPCs => workers'[v] = workers[v]
      BY <1>1, <1>2, <1>6 DEF ClaimWins, RetryStep, FailStep, SaveUndo, CallPCs
    <2>3. UNCHANGED <<ran, undone>>
      BY <1>6 DEF ClaimWins, RetryStep, FailStep, SaveUndo
    <2> QED BY <2>1, <2>2, <2>3, BalanceKeeps
  <1>7. CASE \/ ClaimLoses(w) \/ BodyFails(w) \/ SaveRun(w) \/ FailRun(w) \/ ClaimUndoLoses(w)
             \/ FinishWins(w) \/ FinishLoses(w) \/ Publish(w)
    <2>1. \A v \in Workers : workers'[v].pc \in CallPCs => workers'[v] = workers[v]
      BY <1>1, <1>2, <1>7 DEF ClaimLoses, BodyFails, SaveRun, FailRun, ClaimUndoLoses, FinishWins,
         FinishLoses, Publish, CallPCs
    <2>2. UNCHANGED <<steps, ran, undone>>
      BY <1>7 DEF ClaimLoses, BodyFails, SaveRun, FailRun, ClaimUndoLoses, FinishWins, FinishLoses,
         Publish
    <2> QED BY <2>1, <2>2, BalanceKeeps
  <1> QED BY <1>4, <1>5, <1>6, <1>7, BalanceCalls DEF Advance

LEMMA BalanceNext ==
    ASSUME IsFiniteSet(Workers), TypeInv, TypeInv', Balance, [Next]_vars
    PROVE  Balance'
  <1>1. ASSUME UNCHANGED <<workers, ran, undone>>,
               \A i \in Idx : steps'[i].status = "success" => steps[i].status = "success"
        PROVE  Balance'
    BY <1>1, BalanceKeeps
  <1>2. CASE CreateRun \/ CallerCrash \/ RequestPause \/ RequestCancel \/ UNCHANGED vars
    BY <1>1, <1>2 DEF CreateRun, CallerCrash, RequestPause, RequestCancel, vars, rows
  <1>3. ASSUME NEW i \in Idx, CreateStep(i) \/ BackoffElapses(i) \/ LockExpires(i) PROVE Balance'
    <2>1. \A j \in Idx : steps'[j].status = "success" => steps[j].status = "success"
      BY <1>3 DEF CreateStep, SetStep, BackoffElapses, LockExpires, TypeInv, TypeOK, StepRow
    <2> QED BY <1>1, <1>3, <2>1 DEF CreateStep, BackoffElapses, LockExpires
  <1>4. ASSUME NEW o \in Operators, Control(o) PROVE Balance'
    <2>1. \A j \in Idx : steps'[j].status = "success" => steps[j].status = "success"
      <3>1. CASE RearmSteps(o)
        BY <3>1 DEF RearmSteps, TypeInv, TypeOK, StepRow
      <3>2. CASE ~RearmSteps(o)
        BY <1>4, <3>2 DEF Control, FetchForResume, RequestResume, FetchForRetry, Requeue, rows
      <3> QED BY <3>1, <3>2
    <2>2. UNCHANGED <<workers, ran, undone>>
      BY <1>4 DEF Control, FetchForResume, RequestResume, FetchForRetry, RearmSteps, Requeue
    <2> QED BY <1>1, <2>1, <2>2
  <1>5. ASSUME NEW w \in Workers, WorkerCrash(w) PROVE Balance'
    <2>1. \A v \in Workers : workers'[v].pc \in CallPCs => workers'[v] = workers[v]
      BY <1>5 DEF WorkerCrash, Return, IdleWorker, TypeInv, TypeOK, CallPCs
    <2> QED BY <1>5, <2>1, BalanceKeeps DEF WorkerCrash, rows
  <1>6. ASSUME NEW w \in Workers, NEW i \in Idx, Reclaim(w, i) PROVE Balance'
    <2>1. \A j \in Idx : steps'[j].status = "success" => steps[j].status = "success"
      BY <1>6 DEF Reclaim, SetStep, TypeInv, TypeOK, StepRow
    <2>2. \A v \in Workers : workers'[v].pc \in CallPCs => workers'[v] = workers[v]
      BY <1>6 DEF Reclaim, Goto, TypeInv, TypeOK, Worker, CallPCs
    <2> QED BY <1>6, <2>1, <2>2, BalanceKeeps DEF Reclaim
  <1> QED BY <1>2, <1>3, <1>4, <1>5, <1>6, BalanceAdvance DEF Next, Start, Time

(* compensate is never called more often than run returned, whatever crashes *)
(* or outlasts its lock and whatever is cancelled or retried: _claim_step    *)
(* hands each success to one caller, and each success was saved for a run.   *)
THEOREM CompensationsPaidFor ==
    ASSUME IsFiniteSet(Workers) PROVE Spec => []NeverUndoneTwice
  <1>1. ASSUME TypeInv, Balance, NEW i \in Idx PROVE undone[i] <= ran[i]
    <2>1. undone[i] + Cardinality(Undoers(i)) + Cardinality(Savers(i)) + Standing(i) <= ran[i]
      BY <1>1 DEF Balance
    <2>2. undone[i] \in Nat /\ ran[i] \in Nat /\ Standing(i) \in {0, 1}
      BY <1>1 DEF TypeInv, TypeOK, Standing
    <2> QED BY <2>1, <2>2, SetsCounted
  <1>2. TypeInv /\ Balance => NeverUndoneTwice
    BY <1>1 DEF NeverUndoneTwice
  <1>3. TypeInv /\ TypeInv' /\ Balance /\ [Next]_vars => Balance'
    BY BalanceNext
  <1> QED BY TypeInit, TypeNext, BalanceInit, <1>2, <1>3, PTL DEF Spec

-----------------------------------------------------------------------------
(* The retries whose re-arming of the rows is still to come have granted     *)
(* nothing yet.                                                              *)
Waiting == {o \in Operators : operators[o].pc = "retry"}
Budget  == MaxAttempts + retries - Cardinality(Waiting)

(* A row that may still be claimed has an attempt left, and every return of  *)
(* run was claimed under an attempt number of its own.                       *)
RowWithin(i) ==
    /\ ran[i] <= Budget
    /\ steps[i].status = "absent" => steps[i].attempt = 0 /\ ran[i] = 0
    /\ steps[i].status \in {"pending", "skipped"} =>
          ran[i] <= steps[i].attempt /\ steps[i].attempt < Budget
    /\ steps[i].status \in {"running", "failed"} =>
          ran[i] <= steps[i].attempt /\ steps[i].attempt <= Budget

(* The worker that was given an attempt has not used it, and knows it.       *)
BudgetPCs == {"refresh", "mark", "body", "retryStep"}

Within(r) ==
    /\ r.pc \in {"refresh", "mark", "body"} => ran[r.step] < steps[r.step].attempt
    /\ r.pc \in {"mark", "body", "retryStep"} => r.attempt = steps[r.step].attempt
    /\ r.pc = "retryStep" => r.attempt < MaxAttempts

BudgetInv ==
    /\ Cardinality(Waiting) <= retries
    /\ \A i \in Idx : RowWithin(i)
    /\ \A w \in Workers : Within(workers[w])

LEMMA BudgetNat ==
    ASSUME IsFiniteSet(Operators), TypeInv, BudgetInv
    PROVE  IsFiniteSet(Waiting) /\ Cardinality(Waiting) \in Nat /\ Budget \in Nat
           /\ MaxAttempts <= Budget /\ Budget <= MaxAttempts + retries
  <1>1. Waiting \in SUBSET Operators
    BY DEF Waiting
  <1>2. IsFiniteSet(Waiting) /\ Cardinality(Waiting) \in Nat
    BY <1>1, FS_Subset, FS_CardinalityType
  <1> QED BY <1>2, MaxAttemptsAssumption DEF Budget, BudgetInv, TypeInv, TypeOK

LEMMA BudgetInit == ASSUME MaxAttempts > 0 PROVE Init => BudgetInv
  <1> SUFFICES ASSUME Init PROVE BudgetInv
      OBVIOUS
  <1>1. Waiting = {}
    BY DEF Init, Waiting, IdleOperator
  <1>2. Cardinality(Waiting) = 0
    BY <1>1, FS_EmptySet
  <1>3. Budget = MaxAttempts
    BY <1>2, MaxAttemptsAssumption DEF Init, Budget
  <1> QED BY <1>2, <1>3, MaxAttemptsAssumption
          DEF Init, BudgetInv, RowWithin, Within, NoStep, IdleWorker

LEMMA RowTyped ==
    ASSUME TypeInv, NEW i \in Idx
    PROVE  steps[i] \in StepRow /\ steps[i].attempt \in Nat /\ ran[i] \in Nat
  BY DEF TypeInv, TypeOK, StepRow

(* No operator acts: what is left to show is about the rows that change and  *)
(* the worker that moves.                                                    *)
LEMMA BudgetStep ==
    ASSUME BudgetInv, UNCHANGED <<retries, operators>>,
           \A i \in Idx : \/ steps'[i] = steps[i] /\ ran'[i] = ran[i]
                          \/ RowWithin(i)',
           \A w \in Workers : Within(workers[w])'
    PROVE  BudgetInv'
  <1>1. Waiting' = Waiting
    BY DEF Waiting
  <1>2. Budget' = Budget
    BY <1>1 DEF Budget
  <1>3. ASSUME NEW i \in Idx PROVE RowWithin(i)'
    <2>1. CASE steps'[i] = steps[i] /\ ran'[i] = ran[i]
      BY <1>2, <2>1 DEF BudgetInv, RowWithin
    <2> QED BY <2>1
  <1> QED BY <1>1, <1>3 DEF BudgetInv

LEMMA BudgetSame == ASSUME UNCHANGED <<retries, operators>> PROVE Budget' = Budget
  <1>1. Waiting' = Waiting
    BY DEF Waiting
  <1> QED BY <1>1 DEF Budget

LEMMA WithinKept ==
    ASSUME BudgetInv, NEW v \in Workers, workers'[v] = workers[v],
           workers[v].pc \in BudgetPCs =>
               /\ steps'[workers[v].step].attempt = steps[workers[v].step].attempt
               /\ ran'[workers[v].step] = ran[workers[v].step]
    PROVE  Within(workers[v])'
  BY DEF BudgetInv, Within, BudgetPCs

(* A worker moves, the rows stay.                                            *)
LEMMA BudgetMove ==
    ASSUME TypeInv, BudgetInv, NEW w \in Workers, UNCHANGED <<retries, operators, steps, ran>>,
           \A v \in Workers : v # w => workers'[v] = workers[v],
           Within(workers[w])'
    PROVE  BudgetInv'
  <1>1. \A v \in Workers : Within(workers[v])'
    BY WithinKept
  <1> QED BY <1>1, BudgetStep

LEMMA BudgetRead ==
    ASSUME TypeInv, BudgetInv, NEW w \in Workers,
           \/ Select(w) \/ Look(w) \/ ClaimLoses(w) \/ Refresh(w) \/ MarkRunning(w) \/ BodyFails(w)
           \/ SaveRun(w) \/ FailRun(w) \/ Unwind(w) \/ ClaimUndoLoses(w) \/ Undo(w)
           \/ FinishWins(w) \/ FinishLoses(w) \/ Publish(w) \/ WorkerCrash(w)
    PROVE  BudgetInv'
  <1> USE DEF At, rows
  <1>1. \A pc : Goto(w, pc) => /\ workers'[w].pc = pc /\ workers'[w].step = workers[w].step
                                /\ workers'[w].attempt = workers[w].attempt
    BY DEF Goto, TypeInv, TypeOK, Worker
  <1>2. Return(w) => workers'[w].pc = "idle"
    BY DEF Return, IdleWorker, TypeInv, TypeOK
  <1>3. UNCHANGED <<retries, operators, steps, ran>>
    BY DEF Select, Look, ClaimLoses, Refresh, MarkRunning, BodyFails, SaveRun, FailRun, Unwind,
           ClaimUndoLoses, Undo, FinishWins, FinishLoses, Publish, WorkerCrash
  <1>4. \A v \in Workers : v # w => workers'[v] = workers[v]
    BY DEF Select, Look, ClaimLoses, Refresh, MarkRunning, BodyFails, SaveRun, FailRun, Unwind,
           ClaimUndoLoses, Undo, FinishWins, FinishLoses, Publish, WorkerCrash, Goto, Return,
           TypeInv, TypeOK
  <1>5. workers'[w].pc \notin BudgetPCs => Within(workers[w])'
    BY DEF Within, BudgetPCs
  <1>6. Within(workers[w])
    BY DEF BudgetInv
  <1>7. CASE Refresh(w)
    <2>1. /\ workers'[w].pc \in {"mark", "body"} /\ workers'[w].step = workers[w].step
          /\ workers'[w].attempt = steps[workers[w].step].attempt
      BY <1>7 DEF Refresh, TypeInv, TypeOK, Worker
    <2>2. Within(workers[w])'
      BY <1>3, <1>6, <1>7, <2>1 DEF Within, Refresh
    <2> QED BY <1>3, <1>4, <2>2, BudgetMove
  <1>8. CASE MarkRunning(w)
    <2>1. /\ workers'[w].pc = "body" /\ workers'[w].step = workers[w].step
          /\ workers'[w].attempt = workers[w].attempt
      BY <1>8 DEF MarkRunning, TypeInv, TypeOK, Worker
    <2>2. Within(workers[w])'
      BY <1>3, <1>6, <1>8, <2>1 DEF Within, MarkRunning
    <2> QED BY <1>3, <1>4, <2>2, BudgetMove
  <1>9. CASE BodyFails(w)
    <2>1. /\ workers'[w].step = workers[w].step /\ workers'[w].attempt = workers[w].attempt
          /\ \/ workers'[w].pc = "retryStep" /\ workers[w].attempt < MaxAttempts
             \/ workers'[w].pc = "failStep"
      BY <1>1, <1>9 DEF BodyFails, RetriesLeft
    <2>2. Within(workers[w])'
      BY <1>3, <1>6, <1>9, <2>1 DEF Within, BodyFails
    <2> QED BY <1>3, <1>4, <2>2, BudgetMove
  <1>10. CASE Select(w) \/ Look(w) \/ Unwind(w) \/ Undo(w)
    <2>1. CASE Select(w)
      BY <1>3, <1>4, <1>5, <2>1, BudgetMove DEF Select, IdleWorker, BudgetPCs, TypeInv, TypeOK
    <2>2. CASE Look(w)
      <3>1. workers'[w].pc \notin BudgetPCs
        BY <1>2, <2>2 DEF Look, BudgetPCs, TypeInv, TypeOK, Worker
      <3> QED BY <1>3, <1>4, <1>5, <3>1, BudgetMove
    <2>3. CASE Unwind(w)
      <3>1. workers'[w].pc \notin BudgetPCs
        <4>1. CASE Goto(w, "skip")
          BY <1>1, <4>1 DEF BudgetPCs
        <4>2. ASSUME NEW i, workers' = [workers EXCEPT ![w].pc = "claimUndo", ![w].step = i]
              PROVE  workers'[w].pc \notin BudgetPCs
          BY <4>2 DEF BudgetPCs, TypeInv, TypeOK, Worker
        <4> QED BY <2>3, <4>1, <4>2 DEF Unwind
      <3> QED BY <1>3, <1>4, <1>5, <3>1, BudgetMove
    <2>4. CASE Undo(w)
      <3>1. workers'[w].pc \notin BudgetPCs
        BY <2>4 DEF Undo, BudgetPCs, TypeInv, TypeOK, Worker
      <3> QED BY <1>3, <1>4, <1>5, <3>1, BudgetMove
    <2> QED BY <1>10, <2>1, <2>2, <2>3, <2>4
  <1>11. CASE \/ ClaimLoses(w) \/ SaveRun(w) \/ FailRun(w) \/ ClaimUndoLoses(w)
              \/ FinishWins(w) \/ FinishLoses(w) \/ Publish(w) \/ WorkerCrash(w)
    <2>1. workers'[w].pc \in {"idle", "publish"}
      BY <1>1, <1>2, <1>11 DEF ClaimLoses, SaveRun, FailRun, ClaimUndoLoses, FinishWins,
         FinishLoses, Publish, WorkerCrash
    <2> QED BY <1>3, <1>4, <1>5, <2>1, BudgetMove DEF BudgetPCs
  <1> QED BY <1>7, <1>8, <1>9, <1>10, <1>11

(* A worker writes the row of its step.                                      *)
LEMMA BudgetWrite ==
    ASSUME ~SlowSteps, IsFiniteSet(Operators), TypeInv, ExclInv, BudgetInv, NEW w \in Workers,
           \/ ClaimWins(w) \/ BodySucceeds(w) \/ SaveStep(w) \/ RetryStep(w) \/ FailStep(w)
           \/ ClaimUndoWins(w) \/ SaveUndo(w)
    PROVE  BudgetInv'
  <1> USE DEF At, rows
  <1>1. PICK s \in Idx : workers[w].step = s
    BY HoldsStep DEF ClaimWins, BodySucceeds, SaveStep, RetryStep, FailStep, ClaimUndoWins, SaveUndo,
       ForwardPCs, UndoPCs
  <1>2. UNCHANGED <<retries, operators>>
    BY DEF ClaimWins, BodySucceeds, SaveStep, RetryStep, FailStep, ClaimUndoWins, SaveUndo
  <1>3. Budget' = Budget /\ Budget \in Nat /\ MaxAttempts <= Budget
    BY <1>2, BudgetSame, BudgetNat
  <1>4. \A v \in Workers : v # w => workers'[v] = workers[v]
    BY DEF ClaimWins, BodySucceeds, SaveStep, RetryStep, FailStep, ClaimUndoWins, SaveUndo,
           Goto, Return, TypeInv, TypeOK
  <1>5. \A i \in Idx : i # s => steps'[i] = steps[i] /\ ran'[i] = ran[i]
    BY <1>1 DEF ClaimWins, BodySucceeds, SaveStep, RetryStep, FailStep, ClaimUndoWins, SaveUndo,
                ClaimStep, SetStep, TypeInv, TypeOK
  <1>6. /\ steps[s] \in StepRow /\ steps[s].attempt \in Nat /\ ran[s] \in Nat
        /\ RowWithin(s) /\ Within(workers[w])
    BY RowTyped DEF BudgetInv
  <1>7. ASSUME RowWithin(s)', Within(workers[w])',
               \/ steps'[s].attempt = steps[s].attempt /\ ran'[s] = ran[s]
               \/ \A v \in Workers : v # w /\ workers[v].pc \in BudgetPCs => workers[v].step # s
        PROVE  BudgetInv'
    <2>1. ASSUME NEW v \in Workers, v # w PROVE Within(workers[v])'
      <3>1. workers[v].pc \in BudgetPCs => workers[v].step \in Idx
        BY HoldsStep DEF BudgetPCs, ForwardPCs
      <3> QED BY <1>4, <1>5, <1>7, <2>1, <3>1, WithinKept
    <2> QED BY <1>2, <1>5, <1>7, <2>1, BudgetStep
  <1>8. \A v \in Workers : workers[v].pc \in BudgetPCs /\ workers[v].step = s =>
            Executing(v, s) /\ steps[s].status = "running"
    BY DEF ExclInv, Executing, BudgetPCs, ForwardPCs
  <1>9. \A pc : Goto(w, pc) => workers'[w].pc = pc /\ workers'[w].step = s
    BY <1>1 DEF Goto, TypeInv, TypeOK, Worker
  <1>10. Return(w) => workers'[w].pc = "idle"
    BY DEF Return, IdleWorker, TypeInv, TypeOK
  <1>11. CASE ClaimWins(w)
    <2>1. /\ steps[s].status = "pending" /\ steps'[s].status = "running"
          /\ steps'[s].attempt = steps[s].attempt + 1 /\ ran' = ran
      BY <1>1, <1>6, <1>11 DEF ClaimWins, ClaimStep, TypeInv, TypeOK, StepRow
    <2>2. RowWithin(s)'
      BY <1>3, <1>6, <2>1 DEF RowWithin
    <2>3. Within(workers[w])'
      BY <1>6, <1>9, <1>11, <2>1 DEF Within, RowWithin, ClaimWins
    <2> QED BY <1>7, <1>8, <2>1, <2>2, <2>3
  <1>12. CASE BodySucceeds(w)
    <2>1. /\ steps' = steps /\ ran'[s] = ran[s] + 1 /\ workers'[w].pc = "saveStep"
      BY <1>1, <1>9, <1>12 DEF BodySucceeds, TypeInv, TypeOK
    <2>2. ran[s] < steps[s].attempt
      BY <1>1, <1>6, <1>12 DEF Within, BodySucceeds
    <2>3. Executing(w, s) /\ steps[s].status = "running"
      BY <1>1, <1>8, <1>12 DEF BodySucceeds, BudgetPCs
    <2>4. RowWithin(s)'
      BY <1>3, <1>6, <2>1, <2>2, <2>3 DEF RowWithin
    <2>5. Within(workers[w])'
      BY <2>1 DEF Within
    <2>6. \A v \in Workers : Executing(v, s) => v = w
      BY <2>3 DEF ExclInv
    <2> QED BY <1>7, <1>8, <2>4, <2>5, <2>6
  <1>13. CASE SaveStep(w) \/ FailStep(w)
    <2>1. /\ steps[s].status = "running" /\ steps'[s].status \in {"success", "failed"}
          /\ steps'[s].attempt = steps[s].attempt /\ ran' = ran
      BY <1>1, <1>6, <1>13 DEF SaveStep, FailStep, SetStep, TypeInv, TypeOK, StepRow, ExclInv,
                               Executing, ForwardPCs
    <2>2. workers'[w].pc \in {"saveRun", "failRun"}
      BY <1>9, <1>13 DEF SaveStep, FailStep
    <2> QED BY <1>3, <1>6, <1>7, <2>1, <2>2 DEF RowWithin, Within
  <1>14. CASE RetryStep(w)
    <2>1. /\ steps[s].status = "running" /\ steps'[s].status = "pending"
          /\ steps'[s].attempt = steps[s].attempt /\ ran' = ran
      BY <1>1, <1>6, <1>14 DEF RetryStep, TypeInv, TypeOK, StepRow, ExclInv, Executing, ForwardPCs
    <2>2. steps[s].attempt < MaxAttempts
      BY <1>1, <1>6, <1>14 DEF RetryStep, Within
    <2>3. RowWithin(s)'
      BY <1>3, <1>6, <2>1, <2>2, MaxAttemptsAssumption DEF RowWithin
    <2>4. Within(workers[w])'
      BY <1>10, <1>14 DEF RetryStep, Within
    <2> QED BY <1>7, <2>1, <2>3, <2>4
  <1>15. CASE ClaimUndoWins(w)
    <2>1. /\ steps[s].status = "success" /\ steps'[s].status = "compensating" /\ ran' = ran
      BY <1>1, <1>6, <1>15 DEF ClaimUndoWins, ClaimStep, TypeInv, TypeOK, StepRow
    <2>2. workers'[w].pc = "undo"
      BY <1>9, <1>15 DEF ClaimUndoWins
    <2>3. RowWithin(s)' /\ Within(workers[w])'
      BY <1>3, <1>6, <2>1, <2>2 DEF RowWithin, Within
    <2> QED BY <1>7, <1>8, <2>1, <2>3
  <1>16. CASE SaveUndo(w)
    <2>1. /\ steps'[s].status \in {"compensated", "compensation_failed"}
          /\ steps'[s].attempt = steps[s].attempt /\ ran' = ran
      BY <1>1, <1>6, <1>16 DEF SaveUndo, SetStep, TypeInv, TypeOK, StepRow, MemoryOK, Sound
    <2>2. workers'[w].pc = "idle"
      BY <1>10, <1>16 DEF SaveUndo
    <2>3. RowWithin(s)' /\ Within(workers[w])'
      BY <1>3, <1>6, <2>1, <2>2 DEF RowWithin, Within
    <2> QED BY <1>7, <2>1, <2>3
  <1> QED BY <1>11, <1>12, <1>13, <1>14, <1>15, <1>16

(* Rows change without their attempts, and no worker comes to the body.      *)
LEMMA BudgetRows ==
    ASSUME TypeInv, BudgetInv, UNCHANGED <<retries, operators, ran>>,
           \A v \in Workers : workers'[v].pc \in BudgetPCs => workers'[v] = workers[v],
           \A i \in Idx : /\ steps'[i].attempt = steps[i].attempt
                          /\ steps'[i] = steps[i] \/ RowWithin(i)'
    PROVE  BudgetInv'
  <1>1. ASSUME NEW v \in Workers PROVE Within(workers[v])'
    <2>1. CASE workers'[v].pc \notin BudgetPCs
      BY <2>1 DEF Within, BudgetPCs
    <2>2. CASE workers'[v].pc \in BudgetPCs
      <3>1. workers'[v] = workers[v] /\ workers[v].step \in Idx
        BY <2>2, HoldsStep DEF BudgetPCs, ForwardPCs
      <3> QED BY <3>1, WithinKept
    <2> QED BY <2>1, <2>2
  <1> QED BY <1>1, BudgetStep

LEMMA BudgetOthers ==
    ASSUME MaxAttempts > 0, IsFiniteSet(Operators), TypeInv, BudgetInv,
           \/ \E i \in Idx : CreateStep(i) \/ BackoffElapses(i) \/ LockExpires(i)
           \/ \E w \in Workers : SkipPending(w) \/ \E i \in Idx : Reclaim(w, i)
    PROVE  BudgetInv'
  <1>1. Budget \in Nat /\ MaxAttempts <= Budget
        /\ (UNCHANGED <<retries, operators>> => Budget' = Budget)
    BY BudgetNat, BudgetSame
  <1>2. \A i \in Idx : RowWithin(i) /\ steps[i].attempt \in Nat /\ ran[i] \in Nat
    BY RowTyped DEF BudgetInv
  <1>3. ASSUME NEW i \in Idx, CreateStep(i) PROVE BudgetInv'
    <2>1. /\ steps[i].status = "absent" /\ steps'[i].status = "pending"
          /\ steps'[i].attempt = steps[i].attempt
          /\ \A j \in Idx : j # i => steps'[j] = steps[j]
          /\ UNCHANGED <<retries, operators, ran, workers>>
      BY <1>3 DEF CreateStep, SetStep, TypeInv, TypeOK, StepRow
    <2>2. RowWithin(i)'
      BY <1>1, <1>2, <2>1, MaxAttemptsAssumption DEF RowWithin
    <2>3. \A j \in Idx : steps'[j].attempt = steps[j].attempt
      BY <2>1
    <2> QED BY <2>1, <2>2, <2>3, BudgetRows
  <1>4. ASSUME NEW i \in Idx, BackoffElapses(i) \/ LockExpires(i) PROVE BudgetInv'
    <2>1. /\ \A j \in Idx : /\ steps'[j].attempt = steps[j].attempt
                            /\ steps'[j].status = steps[j].status
          /\ UNCHANGED <<retries, operators, ran, workers>>
      BY <1>4 DEF BackoffElapses, LockExpires, TypeInv, TypeOK, StepRow
    <2>2. \A j \in Idx : RowWithin(j)'
      BY <1>1, <1>2, <2>1 DEF RowWithin
    <2> QED BY <2>1, <2>2, BudgetRows
  <1>5. ASSUME NEW w \in Workers, SkipPending(w) PROVE BudgetInv'
    <2>1. /\ \A j \in Idx : /\ steps'[j].attempt = steps[j].attempt
                            /\ \/ steps'[j] = steps[j]
                               \/ steps[j].status = "pending" /\ steps'[j].status = "skipped"
          /\ UNCHANGED <<retries, operators, ran>>
      BY <1>5 DEF SkipPending, TypeInv, TypeOK, StepRow
    <2>2. \A j \in Idx : steps'[j] = steps[j] \/ RowWithin(j)'
      BY <1>1, <1>2, <2>1 DEF RowWithin
    <2>3. \A v \in Workers : workers'[v].pc \in BudgetPCs => workers'[v] = workers[v]
      BY <1>5 DEF SkipPending, TypeInv, TypeOK, Worker, BudgetPCs
    <2> QED BY <2>1, <2>2, <2>3, BudgetRows
  <1>6. ASSUME NEW w \in Workers, NEW i \in Idx, Reclaim(w, i) PROVE BudgetInv'
    <2>1. /\ steps[i].status = "running"
          /\ \A j \in Idx : j # i => steps'[j] = steps[j]
          /\ steps'[i].attempt = steps[i].attempt
          /\ \/ steps'[i].status = "pending" /\ steps[i].attempt < MaxAttempts
             \/ steps'[i].status = "failed"
          /\ UNCHANGED <<retries, operators, ran>>
      BY <1>6 DEF Reclaim, Stale, RetriesLeft, SetStep, TypeInv, TypeOK, StepRow
    <2>2. RowWithin(i)'
      BY <1>1, <1>2, <2>1, MaxAttemptsAssumption DEF RowWithin
    <2>3. \A j \in Idx : steps'[j].attempt = steps[j].attempt
      BY <2>1
    <2>4. \A v \in Workers : workers'[v].pc \in BudgetPCs => workers'[v] = workers[v]
      BY <1>6 DEF Reclaim, Goto, TypeInv, TypeOK, Worker, BudgetPCs
    <2> QED BY <2>1, <2>2, <2>3, <2>4, BudgetRows
  <1> QED BY <1>3, <1>4, <1>5, <1>6

(* An operator's retry: a grant when the rows are re-armed, and not before.  *)
LEMMA BudgetControl ==
    ASSUME IsFiniteSet(Operators), TypeInv, BudgetInv, NEW o \in Operators, Control(o)
    PROVE  BudgetInv'
  <1>1. IsFiniteSet(Waiting) /\ Cardinality(Waiting) \in Nat /\ retries \in Nat
        /\ Budget \in Nat /\ Cardinality(Waiting) <= retries
    BY BudgetNat DEF BudgetInv, TypeInv, TypeOK
  <1>2. \A i \in Idx : RowWithin(i) /\ steps[i].attempt \in Nat /\ ran[i] \in Nat
    BY RowTyped DEF BudgetInv
  <1>3. \A w \in Workers : Within(workers[w])
    BY DEF BudgetInv
  <1>4. UNCHANGED <<workers, ran>>
    BY DEF Control, FetchForResume, RequestResume, FetchForRetry, RearmSteps, Requeue
  <1>5. CASE FetchForResume(o) \/ RequestResume(o) \/ Requeue(o)
    <2>1. \A p \in Operators : operators'[p].pc = "retry" <=> operators[p].pc = "retry"
      BY <1>5 DEF FetchForResume, RequestResume, Requeue, IdleOperator, TypeInv, TypeOK
    <2>2. Waiting' = Waiting /\ UNCHANGED <<steps, retries>>
      BY <1>5, <2>1 DEF Waiting, FetchForResume, RequestResume, Requeue, rows
    <2>3. Budget' = Budget
      BY <2>2 DEF Budget
    <2>4. \A i \in Idx : RowWithin(i)'
      BY <1>2, <1>4, <2>2, <2>3 DEF RowWithin
    <2>5. \A w \in Workers : Within(workers[w])'
      BY <1>3, <1>4, <2>2 DEF Within
    <2> QED BY <1>1, <2>2, <2>4, <2>5 DEF BudgetInv
  <1>6. CASE FetchForRetry(o)
    <2>1. /\ o \notin Waiting /\ Waiting' = Waiting \cup {o}
          /\ retries' = retries + 1 /\ UNCHANGED steps
      BY <1>6 DEF FetchForRetry, Waiting, rows, TypeInv, TypeOK, Operator
    <2>2. Cardinality(Waiting') = Cardinality(Waiting) + 1
      BY <1>1, <2>1, FS_AddElement
    <2>3. Budget' = Budget
      BY <1>1, <2>1, <2>2, MaxAttemptsAssumption DEF Budget
    <2>4. \A i \in Idx : RowWithin(i)'
      BY <1>2, <1>4, <2>1, <2>3 DEF RowWithin
    <2>5. \A w \in Workers : Within(workers[w])'
      BY <1>3, <1>4, <2>1 DEF Within
    <2> QED BY <1>1, <2>1, <2>2, <2>4, <2>5 DEF BudgetInv
  <1>7. CASE RearmSteps(o)
    <2>1. /\ o \in Waiting /\ Waiting' = Waiting \ {o} /\ UNCHANGED retries
      BY <1>7 DEF RearmSteps, Waiting, TypeInv, TypeOK, Operator
    <2>2. Cardinality(Waiting') = Cardinality(Waiting) - 1
      BY <1>1, <2>1, FS_RemoveElement
    <2>3. Budget' = Budget + 1
      BY <1>1, <2>1, <2>2, MaxAttemptsAssumption DEF Budget
    <2>4. \A i \in Idx : /\ steps'[i].attempt = steps[i].attempt
                         /\ \/ steps'[i].status = steps[i].status
                            \/ /\ steps[i].status \in {"failed", "skipped"}
                               /\ steps'[i].status = "pending"
      BY <1>7 DEF RearmSteps, TypeInv, TypeOK, StepRow
    <2>5. \A i \in Idx : RowWithin(i)'
      BY <1>1, <1>2, <1>4, <2>3, <2>4 DEF RowWithin
    <2>6. ASSUME NEW w \in Workers PROVE Within(workers[w])'
      <3>1. workers[w].pc \in BudgetPCs => workers[w].step \in Idx
        BY HoldsStep DEF BudgetPCs, ForwardPCs
      <3> QED BY <1>4, <2>4, <3>1, WithinKept
    <2> QED BY <1>1, <2>1, <2>2, <2>5, <2>6 DEF BudgetInv
  <1> QED BY <1>5, <1>6, <1>7 DEF Control

LEMMA BudgetNext ==
    ASSUME ~SlowSteps, MaxAttempts > 0, IsFiniteSet(Operators), TypeInv, ExclInv, BudgetInv,
           [Next]_vars
    PROVE  BudgetInv'
  <1>1. CASE CreateRun \/ CallerCrash \/ RequestPause \/ RequestCancel \/ UNCHANGED vars
    <2>1. UNCHANGED <<steps, ran, workers, operators, retries>>
      BY <1>1 DEF CreateRun, CallerCrash, RequestPause, RequestCancel, vars, rows
    <2>2. \A v \in Workers : Within(workers[v])'
      BY <2>1, WithinKept
    <2> QED BY <2>1, <2>2, BudgetStep
  <1>2. ASSUME NEW w \in Workers, Advance(w) \/ WorkerCrash(w) PROVE BudgetInv'
    BY <1>2, BudgetRead, BudgetWrite, BudgetOthers DEF Advance
  <1> QED BY <1>1, <1>2, BudgetOthers, BudgetControl DEF Next, Start, Time

(* While no live worker outlasts its lock, the run callback of a step returns *)
(* at most max_attempts times, plus once for every retry an operator sent:   *)
(* neither a crash nor the reclaim nor a race of ticks gives a step an       *)
(* attempt for free.                                                         *)
THEOREM AttemptsAreBudgeted ==
    ASSUME ~SlowSteps, MaxAttempts > 0, IsFiniteSet(Operators)
    PROVE  Spec => []RetryBudget
  <1>1. ASSUME TypeInv, BudgetInv, NEW i \in Idx PROVE ran[i] <= MaxAttempts + retries
    <2>1. ran[i] <= Budget /\ ran[i] \in Nat /\ retries \in Nat
      BY <1>1, RowTyped DEF BudgetInv, RowWithin, TypeInv, TypeOK
    <2> QED BY <1>1, <2>1, BudgetNat, MaxAttemptsAssumption
  <1>2. TypeInv /\ BudgetInv => RetryBudget
    BY <1>1 DEF RetryBudget
  <1>3. TypeInv /\ ExclInv /\ [Next]_vars => ExclInv'
    BY ExclNext
  <1>4. TypeInv /\ ExclInv /\ BudgetInv /\ [Next]_vars => BudgetInv'
    BY BudgetNext
  <1> QED BY TypeInit, TypeNext, ExclInit, BudgetInit, <1>2, <1>3, <1>4, PTL DEF Spec
=============================================================================
