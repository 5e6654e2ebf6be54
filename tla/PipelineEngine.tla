--------------------------- MODULE PipelineEngine ---------------------------
(***************************************************************************)
(* The pipeline execution engine of platform/workflow: one PipelineRun,    *)
(* its PipelineStepRun rows, the process that starts it, the processes     *)
(* that advance it (pipeline_tick loops and run_to_completion callers) and *)
(* the operators who pause, resume, cancel or retry it.                    *)
(*                                                                         *)
(* The database is in autocommit mode, so every ORM statement is its own   *)
(* transaction: one action below is one statement (or one call of a step's *)
(* own code), and anything may happen between two of them.  A worker keeps *)
(* the PipelineRun it read at the start of advance_one in memory           *)
(* (workers[w].run) and decides from that copy, however stale it has       *)
(* become.                                                                 *)
(***************************************************************************)
EXTENDS Naturals

CONSTANTS
    NumSteps,      \* length of the registered pipeline
    MaxAttempts,   \* StepDefinition.max_attempts, the same for every step
    Retired,       \* steps whose key a newer release dropped from the registry:
                   \* a worker of that release does not find them, an older one does
    Workers,       \* processes that call advance_one
    Tickers,       \* those that are pipeline_tick: they reclaim before they advance
    Operators,     \* users of the control-plane API
    Ops,           \* the control-plane requests they may send
    MaxRetries,    \* bound: how often the run may be retried
    CrashPoints,   \* program points at which a process may be killed
    SlowSteps,     \* TRUE: a live worker may hold a step past its stale timeout
    EagerTicks     \* TRUE: a tick may see the run before start() has made its rows

Idx == 0 .. NumSteps - 1

ACTIVE_STATUSES   == {"queued", "running", "compensating"}
TERMINAL_STATUSES == {"success", "failed", "cancelled"}
PipelineRunStatus == ACTIVE_STATUSES \cup TERMINAL_STATUSES \cup {"paused"}
TerminationReason == {"none", "failed", "cancelled"}
StepRunStatus     == {"pending", "running", "success", "failed", "skipped",
                      "compensating", "compensated", "compensation_failed"}
OpKinds           == {"pause", "resume", "cancel", "retry"}

(* What a worker is about to do; "idle" is between two calls of advance_one. *)
ForwardPCs == {"refresh", "mark", "body", "saveStep", "retryStep", "failStep"}
UndoPCs    == {"undo", "saveUndo"}
PCs == {"idle", "look", "claim", "saveRun", "failRun", "unwind", "skip",
        "claimUndo", "finish", "publish"} \cup ForwardPCs \cup UndoPCs

ASSUME NumStepsAssumption    == NumSteps \in Nat
ASSUME MaxAttemptsAssumption == MaxAttempts \in Nat
ASSUME RetriesAssumption     == MaxRetries \in Nat
ASSUME RetiredAssumption     == Retired \subseteq Idx
ASSUME TickersAssumption     == Tickers \subseteq Workers
ASSUME OpsAssumption         == Ops \subseteq OpKinds
ASSUME CrashAssumption       == CrashPoints \subseteq (PCs \ {"idle"}) \cup {"start"}
ASSUME SwitchAssumption      == SlowSteps \in BOOLEAN /\ EagerTicks \in BOOLEAN

VARIABLES
    run,        \* the pipeline_run row
    steps,      \* the pipeline_step_run rows, by step_index
    caller,     \* progress of the process inside PipelineService.start
    workers,    \* [Workers -> what each worker holds in memory]
    operators,  \* [Operators -> the request in progress and the run it was read from]
    published,  \* [TERMINAL_STATUSES -> how often its event was published]
    retries,    \* how often the run was retried
    ran,        \* [Idx -> how often the step's run callback returned]
    undone      \* [Idx -> how often the step's compensate callback was called]

rows == <<run, steps>>
vars == <<run, steps, caller, workers, operators, published, retries, ran, undone>>

RunRow    == [status : PipelineRunStatus \cup {"absent"}, reason : TerminationReason,
              index : Nat, context : SUBSET Idx, started : BOOLEAN]
StepRow   == [status : StepRunStatus \cup {"absent"}, attempt : Nat,
              due : BOOLEAN, expired : BOOLEAN]
Worker    == [pc : PCs, run : RunRow, step : Nat, attempt : Nat,
              outcome : TERMINAL_STATUSES \cup StepRunStatus \cup {"none"}]
Operator  == [pc : {"idle", "resume", "retry", "requeue"}, started : BOOLEAN]

NoRun      == [status |-> "absent", reason |-> "none", index |-> 0,
               context |-> {}, started |-> FALSE]
NoStep     == [status |-> "absent", attempt |-> 0, due |-> TRUE, expired |-> FALSE]
IdleWorker == [pc |-> "idle", run |-> NoRun, step |-> 0, attempt |-> 0, outcome |-> "none"]
IdleOperator == [pc |-> "idle", started |-> FALSE]

Init ==
    /\ run = NoRun
    /\ steps = [i \in Idx |-> NoStep]
    /\ caller = "idle"
    /\ workers = [w \in Workers |-> IdleWorker]
    /\ operators = [o \in Operators |-> IdleOperator]
    /\ published = [s \in TERMINAL_STATUSES |-> 0]
    /\ retries = 0
    /\ ran = [i \in Idx |-> 0]
    /\ undone = [i \in Idx |-> 0]

At(w, pc) == workers[w].pc = pc
Goto(w, pc) == workers' = [workers EXCEPT ![w].pc = pc]
Return(w) == workers' = [workers EXCEPT ![w] = IdleWorker]
SetStep(i, status) == steps' = [steps EXCEPT ![i].status = status, ![i].expired = FALSE]

-----------------------------------------------------------------------------
(* PipelineService.start: the run row, then one row per step.               *)

CreateRun ==
    /\ caller = "idle"
    /\ run' = [NoRun EXCEPT !.status = "queued"]
    /\ caller' = IF NumSteps = 0 THEN "done" ELSE "rows"
    /\ UNCHANGED <<steps, workers, operators, published, retries, ran, undone>>

CreateStep(i) ==
    /\ caller = "rows"
    /\ steps[i].status = "absent"
    /\ \A j \in Idx : j < i => steps[j].status # "absent"
    /\ SetStep(i, "pending")
    /\ caller' = IF i + 1 = NumSteps THEN "done" ELSE "rows"
    /\ UNCHANGED <<run, workers, operators, published, retries, ran, undone>>

CallerCrash ==
    /\ caller = "rows"
    /\ "start" \in CrashPoints
    /\ caller' = "crashed"
    /\ UNCHANGED <<rows, workers, operators, published, retries, ran, undone>>

-----------------------------------------------------------------------------
(* tick_all / run_to_completion: fetch the run and enter advance_one.       *)

Stale(i) == steps[i].status = "running" /\ steps[i].expired

(* A ticker has reclaimed every stale step by the time it selects runs.     *)
Select(w) ==
    /\ At(w, "idle")
    /\ run.status \in ACTIVE_STATUSES
    /\ EagerTicks \/ caller = "done"
    /\ w \in Tickers => \A i \in Idx : ~Stale(i)
    /\ workers' = [workers EXCEPT ![w] =
          [IdleWorker EXCEPT !.pc = IF run.status = "compensating" THEN "unwind" ELSE "look",
                             !.run = run]]
    /\ UNCHANGED <<rows, caller, operators, published, retries, ran, undone>>

(* run.steps.filter(step_index=run.current_step_index).first()              *)
Look(w) ==
    LET i == workers[w].run.index IN
    /\ At(w, "look")
    /\ \/ /\ i \notin Idx \/ (i \in Idx /\ steps[i].status = "absent")
          /\ workers' = [workers EXCEPT ![w].pc = "finish", ![w].outcome = "success"]
       \/ /\ i \in Idx /\ steps[i].status = "pending" /\ ~steps[i].due   \* NOT_DUE
          /\ Return(w)
       \/ /\ i \in Idx /\ steps[i].status # "absent"
          /\ steps[i].status = "pending" => steps[i].due
          /\ workers' = [workers EXCEPT ![w].pc = "claim", ![w].step = i]
    /\ UNCHANGED <<rows, caller, operators, published, retries, ran, undone>>

(* Variant: the claim's UPDATE filters on the id alone.                     *)
ClaimAnyStatus(i, from, to) ==
    steps' = [steps EXCEPT ![i].status = to, ![i].attempt = @ + 1, ![i].expired = FALSE]

(* _claim_step: UPDATE ... WHERE status = from                              *)
ClaimStep(i, from, to) ==
    /\ steps[i].status = from
    /\ steps' = [steps EXCEPT ![i].status = to, ![i].attempt = @ + 1, ![i].expired = FALSE]

ClaimWins(w) ==
    /\ At(w, "claim")
    /\ ClaimStep(workers[w].step, "pending", "running")
    /\ Goto(w, "refresh")
    /\ UNCHANGED <<run, caller, operators, published, retries, ran, undone>>

ClaimLoses(w) ==
    /\ At(w, "claim")
    /\ steps[workers[w].step].status # "pending"
    /\ Return(w)
    /\ UNCHANGED <<rows, caller, operators, published, retries, ran, undone>>

(* step_row.refresh_from_db()                                               *)
Refresh(w) ==
    /\ At(w, "refresh")
    /\ workers' = [workers EXCEPT
          ![w].pc = IF workers[w].run.status = "queued" THEN "mark" ELSE "body",
          ![w].attempt = steps[workers[w].step].attempt]
    /\ UNCHANGED <<rows, caller, operators, published, retries, ran, undone>>

(* run.save(status=RUNNING): decided by the copy, written unconditionally.  *)
MarkRunning(w) ==
    /\ At(w, "mark")
    /\ run' = [run EXCEPT !.status = "running", !.started = TRUE]
    /\ workers' = [workers EXCEPT ![w].pc = "body",
                                  ![w].run.status = "running", ![w].run.started = TRUE]
    /\ UNCHANGED <<steps, caller, operators, published, retries, ran, undone>>

BodySucceeds(w) ==
    /\ At(w, "body")
    /\ Goto(w, "saveStep")
    /\ ran' = [ran EXCEPT ![workers[w].step] = @ + 1]
    /\ UNCHANGED <<rows, caller, operators, published, retries, undone>>

(* Variant: one attempt too many.                                           *)
RetriesLeftInclusive(attempt) == attempt <= MaxAttempts

(* _handle_step_failure picks its branch from the attempt the worker read;  *)
(* a step the registry does not know is never retried.                      *)
RetriesLeft(attempt) == attempt < MaxAttempts

BodyFails(w) ==
    /\ At(w, "body")
    /\ \/ /\ RetriesLeft(workers[w].attempt)
          /\ Goto(w, "retryStep")
       \/ /\ ~RetriesLeft(workers[w].attempt) \/ workers[w].step \in Retired
          /\ Goto(w, "failStep")
    /\ UNCHANGED <<rows, caller, operators, published, retries, ran, undone>>

SaveStep(w) ==
    /\ At(w, "saveStep")
    /\ SetStep(workers[w].step, "success")
    /\ Goto(w, "saveRun")
    /\ UNCHANGED <<run, caller, operators, published, retries, ran, undone>>

(* Variant: the index is incremented in the database (F("current_step_index") + 1). *)
SaveRunIncrement(w) ==
    /\ At(w, "saveRun")
    /\ run' = [run EXCEPT !.context = workers[w].run.context \cup {workers[w].step},
                          !.index = @ + 1]
    /\ Return(w)
    /\ UNCHANGED <<steps, caller, operators, published, retries, ran, undone>>

(* Variant: "context" is missing from update_fields.                        *)
SaveRunWithoutContext(w) ==
    /\ At(w, "saveRun")
    /\ run' = [run EXCEPT !.index = workers[w].run.index + 1]
    /\ Return(w)
    /\ UNCHANGED <<steps, caller, operators, published, retries, ran, undone>>

(* run.save(context, current_step_index), both computed from the copy.      *)
SaveRun(w) ==
    /\ At(w, "saveRun")
    /\ run' = [run EXCEPT !.context = workers[w].run.context \cup {workers[w].step},
                          !.index = workers[w].run.index + 1]
    /\ Return(w)
    /\ UNCHANGED <<steps, caller, operators, published, retries, ran, undone>>

RetryStep(w) ==
    /\ At(w, "retryStep")
    /\ steps' = [steps EXCEPT ![workers[w].step].status = "pending",
                              ![workers[w].step].due = FALSE,
                              ![workers[w].step].expired = FALSE]
    /\ Return(w)
    /\ UNCHANGED <<run, caller, operators, published, retries, ran, undone>>

FailStep(w) ==
    /\ At(w, "failStep")
    /\ SetStep(workers[w].step, "failed")
    /\ Goto(w, "failRun")
    /\ UNCHANGED <<run, caller, operators, published, retries, ran, undone>>

FailRun(w) ==
    /\ At(w, "failRun")
    /\ run' = [run EXCEPT !.reason = "failed", !.status = "compensating"]
    /\ Return(w)
    /\ UNCHANGED <<steps, caller, operators, published, retries, ran, undone>>

-----------------------------------------------------------------------------
(* _advance_compensation                                                    *)

Succeeded == {i \in Idx : steps[i].status = "success"}

(* The next row to undo is the last one that succeeded.                     *)
Unwind(w) ==
    /\ At(w, "unwind")
    /\ \/ /\ Succeeded = {}
          /\ Goto(w, "skip")
       \/ \E i \in Succeeded :
          /\ \A j \in Succeeded : j <= i
          /\ workers' = [workers EXCEPT ![w].pc = "claimUndo", ![w].step = i]
    /\ UNCHANGED <<rows, caller, operators, published, retries, ran, undone>>

SkipPending(w) ==
    /\ At(w, "skip")
    /\ steps' = [i \in Idx |-> IF steps[i].status = "pending"
                               THEN [steps[i] EXCEPT !.status = "skipped"] ELSE steps[i]]
    /\ workers' = [workers EXCEPT ![w].pc = "finish",
          ![w].outcome = IF workers[w].run.reason = "cancelled" THEN "cancelled" ELSE "failed"]
    /\ UNCHANGED <<run, caller, operators, published, retries, ran, undone>>

ClaimUndoWins(w) ==
    /\ At(w, "claimUndo")
    /\ ClaimStep(workers[w].step, "success", "compensating")
    /\ Goto(w, "undo")
    /\ UNCHANGED <<run, caller, operators, published, retries, ran, undone>>

ClaimUndoLoses(w) ==
    /\ At(w, "claimUndo")
    /\ steps[workers[w].step].status # "success"
    /\ Return(w)
    /\ UNCHANGED <<rows, caller, operators, published, retries, ran, undone>>

(* Variant: the outcome of compensate is not noted before the save.         *)
UndoUnnoted(w) ==
    /\ At(w, "undo")
    /\ Goto(w, "saveUndo")
    /\ undone' = [undone EXCEPT ![workers[w].step] = @ + 1]
    /\ UNCHANGED <<rows, caller, operators, published, retries, ran>>

(* compensate(ctx), which may raise; a step the registry does not know is    *)
(* recorded as compensated without a call.                                   *)
Undo(w) ==
    /\ At(w, "undo")
    /\ \/ /\ \E outcome \in {"compensated", "compensation_failed"} :
             workers' = [workers EXCEPT ![w].pc = "saveUndo", ![w].outcome = outcome]
          /\ undone' = [undone EXCEPT ![workers[w].step] = @ + 1]
       \/ /\ workers[w].step \in Retired
          /\ workers' = [workers EXCEPT ![w].pc = "saveUndo", ![w].outcome = "compensated"]
          /\ UNCHANGED undone
    /\ UNCHANGED <<rows, caller, operators, published, retries, ran>>

(* Variant: a failed compensation is put back to be tried again.            *)
SaveUndoAgain(w) ==
    /\ At(w, "saveUndo")
    /\ SetStep(workers[w].step, IF workers[w].outcome = "compensated"
                                THEN "compensated" ELSE "success")
    /\ Return(w)
    /\ UNCHANGED <<run, caller, operators, published, retries, ran, undone>>

SaveUndo(w) ==
    /\ At(w, "saveUndo")
    /\ SetStep(workers[w].step, workers[w].outcome)
    /\ Return(w)
    /\ UNCHANGED <<run, caller, operators, published, retries, ran, undone>>

-----------------------------------------------------------------------------
(* _finish_run: a conditional UPDATE; only the caller whose UPDATE matched   *)
(* goes on to publish.                                                      *)

(* Variant: the UPDATE of _finish_run is not conditional.                   *)
FinishableAlways == run.status # "absent"

Finishable == run.status \in ACTIVE_STATUSES

FinishWins(w) ==
    /\ At(w, "finish")
    /\ Finishable
    /\ run' = [run EXCEPT !.status = workers[w].outcome]
    /\ Goto(w, "publish")
    /\ UNCHANGED <<steps, caller, operators, published, retries, ran, undone>>

FinishLoses(w) ==
    /\ At(w, "finish")
    /\ run.status \notin ACTIVE_STATUSES
    /\ Return(w)
    /\ UNCHANGED <<rows, caller, operators, published, retries, ran, undone>>

Publish(w) ==
    /\ At(w, "publish")
    /\ published' = [published EXCEPT ![workers[w].outcome] = @ + 1]
    /\ Return(w)
    /\ UNCHANGED <<rows, caller, operators, retries, ran, undone>>

-----------------------------------------------------------------------------
(* Time: a backoff elapses, a lock outlives its timeout; reclaim; crashes.  *)

BackoffElapses(i) ==
    /\ ~steps[i].due
    /\ steps' = [steps EXCEPT ![i].due = TRUE]
    /\ UNCHANGED <<run, caller, workers, operators, published, retries, ran, undone>>

Executing(w, i)    == workers[w].pc \in ForwardPCs /\ workers[w].step = i
Compensating(w, i) == workers[w].pc \in UndoPCs /\ workers[w].step = i

LockExpires(i) ==
    /\ steps[i].status = "running" /\ ~steps[i].expired
    /\ SlowSteps \/ \A w \in Workers : ~Executing(w, i)
    /\ steps' = [steps EXCEPT ![i].expired = TRUE]
    /\ UNCHANGED <<run, caller, workers, operators, published, retries, ran, undone>>

(* Variant: the run of an exhausted step is left alone.                     *)
ReclaimStepOnly(w, i) ==
    /\ At(w, "idle") /\ w \in Tickers
    /\ Stale(i)
    /\ SetStep(i, IF RetriesLeft(steps[i].attempt) THEN "pending" ELSE "failed")
    /\ UNCHANGED <<run, caller, workers, operators, published, retries, ran, undone>>

(* reclaim_stale_steps: conditional on the row still being RUNNING under the *)
(* lock that was read.  An exhausted step drives its run into COMPENSATING.  *)
Reclaim(w, i) ==
    /\ At(w, "idle") /\ w \in Tickers
    /\ Stale(i)
    /\ \/ /\ RetriesLeft(steps[i].attempt)
          /\ SetStep(i, "pending")
          /\ UNCHANGED workers
       \/ /\ ~RetriesLeft(steps[i].attempt) \/ i \in Retired
          /\ SetStep(i, "failed")
          /\ Goto(w, "failRun")
    /\ UNCHANGED <<run, caller, operators, published, retries, ran, undone>>

WorkerCrash(w) ==
    /\ workers[w].pc \in CrashPoints
    /\ Return(w)
    /\ UNCHANGED <<rows, caller, operators, published, retries, ran, undone>>

-----------------------------------------------------------------------------
(* The control plane.  pause and cancel are one conditional UPDATE.         *)

RequestPause ==
    /\ "pause" \in Ops
    /\ run.status \in {"queued", "running"}
    /\ run' = [run EXCEPT !.status = "paused"]
    /\ UNCHANGED <<steps, caller, workers, operators, published, retries, ran, undone>>

RequestCancel ==
    /\ "cancel" \in Ops
    /\ run.status \in {"queued", "running", "paused"}
    /\ run' = [run EXCEPT !.status = "compensating", !.reason = "cancelled"]
    /\ UNCHANGED <<steps, caller, workers, operators, published, retries, ran, undone>>

(* The view fetches the run first: resume uses its started_at and retry     *)
(* checks its status, both on that copy.                                    *)
FetchForResume(o) ==
    /\ "resume" \in Ops
    /\ operators[o].pc = "idle"
    /\ run.status # "absent"
    /\ operators' = [operators EXCEPT ![o] = [pc |-> "resume", started |-> run.started]]
    /\ UNCHANGED <<rows, caller, workers, published, retries, ran, undone>>

RequestResume(o) ==
    /\ operators[o].pc = "resume"
    /\ run' = IF run.status = "paused"
              THEN [run EXCEPT !.status = IF operators[o].started THEN "running" ELSE "queued"]
              ELSE run                                              \* ConflictError
    /\ operators' = [operators EXCEPT ![o] = IdleOperator]
    /\ UNCHANGED <<steps, caller, workers, published, retries, ran, undone>>

FetchForRetry(o) ==
    /\ "retry" \in Ops
    /\ retries < MaxRetries
    /\ operators[o].pc = "idle"
    /\ run.status = "failed"
    /\ operators' = [operators EXCEPT ![o].pc = "retry"]
    /\ retries' = retries + 1
    /\ UNCHANGED <<rows, caller, workers, published, ran, undone>>

RearmSteps(o) ==
    /\ operators[o].pc = "retry"
    /\ steps' = [i \in Idx |-> IF steps[i].status \in {"failed", "skipped"}
                               THEN [steps[i] EXCEPT !.status = "pending", !.due = TRUE]
                               ELSE steps[i]]
    /\ operators' = [operators EXCEPT ![o].pc = "requeue"]
    /\ UNCHANGED <<run, caller, workers, published, retries, ran, undone>>

Requeue(o) ==
    /\ operators[o].pc = "requeue"
    /\ run' = [run EXCEPT !.status = "queued", !.reason = "none"]
    /\ operators' = [operators EXCEPT ![o] = IdleOperator]
    /\ UNCHANGED <<steps, caller, workers, published, retries, ran, undone>>

-----------------------------------------------------------------------------
Advance(w) ==
    \/ Select(w) \/ Look(w) \/ ClaimWins(w) \/ ClaimLoses(w) \/ Refresh(w)
    \/ MarkRunning(w) \/ BodySucceeds(w) \/ BodyFails(w) \/ SaveStep(w) \/ SaveRun(w)
    \/ RetryStep(w) \/ FailStep(w) \/ FailRun(w) \/ Unwind(w) \/ SkipPending(w)
    \/ ClaimUndoWins(w) \/ ClaimUndoLoses(w) \/ Undo(w) \/ SaveUndo(w)
    \/ FinishWins(w) \/ FinishLoses(w) \/ Publish(w)

Start == CreateRun \/ \E i \in Idx : CreateStep(i)

Time == \E i \in Idx : BackoffElapses(i) \/ LockExpires(i)

Control(o) ==
    \/ FetchForResume(o) \/ RequestResume(o)
    \/ FetchForRetry(o) \/ RearmSteps(o) \/ Requeue(o)

Next ==
    \/ Start \/ CallerCrash
    \/ \E w \in Workers : Advance(w) \/ WorkerCrash(w) \/ \E i \in Idx : Reclaim(w, i)
    \/ Time
    \/ RequestPause \/ RequestCancel
    \/ \E o \in Operators : Control(o)

Spec == Init /\ [][Next]_vars

(* Every process keeps being scheduled, the tick loop never ends           *)
(* (pipeline_tick --loop, or cron), and time passes.  Nothing obliges an    *)
(* operator to act or a process to crash.                                   *)
Fairness ==
    /\ WF_vars(Start)
    /\ \A w \in Workers : WF_vars(Advance(w) \/ \E i \in Idx : Reclaim(w, i))
    /\ \A i \in Idx : WF_vars(BackoffElapses(i)) /\ WF_vars(LockExpires(i))

FairSpec == Spec /\ Fairness

-----------------------------------------------------------------------------
(* Type invariant: the rows and the in-memory copies hold what their columns *)
(* allow.                                                                    *)
TypeOK ==
    /\ run \in RunRow
    /\ steps \in [Idx -> StepRow]
    /\ caller \in {"idle", "rows", "done", "crashed"}
    /\ workers \in [Workers -> Worker]
    /\ operators \in [Operators -> Operator]
    /\ published \in [TERMINAL_STATUSES -> Nat]
    /\ retries \in Nat
    /\ ran \in [Idx -> Nat]
    /\ undone \in [Idx -> Nat]

(* No output is lost and no step is jumped over: every step before           *)
(* current_step_index has run, and its output is in the run's context, even  *)
(* when late workers write back the copies they read long ago.               *)
OutputsKept == \A i \in Idx : i < run.index => ran[i] > 0 /\ i \in run.context

(* A step's run callback only ever starts with the outputs of all earlier    *)
(* steps in ctx.data (StepContext.data = dict(run.context)).                 *)
InputsReady ==
    \A w \in Workers : workers[w].pc \in ForwardPCs =>
        \A j \in Idx : j < workers[w].step => ran[j] > 0 /\ j \in workers[w].run.context

(* compensate is never called more often than run returned: two ticks never  *)
(* undo the same success twice (the claim SUCCESS -> COMPENSATING).          *)
NeverUndoneTwice == \A i \in Idx : undone[i] <= ran[i]

(* While no live worker outlasts its lock, a step is executed by one worker  *)
(* at a time, and its row says so (_claim_step and the reclaim).             *)
OneExecutor ==
    \A w \in Workers, i \in Idx : Executing(w, i) =>
        /\ steps[i].status = "running"
        /\ \A v \in Workers : Executing(v, i) => v = w

(* With its lock respected, no step's run callback returns more often than   *)
(* max_attempts allows, one more for each operator retry (services.py 134:   *)
(* a retry re-arms the row without resetting attempt).                       *)
RetryBudget == \A i \in Idx : ran[i] <= MaxAttempts + retries

(* A step is compensated at most once in its life, whatever is retried.      *)
UndoneOnce == \A i \in Idx : undone[i] <= 1

(* _finish_run's conditional UPDATE: one event per run, the one that names   *)
(* the status the run really has, and none while the run is active.          *)
AnnouncedOnce ==
    \A s \in TERMINAL_STATUSES : published[s] > 0 =>
        /\ run.status = s
        /\ published[s] = 1

(* A run somebody cancelled goes on to compensate what succeeded and lands on *)
(* cancelled, unless a step fails for good meanwhile (its reason is "failed"  *)
(* then): neither a worker holding an older copy of the run nor an operator   *)
(* brings it back.                                                            *)
CancelUnwinds == run.reason = "cancelled" => run.status \in {"compensating", "cancelled"}

(* A started run reaches a terminal status, unless operators keep pausing it *)
(* for ever: retries are bounded and a crashed step is reclaimed.            *)
Terminates ==
    <>[](run.status # "paused")
        => [](caller = "done" => <>(run.status \in TERMINAL_STATUSES))

-----------------------------------------------------------------------------
(* Refinement of Saga: a paused run is still going forward; a step counts as *)
(* done until its compensation is claimed.                                   *)
Phase == CASE run.status = "compensating" -> "unwinding"
           [] run.status \in {"queued", "running", "paused"} -> "forward"
           [] OTHER -> run.status

ByClaim == INSTANCE Saga WITH phase <- Phase, done <- Succeeded
ClaimsImplementSaga == ByClaim!SagaSpec
=============================================================================
