--------------------------- MODULE AutomationRule ---------------------------
(***************************************************************************)
(* platform/automation on top of the pipeline engine: the rules, the cron  *)
(* sweeps (automation_run_due) and the "run now" callers that start a      *)
(* pipeline run for a rule and drain it, the pipeline_tick loops that may  *)
(* finish the same run first, the subscriber that turns the end of a run   *)
(* into an AutomationRun row and the rule's next_run_at, and the users who *)
(* edit and delete rules or retry failed runs meanwhile.                   *)
(*                                                                         *)
(* Of the engine only what PipelineEngine checks is used: an active run    *)
(* reaches a terminal status by one conditional UPDATE, and the process    *)
(* whose UPDATE matched goes on to call the subscriber.                    *)
(***************************************************************************)
EXTENDS Naturals, FiniteSets

CONSTANTS
    Rules,       \* AutomationRule rows
    Sweepers,    \* cron invocations of automation_run_due
    Callers,     \* requests to run-now
    Tickers,     \* pipeline_tick loops
    Editors,     \* requests that PATCH a rule
    Period,      \* length of a recurring cadence, in clock ticks
    Horizon,     \* bound: ticks of a schedule after this time are not run
    MaxEvents    \* bound: run-nows, retries, edits, deletions and crashes together

ASSUME RulesAssumption  == Rules # {}
ASSUME PeriodAssumption == Period \in Nat \ {0}
ASSUME BoundsAssumption == {Horizon, MaxEvents} \subseteq Nat

Procs == Sweepers \cup Callers \cup Tickers
Never == 0                                     \* next_run_at IS NULL

TERMINAL_STATUSES == {"success", "failed", "cancelled"}
PCs == {"idle", "pick", "drain", "subscribe", "record", "advance", "read"}

RuleRow == [once : BOOLEAN, next : Nat, active : BOOLEAN, deleted : BOOLEAN]
Tick    == [rule : Rules, next : Nat]          \* a rule as a sweep listed it
RunId   == [rule : Rules, trigger : {"schedule", "manual"}, at : Nat]
RunRow  == [status : {"active"} \cup TERMINAL_STATUSES, records : Nat]
Proc    == [pc : PCs, todo : SUBSET Tick, run : RunId, finished : Nat, active : BOOLEAN]

VARIABLES
    now,     \* clock; no two runs finish at the same instant
    rules,   \* [Rules -> RuleRow]; once is the cadence ONCE, the others recur
    runs,    \* the pipeline runs, by identity, each with its number of AutomationRuns
    procs,   \* [Procs -> what the process holds in memory]
    edits,   \* [Editors -> the row a PATCH has read, or NoEdit]
    count,   \* how many edits, retries, run-nows and crashes there were
    clobbered \* an edit was saved over a row changed since it was read

vars == <<now, rules, runs, procs, edits, count, clobbered>>

(* A deleted row is never read for an edit.                                  *)
NoEdit == [rule |-> CHOOSE r \in Rules : TRUE,
           row |-> [once |-> FALSE, next |-> Never, active |-> FALSE, deleted |-> TRUE]]
NoRun == [rule |-> CHOOSE r \in Rules : TRUE, trigger |-> "manual", at |-> 0]
Idle  == [pc |-> "idle", todo |-> {}, run |-> NoRun, finished |-> 0, active |-> FALSE]

Init ==
    /\ now = 1
    /\ rules \in [Rules -> [once : BOOLEAN, next : {1}, active : {TRUE}, deleted : {FALSE}]]
    /\ runs = [k \in {} |-> NoRun]
    /\ procs = [p \in Procs |-> Idle]
    /\ edits = [e \in Editors |-> NoEdit]
    /\ count = [manual |-> 0, retry |-> 0, edit |-> 0, crash |-> 0]
    /\ clobbered = FALSE

At(p, pc) == procs[p].pc = pc
Goto(p, pc) == procs' = [procs EXCEPT ![p].pc = pc]
Return(p) == procs' = [procs EXCEPT ![p] = Idle]
Counted(event) ==
    /\ count.manual + count.retry + count.edit + count.crash < MaxEvents
    /\ count' = [count EXCEPT ![event] = @ + 1]

Exists(k)   == k \in DOMAIN runs
Active(k)   == Exists(k) /\ runs[k].status = "active"
Finished(k) == Exists(k) /\ runs[k].status \in TERMINAL_STATUSES
Due(r) == rules[r].active /\ ~rules[r].deleted
            /\ rules[r].next \in 1 .. now /\ rules[r].next <= Horizon

-----------------------------------------------------------------------------
(* run_due: the queryset is read once, the rules are run one after another.  *)
List(s) ==
    /\ At(s, "idle")
    /\ \E r \in Rules : Due(r)
    /\ procs' = [procs EXCEPT ![s].pc = "pick",
          ![s].todo = {[rule |-> r, next |-> rules[r].next] : r \in {q \in Rules : Due(q)}}]
    /\ UNCHANGED <<now, rules, runs, edits, count, clobbered>>

(* Variant: start() refuses while another run of the rule is active, and     *)
(* run_rule does not look at the answer.                                     *)
StartRunUnlessBusy(k) ==
    runs' = IF \E j \in DOMAIN runs : j.rule = k.rule /\ Active(j) THEN runs
            ELSE [j \in DOMAIN runs \cup {k} |->
                     IF j = k THEN [status |-> "active", records |-> 0] ELSE runs[j]]

(* PipelineService.start: get_or_create on the idempotency key, or create.   *)
StartRun(k) ==
    runs' = IF Exists(k) THEN runs
            ELSE [j \in DOMAIN runs \cup {k} |->
                     IF j = k THEN [status |-> "active", records |-> 0]
                     ELSE runs[j]]

(* Variant: the idempotency key is built from the time of the sweep.         *)
ScheduledRunNow(t) == [rule |-> t.rule, trigger |-> "schedule", at |-> now]

ScheduledRun(t) == [rule |-> t.rule, trigger |-> "schedule", at |-> t.next]

StartDue(s) ==
    /\ At(s, "pick")
    /\ \E t \in procs[s].todo :
          /\ StartRun(ScheduledRun(t))
          /\ procs' = [procs EXCEPT ![s].pc = "drain", ![s].run = ScheduledRun(t),
                                    ![s].todo = @ \ {t}]
    /\ UNCHANGED <<now, rules, edits, count, clobbered>>

RunNow(c) ==
    /\ At(c, "idle")
    /\ Counted("manual")
    /\ \E r \in {q \in Rules : ~rules[q].deleted} :
          LET k == [rule |-> r, trigger |-> "manual", at |-> count'["manual"]] IN
          /\ StartRun(k)
          /\ procs' = [procs EXCEPT ![c].pc = "drain", ![c].run = k]
    /\ UNCHANGED <<now, rules, edits, clobbered>>

-----------------------------------------------------------------------------
(* publish returns to the drain loop, or to the tick.                        *)
Published(p) ==
    procs' = [procs EXCEPT ![p] = IF p \in Tickers THEN Idle
                 ELSE [Idle EXCEPT !.pc = "drain", !.todo = procs[p].todo, !.run = procs[p].run]]

(* Variant: nobody subscribed to WORKFLOW_FAILED.                            *)
FinishFailedUnheard(p, k) ==
    /\ \/ At(p, "drain") /\ procs[p].run = k
       \/ At(p, "idle") /\ p \in Tickers
    /\ Active(k)
    /\ \E status \in TERMINAL_STATUSES :
          /\ runs' = [runs EXCEPT ![k].status = status]
          /\ IF status = "failed" THEN Published(p)
             ELSE procs' = [procs EXCEPT ![p].pc = "subscribe", ![p].run = k, ![p].finished = now]
    /\ now' = now + 1
    /\ UNCHANGED <<rules, edits, count, clobbered>>

(* The engine: a run ends in the process that drains it or in a tick loop,   *)
(* which then publishes the event.                                          *)
Finish(p, k) ==
    /\ \/ At(p, "drain") /\ procs[p].run = k
       \/ At(p, "idle") /\ p \in Tickers
    /\ Active(k)
    /\ \E status \in TERMINAL_STATUSES :
          runs' = [runs EXCEPT ![k].status = status]
    /\ now' = now + 1
    /\ procs' = [procs EXCEPT ![p].pc = "subscribe", ![p].run = k, ![p].finished = now]
    /\ UNCHANGED <<rules, edits, count, clobbered>>

(* _on_pipeline_finished: reads the rule; a deleted one is not recorded.     *)
Subscribe(p) ==
    LET r == procs[p].run.rule IN
    /\ At(p, "subscribe")
    /\ IF rules[r].deleted THEN Published(p)
       ELSE procs' = [procs EXCEPT ![p].pc = "record", ![p].active = rules[r].active]
    /\ UNCHANGED <<now, rules, runs, edits, count, clobbered>>

(* _record_run                                                               *)
Record(p) ==
    /\ At(p, "record")
    /\ runs' = [runs EXCEPT ![procs[p].run].records = @ + 1]
    /\ Goto(p, "advance")
    /\ UNCHANGED <<now, rules, edits, count, clobbered>>

(* Variant: every cadence has a next run.                                    *)
NextRunAtAlways(r, finished) == finished + Period

(* _advance                                                                  *)
NextRunAt(r, finished) == IF rules[r].once THEN Never ELSE finished + Period

(* Variant: only a success moves the schedule on.                            *)
AdvanceOnSuccess(p) ==
    LET r == procs[p].run.rule IN
    /\ At(p, "advance")
    /\ rules' = IF runs[procs[p].run].status # "success" THEN rules
                ELSE [rules EXCEPT ![r].next = NextRunAt(r, procs[p].finished),
                                   ![r].active = procs[p].active /\ ~rules[r].once]
    /\ Published(p)
    /\ UNCHANGED <<now, runs, edits, count, clobbered>>

(* _advance_schedule: is_active is written back as it was read.              *)
AdvanceSchedule(p) ==
    LET r == procs[p].run.rule IN
    /\ At(p, "advance")
    /\ rules' = [rules EXCEPT ![r].next = NextRunAt(r, procs[p].finished),
                              ![r].active = procs[p].active /\ ~rules[r].once]
    /\ Published(p)
    /\ UNCHANGED <<now, runs, edits, count, clobbered>>

-----------------------------------------------------------------------------
(* run_to_completion sees the end of the run, and run_rule reads the         *)
(* AutomationRun: exactly one, or an exception that ends the whole sweep.    *)
SeesEnd(p) ==
    /\ At(p, "drain") /\ Finished(procs[p].run)
    /\ Goto(p, "read")
    /\ UNCHANGED <<now, rules, runs, edits, count, clobbered>>

Read(p) ==
    /\ At(p, "read")
    /\ IF runs[procs[p].run].records = 1 /\ procs[p].todo # {}
       THEN procs' = [procs EXCEPT ![p] = [Idle EXCEPT !.pc = "pick", !.todo = procs[p].todo]]
       ELSE Return(p)
    /\ UNCHANGED <<now, rules, runs, edits, count, clobbered>>

(* max_wall_seconds is over: ConflictError, out of the sweep as well.        *)
TimeOut(p) ==
    /\ At(p, "drain") /\ Active(procs[p].run)
    /\ Return(p)
    /\ UNCHANGED <<now, rules, runs, edits, count, clobbered>>

Crash(p) ==
    /\ ~At(p, "idle")
    /\ Counted("crash")
    /\ Return(p)
    /\ UNCHANGED <<now, rules, runs, edits, clobbered>>

-----------------------------------------------------------------------------
(* Users.  A PATCH reads the row and saves all its fields; it may change      *)
(* is_active or a field this model leaves out, not the cadence or the date.   *)
FetchForEdit(e, r) ==
    /\ edits[e] = NoEdit
    /\ ~rules[r].deleted
    /\ Counted("edit")
    /\ edits' = [edits EXCEPT ![e] = [rule |-> r, row |-> rules[r]]]
    /\ UNCHANGED <<now, rules, runs, procs, clobbered>>

SaveEdit(e) ==
    /\ edits[e] # NoEdit
    /\ LET r == edits[e].rule IN
       /\ \E active \in BOOLEAN : rules' = [rules EXCEPT ![r] = [edits[e].row EXCEPT !.active = active]]
       /\ clobbered' = (clobbered \/ rules[r] # edits[e].row)
    /\ edits' = [edits EXCEPT ![e] = NoEdit]
    /\ UNCHANGED <<now, runs, procs, count>>

Delete(r) ==
    /\ ~rules[r].deleted
    /\ Counted("edit")
    /\ rules' = [rules EXCEPT ![r].deleted = TRUE]
    /\ UNCHANGED <<now, runs, procs, edits, clobbered>>

Retry(k) ==
    /\ Exists(k) /\ runs[k].status = "failed"
    /\ Counted("retry")
    /\ runs' = [runs EXCEPT ![k].status = "active"]
    /\ UNCHANGED <<now, rules, procs, edits, clobbered>>

ClockTicks ==
    /\ now < Horizon
    /\ now' = now + 1
    /\ UNCHANGED <<rules, runs, procs, edits, count, clobbered>>
-----------------------------------------------------------------------------
Drain(p) ==
    \/ \E k \in DOMAIN runs : Finish(p, k)
    \/ Subscribe(p) \/ Record(p) \/ AdvanceSchedule(p)
    \/ SeesEnd(p) \/ Read(p) \/ TimeOut(p)

Sweep(s) == List(s) \/ StartDue(s) \/ Drain(s)

Next ==
    \/ \E s \in Sweepers : Sweep(s)
    \/ \E c \in Callers : RunNow(c) \/ Drain(c)
    \/ \E t \in Tickers : Drain(t)
    \/ \E p \in Procs : Crash(p)
    \/ \E e \in Editors : SaveEdit(e) \/ \E r \in Rules : FetchForEdit(e, r)
    \/ \E r \in Rules : Delete(r)
    \/ \E k \in DOMAIN runs : Retry(k)
    \/ ClockTicks

Spec == Init /\ [][Next]_vars

(* cron keeps starting sweeps, the tick loop runs for ever, and a request    *)
(* that was accepted is served.  Users need not act.                         *)
Fairness ==
    /\ \A s \in Sweepers : WF_vars(Sweep(s))
    /\ \A p \in Callers \cup Tickers : WF_vars(Drain(p))

FairSpec == Spec /\ Fairness

-----------------------------------------------------------------------------
(* Type invariant; a process that drains a run or handles its end knows a    *)
(* run that exists.                                                          *)
TypeOK ==
    /\ now \in Nat
    /\ rules \in [Rules -> RuleRow]
    /\ DOMAIN runs \subseteq RunId /\ \A k \in DOMAIN runs : runs[k] \in RunRow
    /\ procs \in [Procs -> Proc]
    /\ \A p \in Procs : procs[p].pc \notin {"idle", "pick"} => Exists(procs[p].run)
    /\ edits \in [Editors -> [rule : Rules, row : RuleRow]]
    /\ count \in [manual : Nat, retry : Nat, edit : Nat, crash : Nat]
    /\ clobbered \in BOOLEAN

Scheduled(r) == {k \in DOMAIN runs : k.rule = r /\ k.trigger = "schedule"}

(* Overlapping sweeps that hold old copies of a rule collapse to one run:    *)
(* two scheduled runs of a rule are never active together, unless somebody   *)
(* retried an old run or ran the rule by hand (design document, section 6).  *)
OneActiveTick ==
    \A r \in Rules : Cardinality({k \in Scheduled(r) : Active(k)}) <= 1 + count.retry + count.manual

(* A ONCE rule is started once by its schedule, whoever runs it by hand,     *)
(* edits it or retries it, and whichever process handles which end first.    *)
OnceRunsOnce == \A r \in Rules : rules[r].once => Cardinality(Scheduled(r)) <= 1

Unrecorded == {k \in DOMAIN runs : Finished(k) /\ runs[k].records = 0 /\ ~rules[k.rule].deleted}

(* "Every terminal outcome records an AutomationRun" (subscribers.py:68),    *)
(* unless a process was killed on the way or the rule is deleted.            *)
EveryOutcomeRecorded == (Unrecorded # {}) ~> (Unrecorded = {} \/ count.crash > 0)

(* A due rule does not stay due: its run ends and the schedule moves on,     *)
(* however the sweeps over it end.  Only a kill between the end of the run   *)
(* and _advance_schedule, or an edit that restores an old next_run_at, can   *)
(* leave it due for ever: its key then names a run that is already finished. *)
DueRuleServed ==
    \A r \in Rules : Due(r) ~> (~Due(r) \/ clobbered \/ count.crash > 0)
=============================================================================
