------------------------ MODULE AutomationRule_proofs ------------------------
(***************************************************************************)
(* A rule with cadence ONCE is started by its schedule at most once, for   *)
(* any number of rules, sweeps, callers, tick loops, editors and events.   *)
(* OnceRunsOnce is not inductive: nothing in it says that the copies of    *)
(* the rule that sweeps and edits hold cannot bring back another           *)
(* next_run_at.  OnceInv adds this: wherever a ONCE rule's next_run_at is  *)
(* held, it is the first one or null, and cadence is never changed.        *)
(***************************************************************************)
EXTENDS AutomationRule, FiniteSetTheorems, TLAPS

First == 1

OneTick(row) == row.once => row.next \in {First, Never}

RulesInv ==
    /\ rules \in [Rules -> RuleRow]
    /\ \A r \in Rules : OneTick(rules[r])

EditsInv ==
    /\ edits \in [Editors -> [rule : Rules, row : RuleRow]]
    /\ \A e \in Editors : edits[e] # NoEdit =>
          edits[e].row.once = rules[edits[e].rule].once /\ OneTick(edits[e].row)

ProcsInv ==
    /\ procs \in [Procs -> Proc]
    /\ \A p \in Procs : \A t \in procs[p].todo : rules[t.rule].once => t.next = First
    /\ \A p \in Procs : procs[p].pc \notin {"idle", "pick"} => Exists(procs[p].run)

RunsInv ==
    /\ now \in Nat
    /\ DOMAIN runs \subseteq RunId
    /\ runs \in [DOMAIN runs -> RunRow]
    /\ \A r \in Rules : rules[r].once => \A k \in Scheduled(r) : k.at = First

CountInv ==
    /\ count \in [manual : Nat, retry : Nat, edit : Nat, crash : Nat]
    /\ clobbered \in BOOLEAN

OnceInv == RulesInv /\ EditsInv /\ ProcsInv /\ RunsInv /\ CountInv

LEMMA Constants ==
    /\ Period \in Nat
    /\ NoRun \in RunId
    /\ NoEdit \in [rule : Rules, row : RuleRow]
    /\ Idle \in Proc
BY RulesAssumption, PeriodAssumption
   DEF NoRun, NoEdit, Idle, RunId, RuleRow, Proc, PCs, Never, Tick

LEMMA InitOnce == Init => OnceInv
<1> SUFFICES ASSUME Init PROVE OnceInv
    OBVIOUS
<1>1. RulesInv
    <2> DEFINE FirstRow == [once : BOOLEAN, next : {1}, active : {TRUE}, deleted : {FALSE}]
    <2>2. ASSUME NEW row \in FirstRow PROVE row \in RuleRow
        <3>1. row = [once |-> row.once, next |-> row.next,
                     active |-> row.active, deleted |-> row.deleted]
            OBVIOUS
        <3>2. row.once \in BOOLEAN /\ row.next = 1
            OBVIOUS
        <3>3. row.active \in {TRUE} /\ row.deleted \in {FALSE}
            OBVIOUS
        <3>4. row.active \in BOOLEAN /\ row.deleted \in BOOLEAN
            BY <3>3, Zenon
        <3>5. 1 \in Nat
            OBVIOUS
        <3> HIDE DEF FirstRow
        <3> QED
            BY <3>1, <3>2, <3>4, <3>5 DEF RuleRow
    <2>3. rules \in [Rules -> FirstRow]
        BY DEF Init
    <2>4. rules \in [Rules -> RuleRow]
        BY <2>2, <2>3
    <2>5. ASSUME NEW r \in Rules PROVE OneTick(rules[r])
        <3>1. rules[r] \in FirstRow
            BY <2>3
        <3> QED
            BY <3>1 DEF OneTick, First
    <2> QED
        BY <2>4, <2>5 DEF RulesInv
<1>2. EditsInv
    BY Constants DEF Init, EditsInv
<1>3. ProcsInv
    BY Constants DEF Init, ProcsInv, Idle
<1>4. RunsInv
    BY DEF Init, RunsInv, Scheduled
<1>5. CountInv
    BY DEF Init, CountInv
<1> QED
    BY <1>1, <1>2, <1>3, <1>4, <1>5 DEF OnceInv

(* A step in which one process moves on, keeps at most the ticks it had and  *)
(* knows a run that exists.                                                  *)
LEMMA ProcsMove ==
    ASSUME OnceInv, NEW p \in Procs, NEW q \in Proc,
           procs' = [procs EXCEPT ![p] = q],
           q.todo \subseteq procs[p].todo,
           q.pc \notin {"idle", "pick"} => q.run \in DOMAIN runs',
           DOMAIN runs \subseteq DOMAIN runs',
           \A r \in Rules : rules'[r].once = rules[r].once
    PROVE  ProcsInv'
<1>1. procs' \in [Procs -> Proc]
    BY DEF OnceInv, ProcsInv
<1>2. \A x \in Procs : procs'[x] = IF x = p THEN q ELSE procs[x]
    BY DEF OnceInv, ProcsInv
<1>3. \A x \in Procs : procs'[x].todo \subseteq procs[x].todo /\ procs[x].todo \subseteq Tick
    BY <1>2 DEF OnceInv, ProcsInv, Proc
<1>4. \A x \in Procs : \A t \in procs'[x].todo : rules'[t.rule].once => t.next = First
    BY <1>3 DEF OnceInv, ProcsInv, Tick
<1>5. \A x \in Procs : procs'[x].pc \notin {"idle", "pick"} => procs'[x].run \in DOMAIN runs'
    BY <1>2 DEF OnceInv, ProcsInv, Exists
<1> QED
    BY <1>1, <1>4, <1>5 DEF ProcsInv, Exists

(* A step that touches neither rules nor edits, and only the rows of runs.   *)
LEMMA RunsMove ==
    ASSUME OnceInv, UNCHANGED <<rules, edits>>, now' \in Nat,
           runs' \in [DOMAIN runs -> RunRow], CountInv', ProcsInv'
    PROVE  OnceInv'
<1>1. DOMAIN runs' = DOMAIN runs
    OBVIOUS
<1>2. RunsInv'
    BY <1>1 DEF OnceInv, RunsInv, Scheduled
<1>3. RulesInv' /\ EditsInv'
    BY DEF OnceInv, RulesInv, EditsInv
<1> QED
    BY <1>2, <1>3 DEF OnceInv

(* A step that only moves one process on.                                    *)
LEMMA OnlyMoves ==
    ASSUME OnceInv, NEW p \in Procs, NEW q \in Proc,
           procs' = [procs EXCEPT ![p] = q],
           q.todo \subseteq procs[p].todo,
           q.pc \notin {"idle", "pick"} => q.run \in DOMAIN runs,
           UNCHANGED <<now, rules, runs, edits, clobbered>>,
           CountInv'
    PROVE  OnceInv'
<1>1. ProcsInv'
    BY ProcsMove
<1> QED
    BY <1>1, RunsMove DEF OnceInv, RunsInv

(* One more run.                                                             *)
LEMMA StartRunFacts ==
    ASSUME OnceInv, NEW k \in RunId, StartRun(k)
    PROVE  /\ DOMAIN runs' = DOMAIN runs \cup {k}
           /\ runs' \in [DOMAIN runs' -> RunRow]
           /\ k \in DOMAIN runs'
BY DEF OnceInv, RunsInv, StartRun, Exists, RunRow

LEMMA CountedKeeps ==
    ASSUME OnceInv, NEW event \in {"manual", "retry", "edit", "crash"}, Counted(event),
           clobbered' \in BOOLEAN
    PROVE  CountInv'
BY DEF OnceInv, CountInv, Counted

LEMMA ReturnKeeps ==
    ASSUME OnceInv, NEW p \in Procs, Return(p), CountInv',
           UNCHANGED <<now, rules, runs, edits, clobbered>>
    PROVE  OnceInv'
<1>1. Idle \in Proc /\ Idle.todo = {} /\ Idle.pc = "idle"
    BY Constants DEF Idle
<1>2. procs' = [procs EXCEPT ![p] = Idle]
    BY DEF Return
<1> QED
    BY <1>1, <1>2, OnlyMoves

LEMMA GotoKeeps ==
    ASSUME OnceInv, NEW p \in Procs, NEW pc \in PCs \ {"idle", "pick"}, Goto(p, pc), CountInv',
           procs[p].pc \notin {"idle", "pick"},
           UNCHANGED <<now, rules, runs, edits, clobbered>>
    PROVE  OnceInv'
<1> DEFINE q == [procs[p] EXCEPT !.pc = pc]
<1>1. procs[p] \in Proc /\ procs[p].run \in DOMAIN runs
    BY DEF OnceInv, ProcsInv, Exists
<1>2. q \in Proc /\ q.todo = procs[p].todo /\ q.run = procs[p].run
    BY <1>1 DEF Proc
<1>3. procs' = [procs EXCEPT ![p] = q]
    BY DEF Goto
<1> QED
    BY <1>1, <1>2, <1>3, OnlyMoves

(* What publish leaves of a process.                                         *)
Left(p) == IF p \in Tickers THEN Idle
           ELSE [Idle EXCEPT !.pc = "drain", !.todo = procs[p].todo, !.run = procs[p].run]

LEMMA PublishedFacts ==
    ASSUME OnceInv, NEW p \in Procs, procs[p].pc \notin {"idle", "pick"}, Published(p)
    PROVE  /\ Left(p) \in Proc
           /\ procs' = [procs EXCEPT ![p] = Left(p)]
           /\ Left(p).todo \subseteq procs[p].todo
           /\ Left(p).pc \notin {"idle", "pick"} => Left(p).run \in DOMAIN runs
<1>1. procs[p] \in Proc /\ procs[p].run \in DOMAIN runs
    BY DEF OnceInv, ProcsInv, Exists
<1>2. CASE p \in Tickers
    BY <1>1, <1>2, Constants DEF Left, Published, Idle
<1>3. CASE p \notin Tickers
    <2> DEFINE q == [Idle EXCEPT !.pc = "drain", !.todo = procs[p].todo, !.run = procs[p].run]
    <2>1. q \in Proc
        BY <1>1, Constants DEF Proc, PCs
    <2>2. q.todo = procs[p].todo /\ q.run = procs[p].run
        BY DEF Idle
    <2> QED
        BY <1>1, <1>3, <2>1, <2>2 DEF Left, Published
<1> QED
    BY <1>2, <1>3

-----------------------------------------------------------------------------
LEMMA ListKeeps ==
    ASSUME OnceInv, NEW s \in Sweepers, List(s)
    PROVE  OnceInv'
<1> DEFINE todo == {[rule |-> r, next |-> rules[r].next] : r \in {q \in Rules : Due(q)}}
           q == [procs[s] EXCEPT !.pc = "pick", !.todo = todo]
<1>1. s \in Procs /\ procs[s] \in Proc
    BY DEF OnceInv, ProcsInv, Procs
<1>2. \A t \in todo : t \in Tick /\ (rules[t.rule].once => t.next = First)
    <2> SUFFICES ASSUME NEW r \in Rules, Due(r)
                 PROVE  rules[r].next \in Nat /\ (rules[r].once => rules[r].next = First)
        BY DEF Tick
    <2>1. rules[r] \in RuleRow /\ OneTick(rules[r]) /\ now \in Nat
        BY DEF OnceInv, RulesInv, RunsInv
    <2> QED
        BY <2>1 DEF Due, OneTick, RuleRow, Never, First
<1>3. todo \subseteq Tick
    BY <1>2
<1>4. q \in Proc /\ q.pc = "pick" /\ q.todo = todo
    BY <1>1, <1>3 DEF Proc, PCs
<1>5. procs' = [procs EXCEPT ![s] = q]
    BY DEF List
<1>6. \A x \in Procs : procs'[x] = IF x = s THEN q ELSE procs[x]
    BY <1>5 DEF OnceInv, ProcsInv
<1>7. UNCHANGED <<now, rules, runs, edits, count, clobbered>>
    BY DEF List
<1> HIDE DEF q, todo
<1>8. procs' \in [Procs -> Proc]
    BY <1>4, <1>5 DEF OnceInv, ProcsInv
<1>9. ProcsInv'
    BY <1>2, <1>4, <1>6, <1>7, <1>8 DEF OnceInv, ProcsInv, Exists
<1>10. runs' \in [DOMAIN runs -> RunRow] /\ now' \in Nat /\ CountInv'
    BY <1>7 DEF OnceInv, RunsInv, CountInv
<1> QED
    BY <1>7, <1>9, <1>10, RunsMove

(* A new run of a ONCE rule's schedule is the one at First.                  *)
LEMMA StartKeeps ==
    ASSUME OnceInv, NEW k \in RunId, StartRun(k),
           k.trigger = "schedule" /\ rules[k.rule].once => k.at = First,
           UNCHANGED <<now, rules, edits>>, CountInv', ProcsInv'
    PROVE  OnceInv'
<1>1. /\ DOMAIN runs' = DOMAIN runs \cup {k}
      /\ runs' \in [DOMAIN runs' -> RunRow]
    BY StartRunFacts
<1>2. RunsInv'
    BY <1>1 DEF OnceInv, RunsInv, Scheduled
<1>3. RulesInv' /\ EditsInv'
    BY DEF OnceInv, RulesInv, EditsInv
<1> QED
    BY <1>2, <1>3 DEF OnceInv

LEMMA StartDueKeeps ==
    ASSUME OnceInv, NEW s \in Sweepers, StartDue(s)
    PROVE  OnceInv'
<1>1. PICK t \in procs[s].todo :
        /\ StartRun(ScheduledRun(t))
        /\ procs' = [procs EXCEPT ![s].pc = "drain", ![s].run = ScheduledRun(t),
                                  ![s].todo = @ \ {t}]
    BY DEF StartDue
<1>2. s \in Procs /\ procs[s] \in Proc /\ procs[s].todo \subseteq Tick
    BY DEF OnceInv, ProcsInv, Procs, Proc
<1>3. t \in Tick /\ (rules[t.rule].once => t.next = First)
    BY <1>2 DEF OnceInv, ProcsInv
<1>4. ScheduledRun(t) \in RunId /\ ScheduledRun(t).rule = t.rule /\ ScheduledRun(t).at = t.next
    BY <1>3 DEF ScheduledRun, RunId, Tick
<1> DEFINE q == [procs[s] EXCEPT !.pc = "drain", !.run = ScheduledRun(t), !.todo = @ \ {t}]
<1>5. q \in Proc /\ q.todo \subseteq procs[s].todo /\ q.run = ScheduledRun(t)
    BY <1>2, <1>4 DEF Proc, PCs
<1>6. procs' = [procs EXCEPT ![s] = q]
    BY <1>1
<1>7. UNCHANGED <<now, rules, edits, count, clobbered>>
    BY DEF StartDue
<1>8. DOMAIN runs \subseteq DOMAIN runs' /\ ScheduledRun(t) \in DOMAIN runs'
    BY <1>1, <1>4, StartRunFacts
<1> HIDE DEF q
<1>9. ProcsInv'
    BY <1>2, <1>5, <1>6, <1>7, <1>8, ProcsMove
<1>10. CountInv'
    BY <1>7 DEF OnceInv, CountInv
<1> QED
    BY <1>1, <1>3, <1>4, <1>7, <1>9, <1>10, StartKeeps

LEMMA RunNowKeeps ==
    ASSUME OnceInv, NEW c \in Callers, RunNow(c)
    PROVE  OnceInv'
<1> DEFINE K(r) == [rule |-> r, trigger |-> "manual", at |-> count'["manual"]]
<1>1. PICK r \in Rules :
        /\ StartRun(K(r))
        /\ procs' = [procs EXCEPT ![c].pc = "drain", ![c].run = K(r)]
    BY DEF RunNow
<1>2. UNCHANGED <<now, rules, edits, clobbered>> /\ Counted("manual")
    BY DEF RunNow
<1>3. CountInv'
    BY <1>2, CountedKeeps DEF OnceInv, CountInv
<1>4. K(r) \in RunId /\ K(r).trigger = "manual"
    BY <1>3 DEF RunId, CountInv
<1>5. c \in Procs /\ procs[c] \in Proc
    BY DEF OnceInv, ProcsInv, Procs
<1> DEFINE q == [procs[c] EXCEPT !.pc = "drain", !.run = K(r)]
<1>6. q \in Proc /\ q.todo = procs[c].todo /\ q.run = K(r)
    BY <1>4, <1>5 DEF Proc, PCs
<1>7. procs' = [procs EXCEPT ![c] = q]
    BY <1>1
<1>8. DOMAIN runs \subseteq DOMAIN runs' /\ K(r) \in DOMAIN runs'
    BY <1>1, <1>4, StartRunFacts
<1> HIDE DEF q, K
<1>9. ProcsInv'
    BY <1>2, <1>5, <1>6, <1>7, <1>8, ProcsMove
<1> QED
    BY <1>1, <1>2, <1>3, <1>4, <1>9, StartKeeps

-----------------------------------------------------------------------------
LEMMA FinishKeeps ==
    ASSUME OnceInv, NEW p \in Procs, NEW k \in DOMAIN runs, Finish(p, k)
    PROVE  OnceInv'
<1> DEFINE q == [procs[p] EXCEPT !.pc = "subscribe", !.run = k, !.finished = now]
<1>1. k \in RunId /\ runs[k] \in RunRow /\ procs[p] \in Proc /\ now \in Nat
    BY DEF OnceInv, RunsInv, ProcsInv
<1>2. PICK status \in TERMINAL_STATUSES : runs' = [runs EXCEPT ![k].status = status]
    BY DEF Finish
<1>3. [runs[k] EXCEPT !.status = status] \in RunRow
    BY <1>1, <1>2 DEF RunRow
<1>4. runs' \in [DOMAIN runs -> RunRow]
    BY <1>2, <1>3 DEF OnceInv, RunsInv
<1>5. q \in Proc /\ q.todo = procs[p].todo /\ q.run = k
    BY <1>1 DEF Proc, PCs
<1>6. procs' = [procs EXCEPT ![p] = q]
    BY DEF Finish
<1>7. UNCHANGED <<rules, edits, count, clobbered>> /\ now' = now + 1
    BY DEF Finish
<1> HIDE DEF q
<1>8. DOMAIN runs' = DOMAIN runs
    BY <1>4
<1>9. ProcsInv'
    BY <1>5, <1>6, <1>7, <1>8, ProcsMove
<1>10. CountInv' /\ now' \in Nat
    BY <1>1, <1>7 DEF OnceInv, CountInv
<1> QED
    BY <1>4, <1>7, <1>9, <1>10, RunsMove

LEMMA SubscribeKeeps ==
    ASSUME OnceInv, NEW p \in Procs, Subscribe(p)
    PROVE  OnceInv'
<1>1. /\ procs[p].pc = "subscribe"
      /\ UNCHANGED <<now, rules, runs, edits, count, clobbered>>
    BY DEF Subscribe, At
<1>2. CountInv'
    BY <1>1 DEF OnceInv, CountInv
<1>3. procs[p] \in Proc /\ procs[p].run \in DOMAIN runs
    BY <1>1 DEF OnceInv, ProcsInv, Exists
<1>4. CASE rules[procs[p].run.rule].deleted
    <2>1. Published(p)
        BY <1>4 DEF Subscribe
    <2> QED
        BY <1>1, <1>2, <2>1, PublishedFacts, OnlyMoves
<1>5. CASE ~rules[procs[p].run.rule].deleted
    <2> DEFINE active == rules[procs[p].run.rule].active
               q == [procs[p] EXCEPT !.pc = "record", !.active = active]
    <2>1. procs[p].run.rule \in Rules
        BY <1>3 DEF Proc, RunId
    <2>2. active \in BOOLEAN
        BY <2>1 DEF OnceInv, RulesInv, RuleRow
    <2> HIDE DEF active
    <2>3. q \in Proc /\ q.todo = procs[p].todo /\ q.run = procs[p].run
        BY <1>3, <2>2 DEF Proc, PCs
    <2>4. procs' = [procs EXCEPT ![p] = q]
        BY <1>5 DEF Subscribe, active
    <2> QED
        BY <1>1, <1>2, <1>3, <2>3, <2>4, OnlyMoves
<1> QED
    BY <1>4, <1>5

LEMMA RecordKeeps ==
    ASSUME OnceInv, NEW p \in Procs, Record(p)
    PROVE  OnceInv'
<1> DEFINE k == procs[p].run
           q == [procs[p] EXCEPT !.pc = "advance"]
<1>1. procs[p].pc = "record" /\ UNCHANGED <<now, rules, edits, count, clobbered>>
    BY DEF Record, At
<1>2. procs[p] \in Proc /\ k \in DOMAIN runs /\ runs[k] \in RunRow
    BY <1>1 DEF OnceInv, ProcsInv, RunsInv, Exists
<1>3. [runs[k] EXCEPT !.records = @ + 1] \in RunRow
    BY <1>2 DEF RunRow
<1>4. runs' \in [DOMAIN runs -> RunRow] /\ DOMAIN runs' = DOMAIN runs
    BY <1>3 DEF Record, OnceInv, RunsInv
<1>5. q \in Proc /\ q.todo = procs[p].todo /\ q.run = k
    BY <1>2 DEF Proc, PCs
<1>6. procs' = [procs EXCEPT ![p] = q]
    BY DEF Record, Goto
<1> HIDE DEF q
<1>7. ProcsInv'
    BY <1>1, <1>2, <1>4, <1>5, <1>6, ProcsMove
<1>8. CountInv' /\ now' \in Nat
    BY <1>1 DEF OnceInv, CountInv, RunsInv
<1> QED
    BY <1>1, <1>4, <1>7, <1>8, RunsMove

(* A step that leaves the runs alone and keeps every cadence.                *)
LEMMA RulesMove ==
    ASSUME OnceInv, UNCHANGED <<now, runs>>, RulesInv', EditsInv', ProcsInv', CountInv',
           \A r \in Rules : rules'[r].once = rules[r].once
    PROVE  OnceInv'
<1>1. RunsInv'
    BY DEF OnceInv, RunsInv, Scheduled
<1> QED
    BY <1>1 DEF OnceInv

LEMMA SameCadence ==
    ASSUME OnceInv, UNCHANGED edits,
           NEW r \in Rules, NEW row \in RuleRow, OneTick(row), row.once = rules[r].once,
           rules' = [rules EXCEPT ![r] = row]
    PROVE  RulesInv' /\ EditsInv' /\ \A x \in Rules : rules'[x].once = rules[x].once
<1>1. rules \in [Rules -> RuleRow]
    BY DEF OnceInv, RulesInv
<1>2. \A x \in Rules : rules'[x] = IF x = r THEN row ELSE rules[x]
    BY <1>1
<1>3. \A x \in Rules : rules'[x].once = rules[x].once
    BY <1>2
<1>4. rules' \in [Rules -> RuleRow]
    BY <1>1
<1>5. \A x \in Rules : OneTick(rules'[x])
    BY <1>2 DEF OnceInv, RulesInv
<1>6. RulesInv'
    BY <1>4, <1>5 DEF RulesInv
<1>7. EditsInv'
    BY <1>3 DEF OnceInv, EditsInv
<1> QED
    BY <1>3, <1>6, <1>7

LEMMA AdvanceScheduleKeeps ==
    ASSUME OnceInv, NEW p \in Procs, AdvanceSchedule(p)
    PROVE  OnceInv'
<1> DEFINE r == procs[p].run.rule
           next == NextRunAt(r, procs[p].finished)
           active == procs[p].active /\ ~rules[r].once
           row == [rules[r] EXCEPT !.next = next, !.active = active]
<1>1. procs[p].pc = "advance" /\ Published(p)
    BY DEF AdvanceSchedule, At
<1>2. UNCHANGED <<now, runs, edits, count, clobbered>>
    BY DEF AdvanceSchedule
<1>3. procs[p] \in Proc
    BY DEF OnceInv, ProcsInv
<1>4. r \in Rules /\ procs[p].finished \in Nat
    BY <1>3 DEF Proc, RunId
<1>5. rules \in [Rules -> RuleRow] /\ rules[r] \in RuleRow
    BY <1>4 DEF OnceInv, RulesInv
<1>6. next \in Nat /\ (rules[r].once => next = Never)
    BY <1>4, Constants DEF NextRunAt, Never
<1>7. active \in BOOLEAN
    OBVIOUS
<1>8. rules' = [rules EXCEPT ![r] = row]
    BY <1>5 DEF AdvanceSchedule
<1> HIDE DEF next, active
<1>9. row \in RuleRow /\ row.once = rules[r].once /\ row.next = next
    BY <1>5, <1>6, <1>7 DEF RuleRow
<1>10. OneTick(row)
    BY <1>6, <1>9 DEF OneTick
<1> HIDE DEF row, r
<1>11. RulesInv' /\ EditsInv' /\ \A x \in Rules : rules'[x].once = rules[x].once
    BY <1>2, <1>4, <1>8, <1>9, <1>10, SameCadence
<1>12. ProcsInv'
    BY <1>1, <1>2, <1>11, PublishedFacts, ProcsMove
<1>13. CountInv'
    BY <1>2 DEF OnceInv, CountInv
<1> QED
    BY <1>2, <1>11, <1>12, <1>13, RulesMove

LEMMA WaitKeeps ==
    ASSUME OnceInv, NEW p \in Procs, SeesEnd(p) \/ Read(p) \/ TimeOut(p)
    PROVE  OnceInv'
<1>1. /\ procs[p].pc \in {"drain", "read"}
      /\ UNCHANGED <<now, rules, runs, edits, count, clobbered>>
    BY DEF SeesEnd, Read, TimeOut, At
<1>2. CountInv'
    BY <1>1 DEF OnceInv, CountInv
<1>3. CASE Goto(p, "read")
    BY <1>1, <1>2, <1>3, GotoKeeps DEF PCs
<1>4. CASE Return(p)
    BY <1>1, <1>2, <1>4, ReturnKeeps
<1>5. CASE procs' = [procs EXCEPT ![p] = [Idle EXCEPT !.pc = "pick", !.todo = procs[p].todo]]
    <2> DEFINE q == [Idle EXCEPT !.pc = "pick", !.todo = procs[p].todo]
    <2>1. procs[p].todo \subseteq Tick
        BY DEF OnceInv, ProcsInv, Proc
    <2>2. q \in Proc /\ q.todo = procs[p].todo /\ q.pc = "pick"
        BY <2>1, Constants DEF Proc, PCs, Idle
    <2> QED
        BY <1>1, <1>2, <1>5, <2>2, OnlyMoves
<1> QED
    BY <1>3, <1>4, <1>5 DEF SeesEnd, Read, TimeOut

-----------------------------------------------------------------------------
LEMMA UnmovedProcs ==
    ASSUME OnceInv, UNCHANGED procs, DOMAIN runs' = DOMAIN runs,
           \A r \in Rules : rules'[r].once = rules[r].once
    PROVE  ProcsInv'
<1>1. \A p \in Procs : \A t \in procs[p].todo : t.rule \in Rules
    BY DEF OnceInv, ProcsInv, Proc, Tick
<1> QED
    BY <1>1 DEF OnceInv, ProcsInv, Exists

LEMMA FetchForEditKeeps ==
    ASSUME OnceInv, NEW e \in Editors, NEW r \in Rules, FetchForEdit(e, r)
    PROVE  OnceInv'
<1>1. UNCHANGED <<now, rules, runs, procs, clobbered>> /\ Counted("edit")
    BY DEF FetchForEdit
<1>2. CountInv'
    BY <1>1, CountedKeeps DEF OnceInv, CountInv
<1>3. rules[r] \in RuleRow /\ OneTick(rules[r])
    BY DEF OnceInv, RulesInv
<1>4. edits' = [edits EXCEPT ![e] = [rule |-> r, row |-> rules[r]]]
    BY DEF FetchForEdit
<1>5. EditsInv'
    BY <1>1, <1>3, <1>4 DEF OnceInv, EditsInv
<1>6. RulesInv' /\ ProcsInv'
    BY <1>1, UnmovedProcs DEF OnceInv, RulesInv
<1> QED
    BY <1>1, <1>2, <1>5, <1>6, RulesMove

LEMMA SaveEditKeeps ==
    ASSUME OnceInv, NEW e \in Editors, SaveEdit(e)
    PROVE  OnceInv'
<1> DEFINE r == edits[e].rule
           Row(active) == [edits[e].row EXCEPT !.active = active]
<1>1. edits[e] # NoEdit /\ UNCHANGED <<now, runs, procs, count>>
    BY DEF SaveEdit
<1>2. PICK active \in BOOLEAN : rules' = [rules EXCEPT ![r] = Row(active)]
    BY DEF SaveEdit
<1>3. /\ r \in Rules /\ edits[e].row \in RuleRow
      /\ edits[e].row.once = rules[r].once /\ OneTick(edits[e].row)
    BY <1>1 DEF OnceInv, EditsInv
<1>4. Row(active) \in RuleRow /\ Row(active).once = edits[e].row.once
        /\ Row(active).next = edits[e].row.next
    BY <1>2, <1>3 DEF RuleRow
<1>5. OneTick(Row(active))
    BY <1>3, <1>4 DEF OneTick
<1> HIDE DEF Row, r
<1>6. rules' \in [Rules -> RuleRow] /\ \A x \in Rules : rules'[x] = IF x = r THEN Row(active) ELSE rules[x]
    BY <1>2, <1>3, <1>4 DEF OnceInv, RulesInv
<1>7. \A x \in Rules : rules'[x].once = rules[x].once
    BY <1>3, <1>4, <1>6 DEF r
<1>8. RulesInv'
    BY <1>5, <1>6 DEF OnceInv, RulesInv
<1>9. edits' = [edits EXCEPT ![e] = NoEdit]
    BY DEF SaveEdit
<1>10. EditsInv'
    BY <1>7, <1>9, Constants DEF OnceInv, EditsInv
<1>11. ProcsInv'
    BY <1>1, <1>7, UnmovedProcs
<1>12. clobbered' \in BOOLEAN
    BY DEF SaveEdit, OnceInv, CountInv
<1>13. CountInv'
    BY <1>1, <1>12 DEF OnceInv, CountInv
<1> QED
    BY <1>1, <1>7, <1>8, <1>10, <1>11, <1>13, RulesMove

LEMMA DeleteKeeps ==
    ASSUME OnceInv, NEW r \in Rules, Delete(r)
    PROVE  OnceInv'
<1> DEFINE row == [rules[r] EXCEPT !.deleted = TRUE]
<1>1. UNCHANGED <<now, runs, procs, edits, clobbered>> /\ Counted("edit")
    BY DEF Delete
<1>2. CountInv'
    BY <1>1, CountedKeeps DEF OnceInv, CountInv
<1>3. rules[r] \in RuleRow /\ OneTick(rules[r])
    BY DEF OnceInv, RulesInv
<1>4. row \in RuleRow /\ row.once = rules[r].once /\ OneTick(row)
    BY <1>3 DEF RuleRow, OneTick
<1>5. rules' = [rules EXCEPT ![r] = row]
    BY DEF Delete
<1> HIDE DEF row
<1>6. RulesInv' /\ EditsInv' /\ \A x \in Rules : rules'[x].once = rules[x].once
    BY <1>1, <1>4, <1>5, SameCadence
<1>7. ProcsInv'
    BY <1>1, <1>6, UnmovedProcs
<1> QED
    BY <1>1, <1>2, <1>6, <1>7, RulesMove

LEMMA RetryKeeps ==
    ASSUME OnceInv, NEW k \in DOMAIN runs, Retry(k)
    PROVE  OnceInv'
<1>1. UNCHANGED <<now, rules, procs, edits, clobbered>> /\ Counted("retry")
    BY DEF Retry
<1>2. CountInv'
    BY <1>1, CountedKeeps DEF OnceInv, CountInv
<1>3. runs[k] \in RunRow
    BY DEF OnceInv, RunsInv
<1>4. [runs[k] EXCEPT !.status = "active"] \in RunRow
    BY <1>3 DEF RunRow
<1>5. runs' \in [DOMAIN runs -> RunRow]
    BY <1>4 DEF Retry, OnceInv, RunsInv
<1>6. ProcsInv'
    BY <1>1, <1>5, UnmovedProcs
<1>7. now' \in Nat
    BY <1>1 DEF OnceInv, RunsInv
<1> QED
    BY <1>1, <1>2, <1>5, <1>6, <1>7, RunsMove

LEMMA IdleKeeps ==
    ASSUME OnceInv, UNCHANGED vars \/ ClockTicks
    PROVE  OnceInv'
<1>1. UNCHANGED <<rules, runs, procs, edits, count, clobbered>> /\ now' \in Nat
    BY DEF vars, ClockTicks, OnceInv, RunsInv
<1>2. ProcsInv' /\ CountInv'
    BY <1>1, UnmovedProcs DEF OnceInv, CountInv
<1>3. runs' \in [DOMAIN runs -> RunRow]
    BY <1>1 DEF OnceInv, RunsInv
<1> QED
    BY <1>1, <1>2, <1>3, RunsMove

LEMMA NextOnce == OnceInv /\ [Next]_vars => OnceInv'
<1> SUFFICES ASSUME OnceInv, [Next]_vars PROVE OnceInv'
    OBVIOUS
<1>1. ASSUME NEW p \in Procs, Drain(p) PROVE OnceInv'
    BY <1>1, FinishKeeps, SubscribeKeeps, RecordKeeps, AdvanceScheduleKeeps, WaitKeeps DEF Drain
<1>2. ASSUME NEW p \in Procs, Crash(p) PROVE OnceInv'
    <2>1. UNCHANGED <<now, rules, runs, edits, clobbered>> /\ Counted("crash") /\ Return(p)
        BY <1>2 DEF Crash
    <2>2. CountInv'
        BY <2>1, CountedKeeps DEF OnceInv, CountInv
    <2> QED
        BY <2>1, <2>2, ReturnKeeps
<1>3. ASSUME NEW s \in Sweepers, Sweep(s) PROVE OnceInv'
    BY <1>1, <1>3, ListKeeps, StartDueKeeps DEF Sweep, Procs
<1>4. ASSUME NEW c \in Callers, RunNow(c) \/ Drain(c) PROVE OnceInv'
    BY <1>1, <1>4, RunNowKeeps DEF Procs
<1>5. ASSUME NEW t \in Tickers, Drain(t) PROVE OnceInv'
    BY <1>1, <1>5 DEF Procs
<1>6. ASSUME NEW e \in Editors, SaveEdit(e) \/ \E r \in Rules : FetchForEdit(e, r) PROVE OnceInv'
    BY <1>6, SaveEditKeeps, FetchForEditKeeps
<1> QED
    BY <1>2, <1>3, <1>4, <1>5, <1>6, DeleteKeeps, RetryKeeps, IdleKeeps DEF Next

-----------------------------------------------------------------------------
(* Rows and in-memory copies stay well typed, and a process that drains a    *)
(* run or handles its end knows a run that exists.                           *)
THEOREM TypeCorrect == Spec => []TypeOK
<1>1. OnceInv => TypeOK
    BY DEF OnceInv, RulesInv, EditsInv, ProcsInv, RunsInv, CountInv, TypeOK
<1> QED
    BY <1>1, InitOnce, NextOnce, PTL DEF Spec

(* A rule with cadence ONCE is started by its schedule at most once          *)
(* (_advance and _advance_schedule, services.py), whatever copies of the     *)
(* rule the sweeps and the edits in progress hold.                           *)
THEOREM OnceRunsOnceAlways == Spec => []OnceRunsOnce
<1>1. OnceInv => OnceRunsOnce
    <2> SUFFICES ASSUME OnceInv, NEW r \in Rules, rules[r].once
                 PROVE  Cardinality(Scheduled(r)) <= 1
        BY DEF OnceRunsOnce
    <2> DEFINE k == [rule |-> r, trigger |-> "schedule", at |-> First]
    <2>1. ASSUME NEW j \in Scheduled(r) PROVE j = k
        <3>1. j \in RunId /\ j.rule = r /\ j.trigger = "schedule" /\ j.at = First
            BY DEF OnceInv, RunsInv, Scheduled
        <3> QED
            BY <3>1 DEF RunId
    <2>2. Scheduled(r) \in SUBSET {k}
        BY <2>1
    <2>3. IsFiniteSet({k}) /\ Cardinality({k}) = 1
        BY FS_Singleton
    <2>4. Cardinality(Scheduled(r)) <= Cardinality({k})
        BY <2>2, <2>3, FS_Subset
    <2> QED
        BY <2>3, <2>4
<1> QED
    BY <1>1, InitOnce, NextOnce, PTL DEF Spec
-----------------------------------------------------------------------------
(* OneActiveTick: one tick of a rule's schedule turns into another.  A date  *)
(* held somewhere and not yet started becomes a run, the run becomes an end  *)
(* that some process handles, and the end writes the next date.  Whatever    *)
(* copies there are of the rule, they hold the same date or dates whose run  *)
(* exists already, so that a rule never has more than one of these, and one  *)
(* more for every run-now and every retry.                                   *)
Running(r) == {k \in DOMAIN runs : k.rule = r /\ Active(k)}
Ending(r)  == {p \in Procs : procs[p].pc \in {"subscribe", "record", "advance"} /\ procs[p].run.rule = r}

InRule(r, n)  == rules[r].next = n
InEdit(r, n)  == \E e \in Editors : edits[e] # NoEdit /\ edits[e].rule = r /\ edits[e].row.next = n
InSweep(r, n) == \E p \in Procs : \E t \in procs[p].todo : t.rule = r /\ t.next = n
Held(r, n)    == InRule(r, n) \/ InEdit(r, n) \/ InSweep(r, n)

Key(r, n)  == [rule |-> r, trigger |-> "schedule", at |-> n]
Waiting(r) == {n \in Nat : Held(r, n) /\ ~Exists(Key(r, n))}

TicksInv ==
    \A r \in Rules :
        /\ IsFiniteSet(Running(r)) /\ IsFiniteSet(Ending(r)) /\ IsFiniteSet(Waiting(r))
        /\ Cardinality(Running(r)) + Cardinality(Ending(r)) + Cardinality(Waiting(r))
              <= 1 + count.retry + count.manual

LEMMA NoMore ==
    ASSUME NEW S, IsFiniteSet(S), NEW T, T \subseteq S
    PROVE  /\ IsFiniteSet(T) /\ Cardinality(T) <= Cardinality(S)
           /\ Cardinality(T) \in Nat /\ Cardinality(S) \in Nat
BY FS_Subset, FS_CardinalityType

LEMMA OneLess ==
    ASSUME NEW S, IsFiniteSet(S), NEW x \in S, NEW T, T \subseteq S \ {x}
    PROVE  /\ IsFiniteSet(T) /\ Cardinality(T) + 1 <= Cardinality(S)
           /\ Cardinality(T) \in Nat /\ Cardinality(S) \in Nat
<1>1. IsFiniteSet(S \ {x}) /\ Cardinality(S \ {x}) = Cardinality(S) - 1
    BY FS_RemoveElement
<1>2. IsFiniteSet(T) /\ Cardinality(T) <= Cardinality(S \ {x}) /\ Cardinality(T) \in Nat
    BY <1>1, NoMore
<1>3. Cardinality(S) \in Nat
    BY FS_CardinalityType
<1> QED
    BY <1>1, <1>2, <1>3

LEMMA OneMore ==
    ASSUME NEW S, IsFiniteSet(S), NEW x, NEW T, T \subseteq S \cup {x}
    PROVE  /\ IsFiniteSet(T) /\ Cardinality(T) <= Cardinality(S) + 1
           /\ Cardinality(T) \in Nat /\ Cardinality(S) \in Nat
<1>1. /\ IsFiniteSet(S \cup {x})
      /\ Cardinality(S \cup {x}) = IF x \in S THEN Cardinality(S) ELSE Cardinality(S) + 1
    BY FS_AddElement
<1>2. IsFiniteSet(T) /\ Cardinality(T) <= Cardinality(S \cup {x}) /\ Cardinality(T) \in Nat
    BY <1>1, NoMore
<1>3. Cardinality(S) \in Nat
    BY FS_CardinalityType
<1> QED
    BY <1>1, <1>2, <1>3

(* What a step may do to one rule: nothing new, one stage becomes the next,  *)
(* or a run that a run-now or a retry has paid for.                          *)
Fewer(r) ==
    /\ Running(r)' \subseteq Running(r) /\ Ending(r)' \subseteq Ending(r)
    /\ Waiting(r)' \subseteq Waiting(r)

Starts(r) ==
    \E n \in Waiting(r) : \E k :
        /\ Waiting(r)' \subseteq Waiting(r) \ {n} /\ Running(r)' \subseteq Running(r) \cup {k}
        /\ Ending(r)' \subseteq Ending(r)

Ends(r) ==
    \E k \in Running(r) : \E p :
        /\ Running(r)' \subseteq Running(r) \ {k} /\ Ending(r)' \subseteq Ending(r) \cup {p}
        /\ Waiting(r)' \subseteq Waiting(r)

Advances(r) ==
    \E p \in Ending(r) : \E n :
        /\ Ending(r)' \subseteq Ending(r) \ {p} /\ Waiting(r)' \subseteq Waiting(r) \cup {n}
        /\ Running(r)' \subseteq Running(r)

Extra(r) ==
    /\ \E k : Running(r)' \subseteq Running(r) \cup {k}
    /\ Ending(r)' \subseteq Ending(r) /\ Waiting(r)' \subseteq Waiting(r)

LEMMA TicksKept ==
    ASSUME TicksInv, CountInv, CountInv',
           \/ /\ count'.retry + count'.manual >= count.retry + count.manual
              /\ \A r \in Rules : Fewer(r) \/ Starts(r) \/ Ends(r) \/ Advances(r)
           \/ /\ count'.retry + count'.manual = count.retry + count.manual + 1
              /\ \A r \in Rules : Extra(r)
    PROVE  TicksInv'
<1> SUFFICES ASSUME NEW r \in Rules
             PROVE  /\ IsFiniteSet(Running(r)') /\ IsFiniteSet(Ending(r)') /\ IsFiniteSet(Waiting(r)')
                    /\ Cardinality(Running(r)') + Cardinality(Ending(r)') + Cardinality(Waiting(r)')
                          <= 1 + count'.retry + count'.manual
    BY DEF TicksInv
<1> DEFINE R == Running(r)
           E == Ending(r)
           W == Waiting(r)
           c == count.retry + count.manual
           d == count'.retry + count'.manual
<1>1. /\ IsFiniteSet(R) /\ IsFiniteSet(E) /\ IsFiniteSet(W)
      /\ Cardinality(R) + Cardinality(E) + Cardinality(W) <= 1 + count.retry + count.manual
    BY DEF TicksInv
<1>2. /\ count.retry \in Nat /\ count.manual \in Nat
      /\ count'.retry \in Nat /\ count'.manual \in Nat
    BY DEF CountInv
<1>3. CASE Fewer(r) /\ d >= c
    <2>1. Running(r)' \subseteq R /\ Ending(r)' \subseteq E /\ Waiting(r)' \subseteq W
        BY <1>3 DEF Fewer
    <2> HIDE DEF R, E, W
    <2>2. IsFiniteSet(Running(r)') /\ Cardinality(Running(r)') <= Cardinality(R)
            /\ Cardinality(Running(r)') \in Nat /\ Cardinality(R) \in Nat
        BY <1>1, <2>1, NoMore
    <2>3. IsFiniteSet(Ending(r)') /\ Cardinality(Ending(r)') <= Cardinality(E)
            /\ Cardinality(Ending(r)') \in Nat /\ Cardinality(E) \in Nat
        BY <1>1, <2>1, NoMore
    <2>4. IsFiniteSet(Waiting(r)') /\ Cardinality(Waiting(r)') <= Cardinality(W)
            /\ Cardinality(Waiting(r)') \in Nat /\ Cardinality(W) \in Nat
        BY <1>1, <2>1, NoMore
    <2> QED
        BY <1>1, <1>2, <1>3, <2>2, <2>3, <2>4
<1>4. CASE Starts(r) /\ d >= c
    <2>0. PICK n \in W : \E k : Waiting(r)' \subseteq W \ {n} /\ Running(r)' \subseteq R \cup {k} /\ Ending(r)' \subseteq E
        BY <1>4 DEF Starts
    <2>1. PICK k : Waiting(r)' \subseteq W \ {n} /\ Running(r)' \subseteq R \cup {k} /\ Ending(r)' \subseteq E
        BY <2>0
    <2> HIDE DEF R, E, W
    <2>2. IsFiniteSet(Running(r)') /\ Cardinality(Running(r)') <= Cardinality(R) + 1
            /\ Cardinality(Running(r)') \in Nat /\ Cardinality(R) \in Nat
        BY <1>1, <2>1, OneMore
    <2>3. IsFiniteSet(Ending(r)') /\ Cardinality(Ending(r)') <= Cardinality(E)
            /\ Cardinality(Ending(r)') \in Nat /\ Cardinality(E) \in Nat
        BY <1>1, <2>1, NoMore
    <2>4. IsFiniteSet(Waiting(r)') /\ Cardinality(Waiting(r)') + 1 <= Cardinality(W)
            /\ Cardinality(Waiting(r)') \in Nat /\ Cardinality(W) \in Nat
        BY <1>1, <2>1, OneLess
    <2> QED
        BY <1>1, <1>2, <1>4, <2>2, <2>3, <2>4
<1>5. CASE Ends(r) /\ d >= c
    <2>0. PICK k \in R : \E p : Running(r)' \subseteq R \ {k} /\ Ending(r)' \subseteq E \cup {p} /\ Waiting(r)' \subseteq W
        BY <1>5 DEF Ends
    <2>1. PICK p : Running(r)' \subseteq R \ {k} /\ Ending(r)' \subseteq E \cup {p} /\ Waiting(r)' \subseteq W
        BY <2>0
    <2> HIDE DEF R, E, W
    <2>2. IsFiniteSet(Running(r)') /\ Cardinality(Running(r)') + 1 <= Cardinality(R)
            /\ Cardinality(Running(r)') \in Nat /\ Cardinality(R) \in Nat
        BY <1>1, <2>1, OneLess
    <2>3. IsFiniteSet(Ending(r)') /\ Cardinality(Ending(r)') <= Cardinality(E) + 1
            /\ Cardinality(Ending(r)') \in Nat /\ Cardinality(E) \in Nat
        BY <1>1, <2>1, OneMore
    <2>4. IsFiniteSet(Waiting(r)') /\ Cardinality(Waiting(r)') <= Cardinality(W)
            /\ Cardinality(Waiting(r)') \in Nat /\ Cardinality(W) \in Nat
        BY <1>1, <2>1, NoMore
    <2> QED
        BY <1>1, <1>2, <1>5, <2>2, <2>3, <2>4
<1>6. CASE Advances(r) /\ d >= c
    <2>0. PICK p \in E : \E n : Ending(r)' \subseteq E \ {p} /\ Waiting(r)' \subseteq W \cup {n} /\ Running(r)' \subseteq R
        BY <1>6 DEF Advances
    <2>1. PICK n : Ending(r)' \subseteq E \ {p} /\ Waiting(r)' \subseteq W \cup {n} /\ Running(r)' \subseteq R
        BY <2>0
    <2> HIDE DEF R, E, W
    <2>2. IsFiniteSet(Running(r)') /\ Cardinality(Running(r)') <= Cardinality(R)
            /\ Cardinality(Running(r)') \in Nat /\ Cardinality(R) \in Nat
        BY <1>1, <2>1, NoMore
    <2>3. IsFiniteSet(Ending(r)') /\ Cardinality(Ending(r)') + 1 <= Cardinality(E)
            /\ Cardinality(Ending(r)') \in Nat /\ Cardinality(E) \in Nat
        BY <1>1, <2>1, OneLess
    <2>4. IsFiniteSet(Waiting(r)') /\ Cardinality(Waiting(r)') <= Cardinality(W) + 1
            /\ Cardinality(Waiting(r)') \in Nat /\ Cardinality(W) \in Nat
        BY <1>1, <2>1, OneMore
    <2> QED
        BY <1>1, <1>2, <1>6, <2>2, <2>3, <2>4
<1>7. CASE Extra(r) /\ d = c + 1
    <2>1. PICK k : Running(r)' \subseteq R \cup {k}
        BY <1>7 DEF Extra
    <2>2. Ending(r)' \subseteq E /\ Waiting(r)' \subseteq W
        BY <1>7 DEF Extra
    <2> HIDE DEF R, E, W
    <2>3. IsFiniteSet(Running(r)') /\ Cardinality(Running(r)') <= Cardinality(R) + 1
            /\ Cardinality(Running(r)') \in Nat /\ Cardinality(R) \in Nat
        BY <1>1, <2>1, OneMore
    <2>4. IsFiniteSet(Ending(r)') /\ Cardinality(Ending(r)') <= Cardinality(E)
            /\ Cardinality(Ending(r)') \in Nat /\ Cardinality(E) \in Nat
        BY <1>1, <2>2, NoMore
    <2>5. IsFiniteSet(Waiting(r)') /\ Cardinality(Waiting(r)') <= Cardinality(W)
            /\ Cardinality(Waiting(r)') \in Nat /\ Cardinality(W) \in Nat
        BY <1>1, <2>2, NoMore
    <2> QED
        BY <1>1, <1>2, <1>7, <2>3, <2>4, <2>5
<1> QED
    BY <1>3, <1>4, <1>5, <1>6, <1>7

LEMMA SameRuns ==
    ASSUME DOMAIN runs' = DOMAIN runs,
           \A k \in DOMAIN runs : runs'[k].status = runs[k].status
    PROVE  \A r \in Rules : Running(r)' = Running(r)
BY DEF Running, Active, Exists

(* One process moves on, or forgets what it was about.                       *)
LEMMA OneMoves ==
    ASSUME OnceInv, NEW p \in Procs, NEW q \in Proc,
           procs' = [procs EXCEPT ![p] = q],
           q.todo \subseteq procs[p].todo,
           q.pc \in {"subscribe", "record", "advance"} =>
              procs[p].pc \in {"subscribe", "record", "advance"} /\ q.run = procs[p].run
    PROVE  /\ \A r \in Rules : Ending(r)' \subseteq Ending(r)
           /\ \A r \in Rules, n \in Nat : InSweep(r, n)' => InSweep(r, n)
<1>1. \A x \in Procs : procs'[x] = IF x = p THEN q ELSE procs[x]
    BY DEF OnceInv, ProcsInv
<1>2. \A r \in Rules : Ending(r)' \subseteq Ending(r)
    BY <1>1 DEF Ending
<1>3. \A r \in Rules, n \in Nat : InSweep(r, n)' => InSweep(r, n)
    BY <1>1 DEF InSweep
<1> QED
    BY <1>2, <1>3

(* No new date comes to be held, and no run disappears.                      *)
LEMMA NoNewDate ==
    ASSUME DOMAIN runs \subseteq DOMAIN runs',
           \A r \in Rules, n \in Nat : Held(r, n)' => Held(r, n)
    PROVE  \A r \in Rules : Waiting(r)' \subseteq Waiting(r)
BY DEF Waiting, Exists, Key

LEMMA SameDates ==
    ASSUME UNCHANGED <<rules, edits>>, DOMAIN runs \subseteq DOMAIN runs',
           \A r \in Rules, n \in Nat : InSweep(r, n)' => InSweep(r, n)
    PROVE  \A r \in Rules : Waiting(r)' \subseteq Waiting(r)
<1>1. \A r \in Rules, n \in Nat : (InRule(r, n)' => InRule(r, n)) /\ (InEdit(r, n)' => InEdit(r, n))
    BY DEF InRule, InEdit
<1> QED
    BY <1>1, NoNewDate DEF Held

(* A step of one process that ends no run and writes no date.                *)
LEMMA OneOnlyMoves ==
    ASSUME OnceInv, TicksInv, CountInv', NEW p \in Procs, NEW q \in Proc,
           procs' = [procs EXCEPT ![p] = q],
           q.todo \subseteq procs[p].todo,
           q.pc \in {"subscribe", "record", "advance"} =>
              procs[p].pc \in {"subscribe", "record", "advance"} /\ q.run = procs[p].run,
           UNCHANGED <<rules, edits>>, DOMAIN runs' = DOMAIN runs,
           \A k \in DOMAIN runs : runs'[k].status = runs[k].status,
           count'.retry = count.retry /\ count'.manual = count.manual
    PROVE  TicksInv'
<1>1. \A r \in Rules : Running(r)' = Running(r)
    BY SameRuns
<1>2. /\ \A r \in Rules : Ending(r)' \subseteq Ending(r)
      /\ \A r \in Rules, n \in Nat : InSweep(r, n)' => InSweep(r, n)
    BY OneMoves
<1>3. \A r \in Rules : Waiting(r)' \subseteq Waiting(r)
    BY <1>2, SameDates
<1>4. \A r \in Rules : Fewer(r)
    BY <1>1, <1>2, <1>3 DEF Fewer
<1>5. CountInv /\ count'.retry + count'.manual >= count.retry + count.manual
    BY DEF OnceInv, CountInv
<1> QED
    BY <1>4, <1>5, TicksKept

LEMMA ListTicks ==
    ASSUME OnceInv, TicksInv, CountInv', NEW s \in Sweepers, List(s)
    PROVE  TicksInv'
<1> DEFINE todo == {[rule |-> r, next |-> rules[r].next] : r \in {q \in Rules : Due(q)}}
<1>1. s \in Procs
    BY DEF Procs
<1>2. UNCHANGED <<now, rules, runs, edits, count, clobbered>>
    BY DEF List
<1>3. \A x \in Procs : IF x = s THEN procs'[x].pc = "pick" /\ procs'[x].todo = todo
                       ELSE procs'[x] = procs[x]
    <2>1. procs[s] \in Proc /\ procs \in [Procs -> Proc]
        BY <1>1 DEF OnceInv, ProcsInv
    <2>2. procs' = [procs EXCEPT ![s] = [procs[s] EXCEPT !.pc = "pick", !.todo = todo]]
        BY DEF List
    <2>3. [procs[s] EXCEPT !.pc = "pick", !.todo = todo].pc = "pick"
            /\ [procs[s] EXCEPT !.pc = "pick", !.todo = todo].todo = todo
        BY <2>1 DEF Proc
    <2> HIDE DEF todo
    <2> QED
        BY <1>1, <2>1, <2>2, <2>3
<1>4. \A t \in todo : rules[t.rule].next = t.next
    OBVIOUS
<1> HIDE DEF todo
<1>5. \A r \in Rules : Running(r)' = Running(r)
    BY <1>2, SameRuns
<1>6. \A r \in Rules : Ending(r)' \subseteq Ending(r)
    BY <1>3 DEF Ending
<1>7. ASSUME NEW r \in Rules, NEW n \in Nat, Held(r, n)' PROVE Held(r, n)
    <2>1. CASE InRule(r, n)'
        BY <1>2, <2>1 DEF Held, InRule
    <2>2. CASE InEdit(r, n)'
        BY <1>2, <2>2 DEF Held, InEdit
    <2>3. CASE InSweep(r, n)'
        <3>1. PICK x \in Procs : \E t \in procs'[x].todo : t.rule = r /\ t.next = n
            BY <2>3 DEF InSweep
        <3>2. CASE x = s
            BY <1>3, <1>4, <3>1, <3>2 DEF Held, InRule
        <3>3. CASE x # s
            BY <1>3, <3>1, <3>3 DEF Held, InSweep
        <3> QED
            BY <3>2, <3>3
    <2> QED
        BY <1>7, <2>1, <2>2, <2>3 DEF Held
<1>8. \A r \in Rules : Waiting(r)' \subseteq Waiting(r)
    BY <1>2, <1>7, NoNewDate
<1>9. \A r \in Rules : Fewer(r)
    BY <1>5, <1>6, <1>8 DEF Fewer
<1>10. CountInv /\ count'.retry + count'.manual >= count.retry + count.manual
    BY <1>2 DEF OnceInv, CountInv
<1> QED
    BY <1>9, <1>10, TicksKept

(* The runs of the other rules and their states stay as they were.           *)
LEMMA NewRun ==
    ASSUME NEW k \in RunId, StartRun(k)
    PROVE  /\ \A r \in Rules : Running(r)' \subseteq Running(r) \cup {k}
           /\ \A r \in Rules : k.rule # r \/ Exists(k) => Running(r)' \subseteq Running(r)
           /\ DOMAIN runs' = DOMAIN runs \cup {k}
<1>1. CASE Exists(k)
    BY <1>1 DEF StartRun, Running, Active, Exists
<1>2. CASE ~Exists(k)
    <2>1. runs' = [j \in DOMAIN runs \cup {k} |->
                      IF j = k THEN [status |-> "active", records |-> 0] ELSE runs[j]]
        BY <1>2 DEF StartRun
    <2>2. DOMAIN runs' = DOMAIN runs \cup {k} /\ \A j \in DOMAIN runs \ {k} : runs'[j] = runs[j]
        BY <2>1
    <2> QED
        BY <1>2, <2>2 DEF Running, Active, Exists
<1> QED
    BY <1>1, <1>2

LEMMA StartDueTicks ==
    ASSUME OnceInv, TicksInv, CountInv', NEW s \in Sweepers, StartDue(s)
    PROVE  TicksInv'
<1>1. PICK t \in procs[s].todo :
        /\ StartRun(ScheduledRun(t))
        /\ procs' = [procs EXCEPT ![s].pc = "drain", ![s].run = ScheduledRun(t),
                                  ![s].todo = @ \ {t}]
    BY DEF StartDue
<1>2. s \in Procs /\ procs[s] \in Proc /\ t \in Tick
    BY DEF OnceInv, ProcsInv, Procs, Proc
<1> DEFINE k == ScheduledRun(t)
           q == [procs[s] EXCEPT !.pc = "drain", !.run = k, !.todo = @ \ {t}]
<1>3. t.rule \in Rules /\ t.next \in Nat
    BY <1>2 DEF Tick
<1>4. k \in RunId /\ k.rule = t.rule /\ k = Key(t.rule, t.next)
    BY <1>3 DEF ScheduledRun, RunId, Key
<1>5. q \in Proc /\ q.todo \subseteq procs[s].todo /\ q.pc = "drain"
    BY <1>2, <1>4 DEF Proc, PCs
<1>6. procs' = [procs EXCEPT ![s] = q]
    BY <1>1
<1>7. UNCHANGED <<rules, edits, count>>
    BY DEF StartDue
<1> HIDE DEF q, k
<1>8. /\ \A r \in Rules : Ending(r)' \subseteq Ending(r)
      /\ \A r \in Rules, n \in Nat : InSweep(r, n)' => InSweep(r, n)
    BY <1>2, <1>5, <1>6, OneMoves
<1>9. /\ \A r \in Rules : Running(r)' \subseteq Running(r) \cup {k}
      /\ \A r \in Rules : k.rule # r \/ Exists(k) => Running(r)' \subseteq Running(r)
      /\ DOMAIN runs' = DOMAIN runs \cup {k}
    BY <1>1, <1>4, NewRun DEF k
<1>10. \A r \in Rules : Waiting(r)' \subseteq Waiting(r)
    BY <1>7, <1>8, <1>9, SameDates
<1>11. ASSUME NEW r \in Rules PROVE Fewer(r) \/ Starts(r)
    <2>1. CASE k.rule # r \/ Exists(k)
        BY <1>8, <1>9, <1>10, <2>1 DEF Fewer
    <2>2. CASE k.rule = r /\ ~Exists(k)
        <3>1. t.next \in Waiting(r)
            BY <1>2, <1>3, <1>4, <2>2 DEF Waiting, Held, InSweep
        <3>2. t.next \notin Waiting(r)'
            BY <1>4, <1>9, <2>2 DEF Waiting, Exists, Key
        <3>3. Waiting(r)' \subseteq Waiting(r) \ {t.next}
            BY <1>10, <3>2
        <3> QED
            BY <1>8, <1>9, <3>1, <3>3 DEF Starts
    <2> QED
        BY <2>1, <2>2
<1>12. CountInv /\ count'.retry + count'.manual >= count.retry + count.manual
    BY <1>7 DEF OnceInv, CountInv
<1> QED
    BY <1>11, <1>12, TicksKept

LEMMA RunNowTicks ==
    ASSUME OnceInv, TicksInv, CountInv', NEW c \in Callers, RunNow(c)
    PROVE  TicksInv'
<1> DEFINE K(r) == [rule |-> r, trigger |-> "manual", at |-> count'["manual"]]
<1>1. PICK r0 \in Rules :
        /\ StartRun(K(r0))
        /\ procs' = [procs EXCEPT ![c].pc = "drain", ![c].run = K(r0)]
    BY DEF RunNow
<1>2. UNCHANGED <<rules, edits>> /\ Counted("manual")
    BY DEF RunNow
<1>3. PICK k \in RunId : k = K(r0)
    BY DEF RunId, CountInv
<1>4. c \in Procs /\ procs[c] \in Proc
    BY DEF OnceInv, ProcsInv, Procs
<1> DEFINE q == [procs[c] EXCEPT !.pc = "drain", !.run = k]
<1>5. q \in Proc /\ q.todo = procs[c].todo /\ q.pc = "drain"
    BY <1>3, <1>4 DEF Proc, PCs
<1> HIDE DEF K
<1>6. procs' = [procs EXCEPT ![c] = q]
    BY <1>1, <1>3
<1> HIDE DEF q
<1>7. /\ \A r \in Rules : Ending(r)' \subseteq Ending(r)
      /\ \A r \in Rules, n \in Nat : InSweep(r, n)' => InSweep(r, n)
    BY <1>4, <1>5, <1>6, OneMoves
<1>8. /\ \A r \in Rules : Running(r)' \subseteq Running(r) \cup {k}
      /\ DOMAIN runs' = DOMAIN runs \cup {k}
    BY <1>1, <1>3, NewRun
<1>9. \A r \in Rules : Waiting(r)' \subseteq Waiting(r)
    BY <1>2, <1>7, <1>8, SameDates
<1>10. \A r \in Rules : Extra(r)
    BY <1>7, <1>8, <1>9 DEF Extra
<1>11. CountInv /\ count'.retry + count'.manual = count.retry + count.manual + 1
    BY <1>2 DEF OnceInv, CountInv, Counted
<1> QED
    BY <1>10, <1>11, TicksKept

LEMMA FinishTicks ==
    ASSUME OnceInv, TicksInv, CountInv', NEW p \in Procs, NEW k \in DOMAIN runs, Finish(p, k)
    PROVE  TicksInv'
<1> DEFINE q == [procs[p] EXCEPT !.pc = "subscribe", !.run = k, !.finished = now]
<1>1. k \in RunId /\ procs[p] \in Proc /\ now \in Nat /\ runs[k] \in RunRow
    BY DEF OnceInv, RunsInv, ProcsInv
<1>2. PICK status \in TERMINAL_STATUSES : runs' = [runs EXCEPT ![k].status = status]
    BY DEF Finish
<1>3. /\ DOMAIN runs' = DOMAIN runs
      /\ runs'[k].status = status
      /\ \A j \in DOMAIN runs \ {k} : runs'[j] = runs[j]
    BY <1>1, <1>2 DEF RunRow, OnceInv, RunsInv
<1>4. q \in Proc /\ q.todo = procs[p].todo /\ q.pc = "subscribe" /\ q.run = k
    BY <1>1 DEF Proc, PCs
<1>5. procs' = [procs EXCEPT ![p] = q]
    BY DEF Finish
<1>6. UNCHANGED <<rules, edits, count>> /\ Active(k)
    BY DEF Finish
<1> HIDE DEF q
<1>7. \A x \in Procs : procs'[x] = IF x = p THEN q ELSE procs[x]
    BY <1>5 DEF OnceInv, ProcsInv
<1>8. \A r \in Rules, n \in Nat : InSweep(r, n)' => InSweep(r, n)
    BY <1>4, <1>7 DEF InSweep
<1>9. \A r \in Rules : Waiting(r)' \subseteq Waiting(r)
    BY <1>3, <1>6, <1>8, SameDates
<1>10. \A r \in Rules : Running(r)' \subseteq Running(r) \ {k}
    BY <1>2, <1>3 DEF Running, Active, Exists, TERMINAL_STATUSES
<1>11. ASSUME NEW r \in Rules PROVE Fewer(r) \/ Ends(r)
    <2>1. CASE k.rule = r
        <3>1. k \in Running(r)
            BY <1>6, <2>1 DEF Running
        <3>2. Ending(r)' \subseteq Ending(r) \cup {p}
            BY <1>7 DEF Ending
        <3> QED
            BY <1>9, <1>10, <3>1, <3>2 DEF Ends
    <2>2. CASE k.rule # r
        <3>1. Ending(r)' \subseteq Ending(r)
            BY <1>4, <1>7, <2>2 DEF Ending
        <3> QED
            BY <1>9, <1>10, <3>1 DEF Fewer
    <2> QED
        BY <2>1, <2>2
<1>12. CountInv /\ count'.retry + count'.manual >= count.retry + count.manual
    BY <1>6 DEF OnceInv, CountInv
<1> QED
    BY <1>11, <1>12, TicksKept

LEMMA LeftPC ==
    ASSUME NEW p \in Procs
    PROVE  Left(p).pc \in {"idle", "drain"}
BY DEF Left, Idle

LEMMA SubscribeTicks ==
    ASSUME OnceInv, TicksInv, CountInv', NEW p \in Procs, Subscribe(p)
    PROVE  TicksInv'
<1>1. /\ procs[p].pc = "subscribe"
      /\ UNCHANGED <<now, rules, runs, edits, count, clobbered>>
    BY DEF Subscribe, At
<1>2. procs[p] \in Proc
    BY DEF OnceInv, ProcsInv
<1>3. CASE Published(p)
    BY <1>1, <1>3, PublishedFacts, LeftPC, OneOnlyMoves
<1>4. CASE ~rules[procs[p].run.rule].deleted
    <2> DEFINE active == rules[procs[p].run.rule].active
               q == [procs[p] EXCEPT !.pc = "record", !.active = active]
    <2>1. procs[p].run.rule \in Rules
        BY <1>2 DEF Proc, RunId
    <2>2. active \in BOOLEAN
        BY <2>1 DEF OnceInv, RulesInv, RuleRow
    <2> HIDE DEF active
    <2>3. q \in Proc /\ q.todo = procs[p].todo /\ q.run = procs[p].run
        BY <1>2, <2>2 DEF Proc, PCs
    <2>4. procs' = [procs EXCEPT ![p] = q]
        BY <1>4 DEF Subscribe, active
    <2> HIDE DEF q
    <2> QED
        BY <1>1, <2>3, <2>4, OneOnlyMoves
<1> QED
    BY <1>3, <1>4 DEF Subscribe

LEMMA RecordTicks ==
    ASSUME OnceInv, TicksInv, CountInv', NEW p \in Procs, Record(p)
    PROVE  TicksInv'
<1> DEFINE k == procs[p].run
           q == [procs[p] EXCEPT !.pc = "advance"]
<1>1. procs[p].pc = "record" /\ UNCHANGED <<rules, edits, count>>
    BY DEF Record, At
<1>2. procs[p] \in Proc /\ k \in DOMAIN runs /\ runs[k] \in RunRow
    BY <1>1 DEF OnceInv, ProcsInv, RunsInv, Exists
<1>3. runs' = [runs EXCEPT ![k] = [runs[k] EXCEPT !.records = @ + 1]]
    BY DEF Record
<1>4. DOMAIN runs' = DOMAIN runs /\ \A j \in DOMAIN runs : runs'[j].status = runs[j].status
    BY <1>2, <1>3 DEF RunRow, OnceInv, RunsInv
<1>5. q \in Proc /\ q.todo = procs[p].todo /\ q.run = k
    BY <1>2 DEF Proc, PCs
<1>6. procs' = [procs EXCEPT ![p] = q]
    BY DEF Record, Goto
<1> HIDE DEF q
<1> QED
    BY <1>1, <1>4, <1>5, <1>6, OneOnlyMoves

(* The end becomes the new next_run_at: a date of that rule and of no other. *)
LEMMA AdvanceTicks ==
    ASSUME OnceInv, TicksInv, CountInv', NEW p \in Procs, AdvanceSchedule(p)
    PROVE  TicksInv'
<1>1. procs[p].pc = "advance" /\ Published(p) /\ UNCHANGED <<runs, edits, count>>
    BY DEF AdvanceSchedule, At
<1>2. procs[p] \in Proc
    BY DEF OnceInv, ProcsInv
<1>3. PICK r0 \in Rules : r0 = procs[p].run.rule
    BY <1>2 DEF Proc, RunId
<1>4. PICK n0 : n0 = NextRunAt(r0, procs[p].finished)
    OBVIOUS
<1>5. \A r \in Rules : rules'[r].next = IF r = r0 THEN n0 ELSE rules[r].next
    BY <1>3, <1>4 DEF AdvanceSchedule, OnceInv, RulesInv, RuleRow
<1>6. \A x \in Procs : procs'[x] = IF x = p THEN Left(p) ELSE procs[x]
    BY <1>1, PublishedFacts DEF OnceInv, ProcsInv
<1>7. Left(p).todo \subseteq procs[p].todo /\ Left(p).pc \in {"idle", "drain"}
    BY <1>1, PublishedFacts, LeftPC
<1>8. \A r \in Rules : Running(r)' = Running(r)
    BY <1>1, SameRuns
<1>9. \A r \in Rules : Ending(r)' \subseteq Ending(r) \ {p}
    BY <1>6, <1>7 DEF Ending
<1>10. ASSUME NEW r \in Rules, NEW n \in Nat, Held(r, n)'
       PROVE  Held(r, n) \/ (r = r0 /\ n = n0)
    <2>1. CASE InRule(r, n)'
        BY <1>5, <2>1 DEF Held, InRule
    <2>2. CASE InEdit(r, n)'
        BY <1>1, <2>2 DEF Held, InEdit
    <2>3. CASE InSweep(r, n)'
        BY <1>6, <1>7, <2>3 DEF Held, InSweep
    <2> QED
        BY <1>10, <2>1, <2>2, <2>3 DEF Held
<1>11. ASSUME NEW r \in Rules PROVE Fewer(r) \/ Advances(r)
    <2>1. CASE r = r0
        <3>1. p \in Ending(r)
            BY <1>1, <1>3, <2>1 DEF Ending
        <3>2. Waiting(r)' \subseteq Waiting(r) \cup {n0}
            BY <1>1, <1>10 DEF Waiting, Exists, Key
        <3> QED
            BY <1>8, <1>9, <3>1, <3>2 DEF Advances
    <2>2. CASE r # r0
        <3>1. Waiting(r)' \subseteq Waiting(r)
            BY <1>1, <1>10, <2>2 DEF Waiting, Exists, Key
        <3> QED
            BY <1>8, <1>9, <3>1 DEF Fewer
    <2> QED
        BY <2>1, <2>2
<1>12. CountInv /\ count'.retry + count'.manual >= count.retry + count.manual
    BY <1>1 DEF OnceInv, CountInv
<1> QED
    BY <1>11, <1>12, TicksKept

LEMMA ReturnTicks ==
    ASSUME OnceInv, TicksInv, CountInv', NEW p \in Procs, Return(p),
           UNCHANGED <<rules, runs, edits>>,
           count'.retry = count.retry /\ count'.manual = count.manual
    PROVE  TicksInv'
<1>1. Idle \in Proc /\ Idle.todo = {} /\ Idle.pc = "idle"
    BY Constants DEF Idle
<1>2. procs' = [procs EXCEPT ![p] = Idle]
    BY DEF Return
<1> QED
    BY <1>1, <1>2, OneOnlyMoves

LEMMA WaitTicks ==
    ASSUME OnceInv, TicksInv, CountInv', NEW p \in Procs, SeesEnd(p) \/ Read(p) \/ TimeOut(p)
    PROVE  TicksInv'
<1>1. UNCHANGED <<now, rules, runs, edits, count, clobbered>>
    BY DEF SeesEnd, Read, TimeOut
<1>2. procs[p] \in Proc
    BY DEF OnceInv, ProcsInv
<1>3. CASE Goto(p, "read")
    <2> DEFINE q == [procs[p] EXCEPT !.pc = "read"]
    <2>1. q \in Proc /\ q.todo = procs[p].todo /\ q.pc = "read"
        BY <1>2 DEF Proc, PCs
    <2>2. procs' = [procs EXCEPT ![p] = q]
        BY <1>3 DEF Goto
    <2> HIDE DEF q
    <2> QED
        BY <1>1, <2>1, <2>2, OneOnlyMoves
<1>4. CASE Return(p)
    BY <1>1, <1>4, ReturnTicks
<1>5. CASE procs' = [procs EXCEPT ![p] = [Idle EXCEPT !.pc = "pick", !.todo = procs[p].todo]]
    <2> DEFINE q == [Idle EXCEPT !.pc = "pick", !.todo = procs[p].todo]
    <2>1. procs[p].todo \subseteq Tick
        BY <1>2 DEF Proc
    <2>2. q \in Proc /\ q.todo = procs[p].todo /\ q.pc = "pick"
        BY <2>1, Constants DEF Proc, PCs, Idle
    <2>3. procs' = [procs EXCEPT ![p] = q]
        BY <1>5
    <2> HIDE DEF q
    <2> QED
        BY <1>1, <2>2, <2>3, OneOnlyMoves
<1> QED
    BY <1>3, <1>4, <1>5 DEF SeesEnd, Read, TimeOut

(* Users move dates about: what is held afterwards was held before.          *)
LEMMA UsersMove ==
    ASSUME OnceInv, TicksInv, CountInv', UNCHANGED <<runs, procs>>,
           \A r \in Rules, n \in Nat : InRule(r, n)' \/ InEdit(r, n)' => Held(r, n),
           count'.retry = count.retry /\ count'.manual = count.manual
    PROVE  TicksInv'
<1>1. \A r \in Rules : Running(r)' = Running(r)
    BY SameRuns
<1>2. \A r \in Rules : Ending(r)' \subseteq Ending(r)
    BY DEF Ending
<1>3. \A r \in Rules, n \in Nat : Held(r, n)' => Held(r, n)
    BY DEF Held, InSweep
<1>4. \A r \in Rules : Waiting(r)' \subseteq Waiting(r)
    BY <1>3, NoNewDate
<1>5. \A r \in Rules : Fewer(r)
    BY <1>1, <1>2, <1>4 DEF Fewer
<1>6. CountInv /\ count'.retry + count'.manual >= count.retry + count.manual
    BY DEF OnceInv, CountInv
<1> QED
    BY <1>5, <1>6, TicksKept

LEMMA CountsUsers ==
    ASSUME OnceInv, NEW event \in {"edit", "crash"}, Counted(event)
    PROVE  count'.retry = count.retry /\ count'.manual = count.manual
BY DEF OnceInv, CountInv, Counted

LEMMA FetchForEditTicks ==
    ASSUME OnceInv, TicksInv, CountInv', NEW e \in Editors, NEW r \in Rules, FetchForEdit(e, r)
    PROVE  TicksInv'
<1>1. UNCHANGED <<now, rules, runs, procs, clobbered>> /\ Counted("edit")
    BY DEF FetchForEdit
<1>2. edits' = [edits EXCEPT ![e] = [rule |-> r, row |-> rules[r]]]
    BY DEF FetchForEdit
<1>3. \A x \in Editors : edits'[x] = IF x = e THEN [rule |-> r, row |-> rules[r]] ELSE edits[x]
    BY <1>2 DEF OnceInv, EditsInv
<1>4. \A q \in Rules, n \in Nat : InRule(q, n)' \/ InEdit(q, n)' => Held(q, n)
    BY <1>1, <1>3 DEF InRule, InEdit, Held
<1> QED
    BY <1>1, <1>4, CountsUsers, UsersMove

LEMMA SaveEditTicks ==
    ASSUME OnceInv, TicksInv, CountInv', NEW e \in Editors, SaveEdit(e)
    PROVE  TicksInv'
<1>1. edits[e] # NoEdit /\ UNCHANGED <<now, runs, procs, count>>
    BY DEF SaveEdit
<1>2. edits[e].rule \in Rules /\ edits[e].row \in RuleRow
    BY DEF OnceInv, EditsInv
<1>3. PICK r0 \in Rules : r0 = edits[e].rule
    BY <1>2
<1>4. \A r \in Rules : rules'[r].next = IF r = r0 THEN edits[e].row.next ELSE rules[r].next
    BY <1>2, <1>3 DEF SaveEdit, OnceInv, RulesInv, RuleRow
<1>5. \A x \in Editors : edits'[x] = IF x = e THEN NoEdit ELSE edits[x]
    BY DEF SaveEdit, OnceInv, EditsInv
<1>6. ASSUME NEW r \in Rules, NEW n \in Nat, InRule(r, n)' PROVE Held(r, n)
    BY <1>1, <1>3, <1>4, <1>6 DEF InRule, InEdit, Held
<1>7. ASSUME NEW r \in Rules, NEW n \in Nat, InEdit(r, n)' PROVE Held(r, n)
    <2>1. NoEdit' = NoEdit
        BY DEF NoEdit
    <2> QED
        BY <1>5, <1>7, <2>1 DEF InEdit, Held
<1> QED
    BY <1>1, <1>6, <1>7, UsersMove

LEMMA DeleteTicks ==
    ASSUME OnceInv, TicksInv, CountInv', NEW r \in Rules, Delete(r)
    PROVE  TicksInv'
<1>1. UNCHANGED <<now, runs, procs, edits, clobbered>> /\ Counted("edit")
    BY DEF Delete
<1>2. \A q \in Rules : rules'[q].next = rules[q].next
    BY DEF Delete, OnceInv, RulesInv, RuleRow
<1>3. \A q \in Rules, n \in Nat : InRule(q, n)' \/ InEdit(q, n)' => Held(q, n)
    BY <1>1, <1>2 DEF InRule, InEdit, Held
<1> QED
    BY <1>1, <1>3, CountsUsers, UsersMove

LEMMA RetryTicks ==
    ASSUME OnceInv, TicksInv, CountInv', NEW k \in DOMAIN runs, Retry(k)
    PROVE  TicksInv'
<1>1. UNCHANGED <<now, rules, procs, edits, clobbered>> /\ Counted("retry")
    BY DEF Retry
<1>2. DOMAIN runs' = DOMAIN runs /\ \A j \in DOMAIN runs \ {k} : runs'[j] = runs[j]
    BY DEF Retry
<1>3. \A r \in Rules : Running(r)' \subseteq Running(r) \cup {k}
    BY <1>2 DEF Running, Active, Exists
<1>4. \A r \in Rules : Ending(r)' \subseteq Ending(r)
    BY <1>1 DEF Ending
<1>5. \A r \in Rules, n \in Nat : InSweep(r, n)' => InSweep(r, n)
    BY <1>1 DEF InSweep
<1>6. \A r \in Rules : Waiting(r)' \subseteq Waiting(r)
    BY <1>1, <1>2, <1>5, SameDates
<1>7. \A r \in Rules : Extra(r)
    BY <1>3, <1>4, <1>6 DEF Extra
<1>8. CountInv /\ count'.retry + count'.manual = count.retry + count.manual + 1
    BY <1>1 DEF OnceInv, CountInv, Counted
<1> QED
    BY <1>7, <1>8, TicksKept

LEMMA IdleTicks ==
    ASSUME OnceInv, TicksInv, CountInv', UNCHANGED vars \/ ClockTicks
    PROVE  TicksInv'
<1>1. UNCHANGED <<rules, runs, procs, edits, count>>
    BY DEF vars, ClockTicks
<1>2. \A q \in Rules, n \in Nat : InRule(q, n)' \/ InEdit(q, n)' => Held(q, n)
    BY <1>1 DEF InRule, InEdit, Held
<1> QED
    BY <1>1, <1>2, UsersMove

LEMMA InitTicks == Init => TicksInv
<1> SUFFICES ASSUME Init, NEW r \in Rules
             PROVE  /\ IsFiniteSet(Running(r)) /\ IsFiniteSet(Ending(r)) /\ IsFiniteSet(Waiting(r))
                    /\ Cardinality(Running(r)) + Cardinality(Ending(r)) + Cardinality(Waiting(r))
                          <= 1 + count.retry + count.manual
    BY DEF TicksInv
<1>1. Running(r) = {}
    BY DEF Init, Running
<1>2. Ending(r) = {}
    BY DEF Init, Ending, Idle
<1>3. Waiting(r) \subseteq {First}
    BY DEF Init, Waiting, Held, InRule, InEdit, InSweep, Idle, First
<1>4. IsFiniteSet({First}) /\ Cardinality({First}) = 1
    BY FS_Singleton
<1>5. IsFiniteSet(Waiting(r)) /\ Cardinality(Waiting(r)) <= 1 /\ Cardinality(Waiting(r)) \in Nat
    BY <1>3, <1>4, NoMore
<1>6. IsFiniteSet({}) /\ Cardinality({}) = 0
    BY FS_EmptySet
<1>7. count.retry = 0 /\ count.manual = 0
    BY DEF Init
<1> QED
    BY <1>1, <1>2, <1>5, <1>6, <1>7

LEMMA NextTicks == OnceInv /\ TicksInv /\ [Next]_vars => TicksInv'
<1> SUFFICES ASSUME OnceInv, TicksInv, [Next]_vars PROVE TicksInv'
    OBVIOUS
<1>1. CountInv'
    BY NextOnce DEF OnceInv
<1>2. ASSUME NEW p \in Procs, Drain(p) PROVE TicksInv'
    BY <1>1, <1>2, FinishTicks, SubscribeTicks, RecordTicks, AdvanceTicks, WaitTicks DEF Drain
<1>3. ASSUME NEW p \in Procs, Crash(p) PROVE TicksInv'
    <2>1. UNCHANGED <<now, rules, runs, edits, clobbered>> /\ Counted("crash") /\ Return(p)
        BY <1>3 DEF Crash
    <2> QED
        BY <1>1, <2>1, CountsUsers, ReturnTicks
<1>4. ASSUME NEW s \in Sweepers, Sweep(s) PROVE TicksInv'
    BY <1>1, <1>2, <1>4, ListTicks, StartDueTicks DEF Sweep, Procs
<1>5. ASSUME NEW c \in Callers, RunNow(c) \/ Drain(c) PROVE TicksInv'
    BY <1>1, <1>2, <1>5, RunNowTicks DEF Procs
<1>6. ASSUME NEW t \in Tickers, Drain(t) PROVE TicksInv'
    BY <1>2, <1>6 DEF Procs
<1>7. ASSUME NEW e \in Editors, SaveEdit(e) \/ \E r \in Rules : FetchForEdit(e, r) PROVE TicksInv'
    BY <1>1, <1>7, SaveEditTicks, FetchForEditTicks
<1> QED
    BY <1>1, <1>3, <1>4, <1>5, <1>6, <1>7, DeleteTicks, RetryTicks, IdleTicks DEF Next

(* Overlapping sweeps that hold old copies of a rule do not run it twice at  *)
(* a time: the idempotency key of run_rule (services.py) turns equal dates   *)
(* into one run, and a new date is only written at the end of a run.  Two    *)
(* ticks are active together only after a run-now or a retry.                *)
THEOREM OneTickActive == Spec => []OneActiveTick
<1>1. OnceInv /\ TicksInv => OneActiveTick
    <2> SUFFICES ASSUME OnceInv, TicksInv, NEW r \in Rules
                 PROVE  Cardinality({k \in Scheduled(r) : Active(k)}) <= 1 + count.retry + count.manual
        BY DEF OneActiveTick
    <2> DEFINE ticks == {k \in Scheduled(r) : Active(k)}
               R == Cardinality(Running(r))
               E == Cardinality(Ending(r))
               W == Cardinality(Waiting(r))
    <2>1. ticks \subseteq Running(r)
        BY DEF Scheduled, Running
    <2>2. /\ IsFiniteSet(Running(r)) /\ IsFiniteSet(Ending(r)) /\ IsFiniteSet(Waiting(r))
          /\ R + E + W <= 1 + count.retry + count.manual
        BY DEF TicksInv
    <2>3. R \in Nat /\ E \in Nat /\ W \in Nat
        BY <2>2, FS_CardinalityType
    <2>4. Cardinality(ticks) \in Nat /\ Cardinality(ticks) <= R
        BY <2>1, <2>2, NoMore
    <2>5. count.retry \in Nat /\ count.manual \in Nat
        BY DEF OnceInv, CountInv
    <2> HIDE DEF ticks, R, E, W
    <2>6. Cardinality(ticks) <= 1 + count.retry + count.manual
        BY <2>2, <2>3, <2>4, <2>5
    <2> QED
        BY <2>6 DEF ticks
<1> QED
    BY <1>1, InitOnce, NextOnce, InitTicks, NextTicks, PTL DEF Spec
=============================================================================
