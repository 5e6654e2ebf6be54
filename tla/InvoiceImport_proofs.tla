------------------------ MODULE InvoiceImport_proofs ------------------------
(***************************************************************************)
(* For any upload and any number of workers and operators: types, that a   *)
(* committed item is on the register, that register and items agree, that  *)
(* a terminal status is left through old copies only, that no scan is      *)
(* forgotten and that the batch says what its items are.  The argument:    *)
(* what an actor has in hand (InHand), that a lease has one reader         *)
(* (OneReads) and that the batch is never ahead of its items (BatchInv).   *)
(***************************************************************************)
EXTENDS InvoiceImport, TLAPS

(* A run that is due has an attempt left; a scan without item has no run     *)
(* under way, and nothing else of an item.                                   *)
RunsBudgeted ==
    \A s \in Scans :
        /\ items[s].status = "missing" => items[s] = NoItem
        /\ items[s] = NoItem => runs[s].state \in {"none", "over"} /\ runs[s].attempt < MAX_OCR_ATTEMPTS
        /\ runs[s].state = "due" => runs[s].attempt < MAX_OCR_ATTEMPTS

TInv == TypeOK /\ RunsBudgeted

Run == [state : {"none", "due", "leased", "over", "failed"}, attempt : 0 .. MAX_OCR_ATTEMPTS]

-----------------------------------------------------------------------------
LEMMA NoItemType == NoItem \in Item /\ NoItem.status = "missing" /\ NoItem.number = Missing
BY DEF NoItem, Item, Missing

LEMMA AwayType == Away \in Desk /\ Away.pc = "away" /\ Away.op = "none"
<1>1. 1 \in 1 .. Len(Upload) /\ Upload[1] \in Scans
    BY UploadAssumption
<1>2. [s \in Scans |-> NoItem] \in [Scans -> Item]
    BY NoItemType
<1> QED BY <1>1, <1>2, NoItemType DEF Away, Desk, BatchStatus

LEMMA UploaderActs == Uploader \in Actors /\ Workers \subseteq Actors /\ Operators \subseteq Actors
BY DEF Actors

LEMMA DeskTyped ==
    ASSUME TypeOK, NEW a \in Actors, NEW d \in Desk, desks' = [desks EXCEPT ![a] = d]
    PROVE  desks' \in [Actors -> Desk]
BY DEF TypeOK

LEMMA LeaveTyped ==
    ASSUME TypeOK, NEW a \in Actors, Leave(a)
    PROVE  desks' \in [Actors -> Desk]
BY AwayType, DeskTyped DEF Leave

LEMMA RefreshingType ==
    ASSUME NEW d \in Desk
    PROVE  /\ Refreshing(d) \in Desk
           /\ Refreshing(d).pc = "look" /\ Refreshing(d).scan = d.scan
           /\ Refreshing(d).op = IF d.op \in {"read", "commit", "commit all"} THEN d.op ELSE "close"
BY NoItemType DEF Refreshing, Desk

(* Saving an item that is one.                                               *)
LEMMA SaveTyped ==
    ASSUME TInv, NEW a \in Actors, NEW item \in Item, item.status # "missing", SaveItem(a, item), runs' = runs
    PROVE  /\ items' \in [Scans -> Item] /\ stale' \subseteq Scans /\ torn' \in BOOLEAN
           /\ RunsBudgeted'
<1>1. desks[a].scan \in Scans
    BY DEF TInv, TypeOK, Desk
<1>2. torn \in BOOLEAN /\ items \in [Scans -> Item] /\ stale \subseteq Scans
    BY DEF TInv, TypeOK
<1>3. item # NoItem
    BY NoItemType
<1> QED BY <1>1, <1>2, <1>3 DEF SaveItem, TInv, RunsBudgeted

LEMMA FieldSaved ==
    ASSUME NEW i \in Item
    PROVE  /\ \A v \in Terminal \cup {"processing", "failed", "queued"} :
                 /\ [i EXCEPT !.status = v] \in Item /\ [i EXCEPT !.status = v] # NoItem
                 /\ [i EXCEPT !.status = v].status # "missing"
           /\ \A n \in Numbers \cup {Missing} :
                 [i EXCEPT !.number = n] \in Item /\ [i EXCEPT !.number = n].status = i.status
           /\ \A n \in Numbers : /\ Linked(i, n) \in Item /\ Linked(i, n) # NoItem
                                /\ Linked(i, n).status # "missing"
<1>0. ASSUME NEW j \in Item, j.status # "missing" PROVE j # NoItem
    BY <1>0, NoItemType
<1>2. ASSUME NEW v \in Terminal \cup {"processing", "failed", "queued"}
      PROVE  /\ [i EXCEPT !.status = v] \in Item /\ [i EXCEPT !.status = v] # NoItem
             /\ [i EXCEPT !.status = v].status # "missing"
    <2>1. [i EXCEPT !.status = v] \in Item /\ [i EXCEPT !.status = v].status = v
        BY DEF Item, Terminal, Active
    <2>2. v # "missing"
        BY DEF Terminal
    <2> QED BY <2>1, <2>2, NoItemType
<1>3. ASSUME NEW n \in Numbers \cup {Missing}
      PROVE  [i EXCEPT !.number = n] \in Item /\ [i EXCEPT !.number = n].status = i.status
    BY DEF Item
<1>4. ASSUME NEW n \in Numbers
      PROVE  Linked(i, n) \in Item /\ Linked(i, n) # NoItem /\ Linked(i, n).status # "missing"
    <2>1. Linked(i, n) \in Item /\ Linked(i, n).status = "committed"
        BY DEF Linked, Item, Terminal
    <2> QED BY <2>1, <1>0
<1>5. \A v \in Terminal \cup {"processing", "failed", "queued"} :
         /\ [i EXCEPT !.status = v] \in Item /\ [i EXCEPT !.status = v] # NoItem
         /\ [i EXCEPT !.status = v].status # "missing"
    BY <1>2
<1>6. \A n \in Numbers \cup {Missing} :
         [i EXCEPT !.number = n] \in Item /\ [i EXCEPT !.number = n].status = i.status
    BY <1>3
<1>7. \A n \in Numbers : Linked(i, n) \in Item /\ Linked(i, n) # NoItem /\ Linked(i, n).status # "missing"
    BY <1>4
<1> QED BY <1>5, <1>6, <1>7

LEMMA InitTyped == Init => TInv
<1> SUFFICES ASSUME Init PROVE TInv
    OBVIOUS
<1>1. items \in [Scans -> Item]
    BY NoItemType DEF Init
<1>2. runs \in [Scans -> Run]
    BY AttemptAssumption DEF Init, NoRun, Run
<1>3. \A s \in Scans : runs[s] = NoRun /\ NoRun.state = "none"
    BY DEF Init, NoRun
<1>4. register \in [Numbers -> Scans \cup {"other", "free"}]
    BY DEF Init
<1>5. desks \in [Actors -> Desk]
    <2>1. [Away EXCEPT !.pc = "store", !.op = "upload"] \in Desk
        BY AwayType DEF Desk
    <2> QED BY <2>1, AwayType DEF Init
<1>6. RunsBudgeted
    <2>1. \A s \in Scans : items[s] = NoItem
        BY DEF Init
    <2> QED BY <1>3, <2>1, AttemptAssumption DEF RunsBudgeted, NoRun
<1>7. clicks \in 0 .. MaxClicks /\ kills \in 0 .. MaxKills
    BY BoundAssumption DEF Init
<1>8. batch \in BatchStatus /\ stale \subseteq Scans /\ torn \in BOOLEAN
    BY DEF Init, BatchStatus
<1> QED BY <1>1, <1>2, <1>4, <1>5, <1>6, <1>7, <1>8 DEF TInv, TypeOK, Run

LEMMA ImpliedType ==
    ASSUME NEW b \in BatchStatus, NEW rows
    PROVE  Implied(rows, b) \in BatchStatus
BY DEF Implied, BatchStatus

-----------------------------------------------------------------------------
(* The refresh and the end of a request.                                     *)
LEMMA AfterRefreshType ==
    ASSUME NEW d \in Desk
    PROVE  /\ AfterRefresh(d) \in Desk
           /\ AfterRefresh(d).pc \in {"away", "next"} /\ AfterRefresh(d).op \in {"none", "commit", "commit all"}
           /\ AfterRefresh(d).pc = "next" => AfterRefresh(d).op # "none"
<1>1. CASE d.op \in {"commit", "commit all"}
    <2>1. [Away EXCEPT !.pc = "next", !.op = d.op, !.copies = d.copies, !.own = d.own] \in Desk
        BY <1>1, AwayType DEF Desk
    <2>2. AfterRefresh(d).pc = "next" /\ AfterRefresh(d).op = d.op
        BY <1>1, AwayType DEF AfterRefresh, Desk
    <2> QED BY <1>1, <2>1, <2>2 DEF AfterRefresh
<1>2. CASE d.op \notin {"commit", "commit all"}
    BY <1>2, AwayType DEF AfterRefresh
<1> QED BY <1>1, <1>2

LEMMA FinishTyped ==
    ASSUME TInv, NEW a \in Actors, Finish(a)
    PROVE  /\ desks' = [desks EXCEPT ![a] = AfterRefresh(desks[a])]
           /\ desks' \in [Actors -> Desk] /\ runs' \in [Scans -> Run]
           /\ items' = items => RunsBudgeted'
           /\ \A s \in Scans : runs'[s] = runs[s] \/ (desks[a].op = "read" /\ desks[a].scan = s /\ runs'[s] = Over)
<1>1. desks' = [desks EXCEPT ![a] = AfterRefresh(desks[a])]
    BY DEF Finish
<1>2. desks[a] \in Desk /\ desks[a].scan \in Scans /\ runs \in [Scans -> Run]
    BY DEF TInv, TypeOK, Desk, Run
<1>3. Over \in Run
    BY AttemptAssumption DEF Over, Run
<1>4. runs' = IF desks[a].op = "read" THEN [runs EXCEPT ![desks[a].scan] = Over] ELSE runs
    BY DEF Finish
<1>5. runs' \in [Scans -> Run]
    BY <1>2, <1>3, <1>4
<1>6. items' = items => RunsBudgeted'
    <2>1. Over.state = "over" /\ Over.attempt < MAX_OCR_ATTEMPTS
        BY AttemptAssumption DEF Over
    <2> QED BY <1>2, <1>4, <2>1 DEF TInv, RunsBudgeted
<1>7. desks' \in [Actors -> Desk]
    BY <1>1, <1>2, AfterRefreshType, DeskTyped DEF TInv
<1>8. \A s \in Scans : runs'[s] = runs[s] \/ (desks[a].op = "read" /\ desks[a].scan = s /\ runs'[s] = Over)
    BY <1>2, <1>4
<1> QED BY <1>1, <1>5, <1>6, <1>7, <1>8

LEMMA RefreshTyped ==
    ASSUME TInv, NEW a \in Actors, Refresh(a)
    PROVE  TInv'
<1>0. desks[a] \in Desk /\ batch \in BatchStatus
    BY DEF TInv, TypeOK
<1>1. CASE Look(a)
    <2> DEFINE d == [desks[a] EXCEPT !.pc = "weigh", !.seen = batch]
    <2>1. d \in Desk /\ desks' = [desks EXCEPT ![a] = d]
        BY <1>0, <1>1 DEF Desk, Look
    <2> HIDE DEF d
    <2>2. desks' \in [Actors -> Desk]
        BY <2>1, DeskTyped DEF TInv
    <2> QED BY <2>2, <1>1 DEF Look, TInv, TypeOK, RunsBudgeted
<1>2. CASE Weigh(a)
    <2> DEFINE want == Implied(items, desks[a].seen)
               d == [desks[a] EXCEPT !.pc = "write", !.seen = want]
    <2>1. want \in BatchStatus
        BY <1>0, ImpliedType DEF Desk
    <2>2. d \in Desk
        BY <1>0, <2>1 DEF Desk
    <2>3. Finish(a) \/ (desks' = [desks EXCEPT ![a] = d] /\ UNCHANGED runs)
        BY <1>2 DEF Weigh
    <2> HIDE DEF d, want
    <2>4. UNCHANGED <<items, batch, register, stale, torn, clicks, kills>>
        BY <1>2 DEF Weigh
    <2>5. ASSUME Finish(a) PROVE TInv'
        BY <2>4, <2>5, FinishTyped DEF TInv, TypeOK, Run
    <2>6. ASSUME desks' = [desks EXCEPT ![a] = d] /\ UNCHANGED runs PROVE TInv'
        <3>1. desks' \in [Actors -> Desk]
            BY <2>2, <2>6, DeskTyped DEF TInv
        <3> QED BY <2>4, <2>6, <3>1 DEF TInv, TypeOK, RunsBudgeted
    <2> QED BY <2>3, <2>5, <2>6
<1>3. CASE WriteBatch(a)
    <2>1. Finish(a) /\ batch' = desks[a].seen /\ UNCHANGED <<items, register, stale, clicks, kills>>
        BY <1>3 DEF WriteBatch
    <2>2. batch' \in BatchStatus
        BY <1>0, <2>1 DEF Desk
    <2>3. torn' \in BOOLEAN
        BY <1>3 DEF WriteBatch, TInv, TypeOK
    <2> QED BY <2>1, <2>2, <2>3, FinishTyped DEF TInv, TypeOK, Run
<1> QED BY <1>1, <1>2, <1>3 DEF Refresh

LEMMA AddTyped ==
    ASSUME TInv, NEW s \in Scans, AddItem(s)
    PROVE  /\ items' \in [Scans -> Item] /\ torn' \in BOOLEAN /\ items'[s] # NoItem
           /\ \A t \in Scans : items'[t] = NoItem => items[t] = NoItem
           /\ items'[s].status # "missing" /\ \A t \in Scans \ {s} : items'[t] = items[t]
<1>1. items \in [Scans -> Item] /\ items[s] \in Item /\ torn \in BOOLEAN
    BY DEF TInv, TypeOK
<1>2. items' = [items EXCEPT ![s] = [items[s] EXCEPT !.status = "queued"]]
    BY DEF AddItem
<1>3. torn' \in BOOLEAN
    BY <1>1 DEF AddItem
<1>4. items'[s] = [items[s] EXCEPT !.status = "queued"] /\ \A t \in Scans \ {s} : items'[t] = items[t]
    BY <1>1, <1>2
<1>5. /\ [items[s] EXCEPT !.status = "queued"] \in Item
      /\ [items[s] EXCEPT !.status = "queued"] # NoItem
      /\ [items[s] EXCEPT !.status = "queued"].status # "missing"
    BY <1>1, FieldSaved
<1> QED BY <1>1, <1>2, <1>3, <1>4, <1>5

(* A new item may get a run, or be left without one.                         *)
LEMMA AddBudgeted ==
    ASSUME TInv, NEW s \in Scans, AddItem(s), runs'[s].attempt < MAX_OCR_ATTEMPTS,
           \A t \in Scans \ {s} : runs'[t] = runs[t]
    PROVE  RunsBudgeted'
<1>1. items'[s] # NoItem /\ items'[s].status # "missing" /\ \A t \in Scans \ {s} : items'[t] = items[t]
    BY AddTyped
<1>2. ASSUME NEW t \in Scans
      PROVE  /\ items'[t].status = "missing" => items'[t] = NoItem
             /\ items'[t] = NoItem => runs'[t].state \in {"none", "over"} /\ runs'[t].attempt < MAX_OCR_ATTEMPTS
             /\ runs'[t].state = "due" => runs'[t].attempt < MAX_OCR_ATTEMPTS
    <2>1. CASE t = s
        BY <1>1, <2>1
    <2>2. CASE t # s
        <3>1. items'[t] = items[t] /\ runs'[t] = runs[t]
            BY <1>1, <2>2
        <3>2. /\ items[t].status = "missing" => items[t] = NoItem
              /\ items[t] = NoItem => runs[t].state \in {"none", "over"} /\ runs[t].attempt < MAX_OCR_ATTEMPTS
              /\ runs[t].state = "due" => runs[t].attempt < MAX_OCR_ATTEMPTS
            BY DEF TInv, RunsBudgeted
        <3> QED BY <3>1, <3>2
    <2> QED BY <2>1, <2>2
<1> QED BY <1>2 DEF RunsBudgeted

LEMMA UploadTyped ==
    ASSUME TInv, UploadStep
    PROVE  TInv'
<1>0. desks[Uploader] \in Desk /\ desks[Uploader].file \in 1 .. Len(Upload)
    BY UploaderActs DEF TInv, TypeOK, Desk
<1> DEFINE s == Upload[desks[Uploader].file]
<1>1. s \in Scans
    BY <1>0, UploadAssumption
<1>2. ASSUME NextFile PROVE desks' \in [Actors -> Desk]
    <2> DEFINE d == desks[Uploader]
    <2>1. desks' = [desks EXCEPT ![Uploader] =
              IF d.file < Len(Upload) THEN [d EXCEPT !.file = d.file + 1] ELSE [d EXCEPT !.pc = "weigh", !.op = "close"]]
        BY <1>2 DEF NextFile
    <2>2. d.file < Len(Upload) => d.file + 1 \in 1 .. Len(Upload)
        BY <1>0, UploadAssumption
    <2>3. (IF d.file < Len(Upload) THEN [d EXCEPT !.file = d.file + 1] ELSE [d EXCEPT !.pc = "weigh", !.op = "close"]) \in Desk
        BY <1>0, <2>2 DEF Desk
    <2> QED BY <2>1, <2>3, UploaderActs, DeskTyped DEF TInv
<1>3. CASE Store
    <2>1. AddItem(s) /\ NextFile /\ runs' = [runs EXCEPT ![s].state = "due"] /\ UNCHANGED <<batch, register, stale, clicks, kills>>
        BY <1>3 DEF Store
    <2>2. runs \in [Scans -> Run] /\ runs[s].attempt < MAX_OCR_ATTEMPTS
        BY <1>1, <2>1 DEF AddItem, TInv, TypeOK, RunsBudgeted, Run
    <2>3. [runs[s] EXCEPT !.state = "due"] \in Run
        BY <1>1, <2>2 DEF Run
    <2>4. runs' \in [Scans -> Run] /\ runs'[s].attempt < MAX_OCR_ATTEMPTS /\ \A t \in Scans \ {s} : runs'[t] = runs[t]
        BY <1>1, <2>1, <2>2, <2>3 DEF Run
    <2> HIDE DEF s
    <2>5. RunsBudgeted'
        BY <1>1, <2>1, <2>4, AddBudgeted
    <2> QED BY <1>1, <1>2, <2>1, <2>4, <2>5, AddTyped DEF TInv, TypeOK, Run
<1>4. CASE SkipFile
    BY <1>2, <1>4 DEF SkipFile, TInv, TypeOK, RunsBudgeted
<1>5. CASE AbortUpload
    <2>1. desks' \in [Actors -> Desk] /\ UNCHANGED <<runs, batch, register, stale, clicks>>
        BY <1>5, UploaderActs, LeaveTyped DEF AbortUpload, TInv
    <2>2. CASE UNCHANGED <<items, torn, kills>>
        BY <2>1, <2>2 DEF TInv, TypeOK, RunsBudgeted
    <2>3. CASE kills < MaxKills /\ kills' = kills + 1 /\ AddItem(s)
        <3>1. kills' \in 0 .. MaxKills
            BY <2>3, BoundAssumption DEF TInv, TypeOK
        <3> HIDE DEF s
        <3>2. RunsBudgeted'
            <4>1. runs[s].attempt < MAX_OCR_ATTEMPTS
                BY <1>1, <2>3 DEF AddItem, TInv, RunsBudgeted
            <4> QED BY <1>1, <2>1, <2>3, <4>1, AddBudgeted
        <3> QED BY <1>1, <2>1, <2>3, <3>1, <3>2, AddTyped DEF TInv, TypeOK
    <2> QED BY <1>5, <2>2, <2>3 DEF AbortUpload
<1> QED BY <1>3, <1>4, <1>5 DEF UploadStep

LEMMA EndedType ==
    ASSUME TInv, NEW s \in Scans, runs' = [runs EXCEPT ![s].state = Ended(s)], runs[s].state = "leased", items' = items
    PROVE  runs' \in [Scans -> Run] /\ RunsBudgeted'
<1>1. runs \in [Scans -> Run] /\ runs[s] \in Run
    BY DEF TInv, TypeOK, Run
<1>2. Ended(s) \in {"due", "failed"} /\ (Ended(s) = "due" => runs[s].attempt < MAX_OCR_ATTEMPTS)
    BY DEF Ended
<1>3. /\ runs' \in [Scans -> Run] /\ \A t \in Scans \ {s} : runs'[t] = runs[t]
      /\ runs'[s].state = Ended(s) /\ runs'[s].attempt = runs[s].attempt
    BY <1>1, <1>2 DEF Run
<1>4. items[s] # NoItem
    BY DEF TInv, RunsBudgeted
<1> QED BY <1>2, <1>3, <1>4 DEF TInv, RunsBudgeted

LEMMA WorkerTyped ==
    ASSUME TInv, NEW w \in Workers, WorkerStep(w),
           At(w, "ocr") => runs[desks[w].scan].state = "leased"
    PROVE  TInv'
<1>0. w \in Actors /\ desks[w] \in Desk /\ desks[w].scan \in Scans /\ desks[w].copy \in Item
    BY UploaderActs DEF TInv, TypeOK, Desk
<1> DEFINE i == items[desks[w].scan]
<1>1. i \in Item /\ runs \in [Scans -> Run]
    BY <1>0 DEF TInv, TypeOK, Run
<1>2. ASSUME NEW s \in Scans, Claim(w, s) PROVE TInv'
    <2>1. UNCHANGED <<items, batch, register, stale, torn, clicks, kills>> /\ runs[s] \in Run /\ items[s] \in Item
        BY <1>2 DEF Claim, TInv, TypeOK, Run
    <2>2. ASSUME runs' = [runs EXCEPT ![s] = Over] /\ UNCHANGED desks PROVE TInv'
        <3>1. Over \in Run /\ Over.state = "over" /\ Over.attempt < MAX_OCR_ATTEMPTS
            BY AttemptAssumption DEF Over, Run
        <3>2. runs' \in [Scans -> Run]
            BY <2>2, <3>1, <1>1
        <3>3. RunsBudgeted'
            BY <2>1, <2>2, <3>1, <1>1 DEF TInv, RunsBudgeted
        <3> QED BY <2>1, <2>2, <3>2, <3>3 DEF TInv, TypeOK, Run
    <2>3. ASSUME ToWorkOn(items[s]), runs' = [runs EXCEPT ![s] = [state |-> "leased", attempt |-> runs[s].attempt + 1]],
                 desks' = [desks EXCEPT ![w] = [Away EXCEPT !.op = "read", !.scan = s, !.copy = items[s],
                              !.pc = IF items[s].status = "processing" THEN "ocr" ELSE "mark"]]
          PROVE  TInv'
        <3> DEFINE d == [Away EXCEPT !.op = "read", !.scan = s, !.copy = items[s],
                              !.pc = IF items[s].status = "processing" THEN "ocr" ELSE "mark"]
        <3>1. d \in Desk
            BY <2>1, AwayType DEF Desk
        <3> HIDE DEF d
        <3>2. desks' \in [Actors -> Desk]
            BY <1>0, <2>3, <3>1, DeskTyped DEF d, TInv
        <3>3. runs[s].attempt \in 0 .. MAX_OCR_ATTEMPTS /\ runs[s].attempt < MAX_OCR_ATTEMPTS /\ items[s] # NoItem
            BY <1>2, <2>1 DEF Run, Claim, TInv, RunsBudgeted
        <3>4. [state |-> "leased", attempt |-> runs[s].attempt + 1] \in Run
            BY <3>3, AttemptAssumption DEF Run
        <3>5. runs' \in [Scans -> Run]
            BY <2>3, <3>4, <1>1
        <3>6. RunsBudgeted'
            BY <2>1, <2>3, <3>3, <1>1 DEF TInv, RunsBudgeted
        <3> QED BY <2>1, <3>2, <3>5, <3>6 DEF TInv, TypeOK, Run
    <2> QED BY <1>2, <2>2, <2>3 DEF Claim
<1>3. ASSUME Mark(w) PROVE TInv'
    <2> DEFINE d == [desks[w] EXCEPT !.pc = "ocr", !.copy.status = "processing"]
    <2>1. SaveItem(w, [i EXCEPT !.status = "processing"]) /\ UNCHANGED <<runs, batch, register, clicks, kills>>
        BY <1>3 DEF Mark
    <2>2. d \in Desk
        BY <1>0 DEF Desk, Item, Active
    <2>3. desks' = [desks EXCEPT ![w] = d]
        BY <1>3 DEF Mark
    <2>4. [i EXCEPT !.status = "processing"] \in Item /\ [i EXCEPT !.status = "processing"].status # "missing"
        BY <1>1, FieldSaved
    <2> HIDE DEF d, i
    <2>5. desks' \in [Actors -> Desk]
        BY <1>0, <2>2, <2>3, DeskTyped DEF TInv
    <2> QED BY <1>0, <2>1, <2>4, <2>5, SaveTyped DEF TInv, TypeOK
<1>4. ASSUME ToRefresh(w) PROVE desks' \in [Actors -> Desk]
    BY <1>0, <1>4, RefreshingType, DeskTyped DEF ToRefresh, TInv
<1>5. ASSUME NEW r \in Readings, Extract(w, r) PROVE TInv'
    <2> DEFINE j == [status |-> r[2], number |-> r[1], invoice |-> desks[w].copy.invoice]
    <2>1. j \in Item /\ j.status # "missing"
        BY <1>0, ReadingAssumption DEF Item, Reviewable
    <2>2. SaveItem(w, j) /\ ToRefresh(w) /\ UNCHANGED <<runs, batch, register, clicks, kills>>
        BY <1>5 DEF Extract
    <2> HIDE DEF j
    <2> QED BY <1>0, <1>4, <2>1, <2>2, SaveTyped DEF TInv, TypeOK
<1>6. ASSUME Raise(w) PROVE TInv'
    <2>1. /\ runs' = [runs EXCEPT ![desks[w].scan].state = Ended(desks[w].scan)] /\ Leave(w)
          /\ UNCHANGED <<items, batch, register, stale, torn, clicks, kills>>
        BY <1>6 DEF Raise
    <2>2. runs[desks[w].scan].state = "leased"
        BY <1>6 DEF Raise
    <2>3. runs' \in [Scans -> Run] /\ RunsBudgeted'
        BY <1>0, <2>1, <2>2, EndedType
    <2>4. desks' \in [Actors -> Desk]
        BY <1>0, <2>1, LeaveTyped DEF TInv
    <2> QED BY <2>1, <2>3, <2>4 DEF TInv, TypeOK, Run
<1>7. ASSUME GiveUp(w) PROVE TInv'
    <2>1. Failed(i) \in Item /\ Failed(i).status # "missing"
        BY <1>1, FieldSaved DEF Failed
    <2>2. SaveItem(w, Failed(i)) /\ ToRefresh(w) /\ UNCHANGED <<runs, batch, register, clicks, kills>>
        BY <1>7 DEF GiveUp
    <2> HIDE DEF i
    <2> QED BY <1>0, <1>4, <2>1, <2>2, SaveTyped DEF TInv, TypeOK
<1> QED BY <1>2, <1>3, <1>5, <1>6, <1>7 DEF WorkerStep

LEMMA OperatorTyped ==
    ASSUME TInv, NEW o \in Operators, OperatorStep(o),
           At(o, "link") => desks[o].copy.number \in Numbers,
           At(o, "decide") => items[desks[o].scan] # NoItem
    PROVE  TInv'
<1>0. o \in Actors /\ desks[o] \in Desk /\ desks[o].scan \in Scans /\ desks[o].copy \in Item
      /\ desks[o].copies \in [Scans -> Item]
    BY UploaderActs DEF TInv, TypeOK, Desk
<1> DEFINE i == items[desks[o].scan]
<1>1. i \in Item
    BY <1>0 DEF TInv, TypeOK
<1>2. ASSUME Leave(o), UNCHANGED <<items, runs, batch, register, stale, torn, clicks, kills>> PROVE TInv'
    BY <1>0, <1>2, LeaveTyped DEF TInv, TypeOK, RunsBudgeted
<1>3. ASSUME NEW j \in Item, j.status # "missing", SaveItem(o, j), Leave(o) \/ ToRefresh(o),
             UNCHANGED <<runs, batch, register, clicks, kills>>
      PROVE  TInv'
    <2>1. desks' \in [Actors -> Desk]
        BY <1>0, <1>3, LeaveTyped, RefreshingType, DeskTyped DEF ToRefresh, TInv
    <2> QED BY <1>0, <1>3, <2>1, SaveTyped DEF TInv, TypeOK
<1>4. ASSUME NEW n \in Numbers \cup {Missing}, SaveDraft(o, n) PROVE TInv'
    <2>1. SaveItem(o, [i EXCEPT !.number = n]) /\ Leave(o) /\ UNCHANGED <<runs, batch, register, clicks, kills>>
        BY <1>4 DEF SaveDraft
    <2>2. i.status # "missing"
        BY <1>0, <1>4 DEF SaveDraft, TInv, RunsBudgeted
    <2>3. [i EXCEPT !.number = n] \in Item /\ [i EXCEPT !.number = n].status # "missing"
        BY <1>1, <2>2, FieldSaved
    <2> QED BY <1>3, <2>1, <2>3
<1>5. ASSUME Discard(o) PROVE TInv'
    <2>1. SaveItem(o, [i EXCEPT !.status = "discarded"]) /\ ToRefresh(o) /\ UNCHANGED <<runs, batch, register, clicks, kills>>
        BY <1>5 DEF Discard
    <2>2. [i EXCEPT !.status = "discarded"] \in Item /\ [i EXCEPT !.status = "discarded"].status # "missing"
        BY <1>1, FieldSaved DEF Terminal
    <2> QED BY <1>3, <2>1, <2>2
<1>6. ASSUME Link(o) PROVE TInv'
    <2>1. SaveItem(o, Linked(i, desks[o].copy.number)) /\ ToRefresh(o) /\ UNCHANGED <<runs, batch, register, clicks, kills>>
        BY <1>6 DEF Link
    <2>2. desks[o].copy.number \in Numbers
        BY <1>6 DEF Link
    <2>3. Linked(i, desks[o].copy.number) \in Item /\ Linked(i, desks[o].copy.number).status # "missing"
        BY <1>1, <2>2, FieldSaved
    <2> QED BY <1>3, <2>1, <2>3
<1>7. ASSUME NEW s \in Scans, Import(o, s) PROVE TInv'
    <2> DEFINE copy == desks[o].copies[s]
               d == [desks[o] EXCEPT !.pc = "link", !.scan = s, !.copy = copy, !.copies[s] = NoItem]
    <2>1. copy \in Item /\ copy.number \in Numbers
        BY <1>0, <1>7 DEF Import, ToImport, ToCommit, Item
    <2>2. d \in Desk
        BY <1>0, <2>1, NoItemType DEF Desk
    <2>3. desks' = [desks EXCEPT ![o] = d] /\ register' = [register EXCEPT ![copy.number] = s]
          /\ stale' = (IF copy = items[s] THEN stale ELSE stale \cup {s})
          /\ UNCHANGED <<items, runs, batch, torn, clicks, kills>>
        BY ZenonT(30), <1>7 DEF Import
    <2> HIDE DEF d, copy
    <2>4. desks' \in [Actors -> Desk]
        BY <1>0, <2>2, <2>3, DeskTyped DEF TInv
    <2>5. register' \in [Numbers -> Scans \cup {"other", "free"}] /\ stale' \subseteq Scans
        BY <2>1, <2>3 DEF TInv, TypeOK
    <2> QED BY <2>3, <2>4, <2>5 DEF TInv, TypeOK, RunsBudgeted
<1>8. ASSUME NEW s \in Scans, Skip(o, s) PROVE TInv'
    <2> DEFINE d == [desks[o] EXCEPT !.copies[s] = NoItem]
    <2>1. d \in Desk /\ desks' = [desks EXCEPT ![o] = d]
        BY <1>0, <1>8, NoItemType DEF Desk, Skip
    <2> HIDE DEF d
    <2>2. desks' \in [Actors -> Desk]
        BY <1>0, <2>1, DeskTyped DEF TInv
    <2> QED BY <2>2, <1>8 DEF Skip, TInv, TypeOK, RunsBudgeted
<1>9. ASSUME EndCommit(o) PROVE TInv'
    <2> DEFINE d == [Away EXCEPT !.pc = "weigh", !.op = "close", !.seen = desks[o].own]
    <2>1. d \in Desk
        BY <1>0, AwayType DEF Desk
    <2> HIDE DEF d
    <2>2. Leave(o) \/ desks' = [desks EXCEPT ![o] = d]
        BY <1>9 DEF EndCommit, d
    <2>3. desks' \in [Actors -> Desk]
        BY <1>0, <2>1, <2>2, DeskTyped, LeaveTyped DEF TInv
    <2> QED BY <2>3, <1>9 DEF EndCommit, TInv, TypeOK, RunsBudgeted
<1>10. ASSUME Refuse(o) PROVE TInv'
    BY <1>2, <1>10 DEF Refuse
<1> QED BY <1>4, <1>5, <1>6, <1>7, <1>8, <1>9, <1>10 DEF OperatorStep

LEMMA ClickTyped ==
    ASSUME clicks \in 0 .. MaxClicks, clicks < MaxClicks, clicks' = clicks + 1
    PROVE  clicks' \in 0 .. MaxClicks
BY BoundAssumption

LEMMA RequestTyped ==
    ASSUME TInv,
           \/ \E a \in Actors : Kill(a)
           \/ \E s \in Scans : Reclaim(s)
           \/ \E o \in Operators : OpenAll(o)
           \/ \E o \in Operators, s \in Scans : OpenOne(o, s) \/ \E op \in {"edit", "discard"} : Open(o, op, s)
    PROVE  TInv'
<1>1. ASSUME NEW a \in Actors, Kill(a) PROVE TInv'
    <2>1. desks[a].scan \in Scans
        BY DEF TInv, TypeOK, Desk
    <2>2. desks' \in [Actors -> Desk] /\ stale' \subseteq Scans /\ kills' \in 0 .. MaxKills
        BY <1>1, <2>1, LeaveTyped, BoundAssumption DEF Kill, TInv, TypeOK
    <2> QED BY <1>1, <2>2 DEF Kill, TInv, TypeOK, RunsBudgeted
<1>2. ASSUME NEW s \in Scans, Reclaim(s) PROVE TInv'
    BY <1>2, EndedType DEF Reclaim, TInv, TypeOK, Run
<1>3. ASSUME NEW o \in Operators, NEW op \in {"commit", "commit all"}, NEW those, OpenCommit(o, op, those)
      PROVE  TInv'
    <2> DEFINE c == [s \in Scans |-> IF s \in those THEN items[s] ELSE NoItem]
               d == [Away EXCEPT !.pc = "next", !.op = op, !.own = IF op = "commit" THEN @ ELSE batch, !.copies = c]
    <2>1. c \in [Scans -> Item] /\ batch \in BatchStatus
        BY NoItemType DEF TInv, TypeOK
    <2>2. desks' = [desks EXCEPT ![o] = d]
        BY <1>3 DEF OpenCommit
    <2> HIDE DEF c
    <2>3. d \in Desk
        BY <2>1, AwayType DEF Desk
    <2> HIDE DEF d
    <2>4. desks' \in [Actors -> Desk]
        BY <2>2, <2>3, UploaderActs, DeskTyped DEF TInv
    <2>5. clicks' \in 0 .. MaxClicks
        <3>1. clicks \in 0 .. MaxClicks /\ clicks < MaxClicks /\ clicks' = clicks + 1
            BY <1>3 DEF OpenCommit, TInv, TypeOK
        <3> QED BY <3>1, ClickTyped
    <2> QED BY <1>3, <2>4, <2>5 DEF OpenCommit, TInv, TypeOK, RunsBudgeted
<1>4. ASSUME NEW o \in Operators, NEW s \in Scans, NEW op \in {"edit", "discard"}, Open(o, op, s) PROVE TInv'
    <2> DEFINE d == [Away EXCEPT !.pc = "decide", !.op = op, !.scan = s, !.copy = items[s]]
    <2>1. d \in Desk
        BY AwayType DEF Desk, TInv, TypeOK
    <2>2. desks' = [desks EXCEPT ![o] = d]
        BY <1>4 DEF Open
    <2> HIDE DEF d
    <2>3. desks' \in [Actors -> Desk]
        BY <2>1, <2>2, UploaderActs, DeskTyped DEF TInv
    <2>4. clicks' \in 0 .. MaxClicks
        <3>1. clicks \in 0 .. MaxClicks /\ clicks < MaxClicks /\ clicks' = clicks + 1
            BY <1>4 DEF Open, TInv, TypeOK
        <3> QED BY <3>1, ClickTyped
    <2> QED BY <1>4, <2>3, <2>4 DEF Open, TInv, TypeOK, RunsBudgeted
<1> QED BY <1>1, <1>2, <1>3, <1>4 DEF OpenAll, OpenOne

-----------------------------------------------------------------------------
(* What an actor with desk d has in hand, given the items, the runs and the  *)
(* register: a reader a leased run and, once it has read, an item that is no *)
(* longer active; a commit between its saves an invoice on the register; one *)
(* about to edit or discard an item that is there.                           *)
InHand(a, d, its, rs, reg) ==
    /\ d.op = "read" => a \in Workers /\ d.pc \in {"mark", "ocr", "look", "weigh", "write"}
                        /\ rs[d.scan].state = "leased" /\ its[d.scan] # NoItem
    /\ d.pc = "decide" => d.scan \in Scans /\ its[d.scan] # NoItem
    /\ d.pc \in {"mark", "ocr"} => d.op = "read" /\ d.copy.status \notin Terminal
    /\ d.op = "read" /\ d.pc \notin {"mark", "ocr"} => its[d.scan].status \notin Active
    /\ d.pc = "next" => d.op # "none" /\ d.op # "read"
    /\ d.pc = "link" => d.op # "none" /\ a \in Operators /\ d.copy.status \notin Terminal
                        /\ d.copy.number \in Numbers /\ reg[d.copy.number] = d.scan

Reads(a, s) == desks[a].op = "read" /\ desks[a].scan = s

OneReads == \A s \in Scans : \A a, b \in Actors : Reads(a, s) /\ Reads(b, s) => a = b

(* A scan that is not an item yet has no run.                                *)
NoItemNoRun == \A s \in Scans : items[s] = NoItem => runs[s].state = "none"

HInv ==
    /\ \A a \in Actors : InHand(a, desks[a], items, runs, register)
    /\ OneReads /\ NoItemNoRun

(* A step of a: the others keep what they have in hand.                      *)
LEMMA Frame ==
    ASSUME TInv, HInv, NEW a \in Actors, NEW d, desks' = [desks EXCEPT ![a] = d],
           d.op = "read" => d.scan \in Scans,
           InHand(a, d, items', runs', register'),
           d.op = "read" => \A b \in Actors \ {a} : ~Reads(b, d.scan),
           \A s \in Scans : /\ items[s] # NoItem => items'[s] # NoItem
                            /\ items'[s] = NoItem => runs'[s].state = "none",
           \A s \in Scans : \/ items'[s].status \in Active => items[s].status \in Active
                            \/ \A b \in Actors \ {a} : ~Reads(b, s),
           \A s \in Scans : \/ runs'[s].state = runs[s].state
                            \/ \A b \in Actors \ {a} : ~Reads(b, s),
           \A n \in Numbers : register[n] \in Scans => register'[n] = register[n]
    PROVE  HInv'
<1>1. \A b \in Actors : desks'[b] = IF b = a THEN d ELSE desks[b]
    BY DEF TInv, TypeOK
<1>2. ASSUME NEW b \in Actors PROVE InHand(b, desks'[b], items', runs', register')
    <2>1. CASE b = a
        BY <1>1, <2>1
    <2>2. CASE b # a
        <3>1. desks'[b] = desks[b] /\ InHand(b, desks[b], items, runs, register) /\ desks[b].scan \in Scans
            BY <1>1, <2>2 DEF HInv, TInv, TypeOK, Desk
        <3>2. desks[b].op = "read" =>
                  /\ items'[desks[b].scan] # NoItem
                  /\ runs'[desks[b].scan].state = "leased"
                  /\ items'[desks[b].scan].status \in Active => items[desks[b].scan].status \in Active
            BY <2>2, <3>1 DEF InHand, Reads
        <3>3. desks[b].pc = "link" => register'[desks[b].copy.number] = desks[b].scan
            BY <3>1 DEF InHand
        <3> QED BY <3>1, <3>2, <3>3 DEF InHand
    <2> QED BY <2>1, <2>2
<1>3. OneReads'
    BY <1>1 DEF HInv, OneReads, Reads
<1>4. NoItemNoRun'
    BY DEF NoItemNoRun
<1> QED BY <1>2, <1>3, <1>4 DEF HInv

(* A step that changes neither items, runs nor register.                     *)
LEMMA DeskFrame ==
    ASSUME TInv, HInv, NEW a \in Actors, NEW d, desks' = [desks EXCEPT ![a] = d],
           UNCHANGED <<items, runs, register>>, InHand(a, d, items, runs, register),
           d.op = "read" => d.scan = desks[a].scan /\ desks[a].op = "read"
    PROVE  HInv'
<1>1. d.op = "read" => \A b \in Actors \ {a} : ~Reads(b, d.scan)
    <2>1. desks[a].scan \in Scans
        BY DEF TInv, TypeOK, Desk
    <2> QED BY <2>1 DEF HInv, OneReads, Reads
<1>2. \A s \in Scans : items[s] = NoItem => runs[s].state = "none"
    BY DEF HInv, NoItemNoRun
<1>3. d.op = "read" => d.scan \in Scans
    BY DEF TInv, TypeOK, Desk
<1> QED BY <1>1, <1>2, <1>3, Frame

LEMMA IdleHand ==
    ASSUME NEW a, NEW d, d.op # "read", d.pc \notin {"mark", "ocr", "next", "link", "decide"}
    PROVE  InHand(a, d, items, runs, register) /\ InHand(a, d, items', runs', register')
BY DEF InHand

LEMMA LeaveFrame ==
    ASSUME TInv, HInv, NEW a \in Actors, Leave(a), UNCHANGED <<items, runs, register>>
    PROVE  HInv'
BY AwayType, IdleHand, DeskFrame DEF Leave

(* Saving the item at hand keeps what the others have, if it stays inactive  *)
(* or nobody else reads it.                                                  *)
LEMMA SaveFrame ==
    ASSUME TInv, HInv, NEW a \in Actors, NEW item \in Item, item # NoItem, SaveItem(a, item),
           NEW d, desks' = [desks EXCEPT ![a] = d], UNCHANGED <<runs, register>>,
           InHand(a, d, items', runs, register),
           d.op = "read" => d.scan = desks[a].scan /\ desks[a].op = "read",
           \/ item.status \in Active => items[desks[a].scan].status \in Active
           \/ desks[a].op = "read"
    PROVE  HInv'
<1>1. desks[a].scan \in Scans /\ items \in [Scans -> Item]
    BY DEF TInv, TypeOK, Desk
<1>2. items'[desks[a].scan] = item /\ \A s \in Scans \ {desks[a].scan} : items'[s] = items[s]
    BY <1>1 DEF SaveItem
<1>3. desks[a].op = "read" => \A b \in Actors \ {a} : ~Reads(b, desks[a].scan)
    BY <1>1 DEF HInv, OneReads, Reads
<1>4. \A s \in Scans : /\ items[s] # NoItem => items'[s] # NoItem
                       /\ items'[s] = NoItem => runs'[s].state = "none"
    BY <1>2 DEF HInv, NoItemNoRun
<1>5. \A s \in Scans : \/ items'[s].status \in Active => items[s].status \in Active
                       \/ \A b \in Actors \ {a} : ~Reads(b, s)
    BY <1>2, <1>3
<1>6. d.op = "read" => d.scan \in Scans /\ \A b \in Actors \ {a} : ~Reads(b, d.scan)
    BY <1>1, <1>3
<1>7. InHand(a, d, items', runs', register')
    OBVIOUS
<1> QED BY <1>4, <1>5, <1>6, <1>7, Frame

LEMMA FinishHand ==
    ASSUME TInv, HInv, NEW a \in Actors, Finish(a), UNCHANGED <<items, register>>
    PROVE  HInv'
<1> DEFINE d == AfterRefresh(desks[a])
<1>1. desks' = [desks EXCEPT ![a] = d]
      /\ \A s \in Scans : runs'[s] = runs[s] \/ (desks[a].op = "read" /\ desks[a].scan = s /\ runs'[s] = Over)
    BY FinishTyped
<1>2. desks[a] \in Desk
    BY DEF TInv, TypeOK
<1>3. d.pc \in {"away", "next"} /\ d.op \in {"none", "commit", "commit all"} /\ (d.pc = "next" => d.op # "none")
    BY <1>2, AfterRefreshType
<1> HIDE DEF d
<1>4. InHand(a, d, items', runs', register')
    BY <1>3 DEF InHand
<1>5. \A s \in Scans : runs'[s].state = runs[s].state \/ \A b \in Actors \ {a} : ~Reads(b, s)
    BY <1>1 DEF HInv, OneReads, Reads
<1>6. desks[a].op = "read" => items[desks[a].scan] # NoItem
    BY DEF HInv, InHand
<1>7. \A s \in Scans : items'[s] = NoItem => runs'[s].state = "none"
    BY <1>1, <1>6 DEF HInv, NoItemNoRun
<1>8. d.op # "read"
    BY <1>3
<1>9. \A s \in Scans : (items[s] # NoItem => items'[s] # NoItem) /\ (items'[s].status \in Active => items[s].status \in Active)
    OBVIOUS
<1>10. \A n \in Numbers : register[n] \in Scans => register'[n] = register[n]
    OBVIOUS
<1> QED BY <1>1, <1>4, <1>5, <1>7, <1>8, <1>9, <1>10, Frame

LEMMA RefreshHand ==
    ASSUME TInv, HInv, NEW a \in Actors, Refresh(a)
    PROVE  HInv'
<1>0. desks[a] \in Desk /\ InHand(a, desks[a], items, runs, register)
    BY DEF TInv, TypeOK, HInv
<1>1. UNCHANGED <<items, register>>
    BY DEF Refresh, Look, Weigh, WriteBatch
<1>2. ASSUME NEW d, desks' = [desks EXCEPT ![a] = d], UNCHANGED runs, At(a, "look") \/ At(a, "weigh"),
             d.pc \in {"weigh", "write"}, d.op = desks[a].op, d.scan = desks[a].scan
      PROVE  HInv'
    <2>1. InHand(a, d, items, runs, register)
        BY <1>0, <1>2 DEF InHand, At
    <2> QED BY <1>1, <1>2, <2>1, DeskFrame
<1>3. CASE Look(a)
    <2> DEFINE d == [desks[a] EXCEPT !.pc = "weigh", !.seen = batch]
    <2>1. d.pc = "weigh" /\ d.op = desks[a].op /\ d.scan = desks[a].scan
        BY <1>0 DEF Desk
    <2>2. desks' = [desks EXCEPT ![a] = d] /\ UNCHANGED runs /\ At(a, "look")
        BY <1>3 DEF Look
    <2> HIDE DEF d
    <2> QED BY <2>1, <2>2, <1>2
<1>4. CASE Weigh(a)
    <2> DEFINE d == [desks[a] EXCEPT !.pc = "write", !.seen = Implied(items, desks[a].seen)]
    <2>1. d.pc = "write" /\ d.op = desks[a].op /\ d.scan = desks[a].scan
        BY <1>0 DEF Desk
    <2>2. Finish(a) \/ (desks' = [desks EXCEPT ![a] = d] /\ UNCHANGED runs /\ At(a, "weigh"))
        BY <1>4 DEF Weigh
    <2> HIDE DEF d
    <2> QED BY <2>1, <2>2, <1>1, <1>2, FinishHand
<1>5. CASE WriteBatch(a)
    BY <1>1, <1>5, FinishHand DEF WriteBatch
<1> QED BY <1>3, <1>4, <1>5 DEF Refresh

LEMMA UploadHand ==
    ASSUME TInv, HInv, UploadStep
    PROVE  HInv'
<1>0. desks[Uploader] \in Desk /\ desks[Uploader].file \in 1 .. Len(Upload) /\ Uploader \in Actors
    BY UploaderActs DEF TInv, TypeOK, Desk
<1> DEFINE s == Upload[desks[Uploader].file]
<1>1. s \in Scans
    BY <1>0, UploadAssumption
<1>2. At(Uploader, "store") /\ UNCHANGED register
    BY DEF UploadStep, Store, SkipFile, AbortUpload
<1>3. desks[Uploader].op # "read"
    BY <1>2, <1>0 DEF HInv, InHand, At
<1>4. ASSUME NEW d, desks' = [desks EXCEPT ![Uploader] = d], d.op # "read",
             d.pc \notin {"mark", "ocr", "next", "link", "decide"},
             \/ UNCHANGED <<items, runs>>
             \/ AddItem(s) /\ (UNCHANGED runs \/ runs' = [runs EXCEPT ![s].state = "due"])
      PROVE  HInv'
    <2>1. InHand(Uploader, d, items', runs', register')
        BY <1>4, IdleHand
    <2>2. ASSUME AddItem(s), UNCHANGED runs \/ runs' = [runs EXCEPT ![s].state = "due"] PROVE HInv'
        <3>1. items[s] = NoItem /\ items'[s] # NoItem /\ \A t \in Scans \ {s} : items'[t] = items[t]
            BY <1>1, <2>2, AddTyped DEF AddItem, TInv, TypeOK
        <3>2. \A b \in Actors : ~Reads(b, s)
            BY <3>1, <1>1 DEF HInv, InHand, Reads
        <3>3. \A t \in Scans \ {s} : runs'[t] = runs[t]
            BY <1>1, <2>2 DEF TInv, TypeOK
        <3>4. \A t \in Scans : /\ items[t] # NoItem => items'[t] # NoItem
                               /\ items'[t] = NoItem => runs'[t].state = "none"
            BY <3>1, <3>3 DEF HInv, NoItemNoRun
        <3>5. \A t \in Scans : \/ items'[t].status \in Active => items[t].status \in Active
                               \/ \A b \in Actors \ {Uploader} : ~Reads(b, t)
            BY <3>1, <3>2
        <3>6. \A t \in Scans : \/ runs'[t].state = runs[t].state
                               \/ \A b \in Actors \ {Uploader} : ~Reads(b, t)
            BY <3>2, <3>3
        <3>7. \A n \in Numbers : register[n] \in Scans => register'[n] = register[n]
            BY <1>2
        <3> HIDE DEF s
        <3> QED BY <1>0, <1>4, <2>1, <3>4, <3>5, <3>6, <3>7, Frame
    <2>3. ASSUME UNCHANGED <<items, runs>> PROVE HInv'
        <3>1. InHand(Uploader, d, items, runs, register)
            BY <1>4, IdleHand
        <3> QED BY <1>0, <1>2, <1>4, <2>3, <3>1, DeskFrame
    <2> QED BY <1>4, <2>2, <2>3
<1>5. ASSUME NextFile,
             \/ UNCHANGED <<items, runs>>
             \/ AddItem(s) /\ (UNCHANGED runs \/ runs' = [runs EXCEPT ![s].state = "due"])
      PROVE  HInv'
    <2> DEFINE u == desks[Uploader]
               d == IF u.file < Len(Upload) THEN [u EXCEPT !.file = u.file + 1] ELSE [u EXCEPT !.pc = "weigh", !.op = "close"]
    <2>1. desks' = [desks EXCEPT ![Uploader] = d]
        BY <1>5 DEF NextFile
    <2>2. d.op # "read" /\ d.pc \in {"store", "weigh"}
        BY <1>0, <1>2, <1>3 DEF Desk, At
    <2> HIDE DEF d, s
    <2> QED BY <2>1, <2>2, <1>4, <1>5
<1>6. ASSUME AbortUpload PROVE HInv'
    <2> DEFINE d == Away
    <2>1. desks' = [desks EXCEPT ![Uploader] = d] /\ d.op # "read" /\ d.pc = "away" /\ UNCHANGED runs
          /\ (UNCHANGED items \/ AddItem(s))
        BY <1>6, AwayType DEF AbortUpload, Leave
    <2> HIDE DEF d, s
    <2> QED BY <2>1, <1>4
<1> QED BY <1>5, <1>6 DEF UploadStep, Store, SkipFile

(* An actor goes on to the refresh with the item it has saved.               *)
LEMMA ToRefreshHand ==
    ASSUME TInv, HInv, NEW a \in Actors, NEW item \in Item, item # NoItem, SaveItem(a, item),
           ToRefresh(a), UNCHANGED <<runs, register>>, item.status \notin Active,
           desks[a].op = "read" \/ desks[a].pc \notin {"mark", "ocr"}
    PROVE  HInv'
<1> DEFINE d == Refreshing(desks[a])
<1>1. desks[a] \in Desk /\ desks[a].scan \in Scans /\ InHand(a, desks[a], items, runs, register)
      /\ items \in [Scans -> Item]
    BY DEF TInv, TypeOK, Desk, HInv
<1>2. d.pc = "look" /\ d.scan = desks[a].scan /\ (d.op = "read" <=> desks[a].op = "read")
    BY <1>1, RefreshingType
<1>3. desks' = [desks EXCEPT ![a] = d] /\ items'[desks[a].scan] = item
    BY <1>1 DEF ToRefresh, SaveItem
<1> HIDE DEF d
<1>4. InHand(a, d, items', runs, register)
    BY <1>1, <1>2, <1>3 DEF InHand
<1>5. item.status \in Active => items[desks[a].scan].status \in Active
    OBVIOUS
<1> QED BY <1>2, <1>3, <1>4, <1>5, SaveFrame

LEMMA WorkerHand ==
    ASSUME TInv, HInv, NEW w \in Workers, WorkerStep(w)
    PROVE  HInv'
<1>0. w \in Actors /\ desks[w] \in Desk /\ desks[w].scan \in Scans /\ desks[w].copy \in Item
      /\ InHand(w, desks[w], items, runs, register)
    BY UploaderActs DEF TInv, TypeOK, Desk, HInv
<1> DEFINE i == items[desks[w].scan]
<1>1. i \in Item /\ runs \in [Scans -> Run]
    BY <1>0 DEF TInv, TypeOK, Run
<1>2. ASSUME NEW s \in Scans, Claim(w, s) PROVE HInv'
    <2>1. UNCHANGED <<items, register>> /\ runs[s].state = "due" /\ items[s] # NoItem /\ items[s] \in Item
        BY <1>2 DEF Claim, HInv, NoItemNoRun, TInv, TypeOK
    <2>2. \A b \in Actors : ~Reads(b, s)
        BY <2>1 DEF HInv, InHand, Reads
    <2>3. ASSUME NEW d, desks' = [desks EXCEPT ![w] = d], InHand(w, d, items', runs', register'),
                 NEW r, runs' = [runs EXCEPT ![s] = r], d.op = "read" => d.scan = s \/ d = desks[w]
          PROVE  HInv'
        <3>1. \A t \in Scans : t = s \/ runs'[t] = runs[t]
            BY <2>3, <1>1
        <3>2. \A t \in Scans : /\ items[t] # NoItem => items'[t] # NoItem
                               /\ items'[t] = NoItem => runs'[t].state = "none"
            BY <2>1, <3>1 DEF HInv, NoItemNoRun
        <3>3. d.op = "read" => d.scan \in Scans /\ \A b \in Actors \ {w} : ~Reads(b, d.scan)
            BY <1>0, <2>2, <2>3 DEF HInv, OneReads, Reads
        <3>4. \A t \in Scans : (items'[t].status \in Active => items[t].status \in Active)
                               /\ (runs'[t].state = runs[t].state \/ \A b \in Actors \ {w} : ~Reads(b, t))
            BY <2>1, <2>2, <3>1
        <3>5. \A n \in Numbers : register[n] \in Scans => register'[n] = register[n]
            BY <2>1
        <3> QED BY <1>0, <2>3, <3>2, <3>3, <3>4, <3>5, Frame
    <2>4. ASSUME runs' = [runs EXCEPT ![s] = Over], UNCHANGED desks PROVE HInv'
        <3> DEFINE d == desks[w]
        <3>1. desks' = [desks EXCEPT ![w] = d] /\ InHand(w, d, items', runs', register')
            <4>1. At(w, "away")
                BY <1>2 DEF Claim
            <4>2. desks[w].op # "read"
                BY <1>0, <4>1 DEF InHand, At
            <4> QED BY <2>4, <4>1, <4>2, IdleHand DEF At, TInv, TypeOK
        <3> HIDE DEF d
        <3> QED BY <2>3, <2>4, <3>1 DEF d
    <2>5. ASSUME ToWorkOn(items[s]), runs' = [runs EXCEPT ![s] = [state |-> "leased", attempt |-> runs[s].attempt + 1]],
                 desks' = [desks EXCEPT ![w] = [Away EXCEPT !.op = "read", !.scan = s, !.copy = items[s],
                              !.pc = IF items[s].status = "processing" THEN "ocr" ELSE "mark"]]
          PROVE  HInv'
        <3> DEFINE d == [Away EXCEPT !.op = "read", !.scan = s, !.copy = items[s],
                              !.pc = IF items[s].status = "processing" THEN "ocr" ELSE "mark"]
                   r == [state |-> "leased", attempt |-> runs[s].attempt + 1]
        <3>1. d.op = "read" /\ d.scan = s /\ d.copy = items[s] /\ d.pc \in {"mark", "ocr"}
            BY AwayType DEF Desk
        <3>2. desks' = [desks EXCEPT ![w] = d] /\ runs' = [runs EXCEPT ![s] = r] /\ r.state = "leased"
            BY <2>5
        <3>3. items[s].status \notin Terminal
            BY <2>5 DEF ToWorkOn
        <3> HIDE DEF d, r
        <3>4. runs'[s].state = "leased"
            BY <3>2, <1>1
        <3>5. InHand(w, d, items', runs', register')
            BY <2>1, <3>1, <3>3, <3>4 DEF InHand
        <3> QED BY <2>3, <3>1, <3>2, <3>5
    <2> QED BY <1>2, <2>4, <2>5 DEF Claim
<1>3. ASSUME Mark(w) PROVE HInv'
    <2> DEFINE d == [desks[w] EXCEPT !.pc = "ocr", !.copy.status = "processing"]
    <2>1. SaveItem(w, [i EXCEPT !.status = "processing"]) /\ UNCHANGED <<runs, register>> /\ At(w, "mark")
          /\ desks' = [desks EXCEPT ![w] = d]
        BY <1>3 DEF Mark
    <2>2. d.pc = "ocr" /\ d.copy.status = "processing" /\ d.op = desks[w].op /\ d.scan = desks[w].scan
        BY <1>0 DEF Desk, Item
    <2>3. [i EXCEPT !.status = "processing"] \in Item /\ [i EXCEPT !.status = "processing"] # NoItem
        BY <1>1, FieldSaved
    <2>4. desks[w].op = "read" /\ runs[desks[w].scan].state = "leased"
        BY <1>0, <2>1 DEF InHand, At
    <2>5. items'[desks[w].scan] = [i EXCEPT !.status = "processing"]
        BY <1>0, <2>1 DEF SaveItem, TInv, TypeOK
    <2>6. "processing" \notin Terminal
        BY DEF Terminal
    <2> HIDE DEF d, i
    <2>7. InHand(w, d, items', runs, register)
        BY <2>2, <2>3, <2>4, <2>5, <2>6 DEF InHand
    <2> QED BY <1>0, <2>1, <2>2, <2>3, <2>4, <2>7, SaveFrame
<1>4. ASSUME NEW r \in Readings, Extract(w, r) PROVE HInv'
    <2> DEFINE j == [status |-> r[2], number |-> r[1], invoice |-> desks[w].copy.invoice]
    <2>1. j \in Item /\ j # NoItem /\ j.status \notin Active
        BY <1>0, ReadingAssumption, NoItemType DEF Item, Reviewable, Active
    <2>2. SaveItem(w, j) /\ ToRefresh(w) /\ UNCHANGED <<runs, register>> /\ At(w, "ocr")
        BY <1>4 DEF Extract
    <2>3. desks[w].op = "read"
        BY <1>0, <2>2 DEF InHand, At
    <2> HIDE DEF j
    <2> QED BY <1>0, <2>1, <2>2, <2>3, ToRefreshHand
<1>5. ASSUME GiveUp(w) PROVE HInv'
    <2>1. Failed(i) \in Item /\ Failed(i) # NoItem /\ Failed(i).status \notin Active
        BY <1>1, FieldSaved DEF Failed, Active, Item
    <2>2. SaveItem(w, Failed(i)) /\ ToRefresh(w) /\ UNCHANGED <<runs, register>> /\ At(w, "ocr")
        BY <1>5 DEF GiveUp
    <2>3. desks[w].op = "read"
        BY <1>0, <2>2 DEF InHand, At
    <2> HIDE DEF i
    <2> QED BY <1>0, <2>1, <2>2, <2>3, ToRefreshHand
<1>6. ASSUME Raise(w) PROVE HInv'
    <2>1. /\ runs' = [runs EXCEPT ![desks[w].scan].state = Ended(desks[w].scan)] /\ Leave(w) /\ At(w, "ocr")
          /\ UNCHANGED <<items, register>>
        BY <1>6 DEF Raise
    <2>2. desks[w].op = "read" /\ items[desks[w].scan] # NoItem
        BY <1>0, <2>1 DEF InHand, At
    <2>3. \A b \in Actors \ {w} : ~Reads(b, desks[w].scan)
        BY <1>0, <2>2 DEF HInv, OneReads, Reads
    <2>4. \A t \in Scans : t = desks[w].scan \/ runs'[t] = runs[t]
        BY <1>0, <1>1, <2>1
    <2> DEFINE d == Away
    <2>5. desks' = [desks EXCEPT ![w] = d] /\ d.op # "read" /\ d.pc = "away"
        BY <2>1, AwayType DEF Leave
    <2> HIDE DEF d
    <2>6. InHand(w, d, items', runs', register')
        BY <2>5, IdleHand
    <2>7. \A t \in Scans : /\ items[t] # NoItem => items'[t] # NoItem
                           /\ items'[t] = NoItem => runs'[t].state = "none"
        BY <2>1, <2>2, <2>4 DEF HInv, NoItemNoRun
    <2>8. \A t \in Scans : (items'[t].status \in Active => items[t].status \in Active)
                           /\ (runs'[t].state = runs[t].state \/ \A b \in Actors \ {w} : ~Reads(b, t))
        BY <2>1, <2>3, <2>4
    <2>9. \A n \in Numbers : register[n] \in Scans => register'[n] = register[n]
        BY <2>1
    <2> QED BY <1>0, <2>5, <2>6, <2>7, <2>8, <2>9, Frame
<1> QED BY <1>2, <1>3, <1>4, <1>5, <1>6 DEF WorkerStep

LEMMA OperatorHand ==
    ASSUME TInv, HInv, NEW o \in Operators, OperatorStep(o)
    PROVE  HInv'
<1>0. o \in Actors /\ desks[o] \in Desk /\ desks[o].scan \in Scans /\ desks[o].copies \in [Scans -> Item]
      /\ InHand(o, desks[o], items, runs, register)
    BY UploaderActs DEF TInv, TypeOK, Desk, HInv
<1> DEFINE i == items[desks[o].scan]
<1>1. i \in Item
    BY <1>0 DEF TInv, TypeOK
<1>2. desks[o].op # "read"
    BY <1>0, ActorAssumption DEF InHand
<1>3. desks[o].pc \notin {"mark", "ocr"}
    BY <1>0, <1>2 DEF InHand
<1>4. ASSUME NEW n \in Numbers \cup {Missing}, SaveDraft(o, n) PROVE HInv'
    <2> DEFINE d == Away
               j == [i EXCEPT !.number = n]
    <2>1. SaveItem(o, j) /\ desks' = [desks EXCEPT ![o] = d] /\ UNCHANGED <<runs, register>>
        BY <1>4 DEF SaveDraft, Leave
    <2>2. j \in Item /\ j # NoItem /\ j.status = i.status
        <3>1. i.status # "missing"
            BY <1>0, <1>4 DEF SaveDraft, At, InHand, TInv, RunsBudgeted
        <3> QED BY SMTT(30), <1>1, <3>1, FieldSaved, NoItemType
    <2>3. d.op # "read" /\ d.pc = "away"
        BY AwayType
    <2> HIDE DEF d, j
    <2>4. InHand(o, d, items', runs, register)
        BY <2>3 DEF InHand
    <2> QED BY <1>0, <2>1, <2>2, <2>3, <2>4, SaveFrame
<1>5. ASSUME Discard(o) PROVE HInv'
    <2> DEFINE j == [i EXCEPT !.status = "discarded"]
    <2>1. SaveItem(o, j) /\ ToRefresh(o) /\ UNCHANGED <<runs, register>>
        BY <1>5 DEF Discard
    <2>2. j \in Item /\ j # NoItem
        BY <1>1, FieldSaved DEF Terminal
    <2>3. j.status \notin Active
        BY <1>1 DEF Item, Active
    <2> HIDE DEF j
    <2> QED BY <1>0, <1>3, <2>1, <2>2, <2>3, ToRefreshHand
<1>6. ASSUME Link(o) PROVE HInv'
    <2> DEFINE j == Linked(i, desks[o].copy.number)
    <2>1. SaveItem(o, j) /\ ToRefresh(o) /\ UNCHANGED <<runs, register>> /\ At(o, "link")
        BY <1>6 DEF Link
    <2>2. desks[o].copy.number \in Numbers
        BY <1>0, <2>1 DEF InHand, At
    <2>3. j \in Item /\ j # NoItem
        BY <1>1, <2>2, FieldSaved
    <2>4. j.status \notin Active
        BY <1>1 DEF Linked, Item, Active
    <2> HIDE DEF j
    <2> QED BY <1>0, <1>3, <2>1, <2>3, <2>4, ToRefreshHand
<1>7. ASSUME NEW s \in Scans, Import(o, s) PROVE HInv'
    <2> DEFINE copy == desks[o].copies[s]
               d == [desks[o] EXCEPT !.pc = "link", !.scan = s, !.copy = copy, !.copies[s] = NoItem]
    <2>1. At(o, "next") /\ copy # NoItem /\ ToImport(copy)
          /\ register' = [register EXCEPT ![copy.number] = s] /\ UNCHANGED <<items, runs>>
          /\ desks' = [desks EXCEPT ![o] = d]
        BY ZenonT(30), <1>7 DEF Import
    <2>2. copy \in Item /\ copy.number \in Numbers /\ copy.status \notin Terminal /\ register[copy.number] = "free"
        BY <1>0, <2>1 DEF ToImport, ToCommit, Item
    <2>3. d.pc = "link" /\ d.scan = s /\ d.copy = copy /\ d.op = desks[o].op
        BY <1>0 DEF Desk
    <2>4. d.op # "none"
        BY <1>0, <2>1, <2>3 DEF InHand, At
    <2> HIDE DEF d, copy
    <2>5. register'[copy.number] = s /\ \A n \in Numbers : register[n] \in Scans => register'[n] = register[n]
        BY <2>1, <2>2, UploadAssumption DEF TInv, TypeOK
    <2>6. InHand(o, d, items', runs', register')
        BY <1>2, <2>2, <2>3, <2>4, <2>5 DEF InHand
    <2>7. \A t \in Scans : items'[t] = items[t] /\ runs'[t] = runs[t] /\ (items[t] = NoItem => runs[t].state = "none")
        BY <2>1 DEF HInv, NoItemNoRun
    <2>8. d.op # "read"
        BY <1>2, <2>3
    <2> QED BY <1>0, <2>1, <2>5, <2>6, <2>7, <2>8, Frame
<1>8. ASSUME NEW s \in Scans, Skip(o, s) PROVE HInv'
    <2> DEFINE d == [desks[o] EXCEPT !.copies[s] = NoItem]
    <2>1. desks' = [desks EXCEPT ![o] = d] /\ UNCHANGED <<items, runs, register>>
        BY <1>8 DEF Skip
    <2>2. d.pc = desks[o].pc /\ d.op = desks[o].op /\ d.scan = desks[o].scan /\ d.copy = desks[o].copy
        BY <1>0 DEF Desk
    <2> HIDE DEF d
    <2>3. InHand(o, d, items, runs, register)
        BY <1>0, <2>2 DEF InHand
    <2> QED BY <1>0, <1>2, <2>1, <2>2, <2>3, DeskFrame
<1>9. ASSUME EndCommit(o) PROVE HInv'
    <2> DEFINE d == [Away EXCEPT !.pc = "weigh", !.op = "close", !.seen = desks[o].own]
    <2>1. Leave(o) \/ desks' = [desks EXCEPT ![o] = d]
        BY <1>9 DEF EndCommit
    <2>2. d.pc = "weigh" /\ d.op = "close"
        BY AwayType DEF Desk
    <2> HIDE DEF d
    <2>3. InHand(o, d, items, runs, register)
        BY <2>2, IdleHand
    <2>4. UNCHANGED <<items, runs, register>>
        BY <1>9 DEF EndCommit
    <2> QED BY <1>0, <2>1, <2>2, <2>3, <2>4, DeskFrame, LeaveFrame
<1>10. ASSUME Refuse(o) PROVE HInv'
    BY <1>0, <1>10, LeaveFrame DEF Refuse
<1> QED BY <1>4, <1>5, <1>6, <1>7, <1>8, <1>9, <1>10 DEF OperatorStep

LEMMA RequestHand ==
    ASSUME TInv, HInv,
           \/ \E a \in Actors : Kill(a)
           \/ \E s \in Scans : Reclaim(s)
           \/ \E o \in Operators : OpenAll(o)
           \/ \E o \in Operators, s \in Scans : OpenOne(o, s) \/ \E op \in {"edit", "discard"} : Open(o, op, s)
    PROVE  HInv'
<1>1. ASSUME NEW a \in Actors, Kill(a) PROVE HInv'
    BY <1>1, LeaveFrame DEF Kill
<1>2. ASSUME NEW s \in Scans, Reclaim(s) PROVE HInv'
    <2> DEFINE d == desks[Uploader]
    <2>1. /\ runs[s].state = "leased" /\ runs' = [runs EXCEPT ![s].state = Ended(s)]
          /\ UNCHANGED <<items, register, desks>>
        BY <1>2 DEF Reclaim
    <2>2. \A b \in Actors : ~Reads(b, s)
        BY <1>2 DEF Reclaim, Reads, HInv, InHand
    <2>3. \A t \in Scans : t = s \/ runs'[t] = runs[t]
        BY <2>1 DEF TInv, TypeOK
    <2>4. items[s] # NoItem
        BY <2>1 DEF HInv, NoItemNoRun
    <2>5. desks' = [desks EXCEPT ![Uploader] = d] /\ Uploader \in Actors /\ d.scan \in Scans
          /\ InHand(Uploader, d, items, runs, register)
        BY <2>1, UploaderActs DEF TInv, TypeOK, Desk, HInv
    <2>6. d.op # "read"
        BY <2>5, ActorAssumption DEF InHand
    <2> HIDE DEF d
    <2>7. InHand(Uploader, d, items', runs', register')
        BY <2>1, <2>5, <2>6 DEF InHand
    <2>8. \A t \in Scans : /\ items[t] # NoItem => items'[t] # NoItem
                           /\ items'[t] = NoItem => runs'[t].state = "none"
        BY <2>1, <2>3, <2>4 DEF HInv, NoItemNoRun
    <2>9. \A t \in Scans : (items'[t].status \in Active => items[t].status \in Active)
                           /\ (runs'[t].state = runs[t].state \/ \A b \in Actors \ {Uploader} : ~Reads(b, t))
        BY <2>1, <2>2, <2>3
    <2>10. \A n \in Numbers : register[n] \in Scans => register'[n] = register[n]
        BY <2>1
    <2> QED BY <2>5, <2>6, <2>7, <2>8, <2>9, <2>10, Frame
<1>3. ASSUME NEW o \in Operators, NEW op \in {"commit", "commit all"}, NEW those, OpenCommit(o, op, those)
      PROVE  HInv'
    <2> DEFINE d == [Away EXCEPT !.pc = "next", !.op = op, !.own = IF op = "commit" THEN @ ELSE batch,
                                 !.copies = [s \in Scans |-> IF s \in those THEN items[s] ELSE NoItem]]
    <2>1. desks' = [desks EXCEPT ![o] = d] /\ UNCHANGED <<items, runs, register>>
        BY <1>3 DEF OpenCommit
    <2>2. d.pc = "next" /\ d.op \in {"commit", "commit all"}
        BY AwayType DEF Desk
    <2> HIDE DEF d
    <2>3. InHand(o, d, items, runs, register)
        BY <2>2 DEF InHand
    <2> QED BY <2>1, <2>2, <2>3, UploaderActs, DeskFrame
<1>4. ASSUME NEW o \in Operators, NEW s \in Scans, NEW op \in {"edit", "discard"}, Open(o, op, s) PROVE HInv'
    <2> DEFINE d == [Away EXCEPT !.pc = "decide", !.op = op, !.scan = s, !.copy = items[s]]
    <2>1. desks' = [desks EXCEPT ![o] = d] /\ UNCHANGED <<items, runs, register>>
        BY <1>4 DEF Open
    <2>2. d.pc = "decide" /\ d.op \in {"edit", "discard"} /\ d.scan = s /\ items[s] # NoItem
        BY <1>4, AwayType DEF Desk, Open
    <2> HIDE DEF d
    <2>3. InHand(o, d, items, runs, register)
        BY <2>2 DEF InHand
    <2> QED BY <2>1, <2>2, <2>3, UploaderActs, DeskFrame
<1> QED BY <1>1, <1>2, <1>3, <1>4 DEF OpenAll, OpenOne

LEMMA InitHand == Init => HInv
<1> SUFFICES ASSUME Init PROVE HInv
    OBVIOUS
<1> DEFINE u == [Away EXCEPT !.pc = "store", !.op = "upload"]
<1>1. u.pc = "store" /\ u.op = "upload"
    BY AwayType DEF Desk
<1>2. \A a \in Actors : desks[a] = u \/ desks[a] = Away
    BY DEF Init
<1> HIDE DEF u
<1>3. \A a \in Actors : desks[a].op # "read" /\ desks[a].pc \in {"store", "away"}
    BY <1>1, <1>2, AwayType
<1>4. \A a \in Actors : InHand(a, desks[a], items, runs, register)
    BY <1>3 DEF InHand
<1>5. OneReads /\ NoItemNoRun
    BY <1>3 DEF OneReads, Reads, NoItemNoRun, Init, NoRun
<1> QED BY <1>4, <1>5 DEF HInv

LEMMA NextHand == TInv /\ HInv /\ [Next]_vars => TInv' /\ HInv'
<1> SUFFICES ASSUME TInv, HInv, [Next]_vars PROVE TInv' /\ HInv'
    OBVIOUS
<1>1. \A a \in Actors : InHand(a, desks[a], items, runs, register)
    BY DEF HInv
<1>2. ASSUME NEW w \in Workers, WorkerStep(w) PROVE TInv' /\ HInv'
    <2>1. At(w, "ocr") => runs[desks[w].scan].state = "leased"
        BY <1>1, UploaderActs DEF InHand, At
    <2> QED BY <1>2, <2>1, WorkerTyped, WorkerHand
<1>3. ASSUME NEW o \in Operators, OperatorStep(o) PROVE TInv' /\ HInv'
    <2>1. /\ At(o, "link") => desks[o].copy.number \in Numbers
          /\ At(o, "decide") => items[desks[o].scan] # NoItem
        BY <1>1, UploaderActs DEF InHand, At
    <2> QED BY <1>3, <2>1, OperatorTyped, OperatorHand
<1>4. CASE UNCHANGED vars
    BY <1>4 DEF vars, TInv, TypeOK, RunsBudgeted, HInv, OneReads, Reads, NoItemNoRun
<1>5. CASE UploadStep
    BY <1>5, UploadTyped, UploadHand
<1>6. ASSUME NEW a \in Actors, Refresh(a) PROVE TInv' /\ HInv'
    BY <1>6, RefreshTyped, RefreshHand
<1> QED BY <1>2, <1>3, <1>4, <1>5, <1>6, RequestTyped, RequestHand DEF Next

LEMMA Hands == Spec => [](TInv /\ HInv)
BY InitTyped, InitHand, NextHand, PTL DEF Spec

(* Type correctness for any upload, workers and operators: an attempt count  *)
(* never passes the engine's limit.                                          *)
THEOREM Typed == Spec => []TypeOK
<1>1. TInv => TypeOK
    BY DEF TInv
<1> QED BY <1>1, Hands, PTL

-----------------------------------------------------------------------------
(* What a step can do to a scan's item: somebody who has it at hand saves it.*)
SavedBy(a, s) ==
    /\ desks[a].scan = s /\ desks[a].op # "none"
    /\ desks[a].copy = items[s] \/ s \in stale'
    /\ \/ desks[a].op = "read" /\ desks[a].copy.status \notin Terminal /\ items'[s].status \notin Terminal
       \/ items'[s].status = items[s].status /\ items'[s].invoice = items[s].invoice
       \/ /\ desks[a].op = "discard" /\ desks[a].copy.status # "committed"
          /\ items'[s].status = "discarded"
       \/ /\ At(a, "link") /\ items'[s].status = "committed" /\ items'[s].invoice = desks[a].copy.number

Changes(s) ==
    \/ items'[s] = items[s]
    \/ items[s] = NoItem /\ items'[s].status = "queued"
    \/ \E a \in Actors : SavedBy(a, s)

LEMMA SaveChanges ==
    ASSUME TInv, NEW a \in Actors, NEW item, SaveItem(a, item), desks[a].op # "none",
           LET s == desks[a].scan
           IN  \/ desks[a].op = "read" /\ desks[a].copy.status \notin Terminal /\ item.status \notin Terminal
               \/ item.status = items[s].status /\ item.invoice = items[s].invoice
               \/ desks[a].op = "discard" /\ desks[a].copy.status # "committed" /\ item.status = "discarded"
               \/ At(a, "link") /\ item.status = "committed" /\ item.invoice = desks[a].copy.number
    PROVE  \A s \in Scans : Changes(s)
<1>1. desks[a].scan \in Scans /\ items \in [Scans -> Item]
    BY DEF TInv, TypeOK, Desk
<1>2. items'[desks[a].scan] = item /\ \A s \in Scans \ {desks[a].scan} : items'[s] = items[s]
    BY <1>1 DEF SaveItem
<1>3. desks[a].copy = items[desks[a].scan] \/ desks[a].scan \in stale'
    BY DEF SaveItem
<1>4. SavedBy(a, desks[a].scan)
    BY <1>2, <1>3 DEF SavedBy
<1> QED BY <1>2, <1>4 DEF Changes

LEMMA AddChanges ==
    ASSUME TInv, NEW t \in Scans, AddItem(t)
    PROVE  \A s \in Scans : Changes(s)
<1>1. items \in [Scans -> Item] /\ items[t] = NoItem /\ items' = [items EXCEPT ![t] = [items[t] EXCEPT !.status = "queued"]]
    BY DEF AddItem, TInv, TypeOK
<1>2. [items[t] EXCEPT !.status = "queued"].status = "queued"
    BY <1>1 DEF Item
<1> QED BY <1>1, <1>2 DEF Changes

LEMMA WorkerChanges ==
    ASSUME TInv, HInv, NEW w \in Workers, WorkerStep(w)
    PROVE  \A s \in Scans : Changes(s)
<1>0. w \in Actors /\ desks[w].scan \in Scans /\ items[desks[w].scan] \in Item
      /\ InHand(w, desks[w], items, runs, register)
    BY UploaderActs DEF TInv, TypeOK, Desk, HInv
<1> DEFINE i == items[desks[w].scan]
<1>1. ASSUME NEW item, SaveItem(w, item), At(w, "mark") \/ At(w, "ocr"), item.status \notin Terminal
      PROVE  \A s \in Scans : Changes(s)
    <2>1. desks[w].op = "read" /\ desks[w].copy.status \notin Terminal
        BY <1>0, <1>1 DEF InHand, At
    <2> QED BY <1>0, <1>1, <2>1, SaveChanges
<1>2. ASSUME Mark(w) PROVE \A s \in Scans : Changes(s)
    <2> DEFINE j == [i EXCEPT !.status = "processing"]
    <2>1. SaveItem(w, j) /\ At(w, "mark")
        BY <1>2 DEF Mark
    <2>2. j.status \notin Terminal
        BY <1>0 DEF Item, Terminal
    <2> HIDE DEF j
    <2> QED BY <2>1, <2>2, <1>1
<1>3. ASSUME NEW r \in Readings, Extract(w, r) PROVE \A s \in Scans : Changes(s)
    <2> DEFINE j == [status |-> r[2], number |-> r[1], invoice |-> desks[w].copy.invoice]
    <2>1. SaveItem(w, j) /\ At(w, "ocr")
        BY <1>3 DEF Extract
    <2>2. j.status \notin Terminal
        BY ReadingAssumption DEF Terminal
    <2> HIDE DEF j
    <2> QED BY <2>1, <2>2, <1>1
<1>4. ASSUME GiveUp(w) PROVE \A s \in Scans : Changes(s)
    <2> DEFINE j == Failed(i)
    <2>1. SaveItem(w, j) /\ At(w, "ocr")
        BY <1>4 DEF GiveUp
    <2>2. j.status \notin Terminal
        BY <1>0 DEF Failed, Item, Terminal
    <2> HIDE DEF j
    <2> QED BY <2>1, <2>2, <1>1
<1>5. ASSUME UNCHANGED items PROVE \A s \in Scans : Changes(s)
    BY <1>5 DEF Changes
<1> QED BY <1>2, <1>3, <1>4, <1>5 DEF WorkerStep, Claim, Raise

LEMMA OperatorChanges ==
    ASSUME TInv, HInv, NEW o \in Operators, OperatorStep(o)
    PROVE  \A s \in Scans : Changes(s)
<1>0. o \in Actors /\ desks[o].scan \in Scans /\ items[desks[o].scan] \in Item
      /\ InHand(o, desks[o], items, runs, register)
    BY UploaderActs DEF TInv, TypeOK, Desk, HInv
<1> DEFINE i == items[desks[o].scan]
<1>1. ASSUME NEW n \in Numbers \cup {Missing}, SaveDraft(o, n) PROVE \A s \in Scans : Changes(s)
    <2> DEFINE j == [i EXCEPT !.number = n]
    <2>1. SaveItem(o, j) /\ desks[o].op = "edit"
        BY <1>1 DEF SaveDraft
    <2>2. j.status = i.status /\ j.invoice = i.invoice
        BY <1>0 DEF Item
    <2> HIDE DEF j
    <2> QED BY <1>0, <2>1, <2>2, SaveChanges
<1>2. ASSUME Discard(o) PROVE \A s \in Scans : Changes(s)
    <2> DEFINE j == [i EXCEPT !.status = "discarded"]
    <2>1. SaveItem(o, j) /\ desks[o].op = "discard" /\ desks[o].copy.status # "committed"
        BY <1>2 DEF Discard, ToDiscard
    <2>2. j.status = "discarded"
        BY <1>0 DEF Item
    <2> HIDE DEF j
    <2> QED BY <1>0, <2>1, <2>2, SaveChanges
<1>3. ASSUME Link(o) PROVE \A s \in Scans : Changes(s)
    <2> DEFINE j == Linked(i, desks[o].copy.number)
    <2>1. SaveItem(o, j) /\ At(o, "link")
        BY <1>3 DEF Link
    <2>2. j.status = "committed" /\ j.invoice = desks[o].copy.number
        BY <1>0 DEF Item, Linked
    <2>3. desks[o].op # "none"
        BY <1>0, <2>1 DEF InHand, At
    <2> HIDE DEF j
    <2> QED BY <1>0, <2>1, <2>2, <2>3, SaveChanges
<1>4. ASSUME UNCHANGED items PROVE \A s \in Scans : Changes(s)
    BY <1>4 DEF Changes
<1> QED BY <1>1, <1>2, <1>3, <1>4 DEF OperatorStep, Refuse, EndCommit, Import, Skip

LEMMA NextChanges == TInv /\ HInv /\ [Next]_vars => \A s \in Scans : Changes(s)
<1> SUFFICES ASSUME TInv, HInv, [Next]_vars PROVE \A s \in Scans : Changes(s)
    OBVIOUS
<1>1. ASSUME UNCHANGED items PROVE \A s \in Scans : Changes(s)
    BY <1>1 DEF Changes
<1>2. CASE UploadStep
    <2>1. desks[Uploader].file \in 1 .. Len(Upload)
        BY UploaderActs DEF TInv, TypeOK, Desk
    <2>2. Upload[desks[Uploader].file] \in Scans
        BY <2>1, UploadAssumption
    <2> QED BY <1>1, <1>2, <2>2, AddChanges DEF UploadStep, Store, SkipFile, AbortUpload
<1>3. ASSUME NEW a \in Actors, Refresh(a) \/ Kill(a) PROVE \A s \in Scans : Changes(s)
    BY <1>1, <1>3 DEF Refresh, Look, Weigh, WriteBatch, Kill
<1>4. ASSUME \/ \E s \in Scans : Reclaim(s)
             \/ \E o \in Operators : OpenAll(o)
             \/ \E o \in Operators, s \in Scans : OpenOne(o, s) \/ \E op \in {"edit", "discard"} : Open(o, op, s)
      PROVE  \A s \in Scans : Changes(s)
    BY <1>1, <1>4 DEF Reclaim, OpenAll, OpenOne, OpenCommit, Open
<1>5. CASE UNCHANGED vars
    BY <1>1, <1>5 DEF vars
<1> QED BY <1>2, <1>3, <1>4, <1>5, WorkerChanges, OperatorChanges DEF Next

(* The register changes when an operator imports a number that is free.      *)
LEMMA RegisterChanges ==
    ASSUME TInv, HInv, [Next]_vars
    PROVE  \/ register' = register
           \/ \E o \in Operators, s \in Scans : Import(o, s)
<1>1. CASE UNCHANGED vars
    BY <1>1 DEF vars
<1>2. CASE UploadStep \/ \E a \in Actors : Refresh(a) \/ Kill(a)
    BY <1>2 DEF UploadStep, Store, SkipFile, AbortUpload, Refresh, Look, Weigh, WriteBatch, Kill
<1>3. CASE \E w \in Workers : WorkerStep(w)
    BY <1>3 DEF WorkerStep, Claim, Mark, Raise, GiveUp, Extract
<1>4. CASE \E o \in Operators : OperatorStep(o) \/ OpenAll(o)
    BY <1>4 DEF OperatorStep, Refuse, Discard, EndCommit, Link, SaveDraft, Skip, OpenAll, OpenCommit
<1>5. CASE \/ \E s \in Scans : Reclaim(s)
           \/ \E o \in Operators, s \in Scans : OpenOne(o, s) \/ \E op \in {"edit", "discard"} : Open(o, op, s)
    BY <1>5 DEF Reclaim, OpenOne, OpenCommit, Open
<1> QED BY <1>1, <1>2, <1>3, <1>4, <1>5 DEF Next

LEMMA ImportFree ==
    ASSUME TInv, NEW o \in Operators, NEW s \in Scans, Import(o, s)
    PROVE  /\ desks[o].copies[s].number \in Numbers
           /\ register' = [register EXCEPT ![desks[o].copies[s].number] = s]
           /\ \A n \in Numbers : register[n] \in Scans => register'[n] = register[n]
<1>1. desks[o].copies[s] \in Item /\ ToImport(desks[o].copies[s])
    BY UploaderActs DEF Import, TInv, TypeOK, Desk
<1>2. desks[o].copies[s].number \in Numbers /\ register[desks[o].copies[s].number] = "free"
    BY <1>1 DEF ToImport, ToCommit, Item
<1>3. register' = [register EXCEPT ![desks[o].copies[s].number] = s]
    BY DEF Import
<1> QED BY <1>2, <1>3, UploadAssumption DEF TInv, TypeOK

LEMMA RegisterKeeps ==
    ASSUME TInv, HInv, [Next]_vars, NEW n \in Numbers, register[n] \in Scans
    PROVE  register'[n] = register[n]
BY RegisterChanges, ImportFree

LEMMA StepRegistered == TInv /\ HInv /\ CommittedIsRegistered /\ [Next]_vars => CommittedIsRegistered'
<1> SUFFICES ASSUME TInv, HInv, CommittedIsRegistered, [Next]_vars,
                    NEW s \in Scans, items'[s].status = "committed"
             PROVE  items'[s].invoice # Missing /\ register'[items'[s].invoice] = s
    BY DEF CommittedIsRegistered
<1>1. items[s] \in Item
    BY DEF TInv, TypeOK
<1>2. ASSUME items[s].status = "committed", items'[s].invoice = items[s].invoice
      PROVE  items'[s].invoice # Missing /\ register'[items'[s].invoice] = s
    <2>1. items[s].invoice # Missing /\ register[items[s].invoice] = s
        BY <1>2 DEF CommittedIsRegistered
    <2>2. items[s].invoice \in Numbers
        BY <1>1, <2>1 DEF Item
    <2> QED BY <1>2, <2>1, <2>2, RegisterKeeps
<1>3. ASSUME NEW a \in Actors, SavedBy(a, s)
      PROVE  items'[s].invoice # Missing /\ register'[items'[s].invoice] = s
    <2>1. \/ items'[s].status = items[s].status /\ items'[s].invoice = items[s].invoice
          \/ At(a, "link") /\ items'[s].invoice = desks[a].copy.number
        BY <1>3 DEF SavedBy, Terminal
    <2>2. ASSUME At(a, "link"), items'[s].invoice = desks[a].copy.number
          PROVE  items'[s].invoice # Missing /\ register'[items'[s].invoice] = s
        <3>1. desks[a].copy.number \in Numbers /\ register[desks[a].copy.number] = desks[a].scan /\ desks[a].scan = s
            BY <1>3, <2>2 DEF HInv, InHand, At, SavedBy
        <3>2. Missing \notin Numbers
            BY NumberAssumption
        <3> QED BY <2>2, <3>1, <3>2, RegisterKeeps
    <2> QED BY <2>1, <2>2, <1>2
<1>4. items[s] = NoItem /\ items'[s].status = "queued" => FALSE
    OBVIOUS
<1> QED BY <1>2, <1>3, <1>4, NextChanges DEF Changes

(* A committed item is on the register under the number it names, however    *)
(* commits, edits, discards, readings and kills interleave.                  *)
THEOREM CommittedRegistered == Spec => []CommittedIsRegistered
<1>1. Init => CommittedIsRegistered
    BY NoItemType DEF Init, CommittedIsRegistered
<1> QED BY <1>1, Hands, StepRegistered, PTL DEF Spec

-----------------------------------------------------------------------------
LeftByOldCopies ==
    \A s \in Scans : items[s].status \in Terminal /\ items'[s].status # items[s].status =>
        \E a \in Actors : /\ desks[a].scan = s /\ desks[a].op # "none"
                           /\ desks[a].copy.status # items[s].status

LEMMA StepLeft == TInv /\ HInv /\ [Next]_vars => LeftByOldCopies
<1> SUFFICES ASSUME TInv, HInv, [Next]_vars,
                    NEW s \in Scans, items[s].status \in Terminal, items'[s].status # items[s].status
             PROVE  \E a \in Actors : /\ desks[a].scan = s /\ desks[a].op # "none"
                                       /\ desks[a].copy.status # items[s].status
    BY DEF LeftByOldCopies
<1>1. items[s] # NoItem
    BY NoItemType DEF Terminal
<1>2. PICK a \in Actors : SavedBy(a, s)
    BY <1>1, NextChanges DEF Changes
<1>3. At(a, "link") => desks[a].copy.status \notin Terminal
    BY DEF HInv, InHand, At
<1>4. desks[a].copy.status # items[s].status
    BY <1>2, <1>3 DEF SavedBy, Terminal
<1> QED BY <1>2, <1>4 DEF SavedBy

(* Whoever takes an item out of a terminal state had read it before.         *)
THEOREM TerminalLeft == Spec => LeftOnlyByOldCopies
<1>1. TInv /\ HInv /\ [Next]_vars => [LeftByOldCopies]_vars
    BY StepLeft
<1>2. [][LeftByOldCopies]_vars <=> LeftOnlyByOldCopies
    BY DEF LeftByOldCopies, LeftOnlyByOldCopies
<1> QED BY <1>1, <1>2, Hands, PTL DEF Spec

-----------------------------------------------------------------------------
(* A run ends when its item is no longer active.                             *)
LEMMA RunsOver ==
    ASSUME TInv, HInv, [Next]_vars, NEW s \in Scans, runs'[s].state = "over"
    PROVE  runs[s].state = "over" \/ (items'[s] = items[s] /\ items[s].status \notin Active)
<1>0. runs \in [Scans -> Run]
    BY DEF TInv, TypeOK, Run
<1>1. ASSUME NEW a \in Actors, Refresh(a)
      PROVE  runs[s].state = "over" \/ (items'[s] = items[s] /\ items[s].status \notin Active)
    <2>1. UNCHANGED items
        BY <1>1 DEF Refresh, Look, Weigh, WriteBatch
    <2>2. UNCHANGED runs \/ (Finish(a) /\ desks[a].pc \in {"weigh", "write"})
        BY <1>1 DEF Refresh, Look, Weigh, WriteBatch, At
    <2>3. ASSUME Finish(a), desks[a].pc \in {"weigh", "write"}, runs'[s] # runs[s] PROVE items[s].status \notin Active
        <3>1. desks[a].op = "read" /\ desks[a].scan = s
            BY <2>3, FinishTyped
        <3> QED BY <2>3, <3>1 DEF HInv, InHand
    <2> QED BY <2>1, <2>2, <2>3
<1>2. ASSUME NEW w \in Workers, NEW t \in Scans, Claim(w, t)
      PROVE  runs[s].state = "over" \/ (items'[s] = items[s] /\ items[s].status \notin Active)
    <2>1. CASE t = s
        <3>1. ASSUME runs' = [runs EXCEPT ![s] = [state |-> "leased", attempt |-> @.attempt + 1]] PROVE FALSE
            <4>1. runs'[s].state = "leased"
                BY <1>0, <3>1
            <4> QED BY <4>1
        <3>2. ~ToWorkOn(items[s]) /\ UNCHANGED items
            BY <1>2, <2>1, <3>1 DEF Claim
        <3> QED BY <3>2 DEF ToWorkOn, Terminal, Active
    <2>2. CASE t # s
        BY <1>0, <1>2, <2>2 DEF Claim
    <2> QED BY <2>1, <2>2
<1>3. ASSUME NEW t \in Scans, runs' = [runs EXCEPT ![t].state = Ended(t)] PROVE runs[s].state = "over"
    <2>1. Ended(t) # "over"
        BY DEF Ended
    <2>2. t = s => runs'[s].state = Ended(t)
        BY <1>0, <1>3 DEF Run
    <2>3. t # s => runs'[s] = runs[s]
        BY <1>0, <1>3
    <2> QED BY <2>1, <2>2, <2>3
<1>4. ASSUME UploadStep PROVE runs[s].state = "over"
    <2>1. ASSUME NEW t, runs' = [runs EXCEPT ![t].state = "due"] PROVE runs[s].state = "over"
        <3>1. t = s => runs'[s].state = "due"
            BY <1>0, <2>1 DEF Run
        <3>2. t # s => runs'[s] = runs[s]
            BY <1>0, <2>1
        <3> QED BY <3>1, <3>2
    <2> QED BY <1>4, <2>1 DEF UploadStep, Store, SkipFile, AbortUpload
<1>5. ASSUME NEW w \in Workers, WorkerStep(w), ~(\E t \in Scans : Claim(w, t)) PROVE runs[s].state = "over"
    <2>1. desks[w].scan \in Scans
        BY UploaderActs DEF TInv, TypeOK, Desk
    <2> QED BY <1>3, <1>5, <2>1 DEF WorkerStep, Mark, Raise, GiveUp, Extract
<1>6. ASSUME UNCHANGED runs PROVE runs[s].state = "over"
    BY <1>6
<1>7. ASSUME NEW o \in Operators, OperatorStep(o) \/ OpenAll(o) PROVE UNCHANGED runs
    BY <1>7 DEF OperatorStep, Refuse, Discard, EndCommit, Link, SaveDraft, Skip, Import, OpenAll, OpenCommit
<1>8. ASSUME \/ UNCHANGED vars \/ \E a \in Actors : Kill(a)
             \/ \E o \in Operators, t \in Scans : OpenOne(o, t) \/ \E op \in {"edit", "discard"} : Open(o, op, t)
      PROVE  UNCHANGED runs
    BY <1>8 DEF vars, Kill, OpenOne, OpenCommit, Open
<1> QED BY <1>1, <1>2, <1>3, <1>4, <1>5, <1>6, <1>7, <1>8 DEF Next, Reclaim

NotOver == \A s \in Scans : items[s].status \in Active => runs[s].state # "over"

LEMMA StepNotOver == TInv /\ HInv /\ NotOver /\ [Next]_vars => NotOver'
<1> SUFFICES ASSUME TInv, HInv, NotOver, [Next]_vars,
                    NEW s \in Scans, items'[s].status \in Active, runs'[s].state = "over"
             PROVE  FALSE
    BY DEF NotOver
<1>1. runs[s].state = "over"
    BY RunsOver
<1>2. items[s].status \notin Active /\ items[s] # NoItem
    BY <1>1 DEF NotOver, HInv, NoItemNoRun
<1>3. PICK a \in Actors : SavedBy(a, s)
    BY <1>2, NextChanges DEF Changes
<1>4. desks[a].op = "read" /\ desks[a].scan = s
    BY <1>2, <1>3 DEF SavedBy, Active
<1>5. runs[s].state = "leased"
    BY <1>4 DEF HInv, InHand
<1> QED BY <1>1, <1>5

(* What a step can do to a run: only one without attempts left fails.        *)
RunMoves(s) ==
    \/ runs'[s] = runs[s]
    \/ runs'[s].state \in {"due", "leased", "over"}
    \/ runs'[s].state = "failed" /\ runs'[s].attempt = MAX_OCR_ATTEMPTS

LEMMA NextRunMoves == ASSUME TInv, HInv, [Next]_vars, NEW s \in Scans PROVE RunMoves(s)
<1>0. runs \in [Scans -> Run]
    BY DEF TInv, TypeOK, Run
<1>1. ASSUME NEW a \in Actors, Refresh(a) PROVE RunMoves(s)
    <2>1. UNCHANGED runs \/ runs' = [runs EXCEPT ![desks[a].scan] = Over]
        BY <1>1 DEF Refresh, Look, Weigh, WriteBatch, Finish
    <2> QED BY <1>0, <2>1 DEF RunMoves, Over
<1>2. ASSUME NEW w \in Workers, NEW t \in Scans, Claim(w, t) PROVE RunMoves(s)
    <2>1. \/ runs' = [runs EXCEPT ![t] = Over]
          \/ runs' = [runs EXCEPT ![t] = [state |-> "leased", attempt |-> @.attempt + 1]]
        BY <1>2 DEF Claim
    <2> QED BY <1>0, <2>1 DEF RunMoves, Over
<1>3. ASSUME NEW t \in Scans, runs' = [runs EXCEPT ![t].state = Ended(t)] PROVE RunMoves(s)
    <2>1. runs[t] \in Run /\ MAX_OCR_ATTEMPTS \in Nat
        BY <1>0, AttemptAssumption
    <2>2. Ended(t) = "due" \/ (Ended(t) = "failed" /\ runs[t].attempt = MAX_OCR_ATTEMPTS)
        BY <2>1 DEF Ended, Run
    <2>3. t = s => runs'[s].state = Ended(t) /\ runs'[s].attempt = runs[t].attempt
        BY <1>0, <1>3, <2>1 DEF Run
    <2>4. t # s => runs'[s] = runs[s]
        BY <1>0, <1>3
    <2> QED BY <2>2, <2>3, <2>4 DEF RunMoves
<1>4. ASSUME UploadStep PROVE RunMoves(s)
    <2>1. ASSUME NEW t, runs' = [runs EXCEPT ![t].state = "due"] PROVE RunMoves(s)
        <3>1. t = s => runs'[s].state = "due"
            BY <1>0, <2>1 DEF Run
        <3>2. t # s => runs'[s] = runs[s]
            BY <1>0, <2>1
        <3> QED BY <3>1, <3>2 DEF RunMoves
    <2>2. ASSUME UNCHANGED runs PROVE RunMoves(s)
        BY <2>2 DEF RunMoves
    <2> QED BY <1>4, <2>1, <2>2 DEF UploadStep, Store, SkipFile, AbortUpload
<1>5. ASSUME UNCHANGED runs PROVE RunMoves(s)
    BY <1>5 DEF RunMoves
<1>6. ASSUME NEW w \in Workers, WorkerStep(w), ~(\E t \in Scans : Claim(w, t)) PROVE RunMoves(s)
    <2>1. desks[w].scan \in Scans
        BY UploaderActs DEF TInv, TypeOK, Desk
    <2> QED BY <1>3, <1>5, <1>6, <2>1 DEF WorkerStep, Mark, Raise, GiveUp, Extract
<1>7. ASSUME NEW o \in Operators, OperatorStep(o) \/ OpenAll(o) PROVE UNCHANGED runs
    BY <1>7 DEF OperatorStep, Refuse, Discard, EndCommit, Link, SaveDraft, Skip, Import, OpenAll, OpenCommit
<1>8. ASSUME \/ UNCHANGED vars \/ \E a \in Actors : Kill(a)
             \/ \E o \in Operators, t \in Scans : OpenOne(o, t) \/ \E op \in {"edit", "discard"} : Open(o, op, t)
      PROVE  UNCHANGED runs
    BY <1>8 DEF vars, Kill, OpenOne, OpenCommit, Open
<1> QED BY <1>1, <1>2, <1>3, <1>4, <1>5, <1>6, <1>7, <1>8 DEF Next, Reclaim

(* An upload that was left stays left.                                       *)
Killed == kills > 0 /\ At(Uploader, "away")

LEMMA KilledStays == ASSUME TInv, Killed, [Next]_vars PROVE Killed'
<1>0. kills \in Nat /\ desks \in [Actors -> Desk] /\ Uploader \in Actors
    BY UploaderActs, BoundAssumption DEF TInv, TypeOK
<1>1. ASSUME kills' = kills \/ kills' = kills + 1,
             \/ UNCHANGED desks
             \/ \E a \in Actors : \E d : a # Uploader /\ desks' = [desks EXCEPT ![a] = d]
      PROVE  Killed'
    BY <1>0, <1>1 DEF Killed, At
<1>2. ~UploadStep
    BY DEF UploadStep, Store, SkipFile, AbortUpload, Killed, At
<1>3. ASSUME NEW a \in Actors, Refresh(a) \/ Kill(a) PROVE Killed'
    <2>1. a # Uploader
        BY <1>3 DEF Refresh, Look, Weigh, WriteBatch, Kill, Killed, At
    <2>2. \E d : desks' = [desks EXCEPT ![a] = d]
        BY <1>3 DEF Refresh, Look, Weigh, WriteBatch, Finish, Kill, Leave
    <2>3. kills' = kills \/ kills' = kills + 1
        BY <1>3 DEF Refresh, Look, Weigh, WriteBatch, Kill
    <2> QED BY <1>1, <2>1, <2>2, <2>3
<1>4. ASSUME NEW w \in Workers, WorkerStep(w) PROVE Killed'
    <2>1. w # Uploader /\ w \in Actors
        BY ActorAssumption, UploaderActs
    <2>2. UNCHANGED desks \/ \E d : desks' = [desks EXCEPT ![w] = d]
        BY <1>4 DEF WorkerStep, Claim, Mark, Raise, GiveUp, Extract, Leave, ToRefresh
    <2>3. kills' = kills
        BY <1>4 DEF WorkerStep, Claim, Mark, Raise, GiveUp, Extract
    <2> QED BY <1>1, <2>1, <2>2, <2>3
<1>5. ASSUME NEW o \in Operators,
             \/ OperatorStep(o) \/ OpenAll(o)
             \/ \E t \in Scans : OpenOne(o, t) \/ \E op \in {"edit", "discard"} : Open(o, op, t)
      PROVE  Killed'
    <2>1. o # Uploader /\ o \in Actors
        BY ActorAssumption, UploaderActs
    <2>2. \E d : desks' = [desks EXCEPT ![o] = d]
        BY <1>5 DEF OperatorStep, Refuse, Discard, EndCommit, Link, SaveDraft, Skip, Import,
                    OpenAll, OpenOne, OpenCommit, Open, Leave, ToRefresh
    <2>3. kills' = kills
        BY <1>5 DEF OperatorStep, Refuse, Discard, EndCommit, Link, SaveDraft, Skip, Import,
                    OpenAll, OpenOne, OpenCommit, Open
    <2> QED BY <1>1, <2>1, <2>2, <2>3
<1>6. ASSUME UNCHANGED vars \/ \E t \in Scans : Reclaim(t) PROVE Killed'
    BY <1>1, <1>6 DEF vars, Reclaim
<1> QED BY <1>2, <1>3, <1>4, <1>5, <1>6 DEF Next

(* An item is there for good.                                                *)
LEMMA ItemsStay ==
    ASSUME TInv, HInv, TInv', HInv', [Next]_vars, NEW s \in Scans, items[s] # NoItem
    PROVE  items'[s] # NoItem
<1>1. items[s].status # "missing"
    BY DEF TInv, RunsBudgeted
<1>2. ASSUME NEW a \in Actors, SavedBy(a, s), items'[s] = NoItem PROVE FALSE
    <2>1. items'[s].status = "missing"
        BY <1>2, NoItemType
    <2>2. desks[a].op = "read" /\ desks[a].scan = s
        BY <1>1, <1>2, <2>1 DEF SavedBy
    <2>3. runs[s].state = "leased"
        BY <2>2 DEF HInv, InHand
    <2>4. runs'[s].state # "none"
        BY <2>3, NextRunMoves DEF RunMoves
    <2> QED BY <1>2, <2>4 DEF HInv, NoItemNoRun
<1> QED BY <1>2, NextChanges DEF Changes

(* A copy is of an item that is there.                                       *)
Real(d) ==
    /\ \A s \in Scans : d.copies[s] # NoItem => items[s] # NoItem
    /\ d.pc = "link" => items[d.scan] # NoItem

CopiesReal == \A a \in Actors : Real(desks[a])

LEMMA RealFrame ==
    ASSUME TInv, CopiesReal, NEW a \in Actors, NEW d, Real(d), desks' = [desks EXCEPT ![a] = d]
    PROVE  \A b \in Actors : Real(desks'[b])
<1>1. desks'[a] = d /\ \A b \in Actors \ {a} : desks'[b] = desks[b]
    BY DEF TInv, TypeOK
<1> QED BY <1>1 DEF CopiesReal

LEMMA RealAway == Real(Away)
BY DEF Real, Away

LEMMA RealRefresh ==
    ASSUME TInv, CopiesReal, NEW a \in Actors, Refresh(a) PROVE \A b \in Actors : Real(desks'[b])
<1>1. desks[a] \in Desk /\ Real(desks[a])
    BY DEF TInv, TypeOK, CopiesReal
<1> DEFINE d == desks[a]
<1>2. ASSUME Finish(a) PROVE \A b \in Actors : Real(desks'[b])
    <2>1. Real([Away EXCEPT !.pc = "next", !.op = d.op, !.copies = d.copies, !.own = d.own])
        BY <1>1, AwayType DEF Real, Desk
    <2>2. Real(AfterRefresh(d))
        BY <2>1, RealAway DEF AfterRefresh
    <2> QED BY <1>2, <2>2, RealFrame DEF Finish
<1>3. ASSUME NEW pc \in {"weigh", "write"}, NEW v, desks' = [desks EXCEPT ![a].pc = pc, ![a].seen = v]
      PROVE  \A b \in Actors : Real(desks'[b])
    <2>1. Real([d EXCEPT !.pc = pc, !.seen = v])
        BY <1>1 DEF Real, Desk
    <2>2. desks' = [desks EXCEPT ![a] = [d EXCEPT !.pc = pc, !.seen = v]]
        BY <1>3
    <2> QED BY <2>1, <2>2, RealFrame
<1> QED BY <1>2, <1>3 DEF Refresh, Look, Weigh, WriteBatch

LEMMA RealUpload ==
    ASSUME TInv, CopiesReal, UploadStep PROVE \A b \in Actors : Real(desks'[b])
<1>1. desks[Uploader] \in Desk /\ Real(desks[Uploader]) /\ Uploader \in Actors
    BY UploaderActs DEF TInv, TypeOK, CopiesReal
<1> DEFINE d == desks[Uploader]
<1>2. ASSUME NextFile, At(Uploader, "store") PROVE \A b \in Actors : Real(desks'[b])
    <2>1. Real([d EXCEPT !.file = d.file + 1])
        BY <1>1, <1>2 DEF Real, Desk, At
    <2>2. Real([d EXCEPT !.pc = "weigh", !.op = "close"])
        BY <1>1 DEF Real, Desk
    <2> QED BY <1>1, <1>2, <2>1, <2>2, RealFrame DEF NextFile
<1>3. ASSUME Leave(Uploader) PROVE \A b \in Actors : Real(desks'[b])
    BY <1>1, <1>3, RealAway, RealFrame DEF Leave
<1> QED BY <1>2, <1>3 DEF UploadStep, Store, SkipFile, AbortUpload

LEMMA RealToRefresh ==
    ASSUME TInv, CopiesReal, NEW a \in Actors, ToRefresh(a) PROVE \A b \in Actors : Real(desks'[b])
<1>1. desks[a] \in Desk /\ Real(desks[a])
    BY DEF TInv, TypeOK, CopiesReal
<1>2. Real(Refreshing(desks[a]))
    BY <1>1 DEF Real, Refreshing, Desk
<1> QED BY <1>2, RealFrame DEF ToRefresh

LEMMA RealWorker ==
    ASSUME TInv, CopiesReal, NEW w \in Workers, WorkerStep(w) PROVE \A b \in Actors : Real(desks'[b])
<1>1. desks[w] \in Desk /\ Real(desks[w]) /\ w \in Actors
    BY UploaderActs DEF TInv, TypeOK, CopiesReal
<1>2. ASSUME NEW s \in Scans, Claim(w, s) PROVE \A b \in Actors : Real(desks'[b])
    <2>1. ASSUME NEW pc \in {"ocr", "mark"}
          PROVE  Real([Away EXCEPT !.op = "read", !.scan = s, !.copy = items[s], !.pc = pc])
        BY RealAway, AwayType DEF Real, Desk
    <2>2. ASSUME UNCHANGED desks PROVE \A b \in Actors : Real(desks'[b])
        BY <2>2 DEF CopiesReal
    <2> QED BY <1>1, <1>2, <2>1, <2>2, RealFrame DEF Claim
<1>3. ASSUME Mark(w) PROVE \A b \in Actors : Real(desks'[b])
    <2>1. Real([desks[w] EXCEPT !.pc = "ocr", !.copy = [@ EXCEPT !.status = "processing"]])
        BY <1>1 DEF Real, Desk
    <2>2. desks' = [desks EXCEPT ![w] = [desks[w] EXCEPT !.pc = "ocr", !.copy = [@ EXCEPT !.status = "processing"]]]
        BY <1>3 DEF Mark
    <2> QED BY <1>1, <2>1, <2>2, RealFrame
<1>4. ASSUME Leave(w) PROVE \A b \in Actors : Real(desks'[b])
    BY <1>1, <1>4, RealAway, RealFrame DEF Leave
<1>5. ASSUME ToRefresh(w) PROVE \A b \in Actors : Real(desks'[b])
    BY <1>1, <1>5, RealToRefresh
<1> QED BY <1>2, <1>3, <1>4, <1>5 DEF WorkerStep, Raise, GiveUp, Extract

LEMMA RealOperator ==
    ASSUME TInv, CopiesReal, NEW o \in Operators,
           \/ OperatorStep(o) \/ OpenAll(o)
           \/ \E s \in Scans : OpenOne(o, s) \/ \E op \in {"edit", "discard"} : Open(o, op, s)
    PROVE  \A b \in Actors : Real(desks'[b])
<1>1. desks[o] \in Desk /\ Real(desks[o]) /\ o \in Actors
    BY UploaderActs DEF TInv, TypeOK, CopiesReal
<1> DEFINE d == desks[o]
<1>2. ASSUME Leave(o) PROVE \A b \in Actors : Real(desks'[b])
    BY <1>1, <1>2, RealAway, RealFrame DEF Leave
<1>3. ASSUME ToRefresh(o) PROVE \A b \in Actors : Real(desks'[b])
    BY <1>1, <1>3, RealToRefresh
<1>4. ASSUME EndCommit(o) PROVE \A b \in Actors : Real(desks'[b])
    <2>1. Real([Away EXCEPT !.pc = "weigh", !.op = "close", !.seen = d.own])
        BY RealAway, AwayType DEF Real, Desk
    <2> QED BY <1>1, <1>2, <1>4, <2>1, RealFrame DEF EndCommit
<1>5. ASSUME NEW s \in Scans, Import(o, s) PROVE \A b \in Actors : Real(desks'[b])
    <2> DEFINE e == [d EXCEPT !.pc = "link", !.scan = s, !.copy = d.copies[s], !.copies = [@ EXCEPT ![s] = NoItem]]
    <2>1. items[s] # NoItem
        BY <1>1, <1>5 DEF Import, Real
    <2>2. e.scan = s /\ e.copies = [d.copies EXCEPT ![s] = NoItem] /\ d.copies \in [Scans -> Item]
        BY <1>1 DEF Desk
    <2>3. Real(e)
        BY <1>1, <2>1, <2>2 DEF Real
    <2>4. desks' = [desks EXCEPT ![o] = e]
        BY <1>5 DEF Import
    <2> HIDE DEF e
    <2> QED BY <1>1, <2>3, <2>4, RealFrame
<1>6. ASSUME NEW s \in Scans, Skip(o, s) PROVE \A b \in Actors : Real(desks'[b])
    <2> DEFINE e == [d EXCEPT !.copies = [@ EXCEPT ![s] = NoItem]]
    <2>1. e.copies = [d.copies EXCEPT ![s] = NoItem] /\ d.copies \in [Scans -> Item] /\ e.pc = d.pc
        BY <1>1 DEF Desk
    <2>2. e.pc # "link"
        BY <1>6, <2>1 DEF Skip, At
    <2>3. Real(e)
        BY <1>1, <2>1, <2>2 DEF Real
    <2>4. desks' = [desks EXCEPT ![o] = e]
        BY <1>6 DEF Skip
    <2> HIDE DEF e
    <2> QED BY <1>1, <2>3, <2>4, RealFrame
<1>7. ASSUME NEW op, NEW those, OpenCommit(o, op, those) PROVE \A b \in Actors : Real(desks'[b])
    <2>1. ASSUME NEW v PROVE Real([Away EXCEPT !.pc = "next", !.op = op, !.own = v,
                                 !.copies = [s \in Scans |-> IF s \in those THEN items[s] ELSE NoItem]])
        BY AwayType DEF Real, Desk
    <2>2. PICK v : desks' = [desks EXCEPT ![o] = [Away EXCEPT !.pc = "next", !.op = op, !.own = v,
                                 !.copies = [s \in Scans |-> IF s \in those THEN items[s] ELSE NoItem]]]
        BY <1>7 DEF OpenCommit
    <2> QED BY <1>1, <2>1, <2>2, RealFrame
<1>8. ASSUME NEW op, NEW s \in Scans, Open(o, op, s) PROVE \A b \in Actors : Real(desks'[b])
    <2>1. Real([Away EXCEPT !.pc = "decide", !.op = op, !.scan = s, !.copy = items[s]])
        BY RealAway, AwayType DEF Real, Desk
    <2> QED BY <1>1, <1>8, <2>1, RealFrame DEF Open
<1> QED BY <1>2, <1>3, <1>4, <1>5, <1>6, <1>7, <1>8
        DEF OperatorStep, Refuse, Discard, Link, SaveDraft, OpenAll, OpenOne

LEMMA StepReal ==
    ASSUME TInv, HInv, TInv', HInv', CopiesReal, [Next]_vars PROVE CopiesReal'
<1>1. \A b \in Actors : Real(desks'[b])
    <2>1. ASSUME UNCHANGED desks PROVE \A b \in Actors : Real(desks'[b])
        BY <2>1 DEF CopiesReal
    <2>2. ASSUME NEW a \in Actors, Kill(a) PROVE \A b \in Actors : Real(desks'[b])
        BY <2>2, RealAway, RealFrame DEF Kill, Leave
    <2> QED BY <2>1, <2>2, RealRefresh, RealUpload, RealWorker, RealOperator DEF Next, Reclaim, vars
<1>2. desks' \in [Actors -> Desk]
    BY DEF TInv, TypeOK
<1>3. \A b \in Actors : desks'[b].scan \in Scans
    BY <1>2 DEF Desk
<1>4. \A s \in Scans : items[s] # NoItem => items'[s] # NoItem
    BY ItemsStay
<1> QED BY <1>1, <1>3, <1>4 DEF CopiesReal, Real

(* Only the upload adds items.                                               *)
LEMMA OthersAddNothing ==
    ASSUME TInv, HInv, CopiesReal, [Next]_vars, ~UploadStep, NEW s \in Scans, items[s] = NoItem
    PROVE  items'[s] = NoItem
<1>1. items \in [Scans -> Item] /\ desks \in [Actors -> Desk]
    BY DEF TInv, TypeOK
<1>2. ASSUME NEW a \in Actors, NEW item, SaveItem(a, item), items[desks[a].scan] # NoItem PROVE items'[s] = NoItem
    BY <1>1, <1>2 DEF SaveItem
<1>3. ASSUME NEW w \in Workers, WorkerStep(w) PROVE items'[s] = NoItem
    <2>1. At(w, "mark") \/ At(w, "ocr") => items[desks[w].scan] # NoItem
        BY UploaderActs DEF HInv, InHand, At
    <2> QED BY <1>2, <1>3, <2>1, UploaderActs DEF WorkerStep, Claim, Mark, Raise, GiveUp, Extract
<1>4. ASSUME NEW o \in Operators, OperatorStep(o) PROVE items'[s] = NoItem
    <2>1. At(o, "decide") \/ At(o, "link") => items[desks[o].scan] # NoItem
        BY UploaderActs DEF HInv, InHand, At, CopiesReal, Real
    <2> QED BY <1>2, <1>4, <2>1, UploaderActs
            DEF OperatorStep, Refuse, Discard, EndCommit, Link, SaveDraft, Skip, Import
<1>5. ASSUME UNCHANGED items PROVE items'[s] = NoItem
    BY <1>5
<1> QED BY <1>3, <1>4, <1>5 DEF Next, Refresh, Look, Weigh, WriteBatch, Kill, Reclaim,
           OpenAll, OpenOne, OpenCommit, Open, vars

(* A run fails with its attempts used up, and an item without one is what a  *)
(* killed upload left.                                                       *)
RunsSpent ==
    \A s \in Scans :
        /\ runs[s].state = "failed" => runs[s].attempt = MAX_OCR_ATTEMPTS
        /\ runs[s].state = "none" /\ items[s] # NoItem => Killed

LEMMA StepSpent == TInv /\ HInv /\ CopiesReal /\ RunsSpent /\ [Next]_vars => RunsSpent'
<1> SUFFICES ASSUME TInv, HInv, CopiesReal, RunsSpent, [Next]_vars, NEW s \in Scans
             PROVE  /\ runs'[s].state = "failed" => runs'[s].attempt = MAX_OCR_ATTEMPTS
                    /\ runs'[s].state = "none" /\ items'[s] # NoItem => Killed'
    BY DEF RunsSpent
<1>1. runs'[s].state = "failed" => runs'[s].attempt = MAX_OCR_ATTEMPTS
    BY NextRunMoves DEF RunMoves, RunsSpent
<1>2. ASSUME runs'[s].state = "none", items'[s] # NoItem PROVE Killed'
    <2>1. runs[s].state = "none"
        BY <1>2, NextRunMoves DEF RunMoves
    <2>2. CASE items[s] # NoItem
        BY <2>1, <2>2, KilledStays DEF RunsSpent
    <2>3. CASE items[s] = NoItem
        <3>1. ASSUME ~UploadStep PROVE FALSE
            BY <1>2, <2>3, <3>1, OthersAddNothing
        <3>2. UploadStep
            BY <3>1
        <3>3. items \in [Scans -> Item] /\ runs \in [Scans -> Run] /\ kills \in Nat
              /\ desks \in [Actors -> Desk] /\ Uploader \in Actors
            BY UploaderActs, BoundAssumption DEF TInv, TypeOK, Run
        <3>4. ASSUME Store PROVE FALSE
            <4> DEFINE t == Upload[desks[Uploader].file]
            <4>1. AddItem(t) /\ runs' = [runs EXCEPT ![t].state = "due"]
                BY <3>4 DEF Store
            <4>2. t # s => items'[s] = items[s]
                BY <3>3, <4>1 DEF AddItem
            <4>3. t = s => runs'[s].state = "due"
                BY <3>3, <4>1 DEF Run
            <4> QED BY <1>2, <2>3, <4>2, <4>3
        <3>5. CASE AbortUpload
            <4>1. kills' = kills + 1
                BY <1>2, <2>3, <3>5 DEF AbortUpload
            <4>2. desks'[Uploader].pc = "away"
                BY <3>3, <3>5, AwayType DEF AbortUpload, Leave
            <4> QED BY <3>3, <4>1, <4>2 DEF Killed, At
        <3> QED BY <1>2, <2>3, <3>2, <3>4, <3>5 DEF UploadStep, SkipFile
    <2> QED BY <2>2, <2>3
<1> QED BY <1>1, <1>2

(* An item that waits to be read has a run that will read it; it goes unread *)
(* only when every attempt was used up or its upload was killed before it    *)
(* could start the run.                                                      *)
THEOREM ScansRemembered == Spec => []NoScanForgotten
<1>1. Init => NotOver /\ RunsSpent /\ CopiesReal
    BY DEF Init, NotOver, RunsSpent, CopiesReal, Real, NoRun, Away
<1>2. TInv /\ NotOver /\ RunsSpent => NoScanForgotten
    <2> SUFFICES ASSUME TInv, NotOver, RunsSpent, NEW s \in Scans, items[s].status \in Active
                 PROVE  \/ runs[s].state \in {"due", "leased"}
                        \/ runs[s].state = "failed" /\ runs[s].attempt = MAX_OCR_ATTEMPTS
                        \/ runs[s].state = "none" /\ Killed
        BY DEF NoScanForgotten, Killed
    <2>1. runs[s].state \in {"none", "due", "leased", "over", "failed"}
        BY DEF TInv, TypeOK
    <2>2. items[s] # NoItem
        BY NoItemType DEF Active
    <2> QED BY <2>1, <2>2 DEF NotOver, RunsSpent
<1>3. TInv /\ HInv /\ TInv' /\ HInv' /\ CopiesReal /\ [Next]_vars => CopiesReal'
    BY StepReal
<1> QED BY <1>1, <1>2, <1>3, Hands, StepNotOver, StepSpent, PTL DEF Spec

-----------------------------------------------------------------------------
(* A commit between its two saves stays there until it makes the second or   *)
(* is killed.                                                                *)
LEMMA LinkMoves ==
    ASSUME TInv, HInv, [Next]_vars, NEW o \in Operators, At(o, "link")
    PROVE  desks'[o] = desks[o] \/ Link(o) \/ Kill(o)
<1>0. o \in Actors /\ desks \in [Actors -> Desk] /\ o # Uploader /\ o \notin Workers
    BY UploaderActs, ActorAssumption DEF TInv, TypeOK
<1>1. ASSUME NEW a \in Actors \ {o}, NEW d, desks' = [desks EXCEPT ![a] = d] PROVE desks'[o] = desks[o]
    BY <1>0, <1>1
<1>2. ASSUME UploadStep PROVE desks'[o] = desks[o]
    BY <1>0, <1>1, <1>2, UploaderActs DEF UploadStep, Store, SkipFile, AbortUpload, NextFile, Leave
<1>3. ASSUME NEW a \in Actors, Refresh(a) PROVE desks'[o] = desks[o]
    <2>1. a # o
        BY <1>3 DEF Refresh, Look, Weigh, WriteBatch, At
    <2> QED BY <1>1, <1>3, <2>1 DEF Refresh, Look, Weigh, WriteBatch, Finish
<1>4. ASSUME NEW a \in Actors, Kill(a) PROVE desks'[o] = desks[o] \/ Kill(o)
    BY <1>1, <1>4 DEF Kill, Leave
<1>5. ASSUME NEW w \in Workers, WorkerStep(w) PROVE desks'[o] = desks[o]
    <2>1. w \in Actors \ {o}
        BY <1>0, UploaderActs
    <2>2. ASSUME NEW s \in Scans, Claim(w, s) PROVE desks'[o] = desks[o]
        BY <1>0, <2>1, <2>2 DEF Claim
    <2>3. ASSUME Mark(w) PROVE desks'[o] = desks[o]
        BY <1>0, <2>1, <2>3 DEF Mark
    <2>4. ASSUME Leave(w) \/ ToRefresh(w) PROVE desks'[o] = desks[o]
        BY <1>1, <2>1, <2>4 DEF Leave, ToRefresh
    <2> QED BY <1>5, <2>2, <2>3, <2>4 DEF WorkerStep, Raise, GiveUp, Extract
<1>6. ASSUME NEW p \in Operators, OperatorStep(p), ~Link(p) PROVE desks'[o] = desks[o]
    <2>1. p # o
        BY <1>6 DEF OperatorStep, Refuse, Discard, EndCommit, SaveDraft, Skip, Import, At
    <2>2. p \in Actors \ {o}
        BY <2>1, UploaderActs
    <2>3. ASSUME NEW s \in Scans, Import(p, s) \/ Skip(p, s) PROVE desks'[o] = desks[o]
        BY <1>0, <2>2, <2>3 DEF Import, Skip
    <2>4. ASSUME EndCommit(p) PROVE desks'[o] = desks[o]
        BY <1>1, <2>2, <2>4 DEF EndCommit, Leave
    <2>5. ASSUME Leave(p) \/ ToRefresh(p) PROVE desks'[o] = desks[o]
        BY <1>1, <2>2, <2>5 DEF Leave, ToRefresh
    <2> QED BY <1>6, <2>3, <2>4, <2>5 DEF OperatorStep, Refuse, Discard, SaveDraft
<1>7. ASSUME NEW p \in Operators, Link(p) PROVE desks'[o] = desks[o] \/ Link(o)
    BY <1>1, <1>7, UploaderActs DEF Link, ToRefresh
<1>8. ASSUME NEW p \in Operators, NEW s \in Scans,
             OpenOne(p, s) \/ \E op \in {"edit", "discard"} : Open(p, op, s)
      PROVE  desks'[o] = desks[o]
    <2>1. p \in Actors \ {o}
        BY <1>8, UploaderActs DEF OpenOne, OpenCommit, Open, At
    <2> QED BY <1>1, <1>8, <2>1 DEF OpenOne, OpenCommit, Open
<1>9. ASSUME (\E s \in Scans : Reclaim(s)) \/ UNCHANGED vars PROVE desks'[o] = desks[o]
    BY <1>9 DEF Reclaim, vars
<1>10. ASSUME NEW p \in Operators, OpenAll(p) PROVE desks'[o] = desks[o]
    <2>1. p \in Actors \ {o}
        BY <1>10, UploaderActs DEF OpenAll, OpenCommit, At
    <2> QED BY <1>1, <1>10, <2>1 DEF OpenAll, OpenCommit
<1> QED BY <1>2, <1>3, <1>4, <1>5, <1>6, <1>7, <1>8, <1>9, <1>10 DEF Next

LEMMA StaleGrows == [Next]_vars => stale \subseteq stale'
<1> USE DEF SaveItem
<1> SUFFICES ASSUME [Next]_vars PROVE stale \subseteq stale'
    OBVIOUS
<1>1. CASE UNCHANGED vars
    BY <1>1 DEF vars
<1>2. CASE UploadStep \/ \E a \in Actors : Refresh(a) \/ Kill(a)
    BY <1>2 DEF UploadStep, Store, SkipFile, AbortUpload, Refresh, Look, Weigh, WriteBatch, Kill
<1>3. CASE \E w \in Workers : WorkerStep(w)
    BY <1>3 DEF WorkerStep, Claim, Mark, Raise, GiveUp, Extract
<1>4. ASSUME NEW o \in Operators, OperatorStep(o) \/ OpenAll(o) PROVE stale \subseteq stale'
    <2>1. ASSUME NEW n \in Numbers \cup {Missing}, SaveDraft(o, n) PROVE stale \subseteq stale'
        BY <2>1 DEF SaveDraft
    <2>2. ASSUME NEW s \in Scans, Import(o, s) \/ Skip(o, s) PROVE stale \subseteq stale'
        BY <2>2 DEF Import, Skip
    <2>3. ASSUME Discard(o) \/ Link(o) PROVE stale \subseteq stale'
        BY <2>3 DEF Discard, Link
    <2>4. ASSUME Refuse(o) \/ EndCommit(o) \/ OpenAll(o) PROVE stale \subseteq stale'
        BY <2>4 DEF Refuse, EndCommit, OpenAll, OpenCommit
    <2> QED BY <1>4, <2>1, <2>2, <2>3, <2>4 DEF OperatorStep
<1>5. CASE \/ \E s \in Scans : Reclaim(s)
           \/ \E o \in Operators, s \in Scans : OpenOne(o, s) \/ \E op \in {"edit", "discard"} : Open(o, op, s)
    BY <1>5 DEF Reclaim, OpenOne, OpenCommit, Open
<1> QED BY <1>1, <1>2, <1>3, <1>4, <1>5 DEF Next

LEMMA StepMatches == TInv /\ HInv /\ RegisterMatchesItems /\ [Next]_vars => RegisterMatchesItems'
<1> SUFFICES ASSUME TInv, HInv, RegisterMatchesItems, [Next]_vars,
                    NEW s \in Scans, s \notin stale', NEW n \in Numbers, register'[n] = s
             PROVE  (items'[s].status = "committed" /\ items'[s].invoice = n) \/ Linking(s, n)'
    BY DEF RegisterMatchesItems
<1>1. s \notin stale
    BY StaleGrows
<1>2. CASE register[n] = s
    <2>1. (items[s].status = "committed" /\ items[s].invoice = n) \/ Linking(s, n)
        BY <1>1, <1>2 DEF RegisterMatchesItems
    <2>2. ASSUME items[s].status = "committed", items[s].invoice = n
          PROVE  items'[s].status = "committed" /\ items'[s].invoice = n
        <3>1. items[s] # NoItem
            BY <2>2, NoItemType
        <3>2. ASSUME NEW a \in Actors, SavedBy(a, s) PROVE items'[s].status = "committed" /\ items'[s].invoice = n
            <4>1. desks[a].copy.status = "committed" /\ ~At(a, "link")
                BY <2>2, <3>2 DEF SavedBy, HInv, InHand, At, Terminal
            <4> QED BY <2>2, <3>2, <4>1 DEF SavedBy, Terminal
        <3> QED BY <2>2, <3>1, <3>2, NextChanges DEF Changes
    <2>3. ASSUME NEW o \in Operators, At(o, "link"), desks[o].scan = s, desks[o].copy.number = n
          PROVE  (items'[s].status = "committed" /\ items'[s].invoice = n) \/ Linking(s, n)'
        <3>1. CASE desks'[o] = desks[o]
            BY <2>3, <3>1 DEF Linking, At
        <3>2. CASE Link(o)
            <4>1. items[s] \in Item /\ items' = [items EXCEPT ![s] = Linked(items[s], n)] /\ items \in [Scans -> Item]
                BY <2>3, <3>2 DEF Link, SaveItem, TInv, TypeOK
            <4> QED BY <4>1 DEF Linked, Item
        <3>3. CASE Kill(o)
            BY <2>3, <3>3 DEF Kill
        <3> QED BY <2>3, <3>1, <3>2, <3>3, LinkMoves
    <2> QED BY <2>1, <2>2, <2>3 DEF Linking
<1>3. CASE register[n] # s
    <2>1. PICK o \in Operators, t \in Scans : Import(o, t)
        BY <1>3, RegisterChanges
    <2>2. t = s /\ desks[o].copies[s].number = n
        <3> DEFINE m == desks[o].copies[t].number
        <3>1. m \in Numbers /\ register' = [register EXCEPT ![m] = t]
            BY <2>1, ImportFree
        <3> HIDE DEF m
        <3>2. n # m => register'[n] = register[n]
            BY <3>1 DEF TInv, TypeOK
        <3>3. n = m /\ register'[n] = t
            BY <1>3, <3>1, <3>2 DEF TInv, TypeOK
        <3> QED BY <3>3 DEF m
    <2> DEFINE d == [desks[o] EXCEPT !.pc = "link", !.scan = t, !.copy = desks[o].copies[t], !.copies[t] = NoItem]
    <2>3. desks' = [desks EXCEPT ![o] = d]
        BY ZenonT(30), <2>1 DEF Import
    <2>4. desks[o] \in Desk /\ o \in Actors
        BY UploaderActs DEF TInv, TypeOK
    <2>5. d.pc = "link" /\ d.scan = s /\ d.copy = desks[o].copies[s]
        BY <2>2, <2>4 DEF Desk
    <2> HIDE DEF d
    <2>6. desks'[o] = d
        BY <2>3, <2>4 DEF TInv, TypeOK
    <2> QED BY <2>2, <2>5, <2>6 DEF Linking, At
<1> QED BY <1>2, <1>3

(* An invoice that came from a scan is the one its item is committed to, or  *)
(* about to be: no scan is on the register twice.                            *)
THEOREM RegisterAndItemsAgree == Spec => []RegisterMatchesItems
<1>1. Init => RegisterMatchesItems
    <2> SUFFICES ASSUME Init, NEW n \in Numbers, NEW s \in Scans PROVE register[n] # s
        BY DEF RegisterMatchesItems
    <2>1. register[n] \in {"other", "free"}
        BY DEF Init
    <2> QED BY <2>1, UploadAssumption
<1> QED BY <1>1, Hands, StepMatches, PTL DEF Spec
-----------------------------------------------------------------------------
(* BatchMatchesItems.  The batch lags behind its items but is never ahead of *)
(* them (Rank), and whoever changes what they imply is on the way to a       *)
(* refresh.  A status in somebody's hand is never ahead of the batch, so a   *)
(* refresh that finds nothing to save is right not to save.  All this needs  *)
(* that an item once read does not become active again.                      *)
Rank(status) == IF status = "processing" THEN 0 ELSE IF status = "review" THEN 1 ELSE 2

Some(rows) == \E s \in Scans : rows[s].status # "missing"

(* What the items imply, if there are any.                                   *)
Due(rows) ==
    IF \E s \in Scans : rows[s].status \in Active THEN "processing"
    ELSE IF \A s \in Scans : rows[s].status \in Terminal \cup {"missing"} THEN "completed" ELSE "review"

(* Neither read nor given up: only such an item has a run still to come.     *)
Unread(item) == item.status \in Active \cup Terminal

Refreshes == {"look", "weigh", "write"}

OnDesk(a, d, rows, b) ==
    /\ d.pc = "store" <=> d.op = "upload"
    /\ d.op = "upload" => a = Uploader /\ b = "processing" /\ d.seen = "processing"
    /\ d.op = "commit all" => Rank(d.own) <= Rank(b)
    /\ d.pc = "weigh" => Rank(d.seen) <= Rank(b)
    /\ d.pc = "write" => Some(rows) /\ d.seen = Due(rows)
    /\ d.pc \in {"mark", "ocr"} => Unread(rows[d.scan])
    /\ d.pc = "ocr" => d.copy.status = "processing"

RunsToCome ==
    \A s \in Scans : Unread(items[s]) \/
        /\ runs[s].state # "due"
        /\ runs[s].state = "leased" => \E a \in Actors : Reads(a, s)

Batched ==
    /\ \A a \in Actors : OnDesk(a, desks[a], items, batch)
    /\ Some(items) => Rank(batch) <= Rank(Due(items))
    /\ Some(items) => batch = Due(items) \/ \E a \in Actors : desks[a].pc \in Refreshes
    /\ RunsToCome

BatchInv == ~torn /\ stale = {} => Batched

LEMMA DueType ==
    ASSUME NEW rows
    PROVE  Due(rows) \in BatchStatus
BY DEF Due, BatchStatus

LEMMA ImpliedDue ==
    ASSUME NEW rows, NEW b
    PROVE  Implied(rows, b) = IF Some(rows) THEN Due(rows) ELSE b
<1>1. StatusOf(rows) = {} <=> ~Some(rows)
    BY DEF StatusOf, Some
<1>2. StatusOf(rows) \cap Active # {} <=> \E s \in Scans : rows[s].status \in Active
    BY DEF StatusOf, Active
<1>3. StatusOf(rows) \subseteq Terminal <=> \A s \in Scans : rows[s].status \in Terminal \cup {"missing"}
    BY DEF StatusOf, Terminal
<1> QED
    BY <1>1, <1>2, <1>3 DEF Implied, Due

LEMMA RankOrders ==
    ASSUME NEW x \in BatchStatus, NEW y \in BatchStatus
    PROVE  /\ Rank(x) \in Nat
           /\ Rank(x) <= Rank(y) /\ Rank(y) <= Rank(x) => x = y
           /\ Rank(x) <= Rank(y) /\ y = "processing" => x = y
           /\ Rank("processing") <= Rank(y)
BY DEF Rank, BatchStatus

LEMMA RankSame ==
    ASSUME NEW x
    PROVE  Rank(x) <= Rank(x)
BY DEF Rank

LEMMA RankAcross ==
    ASSUME NEW x \in BatchStatus, NEW y \in BatchStatus, NEW z \in BatchStatus,
           Rank(x) <= Rank(y), Rank(y) <= Rank(z)
    PROVE  Rank(x) <= Rank(z)
BY DEF Rank, BatchStatus

(* A step of a, while nobody else is about to write.                         *)
LEMMA BatchFrame ==
    ASSUME TInv, HInv, Batched, TypeOK', NEW a \in Actors, NEW d, desks' = [desks EXCEPT ![a] = d],
           OnDesk(a, d, items', batch'),
           Rank(batch) <= Rank(batch'),
           batch' = batch \/ desks[Uploader].op # "upload",
           items' = items \/ \A b \in Actors \ {a} : ~At(b, "write"),
           \A s \in Scans : items'[s].status = items[s].status \/ Unread(items'[s]) \/ Reads(a, s),
           Some(items') => Rank(batch') <= Rank(Due(items')),
           \/ d.pc \in Refreshes
           \/ Some(items') => batch' = Due(items')
           \/ /\ batch' = batch /\ desks[a].pc \notin Refreshes
              /\ Some(items') => Some(items) /\ Due(items') = Due(items),
           \A s \in Scans :
              \/ Unread(items'[s])
              \/ runs'[s].state \notin {"due", "leased"}
              \/ runs'[s].state = "leased" /\ d.op = "read" /\ d.scan = s
              \/ /\ runs'[s].state = runs[s].state /\ items'[s].status = items[s].status
                 /\ ~Reads(a, s)
    PROVE  Batched'
<1>1. \A b \in Actors : desks'[b] = IF b = a THEN d ELSE desks[b]
    BY DEF TInv, TypeOK
<1>2. batch \in BatchStatus /\ batch' \in BatchStatus
    BY DEF TInv, TypeOK
<1>3. ASSUME NEW b \in Actors PROVE OnDesk(b, desks'[b], items', batch')
    <2>1. CASE b = a
        BY <1>1, <2>1
    <2>2. CASE b # a
        <3>1. desks'[b] = desks[b] /\ desks[b] \in Desk /\ OnDesk(b, desks[b], items, batch)
            BY <1>1, <2>2 DEF TInv, TypeOK, Batched
        <3>2. desks[b].own \in BatchStatus /\ desks[b].seen \in BatchStatus
            BY <3>1 DEF Desk
        <3>3. /\ desks[b].op = "commit all" => Rank(desks[b].own) <= Rank(batch')
              /\ desks[b].pc = "weigh" => Rank(desks[b].seen) <= Rank(batch')
            <4>1. ASSUME desks[b].op = "commit all" PROVE Rank(desks[b].own) <= Rank(batch')
                BY <1>2, <3>1, <3>2, <4>1, RankAcross DEF OnDesk
            <4>2. ASSUME desks[b].pc = "weigh" PROVE Rank(desks[b].seen) <= Rank(batch')
                BY <1>2, <3>1, <3>2, <4>2, RankAcross DEF OnDesk
            <4> QED
                BY <4>1, <4>2
        <3>4. desks[b].pc = "write" => Some(items') /\ desks[b].seen = Due(items')
            BY <2>2, <3>1 DEF OnDesk, At
        <3>5. desks[b].pc \in {"mark", "ocr"} => Unread(items'[desks[b].scan])
            <4>1. SUFFICES ASSUME desks[b].pc \in {"mark", "ocr"} PROVE Unread(items'[desks[b].scan])
                OBVIOUS
            <4>2. desks[b].op = "read" /\ desks[b].scan \in Scans
                BY <3>1, <4>1 DEF HInv, InHand, Desk
            <4>3. ~Reads(a, desks[b].scan)
                BY <2>2, <4>2 DEF HInv, OneReads, Reads
            <4>4. Unread(items[desks[b].scan])
                BY <3>1, <4>1 DEF OnDesk
            <4> QED
                BY <4>2, <4>3, <4>4 DEF Unread
        <3>6. desks[b].op = "upload" => b = Uploader /\ batch' = "processing" /\ desks[b].seen = "processing"
            BY <3>1 DEF OnDesk
        <3> QED
            BY <3>1, <3>3, <3>4, <3>5, <3>6 DEF OnDesk
    <2> QED
        BY <2>1, <2>2
<1>4. Some(items') => batch' = Due(items') \/ \E b \in Actors : desks'[b].pc \in Refreshes
    BY <1>1 DEF Batched
<1>5. ASSUME NEW s \in Scans
      PROVE  Unread(items'[s]) \/ (/\ runs'[s].state # "due"
                                   /\ runs'[s].state = "leased" => \E b \in Actors : Reads(b, s)')
    <2>1. CASE runs'[s].state = "leased" /\ d.op = "read" /\ d.scan = s
        BY <1>1, <2>1 DEF Reads
    <2>2. CASE /\ runs'[s].state = runs[s].state /\ items'[s].status = items[s].status
               /\ ~Reads(a, s)
        <3>1. \/ Unread(items[s])
              \/ /\ runs[s].state # "due"
                 /\ runs[s].state = "leased" => \E b \in Actors : Reads(b, s)
            BY DEF Batched, RunsToCome
        <3>2. ASSUME NEW b \in Actors, Reads(b, s) PROVE Reads(b, s)'
            BY <1>1, <2>2, <3>2 DEF Reads
        <3> QED
            BY <2>2, <3>1, <3>2 DEF Unread
    <2> QED
        BY <2>1, <2>2
<1>6. RunsToCome'
    BY <1>5 DEF RunsToCome
<1> QED
    BY <1>3, <1>4, <1>6 DEF Batched

(* A step that only moves one desk on.                                       *)
LEMMA BatchDesk ==
    ASSUME TInv, HInv, Batched, TypeOK', NEW a \in Actors, NEW d, desks' = [desks EXCEPT ![a] = d],
           UNCHANGED <<items, runs, batch>>, OnDesk(a, d, items, batch),
           d.pc \in Refreshes \/ desks[a].pc \notin Refreshes,
           desks[a].op = "read" => d.op = "read" /\ d.scan = desks[a].scan
    PROVE  Batched'
<1>1. Rank(batch) <= Rank(batch)
    BY DEF Rank
<1>2. \A s \in Scans :
          \/ Unread(items'[s])
          \/ runs'[s].state \notin {"due", "leased"}
          \/ runs'[s].state = "leased" /\ d.op = "read" /\ d.scan = s
          \/ runs'[s].state = runs[s].state /\ items'[s].status = items[s].status /\ ~Reads(a, s)
    BY DEF Reads, HInv, InHand
<1>3. Some(items') => Rank(batch') <= Rank(Due(items'))
    BY DEF Batched
<1>4. OnDesk(a, d, items', batch')
    OBVIOUS
<1>5. \A s \in Scans : items'[s].status = items[s].status
    OBVIOUS
<1>6. \/ d.pc \in Refreshes
      \/ /\ batch' = batch /\ desks[a].pc \notin Refreshes
         /\ Some(items') => Some(items) /\ Due(items') = Due(items)
    OBVIOUS
<1> QED
    BY <1>1, <1>2, <1>3, <1>4, <1>5, <1>6, BatchFrame

(* A free desk has nothing to do with the batch.                             *)
LEMMA FreeDesk ==
    ASSUME NEW a, NEW d, d.op \notin {"upload", "commit all"},
           d.pc \notin {"store", "mark", "ocr", "weigh", "write"}
    PROVE  OnDesk(a, d, items, batch) /\ OnDesk(a, d, items', batch')
BY DEF OnDesk

LEMMA RefreshBatch ==
    ASSUME TInv, HInv, Batched, TypeOK', NEW a \in Actors, Refresh(a), ~torn', torn \in BOOLEAN
    PROVE  Batched'
<1>0. desks[a] \in Desk /\ batch \in BatchStatus /\ desks[a].seen \in BatchStatus
      /\ OnDesk(a, desks[a], items, batch) /\ InHand(a, desks[a], items, runs, register)
    BY DEF TInv, TypeOK, Desk, Batched, HInv
<1>1. CASE Look(a)
    <2> DEFINE d == [desks[a] EXCEPT !.pc = "weigh", !.seen = batch]
    <2>1. d.pc = "weigh" /\ d.seen = batch /\ d.op = desks[a].op /\ d.scan = desks[a].scan /\ d.own = desks[a].own
        BY <1>0 DEF Desk
    <2>2. desks' = [desks EXCEPT ![a] = d] /\ UNCHANGED <<items, runs, batch>>
        BY <1>1 DEF Look
    <2> HIDE DEF d
    <2>3. Rank(batch) <= Rank(batch)
        BY DEF Rank
    <2>4. desks[a].op # "upload"
        BY <1>0, <1>1 DEF OnDesk, Look, At
    <2>5. OnDesk(a, d, items, batch)
        BY <1>0, <2>1, <2>3, <2>4 DEF OnDesk
    <2> QED
        BY <2>1, <2>2, <2>5, BatchDesk DEF Refreshes
<1>2. ASSUME Finish(a), UNCHANGED items, At(a, "weigh") \/ At(a, "write"),
             Rank(batch) <= Rank(batch'), batch' = batch \/ desks[Uploader].op # "upload",
             Some(items') => batch' = Due(items')
      PROVE  Batched'
    <2> DEFINE d == AfterRefresh(desks[a])
    <2>1. desks' = [desks EXCEPT ![a] = d]
          /\ \A s \in Scans : runs'[s] = runs[s] \/ (Reads(a, s) /\ runs'[s] = Over)
        BY <1>2, FinishTyped DEF Reads
    <2>2. d.pc \in {"away", "next"} /\ d.op \in {"none", "commit", "commit all"}
        BY <1>0, AfterRefreshType
    <2>3. d.op = "commit all" => d.own = desks[a].own /\ desks[a].op = "commit all"
        BY <1>0, AwayType DEF AfterRefresh, Desk
    <2>4. \A s \in Scans : Reads(a, s) => runs'[s] = Over
        BY <1>0, <1>2 DEF Finish, Reads, TInv, TypeOK
    <2> HIDE DEF d
    <2>5. d.op = "commit all" => Rank(d.own) <= Rank(batch')
        <3>1. batch' \in BatchStatus /\ desks[a].own \in BatchStatus
            BY <1>0 DEF TypeOK, Desk
        <3> QED
            BY <1>0, <1>2, <2>3, <3>1, RankAcross DEF OnDesk
    <2>6. OnDesk(a, d, items', batch')
        BY <2>2, <2>5 DEF OnDesk
    <2>7. \A s \in Scans :
              \/ runs'[s].state \notin {"due", "leased"}
              \/ runs'[s].state = runs[s].state /\ items'[s].status = items[s].status /\ ~Reads(a, s)
        BY <1>2, <2>1, <2>4 DEF Over
    <2>8. Some(items') => Rank(batch') <= Rank(Due(items'))
        BY <1>2 DEF Rank
    <2>9. \A s \in Scans : items'[s].status = items[s].status
        BY <1>2
    <2> QED
        BY <1>2, <2>1, <2>6, <2>7, <2>8, <2>9, BatchFrame
<1>3. CASE Weigh(a)
    <2> DEFINE want == Implied(items, desks[a].seen)
               d == [desks[a] EXCEPT !.pc = "write", !.seen = want]
    <2>1. want = IF Some(items) THEN Due(items) ELSE desks[a].seen
        BY ImpliedDue
    <2>2. At(a, "weigh") /\ UNCHANGED <<items, batch>>
        BY <1>3 DEF Weigh
    <2>3. CASE want = desks[a].seen
        <3>1. Finish(a)
            BY <1>3, <2>3 DEF Weigh
        <3>2. Some(items) => batch = Due(items)
            <4>1. SUFFICES ASSUME Some(items) PROVE batch = Due(items)
                OBVIOUS
            <4>2. Rank(Due(items)) <= Rank(batch) /\ Rank(batch) <= Rank(Due(items))
                BY <1>0, <2>1, <2>2, <2>3, <4>1 DEF OnDesk, Batched, At
            <4> QED
                BY <1>0, <4>2, DueType, RankOrders
        <3>3. Rank(batch) <= Rank(batch)
            BY DEF Rank
        <3> QED
            BY <1>2, <2>2, <3>1, <3>2, <3>3
    <2>4. CASE want # desks[a].seen
        <3>1. desks' = [desks EXCEPT ![a] = d] /\ UNCHANGED runs
            BY <1>3, <2>4 DEF Weigh
        <3>2. Some(items) /\ want = Due(items)
            BY <2>1, <2>4
        <3>3. d.pc = "write" /\ d.seen = want /\ d.op = desks[a].op /\ d.scan = desks[a].scan /\ d.own = desks[a].own
            BY <1>0 DEF Desk
        <3>4. desks[a].op # "upload"
            BY <1>0, <2>2 DEF OnDesk, At
        <3> HIDE DEF d, want
        <3>5. OnDesk(a, d, items, batch)
            BY <1>0, <3>2, <3>3, <3>4 DEF OnDesk
        <3> QED
            BY <2>2, <3>1, <3>3, <3>5, BatchDesk DEF Refreshes
    <2> QED
        BY <2>3, <2>4
<1>4. CASE WriteBatch(a)
    <2>1. /\ At(a, "write") /\ Finish(a) /\ batch' = desks[a].seen /\ UNCHANGED items
          /\ torn' = (torn \/ (batch' # batch /\ desks[Uploader].op = "upload"))
        BY <1>4 DEF WriteBatch
    <2>2. Some(items) /\ batch' = Due(items)
        BY <1>0, <2>1 DEF OnDesk, At
    <2>3. Rank(batch) <= Rank(batch')
        BY <2>2 DEF Batched
    <2> QED
        BY <1>2, <2>1, <2>2, <2>3
<1> QED
    BY <1>1, <1>3, <1>4 DEF Refresh

LEMMA UploadBatch ==
    ASSUME TInv, HInv, Batched, TypeOK', UploadStep, ~torn', torn \in BOOLEAN
    PROVE  Batched'
<1>0. /\ Uploader \in Actors /\ desks[Uploader] \in Desk
      /\ desks[Uploader].file \in 1 .. Len(Upload)
      /\ OnDesk(Uploader, desks[Uploader], items, batch)
    BY UploaderActs DEF TInv, TypeOK, Desk, Batched
<1> DEFINE s == Upload[desks[Uploader].file]
<1>1. s \in Scans
    BY <1>0, UploadAssumption
<1>2. At(Uploader, "store") /\ UNCHANGED batch
    BY DEF UploadStep, Store, SkipFile, AbortUpload
<1>3. batch = "processing" /\ desks[Uploader].op = "upload" /\ desks[Uploader].seen = "processing"
    BY <1>0, <1>2 DEF OnDesk, At
<1> HIDE DEF s
<1>4. Rank(batch) <= Rank(batch')
    BY <1>2 DEF Rank
<1>5. ASSUME NEW d, desks' = [desks EXCEPT ![Uploader] = d], OnDesk(Uploader, d, items, batch), d.op # "read",
             \/ UNCHANGED <<items, runs>>
             \/ /\ AddItem(s) /\ \A t \in Scans \ {s} : runs'[t] = runs[t]
                /\ d.pc \notin {"mark", "ocr", "write"}
      PROVE  Batched'
    <2>1. CASE UNCHANGED <<items, runs>>
        BY <1>0, <1>2, <1>3, <1>5, <2>1, BatchDesk DEF At, Refreshes
    <2>2. CASE AddItem(s) /\ (\A t \in Scans \ {s} : runs'[t] = runs[t])
               /\ d.pc \notin {"mark", "ocr", "write"}
        <3>1. items'[s].status = "queued" /\ \A t \in Scans \ {s} : items'[t] = items[t]
            <4>1. items \in [Scans -> Item] /\ items[s] \in Item
                BY <1>1 DEF TInv, TypeOK
            <4>2. [items[s] EXCEPT !.status = "queued"].status = "queued"
                BY <4>1 DEF Item
            <4> QED
                BY <1>1, <2>2, <4>1, <4>2 DEF AddItem
        <3>2. Some(items') /\ Due(items') = "processing"
            BY <1>1, <3>1 DEF Some, Due, Active
        <3>3. \A b \in Actors : ~At(b, "write")
            BY <2>2 DEF AddItem
        <3>4. Unread(items'[s])
            BY <3>1 DEF Unread, Active
        <3>6. OnDesk(Uploader, d, items', batch')
            BY <1>2, <1>5, <2>2 DEF OnDesk
        <3>7. \A t \in Scans : ~Reads(Uploader, t)
            BY <1>3 DEF Reads
        <3>8. \A t \in Scans : items'[t].status = items[t].status \/ Unread(items'[t])
            BY <3>1, <3>4
        <3>9. \A t \in Scans :
                  \/ Unread(items'[t])
                  \/ /\ runs'[t].state = runs[t].state /\ items'[t].status = items[t].status
                     /\ ~Reads(Uploader, t)
            BY <2>2, <3>1, <3>4, <3>7
        <3>10. Rank(batch') <= Rank(Due(items')) /\ batch' = Due(items')
            BY <1>2, <1>3, <3>2 DEF Rank
        <3> QED
            BY <1>0, <1>2, <1>4, <1>5, <3>3, <3>6, <3>8, <3>9, <3>10, BatchFrame
    <2> QED
        BY <1>5, <2>1, <2>2
<1>6. ASSUME NextFile,
             UNCHANGED <<items, runs>> \/ (AddItem(s) /\ \A t \in Scans \ {s} : runs'[t] = runs[t])
      PROVE  Batched'
    <2> DEFINE u == desks[Uploader]
               d == IF u.file < Len(Upload) THEN [u EXCEPT !.file = u.file + 1] ELSE [u EXCEPT !.pc = "weigh", !.op = "close"]
    <2>1. desks' = [desks EXCEPT ![Uploader] = d]
        BY <1>6 DEF NextFile
    <2>2. /\ (d.pc = "store" /\ d.op = "upload") \/ (d.pc = "weigh" /\ d.op = "close")
          /\ d.seen = "processing"
        BY <1>0, <1>2, <1>3 DEF Desk, At
    <2> HIDE DEF d
    <2>3. Rank(d.seen) <= Rank(batch)
        BY <1>3, <2>2 DEF Rank
    <2>4. OnDesk(Uploader, d, items, batch)
        BY <1>3, <2>2, <2>3 DEF OnDesk
    <2>5. d.op # "read" /\ d.pc \notin {"mark", "ocr", "write"}
        BY <2>2
    <2> QED
        BY <1>5, <1>6, <2>1, <2>4, <2>5
<1>7. ASSUME AbortUpload PROVE Batched'
    <2>1. /\ desks' = [desks EXCEPT ![Uploader] = Away] /\ UNCHANGED runs
          /\ UNCHANGED items \/ AddItem(s)
        BY <1>7 DEF AbortUpload, Leave, s
    <2>2. OnDesk(Uploader, Away, items, batch)
        BY AwayType, FreeDesk
    <2>3. Away.op # "read" /\ Away.pc \notin {"mark", "ocr", "write"}
        BY AwayType
    <2> QED
        BY <1>5, <2>1, <2>2, <2>3
<1>8. CASE Store
    <2>1. NextFile /\ AddItem(s) /\ runs' = [runs EXCEPT ![s].state = "due"]
        BY <1>8 DEF Store, s
    <2>2. \A t \in Scans \ {s} : runs'[t] = runs[t]
        BY <1>1, <2>1 DEF TInv, TypeOK
    <2> QED
        BY <1>6, <2>1, <2>2
<1>9. CASE SkipFile
    BY <1>6, <1>9 DEF SkipFile
<1> QED
    BY <1>7, <1>8, <1>9 DEF UploadStep

(* Saving an item that does not become active, nor leave its terminal status,*)
(* takes what the items imply only further.                                  *)
LEMMA DueGrows ==
    ASSUME NEW rows, NEW new, NEW s \in Scans, \A t \in Scans \ {s} : new[t] = rows[t],
           rows[s].status # "missing", new[s].status # "missing",
           new[s].status \in Active => rows[s].status \in Active,
           rows[s].status \in Terminal => new[s].status \in Terminal
    PROVE  Some(rows) /\ Some(new) /\ Rank(Due(rows)) <= Rank(Due(new))
<1>1. Some(rows) /\ Some(new)
    BY DEF Some
<1>2. CASE \E t \in Scans : rows[t].status \in Active
    <2>1. Due(rows) = "processing"
        BY <1>2 DEF Due
    <2> QED
        BY <1>1, <2>1, DueType, RankOrders
<1>3. CASE \A t \in Scans : rows[t].status \notin Active
    <2>1. \A t \in Scans : new[t].status \notin Active
        BY <1>3
    <2>2. Due(new) \in {"review", "completed"} /\ Due(rows) \in {"review", "completed"}
        BY <1>3, <2>1 DEF Due
    <2>3. Due(rows) = "completed" => Due(new) = "completed"
        <3>1. SUFFICES ASSUME Due(rows) = "completed" PROVE Due(new) = "completed"
            OBVIOUS
        <3>2. \A t \in Scans : rows[t].status \in Terminal \cup {"missing"}
            BY <1>3, <3>1 DEF Due
        <3>3. \A t \in Scans : new[t].status \in Terminal \cup {"missing"}
            BY <3>2
        <3> QED
            BY <2>1, <3>3 DEF Due
    <2> QED
        BY <1>1, <2>2, <2>3 DEF Rank
<1> QED
    BY <1>2, <1>3

LEMMA SaveBatch ==
    ASSUME TInv, HInv, Batched, TypeOK', NEW a \in Actors, NEW item, SaveItem(a, item),
           NEW d, desks' = [desks EXCEPT ![a] = d], ~torn', torn \in BOOLEAN,
           UNCHANGED <<runs, batch>>, OnDesk(a, d, items', batch),
           desks[a].op = "read" => d.op = "read" /\ d.scan = desks[a].scan,
           item.status # "missing", items[desks[a].scan].status # "missing",
           \/ item.status = items[desks[a].scan].status
           \/ item.status \in Terminal
           \/ desks[a].op = "read" /\ items[desks[a].scan].status \in Active,
           \/ d.pc \in Refreshes
           \/ /\ item.status = items[desks[a].scan].status \/ {item.status, items[desks[a].scan].status} \subseteq Active
              /\ desks[a].pc \notin Refreshes
    PROVE  Batched'
<1> DEFINE s == desks[a].scan
<1>1. s \in Scans /\ items \in [Scans -> Item] /\ batch \in BatchStatus
    BY DEF TInv, TypeOK, Desk
<1>2. items'[s] = item /\ \A t \in Scans \ {s} : items'[t] = items[t]
    BY <1>1 DEF SaveItem
<1>3. \A b \in Actors \ {a} : ~At(b, "write")
    BY DEF SaveItem
<1>4. OnDesk(a, d, items', batch')
    OBVIOUS
<1>5. Rank(batch) <= Rank(batch')
    BY DEF Rank
<1>6. \A t \in Scans : items'[t].status = items[t].status \/ Unread(items'[t]) \/ Reads(a, t)
    BY <1>2 DEF Unread, Reads
<1>7. Some(items) /\ Some(items') /\ Rank(batch') <= Rank(Due(items'))
    <2>1. Some(items)
        BY <1>1 DEF Some
    <2>2. Rank(batch) <= Rank(Due(items))
        BY <2>1 DEF Batched
    <2>3. CASE item.status = items[s].status \/ item.status \in Terminal
        <3>1. Some(items') /\ Rank(Due(items)) <= Rank(Due(items'))
            <4>1. /\ item.status \in Active => items[s].status \in Active
                  /\ items[s].status \in Terminal => item.status \in Terminal
                BY <2>3 DEF Active, Terminal
            <4> HIDE DEF s
            <4>2. PICK rows, new : rows = items /\ new = items'
                OBVIOUS
            <4>3. Some(rows) /\ Some(new) /\ Rank(Due(rows)) <= Rank(Due(new))
                BY <1>1, <1>2, <4>1, <4>2, DueGrows DEF s
            <4> QED
                BY <4>2, <4>3
        <3> QED
            BY <1>1, <2>1, <2>2, <3>1, DueType, RankAcross
    <2>4. CASE items[s].status \in Active
        <3>1. Due(items) = "processing"
            BY <1>1, <2>4 DEF Due
        <3>2. batch = "processing"
            BY <1>1, <2>2, <3>1, DueType, RankOrders
        <3>3. Some(items')
            BY <1>1, <1>2 DEF Some
        <3> QED
            BY <2>1, <3>2, <3>3, DueType, RankOrders
    <2> QED
        BY <2>3, <2>4
<1>8. \/ d.pc \in Refreshes
      \/ batch' = batch /\ desks[a].pc \notin Refreshes /\ Due(items') = Due(items)
    <2>1. ASSUME item.status = items[s].status \/ {item.status, items[s].status} \subseteq Active
          PROVE  Due(items') = Due(items)
        <3>1. CASE item.status = items[s].status
            <4>1. \A t \in Scans : items'[t].status = items[t].status
                BY <1>1, <1>2, <3>1
            <4> QED
                BY <4>1 DEF Due
        <3>2. CASE {item.status, items[s].status} \subseteq Active
            BY <1>1, <1>2, <3>2 DEF Due
        <3> QED
            BY <2>1, <3>1, <3>2
    <2> QED
        BY <2>1
<1>9. \A t \in Scans :
          \/ Unread(items'[t])
          \/ runs'[t].state \notin {"due", "leased"}
          \/ runs'[t].state = "leased" /\ d.op = "read" /\ d.scan = t
          \/ runs'[t].state = runs[t].state /\ items'[t].status = items[t].status /\ ~Reads(a, t)
    <2>1. ASSUME NEW t \in Scans, Reads(a, t) PROVE runs'[t].state = "leased" /\ d.op = "read" /\ d.scan = t
        BY <2>1 DEF Reads, HInv, InHand
    <2>2. ASSUME NEW t \in Scans, ~Reads(a, t) PROVE Unread(items'[t]) \/ items'[t].status = items[t].status
        BY <1>6, <2>2
    <2> QED
        BY <2>1, <2>2
<1> HIDE DEF s
<1> QED
    BY <1>3, <1>4, <1>5, <1>6, <1>7, <1>8, <1>9, BatchFrame

LEMMA CopyIsItem ==
    ASSUME NEW a, NEW item, SaveItem(a, item), stale' = {}
    PROVE  desks[a].copy = items[desks[a].scan]
BY DEF SaveItem

LEMMA RefreshingBatch ==
    ASSUME NEW a, NEW d \in Desk, OnDesk(a, d, items, batch), d.pc # "store", UNCHANGED batch
    PROVE  OnDesk(a, Refreshing(d), items', batch)
<1>1. /\ Refreshing(d).pc = "look" /\ Refreshing(d).op \in {"read", "commit", "commit all", "close"}
      /\ Refreshing(d).op = "commit all" => d.op = "commit all" /\ Refreshing(d).own = d.own
    BY NoItemType DEF Refreshing, Desk
<1> QED
    BY <1>1 DEF OnDesk

LEMMA WorkerBatch ==
    ASSUME TInv, HInv, Batched, TypeOK', NEW w \in Workers, WorkerStep(w),
           ~torn', torn \in BOOLEAN, stale' = {}
    PROVE  Batched'
<1>0. /\ w \in Actors /\ desks[w] \in Desk /\ desks[w].scan \in Scans /\ desks[w].copy \in Item
      /\ items \in [Scans -> Item] /\ runs \in [Scans -> Run]
      /\ InHand(w, desks[w], items, runs, register) /\ OnDesk(w, desks[w], items, batch)
    BY UploaderActs DEF TInv, TypeOK, Desk, HInv, Run, Batched
<1> DEFINE i == items[desks[w].scan]
<1>1. i \in Item
    BY <1>0
<1>2. ASSUME NEW s \in Scans, Claim(w, s) PROVE Batched'
    <2>1. At(w, "away") /\ runs[s].state = "due" /\ UNCHANGED <<items, batch>> /\ items[s] \in Item
        BY <1>0, <1>2 DEF Claim
    <2>2. Unread(items[s])
        BY <2>1 DEF Batched, RunsToCome
    <2>3. desks[w].op # "read"
        BY <1>0, <2>1 DEF InHand, At
    <2>4. ASSUME NEW d, desks' = [desks EXCEPT ![w] = d], OnDesk(w, d, items, batch), d.pc \notin Refreshes,
                 NEW r, runs' = [runs EXCEPT ![s] = r]
          PROVE  Batched'
        <3>1. \A t \in Scans : t = s \/ runs'[t] = runs[t]
            BY <1>0, <2>4
        <3>2. \A t \in Scans : ~Reads(w, t)
            BY <2>3 DEF Reads
        <3>3. \A t \in Scans :
                  \/ Unread(items'[t])
                  \/ runs'[t].state = runs[t].state /\ items'[t].status = items[t].status /\ ~Reads(w, t)
            BY <2>1, <2>2, <3>1, <3>2
        <3>4. Rank(batch) <= Rank(batch') /\ \A t \in Scans : items'[t].status = items[t].status
            BY <2>1 DEF Rank
        <3>5. Some(items') => Rank(batch') <= Rank(Due(items'))
            BY <2>1 DEF Batched
        <3>6. /\ batch' = batch /\ desks[w].pc \notin Refreshes
              /\ Some(items') => Some(items) /\ Due(items') = Due(items)
            BY <2>1 DEF At, Refreshes
        <3>7. OnDesk(w, d, items', batch')
            BY <2>1, <2>4
        <3> QED
            BY <1>0, <2>1, <2>4, <3>3, <3>4, <3>5, <3>6, <3>7, BatchFrame
    <2>5. CASE ~ToWorkOn(items[s])
        <3>1. runs' = [runs EXCEPT ![s] = Over] /\ desks' = [desks EXCEPT ![w] = desks[w]]
            BY <1>0, <1>2, <2>5 DEF Claim, TInv, TypeOK
        <3>2. desks[w].pc \notin Refreshes
            BY <2>1 DEF At, Refreshes
        <3> QED
            BY <1>0, <2>4, <3>1, <3>2
    <2>6. CASE ToWorkOn(items[s])
        <3> DEFINE pc == IF items[s].status = "processing" THEN "ocr" ELSE "mark"
                   d == [Away EXCEPT !.op = "read", !.scan = s, !.copy = items[s], !.pc = pc]
                   r == [state |-> "leased", attempt |-> runs[s].attempt + 1]
        <3>1. runs' = [runs EXCEPT ![s] = r] /\ desks' = [desks EXCEPT ![w] = d]
            BY <1>2, <2>6 DEF Claim
        <3>2. d.op = "read" /\ d.scan = s /\ d.copy = items[s] /\ d.pc = pc
            BY <2>1, AwayType DEF Desk
        <3>3. d.pc \in {"mark", "ocr"} /\ (d.pc = "ocr" => items[s].status = "processing")
            BY <3>2
        <3> HIDE DEF d, r, pc
        <3>4. OnDesk(w, d, items, batch)
            BY <2>2, <3>2, <3>3 DEF OnDesk
        <3>5. d.pc \notin Refreshes
            BY <3>3 DEF Refreshes
        <3> QED
            BY <2>4, <3>1, <3>4, <3>5
    <2> QED
        BY <2>5, <2>6
<1>3. ASSUME Mark(w) PROVE Batched'
    <2> DEFINE j == [i EXCEPT !.status = "processing"]
               d == [desks[w] EXCEPT !.pc = "ocr", !.copy = [desks[w].copy EXCEPT !.status = "processing"]]
    <2>1. /\ At(w, "mark") /\ SaveItem(w, j) /\ desks' = [desks EXCEPT ![w] = d]
          /\ UNCHANGED <<runs, batch>>
        BY <1>3 DEF Mark
    <2>2. desks[w].copy = i /\ desks[w].op = "read"
        BY <1>0, <2>1, CopyIsItem DEF InHand, At
    <2>3. i.status \in Active
        BY <1>0, <2>1, <2>2 DEF InHand, OnDesk, Unread, At
    <2>4. j.status = "processing"
        BY <1>1 DEF Item
    <2>5. d.pc = "ocr" /\ d.op = "read" /\ d.scan = desks[w].scan /\ d.copy.status = "processing"
        BY <1>0, <2>2 DEF Desk, Item
    <2>6. items'[d.scan] = j
        BY <1>0, <2>1, <2>5 DEF SaveItem
    <2> HIDE DEF j, d
    <2>7. OnDesk(w, d, items', batch)
        BY <2>4, <2>5, <2>6 DEF OnDesk, Unread, Active
    <2>8. j.status \in Active /\ desks[w].pc \notin Refreshes /\ i.status # "missing" /\ j.status # "missing"
        BY <2>1, <2>3, <2>4 DEF Active, At, Refreshes
    <2> QED
        BY <1>0, <2>1, <2>2, <2>3, <2>5, <2>7, <2>8, SaveBatch
<1>4. ASSUME NEW j, j.status # "missing", SaveItem(w, j), At(w, "ocr"), ToRefresh(w), UNCHANGED <<runs, batch>>
      PROVE  Batched'
    <2> DEFINE d == Refreshing(desks[w])
    <2>1. desks[w].op = "read" /\ desks[w].copy = i /\ i.status = "processing"
        BY <1>0, <1>4, CopyIsItem DEF InHand, OnDesk, At
    <2>2. d.pc = "look" /\ d.op = "read" /\ d.scan = desks[w].scan
        BY <1>0, <2>1, RefreshingType
    <2>3. OnDesk(w, d, items', batch)
        BY <1>0, <1>4, RefreshingBatch DEF At
    <2>4. desks' = [desks EXCEPT ![w] = d]
        BY <1>4 DEF ToRefresh
    <2> HIDE DEF d
    <2>5. i.status \in Active /\ i.status # "missing" /\ d.pc \in Refreshes
        BY <2>1, <2>2 DEF Active, Refreshes
    <2> QED
        BY <1>0, <1>4, <2>1, <2>2, <2>3, <2>4, <2>5, SaveBatch
<1>5. ASSUME NEW r \in Readings, Extract(w, r) PROVE Batched'
    <2> DEFINE j == [status |-> r[2], number |-> r[1], invoice |-> desks[w].copy.invoice]
    <2>1. j.status # "missing"
        BY ReadingAssumption
    <2>2. SaveItem(w, j) /\ At(w, "ocr") /\ ToRefresh(w) /\ UNCHANGED <<runs, batch>>
        BY <1>5 DEF Extract
    <2> HIDE DEF j
    <2> QED
        BY <1>4, <2>1, <2>2
<1>6. ASSUME GiveUp(w) PROVE Batched'
    <2> DEFINE j == Failed(i)
    <2>1. j.status # "missing"
        BY <1>1 DEF Failed, Item
    <2>2. SaveItem(w, j) /\ At(w, "ocr") /\ ToRefresh(w) /\ UNCHANGED <<runs, batch>>
        BY <1>6 DEF GiveUp
    <2> HIDE DEF j
    <2> QED
        BY <1>4, <2>1, <2>2
<1>7. ASSUME Raise(w) PROVE Batched'
    <2> DEFINE s == desks[w].scan
    <2>1. /\ At(w, "ocr") /\ runs' = [runs EXCEPT ![s].state = Ended(s)]
          /\ desks' = [desks EXCEPT ![w] = Away] /\ UNCHANGED <<items, batch>>
        BY <1>7 DEF Raise, Leave
    <2>2. Unread(items[s]) /\ desks[w].op = "read"
        BY <1>0, <2>1 DEF OnDesk, InHand, At
    <2>3. \A t \in Scans : t = s \/ (runs'[t] = runs[t] /\ ~Reads(w, t))
        BY <1>0, <2>1 DEF Reads
    <2>4. OnDesk(w, Away, items', batch')
        BY AwayType, FreeDesk
    <2> HIDE DEF s
    <2>5. \A t \in Scans :
              \/ Unread(items'[t])
              \/ runs'[t].state = runs[t].state /\ items'[t].status = items[t].status /\ ~Reads(w, t)
        BY <2>1, <2>2, <2>3
    <2>6. Rank(batch) <= Rank(batch') /\ \A t \in Scans : items'[t].status = items[t].status
        BY <2>1 DEF Rank
    <2>7. Some(items') => Rank(batch') <= Rank(Due(items'))
        BY <2>1 DEF Batched
    <2>8. /\ batch' = batch /\ desks[w].pc \notin Refreshes
          /\ Some(items') => Some(items) /\ Due(items') = Due(items)
        BY <2>1 DEF At, Refreshes
    <2> QED
        BY <1>0, <2>1, <2>4, <2>5, <2>6, <2>7, <2>8, BatchFrame
<1> QED
    BY <1>2, <1>3, <1>5, <1>6, <1>7 DEF WorkerStep

LEMMA ReclaimBatch ==
    ASSUME TInv, HInv, Batched, TypeOK', NEW s \in Scans, Reclaim(s)
    PROVE  Batched'
<1>1. /\ runs[s].state = "leased" /\ \A w \in Workers : ~Reads(w, s)
      /\ runs' = [runs EXCEPT ![s].state = Ended(s)] /\ UNCHANGED <<items, batch, desks>>
    BY DEF Reclaim, Reads
<1>2. \A a \in Actors : ~Reads(a, s)
    BY <1>1 DEF HInv, InHand, Reads
<1>3. Unread(items[s])
    BY <1>1, <1>2 DEF Batched, RunsToCome
<1>4. \A t \in Scans : t = s \/ runs'[t] = runs[t]
    BY <1>1 DEF TInv, TypeOK
<1>5. RunsToCome'
    <2>1. ASSUME NEW t \in Scans
          PROVE  Unread(items'[t]) \/ (/\ runs'[t].state # "due"
                                       /\ runs'[t].state = "leased" => \E a \in Actors : Reads(a, t)')
        <3>1. CASE t = s
            BY <1>1, <1>3, <3>1
        <3>2. CASE t # s
            <4>1. \A a \in Actors : Reads(a, t)' <=> Reads(a, t)
                BY <1>1 DEF Reads
            <4> QED
                BY <1>1, <1>4, <3>2, <4>1 DEF Batched, RunsToCome
        <3> QED
            BY <3>1, <3>2
    <2> QED
        BY <2>1 DEF RunsToCome
<1> QED
    BY <1>1, <1>5 DEF Batched

LEMMA LeaveBatch ==
    ASSUME TInv, HInv, Batched, TypeOK', NEW a \in Actors, Leave(a), UNCHANGED <<items, runs, batch>>,
           desks[a].pc \notin Refreshes, desks[a].op # "read"
    PROVE  Batched'
BY AwayType, FreeDesk, BatchDesk DEF Leave

LEMMA OperatorBatch ==
    ASSUME TInv, HInv, Batched, TypeOK', NEW o \in Operators, OperatorStep(o),
           ~torn', torn \in BOOLEAN, stale' = {}
    PROVE  Batched'
<1>0. /\ o \in Actors /\ o \notin Workers /\ desks[o] \in Desk /\ desks[o].scan \in Scans
      /\ items \in [Scans -> Item]
      /\ InHand(o, desks[o], items, runs, register) /\ OnDesk(o, desks[o], items, batch)
    BY UploaderActs, ActorAssumption DEF TInv, TypeOK, Desk, HInv, Batched
<1>1. desks[o].op # "read"
    BY <1>0 DEF InHand
<1> DEFINE i == items[desks[o].scan]
<1>2. i \in Item
    BY <1>0
<1>3. ASSUME Refuse(o) PROVE Batched'
    BY <1>0, <1>1, <1>3, LeaveBatch DEF Refuse, At, Refreshes
<1>4. ASSUME NEW n \in Numbers \cup {Missing}, SaveDraft(o, n) PROVE Batched'
    <2> DEFINE j == [i EXCEPT !.number = n]
    <2>1. At(o, "decide") /\ SaveItem(o, j) /\ desks' = [desks EXCEPT ![o] = Away] /\ UNCHANGED <<runs, batch>>
        BY <1>4 DEF SaveDraft, Leave
    <2>2. j.status = i.status
        BY <1>2 DEF Item
    <2>3. i # NoItem
        BY <1>0, <2>1 DEF InHand, At
    <2>4. i.status # "missing"
        BY <1>0, <2>3 DEF TInv, RunsBudgeted
    <2>5. OnDesk(o, Away, items', batch')
        BY AwayType, FreeDesk
    <2> HIDE DEF j
    <2> QED
        BY <1>0, <1>1, <2>1, <2>2, <2>4, <2>5, SaveBatch DEF At, Refreshes
<1>5. ASSUME NEW j, j.status \in Terminal, i.status # "missing", SaveItem(o, j),
             At(o, "decide") \/ At(o, "link"), ToRefresh(o), UNCHANGED <<runs, batch>>
      PROVE  Batched'
    <2> DEFINE d == Refreshing(desks[o])
    <2>1. d.pc \in Refreshes
        BY <1>0, RefreshingType DEF Refreshes
    <2>2. OnDesk(o, d, items', batch)
        BY <1>0, <1>5, RefreshingBatch DEF At
    <2>3. desks' = [desks EXCEPT ![o] = d] /\ j.status # "missing"
        BY <1>5 DEF ToRefresh, Terminal
    <2> HIDE DEF d
    <2> QED
        BY <1>0, <1>1, <1>5, <2>1, <2>2, <2>3, SaveBatch
<1>6. ASSUME Discard(o) PROVE Batched'
    <2> DEFINE j == [i EXCEPT !.status = "discarded"]
    <2>1. At(o, "decide") /\ SaveItem(o, j) /\ ToRefresh(o) /\ UNCHANGED <<runs, batch>>
        BY <1>6 DEF Discard
    <2>2. j.status \in Terminal
        BY <1>2 DEF Item, Terminal
    <2>3. i # NoItem
        BY <1>0, <2>1 DEF InHand, At
    <2>4. i.status # "missing"
        BY <1>0, <2>3 DEF TInv, RunsBudgeted
    <2> HIDE DEF j
    <2> QED
        BY <1>5, <2>1, <2>2, <2>4
<1>7. ASSUME Link(o) PROVE Batched'
    <2> DEFINE j == Linked(i, desks[o].copy.number)
    <2>1. At(o, "link") /\ SaveItem(o, j) /\ ToRefresh(o) /\ UNCHANGED <<runs, batch>>
        BY <1>7 DEF Link
    <2>2. j.status \in Terminal
        BY <1>2 DEF Linked, Item, Terminal
    <2>3. i.status # "missing"
        <3>1. desks[o].copy = i /\ desks[o].copy.number \in Numbers
            BY <1>0, <2>1, CopyIsItem DEF InHand, At
        <3>2. i # NoItem
            BY <3>1, NumberAssumption, NoItemType
        <3> QED
            BY <1>0, <3>2 DEF TInv, RunsBudgeted
    <2> HIDE DEF j
    <2> QED
        BY <1>5, <2>1, <2>2, <2>3
<1>8. ASSUME NEW d, desks' = [desks EXCEPT ![o] = d], At(o, "next"), UNCHANGED <<items, runs, batch>>,
             d.pc \in {"next", "link"}, d.op = desks[o].op, d.own = desks[o].own
      PROVE  Batched'
    <2>1. desks[o].op # "upload"
        BY <1>0, <1>8 DEF OnDesk, At
    <2>2. OnDesk(o, d, items, batch)
        BY <1>0, <1>8, <2>1 DEF OnDesk
    <2> QED
        BY <1>0, <1>1, <1>8, <2>2, BatchDesk DEF At, Refreshes
<1>9. ASSUME NEW s \in Scans, Import(o, s) PROVE Batched'
    <2> DEFINE c == desks[o].copies[s]
               d == [desks[o] EXCEPT !.pc = "link", !.scan = s, !.copy = c, !.copies[s] = NoItem]
    <2>1. desks' = [desks EXCEPT ![o] = d] /\ At(o, "next") /\ UNCHANGED <<items, runs, batch>>
        BY ZenonT(30), <1>9 DEF Import
    <2>2. d.pc = "link" /\ d.op = desks[o].op /\ d.own = desks[o].own
        BY <1>0 DEF Desk
    <2> HIDE DEF d
    <2> QED
        BY <1>8, <2>1, <2>2
<1>10. ASSUME NEW s \in Scans, Skip(o, s) PROVE Batched'
    <2> DEFINE d == [desks[o] EXCEPT !.copies[s] = NoItem]
    <2>1. desks' = [desks EXCEPT ![o] = d] /\ At(o, "next") /\ UNCHANGED <<items, runs, batch>>
        BY <1>10 DEF Skip
    <2>2. d.pc = "next" /\ d.op = desks[o].op /\ d.own = desks[o].own
        BY <1>0, <2>1 DEF Desk, At
    <2> HIDE DEF d
    <2> QED
        BY <1>8, <2>1, <2>2
<1>11. ASSUME EndCommit(o) PROVE Batched'
    <2>1. At(o, "next") /\ UNCHANGED <<items, runs, batch>>
        BY <1>11 DEF EndCommit
    <2>2. CASE Leave(o)
        BY <1>0, <1>1, <2>1, <2>2, LeaveBatch DEF At, Refreshes
    <2>3. CASE ~Leave(o)
        <3> DEFINE d == [Away EXCEPT !.pc = "weigh", !.op = "close", !.seen = desks[o].own]
        <3>1. desks' = [desks EXCEPT ![o] = d] /\ desks[o].op = "commit all"
            BY <1>11, <2>3 DEF EndCommit
        <3>2. d.pc = "weigh" /\ d.op = "close" /\ d.seen = desks[o].own
            BY AwayType DEF Desk
        <3> HIDE DEF d
        <3>3. OnDesk(o, d, items, batch)
            BY <1>0, <3>1, <3>2 DEF OnDesk
        <3> QED
            BY <1>0, <1>1, <2>1, <3>1, <3>2, <3>3, BatchDesk DEF Refreshes
    <2> QED
        BY <2>2, <2>3
<1> QED
    BY <1>3, <1>4, <1>6, <1>7, <1>9, <1>10, <1>11 DEF OperatorStep

LEMMA RequestBatch ==
    ASSUME TInv, HInv, Batched, TypeOK', NEW o \in Operators,
           \/ OpenAll(o)
           \/ \E s \in Scans : OpenOne(o, s) \/ \E op \in {"edit", "discard"} : Open(o, op, s)
    PROVE  Batched'
<1>0. o \in Actors /\ InHand(o, desks[o], items, runs, register) /\ o \notin Workers
    BY UploaderActs, ActorAssumption DEF HInv
<1>1. desks[o].op # "read" /\ At(o, "away") /\ UNCHANGED <<items, runs, batch>>
    BY <1>0 DEF InHand, OpenAll, OpenOne, OpenCommit, Open
<1>2. desks[o].pc \notin Refreshes
    BY <1>1 DEF At, Refreshes
<1>3. ASSUME NEW op \in {"commit", "commit all"}, NEW those, OpenCommit(o, op, those) PROVE Batched'
    <2> DEFINE own == IF op = "commit" THEN Away.own ELSE batch
               copies == [s \in Scans |-> IF s \in those THEN items[s] ELSE NoItem]
               d == [Away EXCEPT !.pc = "next", !.op = op, !.own = own, !.copies = copies]
    <2>1. desks' = [desks EXCEPT ![o] = d]
        BY <1>3 DEF OpenCommit
    <2>2. d.pc = "next" /\ d.op = op /\ d.own = own
        BY AwayType DEF Desk
    <2> HIDE DEF d
    <2>3. d.op = "commit all" => Rank(d.own) <= Rank(batch)
        <3>1. SUFFICES ASSUME d.op = "commit all" PROVE Rank(d.own) <= Rank(batch)
            OBVIOUS
        <3>2. Rank(batch) <= Rank(batch)
            BY RankSame
        <3>3. d.own = batch
            BY <2>2, <3>1
        <3> QED
            BY <3>2, <3>3, Zenon
    <2> HIDE DEF own
    <2>4. OnDesk(o, d, items, batch)
        BY <2>2, <2>3 DEF OnDesk
    <2> QED
        BY <1>0, <1>1, <1>2, <2>1, <2>4, BatchDesk
<1>4. ASSUME NEW s \in Scans, NEW op \in {"edit", "discard"}, Open(o, op, s) PROVE Batched'
    <2> DEFINE d == [Away EXCEPT !.pc = "decide", !.op = op, !.scan = s, !.copy = items[s]]
    <2>1. desks' = [desks EXCEPT ![o] = d]
        BY <1>4 DEF Open
    <2>2. d.pc = "decide" /\ d.op = op
        BY AwayType DEF Desk
    <2> HIDE DEF d
    <2>3. OnDesk(o, d, items, batch)
        BY <2>2 DEF OnDesk
    <2> QED
        BY <1>0, <1>1, <1>2, <2>1, <2>3, BatchDesk
<1> QED
    BY <1>3, <1>4 DEF OpenAll, OpenOne

(* A kill before the item is read leaves it to the next worker.              *)
LEMMA KillBatch ==
    ASSUME TInv, HInv, Batched, TypeOK', NEW a \in Actors, Kill(a), ~torn', torn \in BOOLEAN
    PROVE  Batched'
<1>0. desks[a].scan \in Scans /\ InHand(a, desks[a], items, runs, register) /\ OnDesk(a, desks[a], items, batch)
    BY DEF TInv, TypeOK, Desk, HInv, Batched
<1>1. /\ desks[a].pc \notin Refreshes
      /\ desks' = [desks EXCEPT ![a] = Away] /\ UNCHANGED <<items, runs, batch>>
    BY DEF Kill, Leave, Refreshes
<1>2. OnDesk(a, Away, items', batch')
    BY AwayType, FreeDesk
<1>3. \A s \in Scans : Reads(a, s) => Unread(items[s])
    BY <1>0, <1>1 DEF Reads, InHand, OnDesk, Refreshes
<1>4. \A s \in Scans :
          \/ Unread(items'[s])
          \/ runs'[s].state = runs[s].state /\ items'[s].status = items[s].status /\ ~Reads(a, s)
    BY <1>1, <1>3
<1>5. Rank(batch) <= Rank(batch') /\ \A s \in Scans : items'[s].status = items[s].status
    BY <1>1 DEF Rank
<1>6. Some(items') => Rank(batch') <= Rank(Due(items'))
    BY <1>1 DEF Batched
<1>7. /\ batch' = batch /\ desks[a].pc \notin Refreshes
      /\ Some(items') => Some(items) /\ Due(items') = Due(items)
    BY <1>1
<1> QED
    BY <1>1, <1>2, <1>4, <1>5, <1>6, <1>7, BatchFrame

LEMMA TornStays == torn \in BOOLEAN /\ [Next]_vars /\ ~torn' => ~torn
<1> USE DEF SaveItem, AddItem
<1> SUFFICES ASSUME torn \in BOOLEAN, [Next]_vars, ~torn' PROVE ~torn
    OBVIOUS
<1>1. CASE UNCHANGED vars
    BY <1>1 DEF vars
<1>2. CASE UploadStep \/ \E a \in Actors : Refresh(a) \/ Kill(a)
    BY <1>2 DEF UploadStep, Store, SkipFile, AbortUpload, Refresh, Look, Weigh, WriteBatch, Kill
<1>3. CASE \E w \in Workers : WorkerStep(w)
    BY <1>3 DEF WorkerStep, Claim, Mark, Raise, GiveUp, Extract
<1>4. ASSUME NEW o \in Operators, OperatorStep(o) \/ OpenAll(o) PROVE ~torn
    <2>1. ASSUME NEW n \in Numbers \cup {Missing}, SaveDraft(o, n) PROVE ~torn
        BY <2>1 DEF SaveDraft
    <2>2. ASSUME NEW s \in Scans, Import(o, s) \/ Skip(o, s) PROVE ~torn
        BY <2>2 DEF Import, Skip
    <2>3. ASSUME Discard(o) \/ Link(o) PROVE ~torn
        BY <2>3 DEF Discard, Link
    <2>4. ASSUME Refuse(o) \/ EndCommit(o) \/ OpenAll(o) PROVE ~torn
        BY <2>4 DEF Refuse, EndCommit, OpenAll, OpenCommit
    <2> QED
        BY <1>4, <2>1, <2>2, <2>3, <2>4 DEF OperatorStep
<1>5. CASE \/ \E s \in Scans : Reclaim(s)
           \/ \E o \in Operators, s \in Scans : OpenOne(o, s) \/ \E op \in {"edit", "discard"} : Open(o, op, s)
    BY <1>5 DEF Reclaim, OpenOne, OpenCommit, Open
<1> QED
    BY <1>1, <1>2, <1>3, <1>4, <1>5 DEF Next

LEMMA InitBatch == Init => BatchInv
<1> SUFFICES ASSUME Init PROVE Batched
    BY DEF BatchInv
<1> DEFINE u == [Away EXCEPT !.pc = "store", !.op = "upload"]
<1>1. u.pc = "store" /\ u.op = "upload" /\ u.seen = "processing"
    BY AwayType DEF Desk, Away
<1>2. \A a \in Actors : desks[a] = IF a = Uploader THEN u ELSE Away
    BY DEF Init
<1> HIDE DEF u
<1>3. \A a \in Actors : OnDesk(a, desks[a], items, batch)
    <2>1. batch = "processing"
        BY DEF Init
    <2>2. OnDesk(Uploader, u, items, batch)
        BY <1>1, <2>1 DEF OnDesk
    <2>3. \A a \in Actors : OnDesk(a, Away, items, batch)
        BY AwayType, FreeDesk
    <2> QED
        BY <1>2, <2>2, <2>3
<1>4. ~Some(items)
    BY NoItemType DEF Init, Some
<1>5. RunsToCome
    BY DEF Init, RunsToCome, NoRun
<1> QED
    BY <1>3, <1>4, <1>5 DEF Batched

LEMMA NextBatch == TInv /\ HInv /\ BatchInv /\ [Next]_vars => BatchInv'
<1> SUFFICES ASSUME TInv, HInv, BatchInv, [Next]_vars, ~torn', stale' = {} PROVE Batched'
    BY DEF BatchInv
<1>1. torn \in BOOLEAN
    BY DEF TInv, TypeOK
<1>2. ~torn /\ stale = {}
    BY <1>1, TornStays, StaleGrows
<1>3. Batched
    BY <1>2 DEF BatchInv
<1>4. TypeOK'
    BY NextHand DEF TInv
<1>5. CASE UNCHANGED vars
    <2>1. UNCHANGED <<items, runs, batch, desks>>
        BY <1>5 DEF vars
    <2> QED
        BY <1>3, <2>1 DEF Batched, RunsToCome, Reads
<1>6. CASE UploadStep
    BY <1>1, <1>3, <1>4, <1>6, UploadBatch
<1>7. ASSUME NEW a \in Actors, Refresh(a) \/ Kill(a) PROVE Batched'
    BY <1>1, <1>3, <1>4, <1>7, RefreshBatch, KillBatch
<1>8. ASSUME NEW w \in Workers, WorkerStep(w) PROVE Batched'
    BY <1>1, <1>3, <1>4, <1>8, WorkerBatch
<1>9. ASSUME NEW s \in Scans, Reclaim(s) PROVE Batched'
    BY <1>3, <1>4, <1>9, ReclaimBatch
<1>10. ASSUME NEW o \in Operators, OperatorStep(o) PROVE Batched'
    BY <1>1, <1>3, <1>4, <1>10, OperatorBatch
<1>11. ASSUME NEW o \in Operators,
              \/ OpenAll(o)
              \/ \E s \in Scans : OpenOne(o, s) \/ \E op \in {"edit", "discard"} : Open(o, op, s)
       PROVE  Batched'
    BY <1>3, <1>4, <1>11, RequestBatch
<1> QED
    BY <1>5, <1>6, <1>7, <1>8, <1>9, <1>10, <1>11 DEF Next

(* When nobody is at work the batch says what its items are                  *)
(* (_refresh_batch_status, called by everyone who changes an item): whatever *)
(* refreshes overlap, as long as no item was saved from an old copy, or      *)
(* between somebody's reading of the items and the saving of the batch.      *)
THEOREM BatchAndItemsAgree == Spec => []BatchMatchesItems
<1>1. TInv /\ BatchInv => BatchMatchesItems
    <2> DEFINE rows == {items[s] : s \in Scans} \ {NoItem}
    <2> SUFFICES ASSUME TInv, BatchInv, rows # {}, ~torn, stale = {}, \A a \in Actors : At(a, "away")
                 PROVE  /\ batch = "processing" <=> \E i \in rows : i.status \in Active
                        /\ batch = "completed" <=> \A i \in rows : i.status \in Terminal
        BY DEF BatchMatchesItems
    <2>1. \A s \in Scans : items[s] = NoItem <=> items[s].status = "missing"
        BY NoItemType DEF TInv, RunsBudgeted
    <2>2. Some(items)
        BY <2>1 DEF Some
    <2>3. batch = Due(items)
        BY <2>2 DEF BatchInv, Batched, At, Refreshes
    <2>4. (\E i \in rows : i.status \in Active) <=> \E s \in Scans : items[s].status \in Active
        BY NoItemType DEF Active
    <2>5. (\A i \in rows : i.status \in Terminal) <=> \A s \in Scans : items[s].status \in Terminal \cup {"missing"}
        BY <2>1 DEF Terminal
    <2>6. (\A i \in rows : i.status \in Terminal) => ~\E i \in rows : i.status \in Active
        BY DEF Terminal, Active
    <2> HIDE DEF rows
    <2> QED
        BY <2>3, <2>4, <2>5, <2>6 DEF Due
<1> QED
    BY <1>1, InitBatch, Hands, NextBatch, PTL DEF Spec
=============================================================================
