---------------------------- MODULE InvoiceImport ----------------------------
(***************************************************************************)
(* The bulk import of historical invoices: an upload creates one item per  *)
(* scan and starts a pipeline run for each, workers read the scans,        *)
(* operators edit, discard and commit the items, a commit puts the invoice *)
(* on the register under its printed number, and everyone who changes an   *)
(* item works out the status of the batch again.  Every request works on   *)
(* the copy of the row it read first.  The pipeline is the one-step run of *)
(* PipelineEngine with its lease respected: a run is claimed by one worker *)
(* at a time and reclaimed only from a killed one.                         *)
(***************************************************************************)
EXTENDS Naturals, Sequences, FiniteSets

CONSTANTS
    Scans,           \* scans by content hash
    Upload,          \* the files of the upload, in order
    Numbers,         \* printed invoice numbers
    Readings,        \* what a scan may be read as: <<number, status for review>>
    TakenNumbers,    \* those the register holds already
    Workers, Operators,
    MAX_OCR_ATTEMPTS,
    MaxClicks,       \* bound: operator requests
    MaxKills,        \* bound: killed workers and requests
    KillPoints       \* where they may be killed

Uploader == "uploader"
Actors   == Workers \cup Operators \cup {Uploader}
Missing  == 0                              \* an item or an invoice without number

ASSUME UploadAssumption  == Upload \in Seq(Scans) /\ Len(Upload) > 0 /\ Scans \cap {"other", "free"} = {}
ASSUME NumberAssumption  == Numbers \subseteq Nat \ {Missing} /\ TakenNumbers \subseteq Numbers
(* A reading without a number always needs attention.                        *)
ASSUME ReadingAssumption == /\ Readings \subseteq (Numbers \cup {Missing}) \X {"extracted", "needs_attention"}
                            /\ <<Missing, "extracted">> \notin Readings
ASSUME ActorAssumption   == Workers \cap Operators = {} /\ Uploader \notin Workers \cup Operators
ASSUME AttemptAssumption == MAX_OCR_ATTEMPTS \in Nat \ {0}
ASSUME BoundAssumption   == MaxClicks \in Nat /\ MaxKills \in Nat

Active     == {"queued", "processing"}
Reviewable == {"extracted", "needs_attention"}
Terminal   == {"committed", "discarded"}
BatchStatus == {"processing", "review", "completed"}
Item == [status : Active \cup Reviewable \cup Terminal \cup {"failed", "missing"},
         number : Numbers \cup {Missing}, invoice : Numbers \cup {Missing}]
NoItem == [status |-> "missing", number |-> Missing, invoice |-> Missing]

VARIABLES
    items,     \* the InvoiceImportItem rows
    runs,      \* their pipeline runs
    batch,     \* status of the batch
    register,  \* [Numbers -> the scan an invoice came from, "other" or "free"]
    desks,     \* what every actor is at
    stale,     \* history: scans somebody wrote from an old copy, or left half committed
    torn,      \* history: has somebody refreshed the batch from an old view?
    clicks, kills

vars == <<items, runs, batch, register, desks, stale, torn, clicks, kills>>

(* copies: the rows commit_batch read and has not committed yet; own, seen:  *)
(* the batch as read for the request and for the refresh at hand, then the   *)
(* status worked out for it; file: the next file of the upload.              *)
Away == [pc |-> "away", op |-> "none", scan |-> Upload[1], copy |-> NoItem,
         copies |-> [s \in Scans |-> NoItem], own |-> "processing", seen |-> "processing",
         file |-> 1]

(* The attempts are counted while a run is under way.                        *)
NoRun == [state |-> "none", attempt |-> 0]
Over  == [state |-> "over", attempt |-> 0]

Init ==
    /\ items = [s \in Scans |-> NoItem]
    /\ runs = [s \in Scans |-> NoRun]
    /\ batch = "processing"
    /\ register = [n \in Numbers |-> IF n \in TakenNumbers THEN "other" ELSE "free"]
    /\ desks = [a \in Actors |->
          IF a = Uploader THEN [Away EXCEPT !.pc = "store", !.op = "upload"] ELSE Away]
    /\ stale = {} /\ torn = FALSE
    /\ clicks = 0 /\ kills = 0

At(a, pc) == desks[a].pc = pc
Leave(a)  == desks' = [desks EXCEPT ![a] = Away]

(* On to _refresh_batch_status; the copy of the item is of no more use.      *)
Refreshing(d) == [d EXCEPT !.pc = "look", !.copy = NoItem,
                      !.op = IF d.op \in {"read", "commit", "commit all"} THEN d.op ELSE "close"]

ToRefresh(a) == desks' = [desks EXCEPT ![a] = Refreshing(desks[a])]

-----------------------------------------------------------------------------
(* The decisions, each with a variant that gets it wrong.                    *)
ToWorkOnAlways(item) == item # NoItem
ToWorkOn(item)       == item.status \notin Terminal

ToDiscardAlways(item) == item # NoItem
ToDiscard(item)       == item.status # "committed"

ToCommit(item) == item.status \notin Terminal /\ item.number # Missing

(* import_historical refuses a number that is on the register.               *)
ToImportAgain(item) == ToCommit(item)
ToImport(item)      == ToCommit(item) /\ register[item.number] = "free"

StillFailed(item) == item
Failed(item)      == [item EXCEPT !.status = "failed"]

Linked(item, number)     == [item EXCEPT !.status = "committed", !.invoice = number]

(* Saving an item: from the copy read earlier, which may be an old one.      *)
SaveItem(a, item) ==
    LET s == desks[a].scan
    IN /\ items' = [items EXCEPT ![s] = item]
       /\ stale' = IF desks[a].copy = items[s] THEN stale ELSE stale \cup {s}
       /\ torn' = (torn \/ \E b \in Actors \ {a} : At(b, "write"))

(* _refresh_batch_status: read the batch, read the items, save if need be.   *)
StatusOf(rows) == {rows[s].status : s \in Scans} \ {"missing"}

(* Variant: a failed item no longer waits for the operator.                  *)
ImpliedFailed(rows, before) ==
    IF StatusOf(rows) = {} THEN before
    ELSE IF StatusOf(rows) \cap Active # {} THEN "processing"
    ELSE IF StatusOf(rows) \subseteq Terminal \cup {"failed"} THEN "completed" ELSE "review"

Implied(rows, before) ==
    IF StatusOf(rows) = {} THEN before
    ELSE IF StatusOf(rows) \cap Active # {} THEN "processing"
    ELSE IF StatusOf(rows) \subseteq Terminal THEN "completed" ELSE "review"

Look(a) ==
    /\ At(a, "look")
    /\ desks' = [desks EXCEPT ![a].pc = "weigh", ![a].seen = batch]
    /\ UNCHANGED <<items, runs, batch, register, stale, torn, clicks, kills>>

(* A worker's run is over after the refresh, a commit goes on.               *)
AfterRefresh(d) ==
    IF d.op \in {"commit", "commit all"}
    THEN [Away EXCEPT !.pc = "next", !.op = d.op, !.copies = d.copies, !.own = d.own] ELSE Away

Finish(a) ==
    LET d == desks[a]
    IN /\ runs' = IF d.op = "read" THEN [runs EXCEPT ![d.scan] = Over] ELSE runs
       /\ desks' = [desks EXCEPT ![a] = AfterRefresh(d)]

(* Nothing is saved when the status is the one read.                         *)
Weigh(a) ==
    /\ At(a, "weigh")
    /\ LET want == Implied(items, desks[a].seen)
       IN IF want = desks[a].seen THEN Finish(a)
          ELSE desks' = [desks EXCEPT ![a].pc = "write", ![a].seen = want] /\ UNCHANGED runs
    /\ UNCHANGED <<items, batch, register, stale, torn, clicks, kills>>

(* The upload works out the last status from the row it created.             *)
WriteBatch(a) ==
    /\ At(a, "write") /\ Finish(a)
    /\ batch' = desks[a].seen
    /\ torn' = (torn \/ (batch' # batch /\ desks[Uploader].op = "upload"))
    /\ UNCHANGED <<items, register, stale, clicks, kills>>

-----------------------------------------------------------------------------
(* create_batch, file by file: the item, then its run.  The same bytes twice *)
(* are one item; a file that cannot be stored ends the upload, as does a     *)
(* kill, which may leave the last item without a run.                        *)
NextFile ==
    LET d == desks[Uploader]
    IN desks' = [desks EXCEPT ![Uploader] = IF d.file < Len(Upload) THEN [d EXCEPT !.file = d.file + 1]
                                            ELSE [d EXCEPT !.pc = "weigh", !.op = "close"]]

AddItem(s) ==
    /\ items[s] = NoItem
    /\ items' = [items EXCEPT ![s].status = "queued"]
    /\ torn' = (torn \/ \E b \in Actors : At(b, "write"))

Store ==
    LET s == Upload[desks[Uploader].file]
    IN /\ At(Uploader, "store") /\ AddItem(s)
       /\ runs' = [runs EXCEPT ![s].state = "due"]
       /\ NextFile
       /\ UNCHANGED <<batch, register, stale, clicks, kills>>

SkipFile ==
    /\ At(Uploader, "store") /\ items[Upload[desks[Uploader].file]] # NoItem /\ NextFile
    /\ UNCHANGED <<items, runs, batch, register, stale, torn, clicks, kills>>

AbortUpload ==
    /\ At(Uploader, "store") /\ Leave(Uploader)
    /\ \/ UNCHANGED <<items, torn, kills>>
       \/ kills < MaxKills /\ kills' = kills + 1 /\ AddItem(Upload[desks[Uploader].file])
    /\ UNCHANGED <<runs, batch, register, stale, clicks>>

-----------------------------------------------------------------------------
(* run_extraction, from the claim of its run on.                             *)
Claim(w, s) ==
    /\ At(w, "away") /\ runs[s].state = "due"
    /\ \/ /\ ~ToWorkOn(items[s])
          /\ runs' = [runs EXCEPT ![s] = Over]
          /\ UNCHANGED desks
       \/ /\ ToWorkOn(items[s])
          /\ runs' = [runs EXCEPT ![s] = [state |-> "leased", attempt |-> @.attempt + 1]]
          /\ desks' = [desks EXCEPT ![w] = [Away EXCEPT !.op = "read", !.scan = s, !.copy = items[s],
                 !.pc = IF items[s].status = "processing" THEN "ocr" ELSE "mark"]]
    /\ UNCHANGED <<items, batch, register, stale, torn, clicks, kills>>

Mark(w) ==
    LET d == desks[w]
    IN /\ At(w, "mark") /\ SaveItem(w, [items[d.scan] EXCEPT !.status = "processing"])
       /\ desks' = [desks EXCEPT ![w].pc = "ocr", ![w].copy.status = "processing"]
       /\ UNCHANGED <<runs, batch, register, clicks, kills>>

(* The whole row is saved, its invoice included.                             *)
Extract(w, r) ==
    /\ At(w, "ocr")
    /\ SaveItem(w, [status |-> r[2], number |-> r[1], invoice |-> desks[w].copy.invoice])
    /\ ToRefresh(w)
    /\ UNCHANGED <<runs, batch, register, clicks, kills>>

(* An exception that leaves the step: the engine repeats it, or ends the run *)
(* as FAILED (variant: one attempt later).  The last attempt leaves it only  *)
(* from outside the try.                                                     *)
EndedLate(s) == IF runs[s].attempt <= MAX_OCR_ATTEMPTS THEN "due" ELSE "failed"
Ended(s)     == IF runs[s].attempt < MAX_OCR_ATTEMPTS THEN "due" ELSE "failed"

Raise(w) ==
    LET s == desks[w].scan
    IN /\ At(w, "ocr")
       /\ runs' = [runs EXCEPT ![s].state = Ended(s)] /\ Leave(w)
       /\ UNCHANGED <<items, batch, register, stale, torn, clicks, kills>>

(* The scan cannot be opened, the second time as well.                       *)
GiveUp(w) ==
    LET s == desks[w].scan
    IN /\ At(w, "ocr") /\ runs[s].attempt >= MAX_OCR_ATTEMPTS
       /\ SaveItem(w, Failed(items[s]))
       /\ ToRefresh(w)
       /\ UNCHANGED <<runs, batch, register, clicks, kills>>

(* The engine takes the lease from a killed worker.                          *)
Reclaim(s) ==
    /\ runs[s].state = "leased"
    /\ \A w \in Workers : ~(desks[w].op = "read" /\ desks[w].scan = s)
    /\ runs' = [runs EXCEPT ![s].state = Ended(s)]
    /\ UNCHANGED <<items, batch, register, desks, stale, torn, clicks, kills>>

-----------------------------------------------------------------------------
(* Operators.  get_object reads the row, the request decides on that copy.   *)
Open(o, op, s) ==
    /\ At(o, "away") /\ items[s] # NoItem /\ clicks < MaxClicks
    /\ clicks' = clicks + 1
    /\ desks' = [desks EXCEPT ![o] = [Away EXCEPT !.pc = "decide", !.op = op, !.scan = s, !.copy = items[s]]]
    /\ UNCHANGED <<items, runs, batch, register, stale, torn, kills>>

Refuse(o) ==
    LET d == desks[o]
    IN /\ At(o, "decide")
       /\ \/ d.op = "edit" /\ ~ToWorkOn(d.copy)
          \/ d.op = "discard" /\ ~ToDiscard(d.copy)
       /\ Leave(o)
       /\ UNCHANGED <<items, runs, batch, register, stale, torn, clicks, kills>>

(* An edit without a number keeps the one of the copy; it may be blanked.    *)
SaveDraft(o, number) ==
    LET d == desks[o]
    IN /\ At(o, "decide") /\ d.op = "edit" /\ ToWorkOn(d.copy)
       /\ SaveItem(o, [items[d.scan] EXCEPT !.number = number])
       /\ Leave(o)
       /\ UNCHANGED <<runs, batch, register, clicks, kills>>

Discard(o) ==
    LET d == desks[o]
    IN /\ At(o, "decide") /\ d.op = "discard" /\ ToDiscard(d.copy)
       /\ SaveItem(o, [items[d.scan] EXCEPT !.status = "discarded"])
       /\ ToRefresh(o)
       /\ UNCHANGED <<runs, batch, register, clicks, kills>>

(* commit_item has one row to commit; commit_batch reads all reviewable ones *)
(* at once, and the batch.                                                   *)
OpenCommit(o, op, those) ==
    /\ At(o, "away") /\ clicks < MaxClicks
    /\ clicks' = clicks + 1
    /\ desks' = [desks EXCEPT ![o] = [Away EXCEPT !.pc = "next", !.op = op, !.own = IF op = "commit" THEN @ ELSE batch,
          !.copies = [s \in Scans |-> IF s \in those THEN items[s] ELSE NoItem]]]
    /\ UNCHANGED <<items, runs, batch, register, stale, torn, kills>>

OpenOne(o, s) == items[s] # NoItem /\ OpenCommit(o, "commit", {s})

OpenAll(o) == OpenCommit(o, "commit all", {s \in Scans : items[s].status \in Reviewable})

Import(o, s) ==
    LET copy == desks[o].copies[s]
    IN /\ At(o, "next") /\ copy # NoItem /\ ToImport(copy)
       /\ register' = [register EXCEPT ![copy.number] = s]
       /\ stale' = IF copy = items[s] THEN stale ELSE stale \cup {s}
       /\ desks' = [desks EXCEPT ![o].pc = "link", ![o].scan = s, ![o].copy = copy, ![o].copies[s] = NoItem]
       /\ UNCHANGED <<items, runs, batch, torn, clicks, kills>>

(* Committed or discarded before, without a number, or refused.              *)
Skip(o, s) ==
    LET copy == desks[o].copies[s]
    IN /\ At(o, "next") /\ copy # NoItem /\ ~ToImport(copy)
       /\ desks' = [desks EXCEPT ![o].copies[s] = NoItem]
       /\ UNCHANGED <<items, runs, batch, register, stale, torn, clicks, kills>>

(* commit_batch refreshes the batch once more, from the copy it began with.  *)
EndCommit(o) ==
    LET d == desks[o]
    IN /\ At(o, "next") /\ \A s \in Scans : d.copies[s] = NoItem
       /\ \/ d.op = "commit" /\ Leave(o)
          \/ d.op = "commit all" /\ desks' = [desks EXCEPT ![o] =
                 [Away EXCEPT !.pc = "weigh", !.op = "close", !.seen = d.own]]
       /\ UNCHANGED <<items, runs, batch, register, stale, torn, clicks, kills>>

(* The item is saved after the transaction of import_historical.             *)
Link(o) ==
    LET d == desks[o]
    IN /\ At(o, "link")
       /\ SaveItem(o, Linked(items[d.scan], d.copy.number))
       /\ ToRefresh(o)
       /\ UNCHANGED <<runs, batch, register, clicks, kills>>

-----------------------------------------------------------------------------
(* A server or a worker is killed; what it had saved stays.                  *)
Kill(a) ==
    /\ ~At(a, "away") /\ desks[a].pc \in KillPoints /\ kills < MaxKills
    /\ kills' = kills + 1 /\ torn' = (torn \/ desks[a].pc \in {"look", "weigh", "write"})
    /\ stale' = IF At(a, "link") THEN stale \cup {desks[a].scan} ELSE stale
    /\ Leave(a)
    /\ UNCHANGED <<items, runs, batch, register, clicks>>

Refresh(a) == Look(a) \/ Weigh(a) \/ WriteBatch(a)

UploadStep == Store \/ SkipFile \/ AbortUpload

WorkerStep(w) ==
    \/ \E s \in Scans : Claim(w, s)
    \/ Mark(w) \/ Raise(w) \/ GiveUp(w)
    \/ \E r \in Readings : Extract(w, r)

OperatorStep(o) ==
    \/ Refuse(o) \/ Discard(o) \/ EndCommit(o) \/ Link(o)
    \/ \E n \in Numbers \cup {Missing} : SaveDraft(o, n)
    \/ \E s \in Scans : Import(o, s) \/ Skip(o, s)

Next ==
    \/ UploadStep
    \/ \E a \in Actors : Refresh(a) \/ Kill(a)
    \/ \E w \in Workers : WorkerStep(w)
    \/ \E s \in Scans : Reclaim(s)
    \/ \E o \in Operators : OperatorStep(o) \/ OpenAll(o)
    \/ \E o \in Operators, s \in Scans :
          OpenOne(o, s) \/ \E op \in {"edit", "discard"} : Open(o, op, s)

Spec == Init /\ [][Next]_vars

-----------------------------------------------------------------------------
Desk == [pc : {"away", "store", "mark", "ocr", "look", "weigh", "write", "decide", "next", "link"},
         op : {"none", "upload", "close", "read", "edit", "discard", "commit", "commit all"},
         scan : Scans, copy : Item, copies : [Scans -> Item],
         own : BatchStatus, seen : BatchStatus, file : 1 .. Len(Upload)]

(* Every variable holds what the code can put in it.                         *)
TypeOK ==
    /\ items \in [Scans -> Item]
    /\ runs \in [Scans -> [state : {"none", "due", "leased", "over", "failed"}, attempt : 0 .. MAX_OCR_ATTEMPTS]]
    /\ batch \in BatchStatus
    /\ register \in [Numbers -> Scans \cup {"other", "free"}]
    /\ desks \in [Actors -> Desk]
    /\ stale \subseteq Scans /\ torn \in BOOLEAN
    /\ clicks \in 0 .. MaxClicks /\ kills \in 0 .. MaxKills

(* A committed item names an invoice, and the register holds that invoice    *)
(* for this very scan.                                                       *)
CommittedIsRegistered ==
    \A s \in Scans : items[s].status = "committed" =>
        items[s].invoice # Missing /\ register[items[s].invoice] = s

(* The register and the items agree: an invoice that came from a scan is the *)
(* one its item is committed to, so no scan is on the register twice.  The   *)
(* exceptions are a commit between its two saves, and scans that somebody    *)
(* saved from an old copy or left half committed when killed.                *)
Linking(s, n) == \E o \in Operators : At(o, "link") /\ desks[o].scan = s /\ desks[o].copy.number = n

RegisterMatchesItems ==
    \A s \in Scans \ stale : \A n \in Numbers : register[n] = s =>
        \/ items[s].status = "committed" /\ items[s].invoice = n
        \/ Linking(s, n)

(* When nobody is at work the batch says what its items are: PROCESSING "OCR *)
(* still running on some items", COMPLETED "every item committed or          *)
(* discarded", REVIEW otherwise; unless an item was saved while somebody was *)
(* about to save the batch or from an old copy, the batch changed during the *)
(* upload, or a refresh was cut short.                                       *)
BatchMatchesItems ==
    LET rows == {items[s] : s \in Scans} \ {NoItem}
    IN (rows # {} /\ ~torn /\ stale = {} /\ \A a \in Actors : At(a, "away")) =>
          /\ batch = "processing" <=> \E i \in rows : i.status \in Active
          /\ batch = "completed" <=> \A i \in rows : i.status \in Terminal

(* A committed or discarded item gets another status only from a request or  *)
(* a worker that read it before.                                             *)
LeftOnlyByOldCopies ==
    [][\A s \in Scans : items[s].status \in Terminal /\ items'[s].status # items[s].status =>
          \E a \in Actors : /\ desks[a].scan = s /\ desks[a].op # "none"
                             /\ desks[a].copy.status # items[s].status]_vars

(* No scan is forgotten: an item that still waits to be read has a run that  *)
(* will read it or reads it now, or one that used up all its attempts, or its *)
(* upload was killed before it could start one.  No attempt is lost to a kill *)
(* or an exception before the last, and no run ends normally over such an item. *)
NoScanForgotten ==
    \A s \in Scans : items[s].status \in Active =>
        \/ runs[s].state \in {"due", "leased"}
        \/ runs[s].state = "failed" /\ runs[s].attempt = MAX_OCR_ATTEMPTS
        \/ runs[s].state = "none" /\ kills > 0 /\ At(Uploader, "away")
=============================================================================
