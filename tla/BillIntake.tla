----------------------------- MODULE BillIntake -----------------------------
(***************************************************************************)
(* How a purchase bill sent to the Telegram bot becomes a row: the bot     *)
(* posts the document twice (a placeholder at once, the OCR reading later) *)
(* and repeats a post that failed or timed out, server workers digest the  *)
(* posts (one whose caller gave up goes on), the rules decide who looks at *)
(* the bill, and operators correct, settle and delete it meanwhile.  A     *)
(* worker keeps its copy of the row while it fetches the document, and     *)
(* then saves every field of the copy.                                     *)
(***************************************************************************)
EXTENDS Naturals, FiniteSets

CONSTANTS
    Docs,         \* documents by file_unique_id (external_ref)
    Slots,        \* server workers
    Operators,    \* people at the purchase screens
    Sellers,      \* seller names
    Readings,     \* what OCR may read off a document
    MaxPosts,     \* _MAX_POST_ATTEMPTS
    MaxMessages,  \* bound: documents sent to the bot, resent ones included
    MaxClicks,    \* bound: operator requests, those that undo a payment aside
    ClosedDocs,   \* documents dated in a month whose period is CLOSED
    FailPoints,   \* worker steps that may end in a 500 or a killed worker
    CompanySetUp  \* is the company configured from the start?

Pending  == "Pending OCR Processing"      \* seller of a bill nobody has read
Unstated == 101                           \* a reading without confidence_score
Reading == [seller : {Pending} \cup Sellers, number : Nat, gst : {"none", "good", "bad"},
            confidence : 0 .. Unstated]
Unread   == [seller |-> Pending, number |-> 0, gst |-> "none", confidence |-> 30]
NoRaw    == [number |-> 0]

ASSUME DocAssumption     == Docs # {}
ASSUME ReadingAssumption == Readings \subseteq Reading
ASSUME BoundAssumption   == MaxPosts \in Nat \ {0} /\ MaxMessages \in Nat /\ MaxClicks \in Nat
ASSUME SetUpAssumption   == CompanySetUp \in BOOLEAN

Reasons == {"low_confidence", "vendor_unidentified", "invalid_gst_format",
            "duplicate_invoice", "period_closed"}
Bill == [seller : {Pending} \cup Sellers, number : Nat, gst : {"none", "good", "bad"},
         confidence : 0 .. Unstated, duplicate : BOOLEAN, status : {"processed", "needs_attention"},
         reviewed : BOOLEAN, raw : Reading \cup {NoRaw}, paid : BOOLEAN, deleted : BOOLEAN]
NoBill  == [deleted |-> TRUE]
NewBill == [seller |-> Pending, number |-> 0, gst |-> "none", confidence |-> 0, duplicate |-> FALSE,
            status |-> "processed", reviewed |-> FALSE, raw |-> NoRaw, paid |-> FALSE, deleted |-> FALSE]

VARIABLES
    bills,     \* the PurchaseBill rows by external_ref, or NoBill; reviewed remembers
               \* that an operator, not the rules, set the status
    company,   \* is there a tenant to ingest for?
    bot,       \* where handle_document is with the message in hand
    workers,   \* [Slots -> the ingest request a worker is at]
    screens,   \* [Operators -> the request on the copy get_object read]
    told,      \* [Docs -> what the sender of the document was told last]
    read,      \* history: <<document, reading>> committed by a worker
    messages, clicks

vars == <<bills, company, bot, workers, screens, told, read, messages, clicks>>

AnyDoc == CHOOSE d \in Docs : TRUE
Asleep == [pc |-> "idle", doc |-> AnyDoc, step |-> 1, attempt |-> 1, raw |-> NoRaw]
Free   == [pc |-> "idle", doc |-> AnyDoc, raw |-> NoRaw, copy |-> NoBill, next |-> NoBill,
           awaited |-> FALSE]
Away   == [op |-> "none", doc |-> AnyDoc, copy |-> NoBill]

Init ==
    /\ bills = [d \in Docs |-> NoBill]
    /\ company = CompanySetUp
    /\ bot = Asleep
    /\ workers = [s \in Slots |-> Free]
    /\ screens = [o \in Operators |-> Away]
    /\ told = [d \in Docs |-> "nothing"]
    /\ read = {} /\ messages = 0 /\ clicks = 0

At(s, pc) == workers[s].pc = pc

(* A worker that has written and not committed holds the row.                *)
RowFree(d) == \A s \in Slots : ~(At(s, "commit") /\ workers[s].doc = d)

-----------------------------------------------------------------------------
(* What a post says of the bill: its own reading, else the one on file.      *)

(* Variant: the reading on file is forgotten.                                *)
KnownOfPost(raw, filed) == raw

Known(raw, filed) == IF raw # NoRaw THEN raw ELSE filed

Parse(raw, filed) ==
    LET known == Known(raw, filed)
    IN IF known = NoRaw THEN Unread
       ELSE [known EXCEPT !.confidence = IF @ = Unstated THEN 90 ELSE @]

(* ... or "0.85": a confidence of zero counts as one left out.               *)
Stated(confidence) == IF confidence = 0 THEN 85 ELSE confidence

(* Variant: a duplicate does not need a look.                                *)
EvaluateTwice(d, confidence, seller, gst, duplicate) ==
    {r \in Reasons : \/ r = "low_confidence" /\ confidence < 80
                     \/ r = "vendor_unidentified" /\ seller = Pending
                     \/ r = "invalid_gst_format" /\ gst = "bad"
                     \/ r = "period_closed" /\ d \in ClosedDocs}

Evaluate(d, confidence, seller, gst, duplicate) ==
    {r \in Reasons : \/ r = "low_confidence" /\ confidence < 80
                     \/ r = "vendor_unidentified" /\ seller = Pending
                     \/ r = "invalid_gst_format" /\ gst = "bad"
                     \/ r = "duplicate_invoice" /\ duplicate
                     \/ r = "period_closed" /\ d \in ClosedDocs}

IsDuplicate(d, seller, number) ==
    /\ number # 0
    /\ \E e \in Docs \ {d} : ~bills[e].deleted /\ bills[e].seller = seller /\ bills[e].number = number

(* The row after a post.  What the reading leaves out stays as the copy has  *)
(* it, its duplicate mark and payment included.                              *)
Digest(d, copy, raw) ==
    LET ext    == Parse(raw, copy.raw)
        number == IF ext.number # 0 THEN ext.number ELSE copy.number
        gst    == IF ext.gst # "none" THEN ext.gst ELSE copy.gst
        twin   == copy.duplicate \/ IsDuplicate(d, ext.seller, number)
        why    == Evaluate(d, Stated(ext.confidence), ext.seller, gst, twin)
    IN [copy EXCEPT !.seller = ext.seller, !.number = number, !.gst = gst, !.duplicate = twin,
            !.confidence = Stated(ext.confidence), !.raw = ext,
            !.status = IF why = {} THEN "processed" ELSE "needs_attention", !.reviewed = FALSE]

-----------------------------------------------------------------------------
(* The bot: one update at a time.                                            *)
Tell(what) ==
    /\ told' = [told EXCEPT ![bot.doc] = what]
    /\ bot' = Asleep

(* Variant: a post that failed is taken for one that arrived.                *)
GiveUpGladly == Tell("stored")

(* What the sender hears when a post fails for good.                         *)
GiveUp == Tell(IF bot.step = 1 THEN "not saved" ELSE "stored")

(* Variant: one post too many.                                               *)
RetryOnceMore ==
    \/ bot.attempt <= MaxPosts /\ bot' = [bot EXCEPT !.pc = "post", !.attempt = @ + 1] /\ UNCHANGED told
    \/ bot.attempt > MaxPosts /\ GiveUp

Retry ==
    \/ bot.attempt < MaxPosts /\ bot' = [bot EXCEPT !.pc = "post", !.attempt = @ + 1] /\ UNCHANGED told
    \/ bot.attempt = MaxPosts /\ GiveUp

(* 80 percent, by the reading as the bot got it.                             *)
Sure(raw) == raw.confidence \in {0, Unstated} \/ raw.confidence >= 80

(* handle_document takes the answer to its post.                             *)
Take(code, status) ==
    \/ /\ code = "created" /\ bot.step = 1
       /\ bot' = [bot EXCEPT !.pc = "ocr", !.step = 2, !.attempt = 1]
       /\ told' = [told EXCEPT ![bot.doc] = "running OCR"]
    \/ /\ code = "created" /\ bot.step = 2
       /\ Tell(IF status = "processed" /\ Sure(bot.raw) THEN "processed" ELSE "stored")
    \/ code = "conflict" /\ Tell(IF bot.step = 1 THEN "already saved" ELSE "stored")
    \/ code = "rejected" /\ GiveUp
    \/ code = "error" /\ Retry

(* The document may be unreadable on Telegram's side: nothing is posted.     *)
Receive(d) ==
    /\ bot.pc = "idle" /\ messages < MaxMessages
    /\ messages' = messages + 1
    /\ \/ bot' = [Asleep EXCEPT !.pc = "post", !.doc = d] /\ told' = [told EXCEPT ![d] = "nothing"]
       \/ told' = [told EXCEPT ![d] = "send again"] /\ UNCHANGED bot
    /\ UNCHANGED <<bills, company, workers, screens, read, clicks>>

Post(s) ==
    /\ bot.pc = "post" /\ At(s, "idle")
    /\ bot' = [bot EXCEPT !.pc = "wait"]
    /\ workers' = [workers EXCEPT ![s] =
          [Free EXCEPT !.pc = "lookup", !.doc = bot.doc, !.raw = bot.raw, !.awaited = TRUE]]
    /\ UNCHANGED <<bills, company, screens, told, read, messages, clicks>>

(* RequestError: the post never arrives, ...                                 *)
Unreachable ==
    /\ bot.pc = "post" /\ Retry
    /\ UNCHANGED <<bills, company, workers, screens, read, messages, clicks>>

(* ... or 15 seconds are over or the answer is lost, and the worker goes on. *)
Timeout ==
    /\ bot.pc = "wait" /\ Retry
    /\ workers' = [s \in Slots |-> [workers[s] EXCEPT !.awaited = FALSE]]
    /\ UNCHANGED <<bills, company, screens, read, messages, clicks>>

Ocr(r) ==
    /\ bot.pc = "ocr"
    /\ bot' = [bot EXCEPT !.pc = "post", !.raw = r]
    /\ UNCHANGED <<bills, company, workers, screens, told, read, messages, clicks>>

OcrFails ==
    /\ bot.pc = "ocr" /\ GiveUp
    /\ UNCHANGED <<bills, company, workers, screens, read, messages, clicks>>

-----------------------------------------------------------------------------
(* A server worker: PurchaseBillService.ingest.                              *)
Answer(s, code, status) ==
    /\ workers' = [workers EXCEPT ![s] = Free]
    /\ IF workers[s].awaited THEN Take(code, status) ELSE UNCHANGED <<bot, told>>

(* The view's checks, the tenant, and the look-up of a live row: no tenant   *)
(* is a ConflictError as well.                                               *)
Lookup(s) ==
    LET bill == bills[workers[s].doc]
    IN /\ At(s, "lookup") /\ company
       /\ workers' = [workers EXCEPT ![s].pc = "write",
              ![s].copy = IF bill.deleted THEN NoBill ELSE bill]
       /\ UNCHANGED <<bills, company, bot, screens, told, read, messages, clicks>>

Refuse(s) ==
    /\ At(s, "lookup")
    /\ \/ Answer(s, "rejected", "")
       \/ ~company /\ Answer(s, "conflict", "")
    /\ UNCHANGED <<bills, company, screens, read, messages, clicks>>

(* After the document was fetched and stored, if it could be, the            *)
(* transaction: an insert meets the unique constraint, which counts deleted  *)
(* rows too.                                                                 *)
Write(s) ==
    LET w == workers[s]
        base == IF w.copy # NoBill THEN w.copy ELSE NewBill
    IN /\ At(s, "write") /\ RowFree(w.doc)
       /\ w.copy # NoBill \/ bills[w.doc] = NoBill
       /\ workers' = [workers EXCEPT ![s].pc = "commit", ![s].next = Digest(w.doc, base, w.raw)]
       /\ UNCHANGED <<bills, company, bot, screens, told, read, messages, clicks>>

Clash(s) ==
    LET w == workers[s]
    IN /\ At(s, "write") /\ RowFree(w.doc)
       /\ w.copy = NoBill /\ bills[w.doc] # NoBill
       /\ Answer(s, "conflict", "")
       /\ UNCHANGED <<bills, company, screens, read, messages, clicks>>

Commit(s) ==
    LET w == workers[s]
    IN /\ At(s, "commit")
       /\ bills' = [bills EXCEPT ![w.doc] = w.next]
       /\ read' = IF w.raw = NoRaw THEN read ELSE read \cup {<<w.doc, w.raw>>}
       /\ workers' = [workers EXCEPT ![s] =
              [Free EXCEPT !.pc = "publish", !.doc = w.doc, !.next = w.next, !.awaited = w.awaited]]
       /\ UNCHANGED <<company, bot, screens, told, messages, clicks>>

(* Subscribers, the search index and the notification of a bill that needs   *)
(* attention, then the answer.                                               *)
Reply(s) ==
    /\ At(s, "publish") /\ Answer(s, "created", workers[s].next.status)
    /\ UNCHANGED <<bills, company, screens, read, messages, clicks>>

(* A 500, or the worker is killed: a transaction in progress is rolled back. *)
Fail(s) ==
    /\ ~At(s, "idle") /\ workers[s].pc \in FailPoints /\ Answer(s, "error", "")
    /\ UNCHANGED <<bills, company, screens, read, messages, clicks>>

-----------------------------------------------------------------------------
(* Operators.  A request acts on the copy it read first.                     *)
Click(op) ==
    \/ op = "unpay" /\ UNCHANGED clicks
    \/ op # "unpay" /\ clicks < MaxClicks /\ clicks' = clicks + 1

SetUpCompany ==
    /\ ~company /\ company' = TRUE
    /\ UNCHANGED <<bills, bot, workers, screens, told, read, messages, clicks>>

Open(o, op, d) ==
    /\ screens[o].op = "none" /\ ~bills[d].deleted /\ Click(op)
    /\ screens' = [screens EXCEPT ![o] = [op |-> op, doc |-> d, copy |-> bills[d]]]
    /\ UNCHANGED <<bills, company, bot, workers, told, read, messages>>

Save(o, op, bill) ==
    LET d == screens[o].doc
    IN /\ screens[o].op = op /\ RowFree(d)
       /\ bills' = [bills EXCEPT ![d] = bill]
       /\ screens' = [screens EXCEPT ![o] = Away]
       /\ UNCHANGED <<company, bot, workers, told, read, messages, clicks>>

Correct(o, seller) ==
    Save(o, "correct", [screens[o].copy EXCEPT !.seller = seller, !.status = "processed", !.reviewed = TRUE])

(* These two are refused when the copy says there is nothing to do.          *)
MarkPaid(o)   == Save(o, "pay", [bills[screens[o].doc] EXCEPT !.paid = TRUE])   /\ ~screens[o].copy.paid
UnmarkPaid(o) == Save(o, "unpay", [bills[screens[o].doc] EXCEPT !.paid = FALSE]) /\ screens[o].copy.paid

DeleteBill(o) == Save(o, "delete", [bills[screens[o].doc] EXCEPT !.deleted = TRUE])

Refused(o) ==
    /\ \/ screens[o].op = "pay" /\ screens[o].copy.paid
       \/ screens[o].op = "unpay" /\ ~screens[o].copy.paid
    /\ screens' = [screens EXCEPT ![o] = Away]
    /\ UNCHANGED <<bills, company, bot, workers, told, read, messages, clicks>>

-----------------------------------------------------------------------------
BotStep ==
    \/ \E s \in Slots : Post(s)
    \/ Unreachable \/ Timeout \/ OcrFails
    \/ \E r \in Readings : Ocr(r)

WorkerStep(s) ==
    Lookup(s) \/ Refuse(s) \/ Write(s) \/ Clash(s) \/ Commit(s) \/ Reply(s)

OperatorStep(o) ==
    \/ \E op \in {"correct", "pay", "unpay", "delete"}, d \in Docs : Open(o, op, d)
    \/ \E seller \in Sellers : Correct(o, seller)
    \/ MarkPaid(o) \/ UnmarkPaid(o) \/ DeleteBill(o) \/ Refused(o)

Next ==
    \/ \E d \in Docs : Receive(d)
    \/ BotStep
    \/ \E s \in Slots : WorkerStep(s) \/ Fail(s)
    \/ SetUpCompany
    \/ \E o \in Operators : OperatorStep(o)

Spec == Init /\ [][Next]_vars

-----------------------------------------------------------------------------
Request == [pc : {"idle", "lookup", "write", "commit", "publish"}, doc : Docs,
            raw : Reading \cup {NoRaw}, copy : Bill \cup {NoBill}, next : Bill \cup {NoBill},
            awaited : BOOLEAN]
Answers == {"nothing", "send again", "running OCR", "not saved", "already saved", "stored", "processed"}

(* Every variable holds what the code can put in it, and a worker about to   *)
(* commit has a row to save.                                                 *)
TypeOK ==
    /\ bills \in [Docs -> Bill \cup {NoBill}]
    /\ company \in BOOLEAN
    /\ bot \in [pc : {"idle", "post", "wait", "ocr"}, doc : Docs, step : 1 .. 2,
                attempt : 1 .. MaxPosts, raw : Reading \cup {NoRaw}]
    /\ workers \in [Slots -> Request]
    /\ screens \in [Operators -> [op : {"none", "correct", "pay", "unpay", "delete"}, doc : Docs,
                                  copy : Bill \cup {NoBill}]]
    /\ told \in [Docs -> Answers]
    /\ read \subseteq Docs \X Reading
    /\ messages \in 0 .. MaxMessages /\ clicks \in 0 .. MaxClicks
    /\ \A s \in Slots : workers[s].pc \in {"commit", "publish"} => workers[s].next \in Bill

(* A bill that is not waiting for review was reviewed by an operator, or its *)
(* own fields are ones the rules approve, whatever old copies were written   *)
(* back over it.                                                             *)
Justified(b) ==
    /\ b.reviewed => b.status = "processed"
    /\ b.status = "processed" /\ ~b.reviewed =>
          b.confidence >= 80 /\ b.seller # Pending /\ b.gst # "bad" /\ ~b.duplicate

StatusJustified == \A d \in Docs : bills[d] # NoBill => Justified(bills[d])

(* What the sender of a document is told is true: after "running OCR" and    *)
(* "stored" there is a row for it (an operator may have deleted it), and     *)
(* after "processed" a reading of it was committed.                          *)
AnswersAreTrue ==
    \A d \in Docs :
        /\ told[d] \in {"running OCR", "stored", "processed"} => bills[d] # NoBill
        /\ told[d] = "processed" => \E r \in Readings : <<d, r>> \in read

(* "This document was already saved in WWE OS": a 409 means there is a row.  *)
AlreadySavedIsSaved == \A d \in Docs : told[d] = "already saved" => bills[d] # NoBill

(* A row that an operator or a worker saves meanwhile is overwritten only by *)
(* a copy taken before: a bill that was read does not lose its reading to a  *)
(* resent document or a retried post, its payment changes at no other hand   *)
(* than an operator's, and a deleted bill does not come back.                *)
Copies(d) ==
    {workers[s].copy : s \in {t \in Slots : workers[t].doc = d}}
        \cup {screens[o].copy : o \in {p \in Operators : screens[p].op = "correct" /\ screens[p].doc = d}}

IsRead(bill) == bill.raw # Unread

Settles(d) == \E o \in Operators : screens[o].op \in {"pay", "unpay"} /\ screens[o].doc = d /\ screens'[o] = Away

LostOnlyToOldCopies ==
    [][\A d \in Docs : bills[d] # NoBill =>
        LET old == Copies(d) \ {NoBill}
        IN /\ IsRead(bills[d]) /\ ~IsRead(bills'[d]) => \E c \in old : ~IsRead(c)
           /\ bills'[d].paid # bills[d].paid => Settles(d) \/ \E c \in old : c.paid = bills'[d].paid
           /\ bills[d].deleted /\ ~bills'[d].deleted => \E c \in old : ~c.deleted]_vars
=============================================================================
