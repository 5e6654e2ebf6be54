-------------------------- MODULE BillIntake_proofs --------------------------
(***************************************************************************)
(* For any number of documents, workers and operators: no bill leaves the  *)
(* review queue unjustified, and what the bot tells a sender is true.  The *)
(* first rests on every copy of a row being justified as well (IInv), the  *)
(* second on what the bot and the one worker it waits for agree on (Talk). *)
(* And a row is overwritten only from an older copy of it: what a worker   *)
(* is about to commit owes the rest to the copy it started from            *)
(* (CopiesInv).                                                            *)
(***************************************************************************)
EXTENDS BillIntake, TLAPS

(* Rows in memory are justified, and a request of an operator is about a row *)
(* that exists.                                                              *)
Sound ==
    /\ StatusJustified
    /\ \A s \in Slots : /\ workers[s].copy # NoBill => Justified(workers[s].copy)
                        /\ workers[s].pc \in {"commit", "publish"} => Justified(workers[s].next)
    /\ \A o \in Operators : screens[o].op # "none" =>
          /\ screens[o].copy \in Bill /\ Justified(screens[o].copy)
          /\ bills[screens[o].doc] # NoBill

IInv == TypeOK /\ Sound

-----------------------------------------------------------------------------
LEMMA NoBillIsNoRow == NoBill \notin Bill
<1> SUFFICES ASSUME NoBill \in Bill PROVE FALSE
    OBVIOUS
<1>1. DOMAIN NoBill = {"deleted"}
    BY DEF NoBill
<1>2. ASSUME NEW b \in Bill PROVE "paid" \in DOMAIN b
    BY DEF Bill
<1> QED BY <1>1, <1>2

LEMMA AnyDocIsOne == AnyDoc \in Docs
BY DocAssumption DEF AnyDoc

LEMMA UnreadType == Unread \in Reading
BY DEF Unread, Reading, Unstated

LEMMA NewBillType == NewBill \in Bill
BY DEF NewBill, Bill, Unstated

LEMMA ParseType ==
    ASSUME NEW raw \in Reading \cup {NoRaw}, NEW filed \in Reading \cup {NoRaw}
    PROVE  Parse(raw, filed) \in Reading
<1> DEFINE known == Known(raw, filed)
<1>1. known \in Reading \cup {NoRaw}
    BY DEF Known
<1> HIDE DEF known
<1>2. CASE known = NoRaw
    BY <1>2, UnreadType DEF Parse, known
<1>3. CASE known # NoRaw
    <2>1. known \in Reading
        BY <1>1, <1>3
    <2>2. (IF known.confidence = Unstated THEN 90 ELSE known.confidence) \in 0 .. Unstated
        BY <2>1 DEF Reading, Unstated
    <2>3. [known EXCEPT !.confidence = IF known.confidence = Unstated THEN 90 ELSE known.confidence]
             \in Reading
        BY <2>1, <2>2 DEF Reading
    <2> QED BY <1>3, <2>3 DEF Parse, known
<1> QED BY <1>2, <1>3

(* Whatever copy a post starts from, the row it leads to is justified.       *)
LEMMA DigestJustified ==
    ASSUME NEW d \in Docs, NEW copy \in Bill, NEW raw \in Reading \cup {NoRaw}
    PROVE  Digest(d, copy, raw) \in Bill /\ Justified(Digest(d, copy, raw))
<1> DEFINE ext    == Parse(raw, copy.raw)
           number == IF ext.number # 0 THEN ext.number ELSE copy.number
           gst    == IF ext.gst # "none" THEN ext.gst ELSE copy.gst
           twin   == copy.duplicate \/ IsDuplicate(d, ext.seller, number)
           conf   == Stated(ext.confidence)
           why    == Evaluate(d, conf, ext.seller, gst, twin)
           status == IF why = {} THEN "processed" ELSE "needs_attention"
           row    == Digest(d, copy, raw)
<1>1. ext \in Reading
    <2>1. copy.raw \in Reading \cup {NoRaw}
        BY DEF Bill
    <2> QED BY <2>1, ParseType
<1>2. number \in Nat /\ gst \in {"none", "good", "bad"} /\ ext.seller \in {Pending} \cup Sellers
    BY <1>1 DEF Reading, Bill
<1>3. conf \in 0 .. Unstated
    BY <1>1 DEF Stated, Reading, Unstated
<1>4. twin \in BOOLEAN
    BY DEF Bill, IsDuplicate
<1>5. status \in {"processed", "needs_attention"}
    OBVIOUS
<1>6. row = [copy EXCEPT !.seller = ext.seller, !.number = number, !.gst = gst, !.duplicate = twin,
                 !.confidence = conf, !.raw = ext, !.status = status, !.reviewed = FALSE]
    BY DEF Digest
<1>7. why = {} => conf >= 80 /\ ext.seller # Pending /\ gst # "bad" /\ ~twin
    <2> SUFFICES ASSUME why = {} PROVE conf >= 80 /\ ext.seller # Pending /\ gst # "bad" /\ ~twin
        OBVIOUS
    <2>1. "low_confidence" \notin why /\ "vendor_unidentified" \notin why
          /\ "invalid_gst_format" \notin why /\ "duplicate_invoice" \notin why
        OBVIOUS
    <2>2. ~(conf < 80) /\ ext.seller # Pending /\ gst # "bad" /\ ~twin
        BY <2>1 DEF Evaluate, Reasons
    <2> QED BY <2>2, <1>3 DEF Unstated
<1> HIDE DEF ext, number, gst, twin, conf, why
<1>8. row \in Bill
    BY ZenonT(30), <1>1, <1>2, <1>3, <1>4, <1>5, <1>6 DEF Bill
<1>9. /\ row.reviewed = FALSE /\ row.status = status /\ row.confidence = conf
      /\ row.seller = ext.seller /\ row.gst = gst /\ row.duplicate = twin
    BY <1>6 DEF Bill
<1>10. Justified(row)
    BY <1>7, <1>9 DEF Justified
<1> QED BY <1>8, <1>10

LEMMA InitInv == Init => IInv
<1> SUFFICES ASSUME Init PROVE IInv
    OBVIOUS
<1>1. Asleep \in [pc : {"idle", "post", "wait", "ocr"}, doc : Docs, step : 1 .. 2,
                  attempt : 1 .. MaxPosts, raw : Reading \cup {NoRaw}]
    BY AnyDocIsOne, BoundAssumption DEF Asleep
<1>2. Free \in Request /\ Free.copy = NoBill /\ Free.pc = "idle"
    BY AnyDocIsOne DEF Free, Request
<1>3. Away \in [op : {"none", "correct", "pay", "unpay", "delete"}, doc : Docs, copy : Bill \cup {NoBill}]
    BY AnyDocIsOne DEF Away
<1>4. Away.op = "none"
    BY DEF Away
<1>5. TypeOK
    BY <1>1, <1>2, <1>3, BoundAssumption, SetUpAssumption DEF Init, TypeOK, Answers
<1>6. Sound
    BY <1>2, <1>4 DEF Init, Sound, StatusJustified
<1> QED BY <1>5, <1>6 DEF IInv

-----------------------------------------------------------------------------
(* What the bot is told changes nothing else.                                *)
BotType == /\ bot \in [pc : {"idle", "post", "wait", "ocr"}, doc : Docs, step : 1 .. 2,
                        attempt : 1 .. MaxPosts, raw : Reading \cup {NoRaw}]
           /\ told \in [Docs -> Answers]

LEMMA TellType ==
    ASSUME BotType, NEW what \in Answers, Tell(what)
    PROVE  BotType'
BY AnyDocIsOne, BoundAssumption DEF BotType, Tell, Asleep

LEMMA GiveUpType ==
    ASSUME BotType, GiveUp
    PROVE  BotType'
<1>1. (IF bot.step = 1 THEN "not saved" ELSE "stored") \in Answers
    BY DEF Answers
<1> QED BY <1>1, TellType DEF GiveUp

LEMMA RetryType ==
    ASSUME BotType, Retry
    PROVE  BotType'
<1>1. CASE bot.attempt < MaxPosts /\ bot' = [bot EXCEPT !.pc = "post", !.attempt = @ + 1] /\ UNCHANGED told
    <2>1. bot.attempt \in 1 .. MaxPosts
        BY DEF BotType
    <2>2. bot.attempt + 1 \in 1 .. MaxPosts
        BY <1>1, <2>1, BoundAssumption
    <2> QED BY <1>1, <2>2 DEF BotType
<1>2. CASE GiveUp
    BY <1>2, GiveUpType
<1> QED BY <1>1, <1>2 DEF Retry

LEMMA AnswerType ==
    ASSUME BotType, NEW s \in Slots, NEW code \in {"created", "conflict", "rejected", "error"},
           NEW status, Answer(s, code, status)
    PROVE  BotType'
<1>0. CASE ~workers[s].awaited
    BY <1>0 DEF Answer, BotType
<1>1. CASE workers[s].awaited
    <2>0. Take(code, status)
        BY <1>1 DEF Answer
    <2>1. CASE /\ bot' = [bot EXCEPT !.pc = "ocr", !.step = 2, !.attempt = 1]
               /\ told' = [told EXCEPT ![bot.doc] = "running OCR"]
        <3>1. 1 \in 1 .. MaxPosts /\ 2 \in 1 .. 2
            BY BoundAssumption
        <3> QED BY <2>1, <3>1 DEF BotType, Answers
    <2>2. CASE Tell(IF status = "processed" /\ Sure(bot.raw) THEN "processed" ELSE "stored")
        <3>1. (IF status = "processed" /\ Sure(bot.raw) THEN "processed" ELSE "stored") \in Answers
            BY DEF Answers
        <3> QED BY <2>2, <3>1, TellType
    <2>3. CASE Tell(IF bot.step = 1 THEN "already saved" ELSE "stored")
        <3>1. (IF bot.step = 1 THEN "already saved" ELSE "stored") \in Answers
            BY DEF Answers
        <3> QED BY <2>3, <3>1, TellType
    <2> QED BY <2>0, <2>1, <2>2, <2>3, GiveUpType, RetryType DEF Take
<1> QED BY <1>0, <1>1

(* A worker answers and is free; rows and screens stay.                      *)
LEMMA AnswerStep ==
    ASSUME IInv, NEW s \in Slots, NEW code \in {"created", "conflict", "rejected", "error"},
           NEW status, Answer(s, code, status),
           UNCHANGED <<bills, company, screens, read, messages, clicks>>
    PROVE  IInv'
<1>1. BotType'
    BY AnswerType DEF IInv, TypeOK, BotType
<1>2. Free \in Request /\ Free.copy = NoBill /\ Free.pc = "idle"
    BY AnyDocIsOne DEF Free, Request
<1>3. workers' = [workers EXCEPT ![s] = Free]
    BY DEF Answer
<1>4. TypeOK'
    BY <1>1, <1>2, <1>3 DEF IInv, TypeOK, BotType
<1>5. Sound'
    BY <1>2, <1>3 DEF IInv, TypeOK, Sound, StatusJustified
<1> QED BY <1>4, <1>5 DEF IInv

(* The bot acts; rows, copies and screens stay.                              *)
LEMMA BotMoves ==
    ASSUME IInv, BotType', messages' \in 0 .. MaxMessages,
           UNCHANGED <<bills, company, workers, screens, read, clicks>>
    PROVE  IInv'
<1>1. TypeOK'
    BY DEF IInv, TypeOK, BotType
<1>2. Sound'
    BY DEF IInv, Sound, StatusJustified
<1> QED BY <1>1, <1>2 DEF IInv

LEMMA ReceiveInv ==
    ASSUME IInv, NEW d \in Docs, Receive(d)
    PROVE  IInv'
<1>0. BotType
    BY DEF IInv, TypeOK, BotType
<1>1. BotType'
    <2>1. CASE bot' = [Asleep EXCEPT !.pc = "post", !.doc = d] /\ told' = [told EXCEPT ![d] = "nothing"]
        <3>1. 1 \in 1 .. MaxPosts /\ 1 \in 1 .. 2
            BY BoundAssumption
        <3> QED BY <1>0, <2>1, <3>1 DEF BotType, Asleep, Answers
    <2>2. CASE told' = [told EXCEPT ![d] = "send again"] /\ UNCHANGED bot
        BY <1>0, <2>2 DEF BotType, Answers
    <2> QED BY <2>1, <2>2 DEF Receive
<1>2. messages' \in 0 .. MaxMessages
    <2>1. messages \in 0 .. MaxMessages /\ messages < MaxMessages /\ messages' = messages + 1
        BY DEF Receive, IInv, TypeOK
    <2> QED BY <2>1, BoundAssumption
<1> QED BY <1>1, <1>2, BotMoves DEF Receive

LEMMA PostInv ==
    ASSUME IInv, NEW s \in Slots, Post(s)
    PROVE  IInv'
<1>1. BotType'
    BY DEF Post, BotType, IInv, TypeOK
<1> DEFINE w == [Free EXCEPT !.pc = "lookup", !.doc = bot.doc, !.raw = bot.raw, !.awaited = TRUE]
<1>2. w \in Request /\ w.copy = NoBill /\ w.pc = "lookup"
    BY AnyDocIsOne DEF IInv, TypeOK, Free, Request
<1>3. workers' = [workers EXCEPT ![s] = w]
    BY DEF Post
<1> HIDE DEF w
<1>4. TypeOK'
    BY <1>1, <1>2, <1>3 DEF Post, IInv, TypeOK, BotType
<1>5. Sound'
    BY <1>2, <1>3 DEF Post, IInv, TypeOK, Sound, StatusJustified
<1> QED BY <1>4, <1>5 DEF IInv

LEMMA TimeoutInv ==
    ASSUME IInv, Timeout
    PROVE  IInv'
<1>1. BotType'
    BY RetryType DEF Timeout, BotType, IInv, TypeOK
<1>2. ASSUME NEW s \in Slots
      PROVE  /\ workers'[s] = [workers[s] EXCEPT !.awaited = FALSE]
             /\ workers'[s] \in Request /\ workers'[s].copy = workers[s].copy
             /\ workers'[s].next = workers[s].next /\ workers'[s].pc = workers[s].pc
    <2>1. workers'[s] = [workers[s] EXCEPT !.awaited = FALSE]
        BY DEF Timeout
    <2>2. workers[s] \in Request
        BY DEF IInv, TypeOK
    <2> QED BY <2>1, <2>2 DEF Request
<1>3. DOMAIN workers' = Slots /\ workers' = [s \in Slots |-> workers'[s]]
    BY DEF Timeout
<1>4. workers' \in [Slots -> Request]
    BY <1>2, <1>3
<1>5. TypeOK'
    BY <1>1, <1>2, <1>4 DEF Timeout, IInv, TypeOK, BotType
<1>6. Sound'
    BY <1>2 DEF Timeout, IInv, Sound, StatusJustified
<1> QED BY <1>5, <1>6 DEF IInv

LEMMA BotStepInv ==
    ASSUME IInv, BotStep
    PROVE  IInv'
<1>1. ASSUME NEW s \in Slots, Post(s) PROVE IInv'
    BY <1>1, PostInv
<1>2. CASE Timeout
    BY <1>2, TimeoutInv
<1>0. BotType /\ messages \in 0 .. MaxMessages
    BY DEF IInv, TypeOK, BotType
<1>3. CASE Unreachable
    BY <1>0, <1>3, RetryType, BotMoves DEF Unreachable
<1>4. CASE OcrFails
    BY <1>0, <1>4, GiveUpType, BotMoves DEF OcrFails
<1>5. ASSUME NEW r \in Readings, Ocr(r) PROVE IInv'
    <2>1. BotType'
        BY <1>0, <1>5, ReadingAssumption DEF Ocr, BotType
    <2> QED BY <1>0, <1>5, <2>1, BotMoves DEF Ocr
<1> QED BY <1>1, <1>2, <1>3, <1>4, <1>5 DEF BotStep

-----------------------------------------------------------------------------
LEMMA LookupInv ==
    ASSUME IInv, NEW s \in Slots, Lookup(s)
    PROVE  IInv'
<1> DEFINE bill == bills[workers[s].doc]
           copy == IF bill.deleted THEN NoBill ELSE bill
           w == [workers[s] EXCEPT !.pc = "write", !.copy = copy]
<1>0. workers[s] \in Request /\ bill \in Bill \cup {NoBill}
    BY DEF IInv, TypeOK, Request
<1>1. copy \in Bill \cup {NoBill} /\ (copy # NoBill => Justified(copy))
    BY <1>0 DEF IInv, TypeOK, Sound, StatusJustified, Request
<1>2. workers' = [workers EXCEPT ![s] = w]
    BY DEF Lookup, IInv, TypeOK
<1>3. w \in Request /\ w.copy = copy /\ w.pc = "write"
    BY <1>0, <1>1 DEF Request
<1> HIDE DEF w, copy, bill
<1>4. TypeOK'
    <2>1. workers' \in [Slots -> Request]
        BY <1>2, <1>3 DEF IInv, TypeOK
    <2>2. \A t \in Slots : workers'[t].pc \in {"commit", "publish"} => workers'[t].next \in Bill
        BY <1>2, <1>3 DEF IInv, TypeOK
    <2> QED BY <2>1, <2>2 DEF Lookup, IInv, TypeOK
<1>5. Sound'
    BY <1>1, <1>2, <1>3 DEF Lookup, IInv, TypeOK, Sound, StatusJustified
<1> QED BY <1>4, <1>5 DEF IInv

LEMMA WriteInv ==
    ASSUME IInv, NEW s \in Slots, Write(s)
    PROVE  IInv'
<1> DEFINE w == workers[s]
           base == IF w.copy # NoBill THEN w.copy ELSE NewBill
           next == Digest(w.doc, base, w.raw)
           v == [w EXCEPT !.pc = "commit", !.next = next]
<1>0. w \in Request /\ w.doc \in Docs /\ w.raw \in Reading \cup {NoRaw}
    BY DEF IInv, TypeOK, Request
<1>1. base \in Bill
    BY <1>0, NewBillType DEF Request
<1>2. next \in Bill /\ Justified(next)
    BY <1>0, <1>1, DigestJustified
<1>3. workers' = [workers EXCEPT ![s] = v]
    BY DEF Write, IInv, TypeOK
<1> HIDE DEF next, base
<1>4. v \in Request /\ v.copy = w.copy /\ v.next = next /\ v.pc = "commit"
    BY <1>0, <1>2 DEF Request
<1> HIDE DEF v
<1>5. TypeOK'
    <2>1. workers' \in [Slots -> Request]
        BY <1>3, <1>4 DEF IInv, TypeOK
    <2>2. \A t \in Slots : workers'[t].pc \in {"commit", "publish"} => workers'[t].next \in Bill
        BY <1>2, <1>3, <1>4 DEF IInv, TypeOK
    <2> QED BY <2>1, <2>2 DEF Write, IInv, TypeOK
<1>6. Sound'
    BY <1>2, <1>3, <1>4 DEF Write, IInv, TypeOK, Sound, StatusJustified
<1> QED BY <1>5, <1>6 DEF IInv

LEMMA CommitInv ==
    ASSUME IInv, NEW s \in Slots, Commit(s)
    PROVE  IInv'
<1> DEFINE w == workers[s]
           v == [Free EXCEPT !.pc = "publish", !.doc = w.doc, !.next = w.next, !.awaited = w.awaited]
<1>0. w \in Request /\ w.doc \in Docs /\ w.next \in Bill /\ Justified(w.next)
    BY DEF Commit, At, IInv, TypeOK, Sound, Request
<1>1. bills' = [bills EXCEPT ![w.doc] = w.next] /\ workers' = [workers EXCEPT ![s] = v]
    BY DEF Commit
<1>2. v \in Request /\ v.copy = NoBill /\ v.next = w.next /\ v.pc = "publish"
    BY <1>0, AnyDocIsOne DEF Request, Free
<1>3. read' \subseteq Docs \X Reading
    <2>1. w.raw # NoRaw => <<w.doc, w.raw>> \in Docs \X Reading
        BY <1>0 DEF Request
    <2> QED BY <2>1 DEF Commit, IInv, TypeOK
<1> HIDE DEF v
<1>4. TypeOK'
    BY <1>0, <1>1, <1>2, <1>3 DEF Commit, IInv, TypeOK
<1>5. StatusJustified'
    BY <1>0, <1>1 DEF IInv, TypeOK, Sound, StatusJustified
<1>6. \A d \in Docs : bills[d] # NoBill => bills'[d] # NoBill
    BY <1>0, <1>1, NoBillIsNoRow DEF IInv, TypeOK
<1>7. Sound'
    BY <1>0, <1>1, <1>2, <1>5, <1>6 DEF Commit, IInv, TypeOK, Sound
<1> QED BY <1>4, <1>7 DEF IInv

LEMMA WorkerInv ==
    ASSUME IInv, NEW s \in Slots, WorkerStep(s) \/ Fail(s)
    PROVE  IInv'
<1>1. CASE Refuse(s)
    BY <1>1, AnswerStep DEF Refuse
<1>2. CASE Clash(s)
    BY <1>2, AnswerStep DEF Clash
<1>3. CASE Reply(s)
    BY <1>3, AnswerStep DEF Reply
<1>4. CASE Fail(s)
    BY <1>4, AnswerStep DEF Fail
<1> QED BY <1>1, <1>2, <1>3, <1>4, LookupInv, WriteInv, CommitInv DEF WorkerStep

-----------------------------------------------------------------------------
LEMMA OpenInv ==
    ASSUME IInv, NEW o \in Operators, NEW op \in {"correct", "pay", "unpay", "delete"},
           NEW d \in Docs, Open(o, op, d)
    PROVE  IInv'
<1>1. bills[d] \in Bill /\ bills[d] # NoBill /\ Justified(bills[d])
    BY DEF Open, IInv, TypeOK, Sound, StatusJustified, NoBill
<1>2. screens' = [screens EXCEPT ![o] = [op |-> op, doc |-> d, copy |-> bills[d]]]
    BY DEF Open
<1>3. TypeOK'
    BY <1>1, <1>2, BoundAssumption DEF Open, Click, IInv, TypeOK
<1>4. Sound'
    BY <1>1, <1>2 DEF Open, IInv, TypeOK, Sound, StatusJustified
<1> QED BY <1>3, <1>4 DEF IInv

LEMMA SaveInv ==
    ASSUME IInv, NEW o \in Operators, NEW op, NEW bill \in Bill, Justified(bill),
           screens[o].op # "none", Save(o, op, bill)
    PROVE  IInv'
<1> DEFINE d == screens[o].doc
<1>1. d \in Docs
    BY DEF IInv, TypeOK
<1>2. bills' = [bills EXCEPT ![d] = bill] /\ screens' = [screens EXCEPT ![o] = Away]
    BY DEF Save
<1>3. Away \in [op : {"none", "correct", "pay", "unpay", "delete"}, doc : Docs, copy : Bill \cup {NoBill}]
      /\ Away.op = "none"
    BY AnyDocIsOne DEF Away
<1>4. \A e \in Docs : bills[e] # NoBill => bills'[e] # NoBill
    BY <1>1, <1>2, NoBillIsNoRow DEF IInv, TypeOK
<1>5. TypeOK'
    BY <1>1, <1>2, <1>3 DEF Save, IInv, TypeOK
<1>6. StatusJustified'
    BY <1>1, <1>2 DEF IInv, TypeOK, Sound, StatusJustified
<1>7. Sound'
    BY <1>2, <1>3, <1>4, <1>6 DEF Save, IInv, TypeOK, Sound
<1> QED BY <1>5, <1>7 DEF IInv

(* An operator opens a bill, is refused, or saves a row that is justified.   *)
LEMMA OperatorSaves ==
    ASSUME IInv, NEW o \in Operators, OperatorStep(o)
    PROVE  \/ \E op \in {"correct", "pay", "unpay", "delete"}, d \in Docs : Open(o, op, d)
           \/ Refused(o)
           \/ \E op \in {"correct", "pay", "unpay", "delete"}, bill \in Bill :
                 Justified(bill) /\ screens[o].op # "none" /\ Save(o, op, bill)
<1> DEFINE now == bills[screens[o].doc]
           saves == \E op \in {"correct", "pay", "unpay", "delete"}, bill \in Bill :
                       Justified(bill) /\ screens[o].op # "none" /\ Save(o, op, bill)
<1>1. ASSUME screens[o].op # "none"
      PROVE  now \in Bill /\ Justified(now) /\ screens[o].copy \in Bill /\ Justified(screens[o].copy)
    BY <1>1 DEF IInv, TypeOK, Sound, StatusJustified
<1>2. ASSUME NEW seller \in Sellers, Correct(o, seller) PROVE saves
    <2> DEFINE bill == [screens[o].copy EXCEPT !.seller = seller, !.status = "processed", !.reviewed = TRUE]
    <2>1. screens[o].op # "none" /\ Save(o, "correct", bill)
        BY <1>2 DEF Correct, Save
    <2>2. bill \in Bill /\ bill.reviewed = TRUE /\ bill.status = "processed"
        BY <1>1, <2>1 DEF Bill
    <2>3. Justified(bill)
        BY <2>2 DEF Justified
    <2> HIDE DEF bill
    <2> QED BY <2>1, <2>2, <2>3
<1>3. ASSUME NEW flag \in BOOLEAN, screens[o].op # "none"
      PROVE  [now EXCEPT !.paid = flag] \in Bill /\ Justified([now EXCEPT !.paid = flag])
    BY <1>1, <1>3 DEF Bill, Justified
<1>4. CASE MarkPaid(o)
    <2>1. screens[o].op # "none" /\ Save(o, "pay", [now EXCEPT !.paid = TRUE])
        BY <1>4 DEF MarkPaid, Save
    <2> QED BY <1>3, <2>1
<1>5. CASE UnmarkPaid(o)
    <2>1. screens[o].op # "none" /\ Save(o, "unpay", [now EXCEPT !.paid = FALSE])
        BY <1>5 DEF UnmarkPaid, Save
    <2> QED BY <1>3, <2>1
<1>6. CASE DeleteBill(o)
    <2>1. screens[o].op # "none" /\ Save(o, "delete", [now EXCEPT !.deleted = TRUE])
        BY <1>6 DEF DeleteBill, Save
    <2>2. [now EXCEPT !.deleted = TRUE] \in Bill /\ Justified([now EXCEPT !.deleted = TRUE])
        BY <1>1, <2>1 DEF Bill, Justified
    <2> QED BY <2>1, <2>2
<1> QED BY <1>2, <1>4, <1>5, <1>6 DEF OperatorStep

LEMMA OperatorInv ==
    ASSUME IInv, NEW o \in Operators, OperatorStep(o)
    PROVE  IInv'
<1>1. CASE Refused(o)
    <2>1. Away \in [op : {"none", "correct", "pay", "unpay", "delete"}, doc : Docs, copy : Bill \cup {NoBill}]
          /\ Away.op = "none"
        BY AnyDocIsOne DEF Away
    <2>2. TypeOK' /\ Sound'
        BY <1>1, <2>1 DEF Refused, IInv, TypeOK, Sound, StatusJustified
    <2> QED BY <2>2 DEF IInv
<1> QED BY <1>1, OperatorSaves, OpenInv, SaveInv

LEMMA NextInv == IInv /\ [Next]_vars => IInv'
<1> SUFFICES ASSUME IInv, [Next]_vars PROVE IInv'
    OBVIOUS
<1>1. CASE UNCHANGED vars
    BY <1>1 DEF vars, IInv, TypeOK, Sound, StatusJustified
<1>2. CASE SetUpCompany
    <2>1. TypeOK' /\ Sound'
        BY <1>2 DEF SetUpCompany, IInv, TypeOK, Sound, StatusJustified
    <2> QED BY <2>1 DEF IInv
<1> QED BY <1>1, <1>2, ReceiveInv, BotStepInv, WorkerInv, OperatorInv DEF Next

THEOREM Typed == Spec => []TypeOK
<1>1. IInv => TypeOK
    BY DEF IInv
<1> QED BY InitInv, NextInv, <1>1, PTL DEF Spec

(* No bill is out of the review queue that the rules would keep in it and no *)
(* operator has looked at.                                                   *)
THEOREM Reviewed == Spec => []StatusJustified
<1>1. IInv => StatusJustified
    BY DEF IInv, Sound
<1> QED BY InitInv, NextInv, <1>1, PTL DEF Spec

-----------------------------------------------------------------------------
(* What the bot and the one worker it waits for agree on.                    *)
Agrees(s) ==
    /\ workers[s].pc # "idle" /\ bot.pc = "wait" /\ workers[s].doc = bot.doc
    /\ workers[s].pc # "publish" => workers[s].raw = bot.raw
    /\ workers[s].pc = "publish" /\ bot.step = 2 => <<bot.doc, bot.raw>> \in read

Truth == AnswersAreTrue /\ (CompanySetUp => company /\ AlreadySavedIsSaved)

BotKnows ==
    /\ bot.step = 2 => bills[bot.doc] # NoBill
    /\ bot.step = 1 => bot.raw = NoRaw
    /\ bot.step = 2 /\ bot.pc \in {"post", "wait"} => bot.raw \in Readings
    /\ bot.pc = "ocr" => bot.step = 2

OneAwaited ==
    /\ \A s \in Slots : workers[s].awaited => Agrees(s)
    /\ \A s, t \in Slots : workers[s].awaited /\ workers[t].awaited => s = t
    /\ \A s \in Slots : workers[s].pc = "publish" => bills[workers[s].doc] # NoBill

Talk == Truth /\ BotKnows /\ OneAwaited

LEMMA NoRawIsNoReading == NoRaw \notin Reading
<1> SUFFICES ASSUME NoRaw \in Reading PROVE FALSE
    OBVIOUS
<1>1. DOMAIN NoRaw = {"number"}
    BY DEF NoRaw
<1>2. ASSUME NEW r \in Reading PROVE "gst" \in DOMAIN r
    BY DEF Reading
<1> QED BY <1>1, <1>2

LEMMA AsleepKnowsNothing == Asleep.step # 2 /\ Asleep.raw = NoRaw /\ Asleep.pc = "idle"
BY DEF Asleep

LEMMA InitTalk == Init => Talk
<1> SUFFICES ASSUME Init PROVE Talk
    OBVIOUS
<1>1. Truth
    BY DEF Init, Truth, AnswersAreTrue, AlreadySavedIsSaved
<1>2. BotKnows
    BY DEF Init, BotKnows, Asleep
<1>3. OneAwaited
    BY DEF Init, OneAwaited, Free
<1> QED BY <1>1, <1>2, <1>3 DEF Talk

(* The sender hears something true, and the bot takes its next message.      *)
LEMMA TellTrue ==
    ASSUME IInv, Talk, NEW what, Tell(what), UNCHANGED <<bills, read, company>>,
           what \in {"running OCR", "stored", "processed"} => bills[bot.doc] # NoBill,
           what = "processed" => \E r \in Readings : <<bot.doc, r>> \in read,
           what = "already saved" /\ CompanySetUp => bills[bot.doc] # NoBill
    PROVE  Truth' /\ BotKnows' /\ bot' = Asleep
<1>1. bot.doc \in Docs /\ told \in [Docs -> Answers]
    BY DEF IInv, TypeOK
<1>2. \A d \in Docs : told'[d] = IF d = bot.doc THEN what ELSE told[d]
    BY <1>1 DEF Tell
<1>3. AnswersAreTrue'
    BY <1>2 DEF Talk, Truth, AnswersAreTrue
<1>4. CompanySetUp => company' /\ AlreadySavedIsSaved'
    BY <1>2 DEF Talk, Truth, AlreadySavedIsSaved
<1>5. bot' = Asleep
    BY DEF Tell
<1>6. BotKnows'
    <2>1. bot'.step = 1 /\ bot'.raw = NoRaw /\ bot'.pc = "idle"
        BY <1>5 DEF Asleep
    <2>2. bot'.step # 2
        BY <1>5, AsleepKnowsNothing
    <2>3. bot'.pc # "ocr"
        BY <1>5, AsleepKnowsNothing
    <2> QED BY <2>1, <2>2, <2>3 DEF BotKnows
<1> QED BY <1>3, <1>4, <1>5, <1>6 DEF Truth

LEMMA GiveUpTrue ==
    ASSUME IInv, Talk, GiveUp, UNCHANGED <<bills, read, company>>
    PROVE  Truth' /\ BotKnows' /\ bot' = Asleep
<1> DEFINE what == IF bot.step = 1 THEN "not saved" ELSE "stored"
<1>1. bot.step \in {1, 2}
    BY DEF IInv, TypeOK
<1>2. what \in {"running OCR", "stored", "processed"} => bills[bot.doc] # NoBill
    BY <1>1 DEF Talk, BotKnows
<1>3. what # "processed" /\ what # "already saved" /\ Tell(what)
    BY DEF GiveUp
<1> HIDE DEF what
<1> QED BY <1>2, <1>3, TellTrue

LEMMA RetryTrue ==
    ASSUME IInv, Talk, Retry, bot.pc \in {"post", "wait"}, UNCHANGED <<bills, read, company>>
    PROVE  Truth' /\ BotKnows' /\ (bot' = Asleep \/ bot'.pc = "post")
<1>1. CASE GiveUp
    BY <1>1, GiveUpTrue
<1>2. CASE bot' = [bot EXCEPT !.pc = "post", !.attempt = @ + 1] /\ UNCHANGED told
    <2>1. /\ bot'.pc = "post" /\ bot'.doc = bot.doc /\ bot'.step = bot.step /\ bot'.raw = bot.raw
        BY <1>2 DEF IInv, TypeOK
    <2>2. Truth'
        BY <1>2 DEF Talk, Truth, AnswersAreTrue, AlreadySavedIsSaved
    <2>3. BotKnows'
        BY <2>1 DEF Talk, BotKnows
    <2> QED BY <2>1, <2>2, <2>3
<1> QED BY <1>1, <1>2 DEF Retry

(* The awaited worker answers; every other worker is on its own.             *)
LEMMA AnswerTrue ==
    ASSUME IInv, Talk, NEW s \in Slots, NEW code, NEW status, Answer(s, code, status),
           UNCHANGED <<bills, company, read>>,
           code \in {"created", "conflict", "rejected", "error"},
           code = "created" => workers[s].pc = "publish",
           code = "conflict" /\ CompanySetUp => bills[workers[s].doc] # NoBill
    PROVE  Talk'
<1>0. workers' = [workers EXCEPT ![s] = Free] /\ workers \in [Slots -> Request]
    BY DEF Answer, IInv, TypeOK
<1>1. \A t \in Slots : workers'[t] = IF t = s THEN Free ELSE workers[t]
    BY <1>0
<1>2. Free.awaited = FALSE /\ Free.pc = "idle"
    BY DEF Free
<1>3. CASE ~workers[s].awaited
    <2>1. UNCHANGED <<bot, told>>
        BY <1>3 DEF Answer
    <2>2. Truth' /\ BotKnows'
        BY <2>1 DEF Talk, Truth, BotKnows, AnswersAreTrue, AlreadySavedIsSaved
    <2>3. OneAwaited'
        BY <1>1, <1>2, <2>1 DEF Talk, OneAwaited, Agrees
    <2> QED BY <2>2, <2>3 DEF Talk
<1>4. CASE workers[s].awaited
    <2>1. Agrees(s) /\ Take(code, status) /\ bot.step \in {1, 2} /\ bot.pc = "wait"
        BY <1>4 DEF Answer, Talk, OneAwaited, Agrees, IInv, TypeOK
    <2>2. OneAwaited'
        BY <1>1, <1>2, <1>4 DEF Talk, OneAwaited, Agrees
    <2>3. CASE /\ code = "created" /\ bot.step = 1
               /\ bot' = [bot EXCEPT !.pc = "ocr", !.step = 2, !.attempt = 1]
               /\ told' = [told EXCEPT ![bot.doc] = "running OCR"]
        <3>1. bills[bot.doc] # NoBill
            BY <2>1, <2>3 DEF Agrees, Talk, OneAwaited
        <3>2. bot'.pc = "ocr" /\ bot'.step = 2 /\ bot'.doc = bot.doc
            BY <2>3 DEF IInv, TypeOK
        <3>3. BotKnows'
            BY <3>1, <3>2 DEF BotKnows
        <3>4. \A d \in Docs : told'[d] = IF d = bot.doc THEN "running OCR" ELSE told[d]
            BY <2>3 DEF IInv, TypeOK
        <3>5. Truth'
            BY <3>1, <3>4 DEF Talk, Truth, AnswersAreTrue, AlreadySavedIsSaved
        <3> QED BY <2>2, <3>3, <3>5 DEF Talk
    <2>4. CASE /\ code = "created" /\ bot.step = 2
               /\ Tell(IF status = "processed" /\ Sure(bot.raw) THEN "processed" ELSE "stored")
        <3> DEFINE what == IF status = "processed" /\ Sure(bot.raw) THEN "processed" ELSE "stored"
        <3>1. bills[bot.doc] # NoBill /\ <<bot.doc, bot.raw>> \in read /\ bot.raw \in Readings
            BY <2>1, <2>4 DEF Agrees, Talk, BotKnows
        <3>2. Tell(what) /\ what # "already saved"
            BY <2>4
        <3> HIDE DEF what
        <3> QED BY <2>2, <3>1, <3>2, TellTrue DEF Talk
    <2>5. CASE code = "conflict" /\ Tell(IF bot.step = 1 THEN "already saved" ELSE "stored")
        <3> DEFINE what == IF bot.step = 1 THEN "already saved" ELSE "stored"
        <3>1. /\ what = "stored" => bills[bot.doc] # NoBill
              /\ CompanySetUp => bills[bot.doc] # NoBill
            BY <2>1, <2>5 DEF Agrees, Talk, BotKnows
        <3>2. Tell(what) /\ what \in {"already saved", "stored"}
            BY <2>5
        <3> HIDE DEF what
        <3> QED BY <2>2, <3>1, <3>2, TellTrue DEF Talk
    <2>6. CASE GiveUp
        BY <2>2, <2>6, GiveUpTrue DEF Talk
    <2>7. CASE Retry
        BY <2>1, <2>2, <2>7, RetryTrue DEF Talk
    <2> QED BY <2>1, <2>3, <2>4, <2>5, <2>6, <2>7 DEF Take
<1> QED BY <1>3, <1>4

(* Rows change or the company is set up; bot and workers stay as they are.   *)
LEMMA RowsTalk ==
    ASSUME Talk, UNCHANGED <<bot, told, workers>>, read \subseteq read', company => company',
           \A d \in Docs : bills[d] # NoBill => bills'[d] # NoBill, IInv
    PROVE  Talk'
<1>1. bot.doc \in Docs /\ \A s \in Slots : workers[s].doc \in Docs
    BY DEF IInv, TypeOK, Request
<1>2. Truth' /\ BotKnows'
    BY <1>1 DEF Talk, Truth, BotKnows, AnswersAreTrue, AlreadySavedIsSaved
<1>3. OneAwaited'
    BY <1>1 DEF Talk, OneAwaited, Agrees
<1> QED BY <1>2, <1>3 DEF Talk

LEMMA BotTalk ==
    ASSUME IInv, Talk, BotStep
    PROVE  Talk'
<1>1. ASSUME NEW s \in Slots, Post(s) PROVE Talk'
    <2>0. bot \in [pc : {"idle", "post", "wait", "ocr"}, doc : Docs, step : 1 .. 2,
                    attempt : 1 .. MaxPosts, raw : Reading \cup {NoRaw}]
        BY DEF IInv, TypeOK
    <2>1. bot' = [bot EXCEPT !.pc = "wait"] /\ bot.pc = "post" /\ UNCHANGED <<bills, company, told, read>>
        BY <1>1 DEF Post
    <2>2. bot'.pc = "wait" /\ bot'.doc = bot.doc /\ bot'.step = bot.step /\ bot'.raw = bot.raw
        BY <2>0, <2>1
    <2>3. Truth' /\ BotKnows'
        BY <2>1, <2>2 DEF Talk, Truth, BotKnows, AnswersAreTrue, AlreadySavedIsSaved
    <2> DEFINE w == [Free EXCEPT !.pc = "lookup", !.doc = bot.doc, !.raw = bot.raw, !.awaited = TRUE]
    <2>4. \A t \in Slots : workers'[t] = IF t = s THEN w ELSE workers[t]
        BY <1>1 DEF Post, IInv, TypeOK
    <2>5. w.pc = "lookup" /\ w.doc = bot.doc /\ w.raw = bot.raw
        BY DEF Free
    <2>6. \A t \in Slots : ~workers[t].awaited
        BY <2>1 DEF Talk, OneAwaited, Agrees
    <2> HIDE DEF w
    <2>7. OneAwaited'
        BY <2>1, <2>2, <2>4, <2>5, <2>6 DEF Talk, OneAwaited, Agrees
    <2> QED BY <2>3, <2>7 DEF Talk
<1>2. CASE Unreachable
    <2>1. Truth' /\ BotKnows'
        BY <1>2, RetryTrue DEF Unreachable
    <2>2. \A t \in Slots : ~workers[t].awaited
        BY <1>2 DEF Unreachable, Talk, OneAwaited, Agrees
    <2>3. OneAwaited'
        BY <1>2, <2>2 DEF Unreachable, Talk, OneAwaited, Agrees
    <2> QED BY <2>1, <2>3 DEF Talk
<1>3. CASE Timeout
    <2>1. Truth' /\ BotKnows'
        BY <1>3, RetryTrue DEF Timeout
    <2>2. ASSUME NEW t \in Slots
          PROVE  ~workers'[t].awaited /\ workers'[t].pc = workers[t].pc /\ workers'[t].doc = workers[t].doc
        BY <1>3 DEF Timeout, IInv, TypeOK, Request
    <2>3. OneAwaited'
        BY <1>3, <2>2 DEF Timeout, Talk, OneAwaited, Agrees
    <2> QED BY <2>1, <2>3 DEF Talk
<1>4. CASE OcrFails
    <2>1. Truth' /\ BotKnows'
        BY <1>4, GiveUpTrue DEF OcrFails
    <2>2. \A t \in Slots : ~workers[t].awaited
        BY <1>4 DEF OcrFails, Talk, OneAwaited, Agrees
    <2>3. OneAwaited'
        BY <1>4, <2>2 DEF OcrFails, Talk, OneAwaited, Agrees
    <2> QED BY <2>1, <2>3 DEF Talk
<1>5. ASSUME NEW r \in Readings, Ocr(r) PROVE Talk'
    <2>0. bot' = [bot EXCEPT !.pc = "post", !.raw = r] /\ bot.pc = "ocr"
          /\ UNCHANGED <<bills, company, workers, told, read>>
        BY <1>5 DEF Ocr
    <2>1. bot'.pc = "post" /\ bot'.doc = bot.doc /\ bot'.step = bot.step /\ bot'.raw = r
        BY <2>0 DEF IInv, TypeOK
    <2>2. Truth'
        BY <2>0 DEF Talk, Truth, AnswersAreTrue, AlreadySavedIsSaved
    <2>3. bot.step = 2
        BY <2>0 DEF Talk, BotKnows
    <2>4. BotKnows'
        BY <2>0, <2>1, <2>3 DEF Talk, BotKnows
    <2>5. OneAwaited'
        BY <2>0 DEF Talk, OneAwaited, Agrees
    <2> QED BY <2>2, <2>4, <2>5 DEF Talk
<1> QED BY <1>1, <1>2, <1>3, <1>4, <1>5 DEF BotStep

LEMMA WorkerTalk ==
    ASSUME IInv, Talk, NEW s \in Slots, WorkerStep(s) \/ Fail(s)
    PROVE  Talk'
<1>0. workers \in [Slots -> Request] /\ bot.doc \in Docs
    BY DEF IInv, TypeOK
<1>1. CASE Lookup(s) \/ Write(s)
    <2>1. UNCHANGED <<bills, company, bot, told, read>>
        BY <1>1 DEF Lookup, Write
    <2>2. /\ workers[s].pc \in {"lookup", "write"} /\ workers'[s].pc \in {"write", "commit"}
          /\ workers'[s].doc = workers[s].doc /\ workers'[s].raw = workers[s].raw
          /\ workers'[s].awaited = workers[s].awaited
        BY <1>0, <1>1 DEF Lookup, Write, At, Request
    <2>3. \A t \in Slots \ {s} : workers'[t] = workers[t]
        BY <1>0, <1>1 DEF Lookup, Write
    <2>4. Truth' /\ BotKnows'
        BY <2>1 DEF Talk, Truth, BotKnows, AnswersAreTrue, AlreadySavedIsSaved
    <2>5. OneAwaited'
        BY <2>1, <2>2, <2>3 DEF Talk, OneAwaited, Agrees
    <2> QED BY <2>4, <2>5 DEF Talk
<1>2. CASE Commit(s)
    <2> DEFINE w == workers[s]
    <2>1. w \in Request /\ w.doc \in Docs /\ w.next \in Bill /\ w.pc = "commit"
        BY <1>0, <1>2 DEF Commit, At, IInv, TypeOK, Request
    <2>2. /\ bills' = [bills EXCEPT ![w.doc] = w.next] /\ UNCHANGED <<company, bot, told>>
          /\ read' = IF w.raw = NoRaw THEN read ELSE read \cup {<<w.doc, w.raw>>}
        BY <1>2 DEF Commit
    <2>3. \A d \in Docs : (bills[d] # NoBill \/ d = w.doc) => bills'[d] # NoBill
        BY <2>1, <2>2, NoBillIsNoRow DEF IInv, TypeOK
    <2>4. Truth' /\ BotKnows'
        BY <1>0, <2>2, <2>3 DEF Talk, Truth, BotKnows, AnswersAreTrue, AlreadySavedIsSaved
    <2>5. /\ workers'[s].pc = "publish" /\ workers'[s].doc = w.doc
          /\ workers'[s].awaited = w.awaited
        BY <1>0, <1>2 DEF Commit, Free
    <2>6. \A t \in Slots \ {s} : workers'[t] = workers[t]
        BY <1>0, <1>2 DEF Commit
    <2>7. ASSUME w.awaited, bot.step = 2 PROVE <<bot.doc, bot.raw>> \in read'
        <3>1. w.doc = bot.doc /\ w.raw = bot.raw /\ bot.raw \in Readings
            BY <2>1, <2>7 DEF Talk, OneAwaited, Agrees, BotKnows
        <3>2. w.raw # NoRaw
            BY <3>1, ReadingAssumption, NoRawIsNoReading
        <3> QED BY <2>2, <3>1, <3>2
    <2>8. ASSUME NEW t \in Slots, workers'[t].awaited PROVE Agrees(t)'
        <3>1. Agrees(t)
            BY <2>5, <2>6, <2>8 DEF Talk, OneAwaited
        <3>2. CASE t = s
            BY <2>2, <2>5, <2>7, <2>8, <3>1, <3>2 DEF Agrees
        <3>3. CASE t # s
            <4>1. workers'[t] = workers[t] /\ read \subseteq read'
                BY <2>2, <2>6, <3>3
            <4> QED BY <2>2, <3>1, <4>1 DEF Agrees
        <3> QED BY <3>2, <3>3
    <2>9. \A t \in Slots : workers'[t].pc = "publish" => bills'[workers'[t].doc] # NoBill
        <3>1. \A t \in Slots : workers[t].doc \in Docs
            BY <1>0 DEF Request
        <3> QED BY <2>1, <2>3, <2>5, <2>6, <3>1 DEF Talk, OneAwaited
    <2>10. \A t, u \in Slots : workers'[t].awaited /\ workers'[u].awaited => t = u
        BY <2>5, <2>6 DEF Talk, OneAwaited
    <2>11. OneAwaited'
        BY <2>8, <2>9, <2>10 DEF OneAwaited
    <2> QED BY <2>4, <2>11 DEF Talk
<1>3. CASE Refuse(s)
    BY <1>3, AnswerTrue DEF Refuse, Talk, Truth
<1>4. CASE Clash(s)
    BY <1>4, AnswerTrue DEF Clash
<1>5. CASE Reply(s)
    BY <1>5, AnswerTrue DEF Reply, At
<1>6. CASE Fail(s)
    BY <1>6, AnswerTrue DEF Fail
<1> QED BY <1>1, <1>2, <1>3, <1>4, <1>5, <1>6 DEF WorkerStep

LEMMA OperatorTalk ==
    ASSUME IInv, Talk, NEW o \in Operators, OperatorStep(o)
    PROVE  Talk'
<1>1. UNCHANGED <<bot, told, workers, read, company>>
    BY DEF OperatorStep, Open, Correct, MarkPaid, UnmarkPaid, DeleteBill, Refused, Save
<1>2. CASE (\E op \in {"correct", "pay", "unpay", "delete"}, d \in Docs : Open(o, op, d)) \/ Refused(o)
    <2>1. UNCHANGED bills
        BY <1>2 DEF Open, Refused
    <2> QED BY <1>1, <2>1, RowsTalk
<1>3. ASSUME NEW op \in {"correct", "pay", "unpay", "delete"}, NEW bill \in Bill, Save(o, op, bill) PROVE Talk'
    <2>1. bills' = [bills EXCEPT ![screens[o].doc] = bill] /\ screens[o].doc \in Docs
        BY <1>3 DEF Save, IInv, TypeOK
    <2>2. \A d \in Docs : bills[d] # NoBill => bills'[d] # NoBill
        BY <2>1, NoBillIsNoRow DEF IInv, TypeOK
    <2> QED BY <1>1, <2>2, RowsTalk
<1> QED BY <1>2, <1>3, OperatorSaves

LEMMA NextTalk == IInv /\ Talk /\ [Next]_vars => Talk'
<1> SUFFICES ASSUME IInv, Talk, [Next]_vars PROVE Talk'
    OBVIOUS
<1>1. CASE UNCHANGED vars
    BY <1>1, RowsTalk DEF vars
<1>2. CASE SetUpCompany
    BY <1>2, RowsTalk DEF SetUpCompany
<1>3. ASSUME NEW d \in Docs, Receive(d) PROVE Talk'
    <2>0. UNCHANGED <<bills, company, read, workers>> /\ bot.pc = "idle" /\ told \in [Docs -> Answers]
        BY <1>3 DEF Receive, IInv, TypeOK
    <2>1. \A t \in Slots : ~workers[t].awaited
        BY <2>0 DEF Talk, OneAwaited, Agrees
    <2>2. OneAwaited'
        BY <2>0, <2>1 DEF Talk, OneAwaited
    <2>3. BotKnows'
        <3>1. CASE bot' = [Asleep EXCEPT !.pc = "post", !.doc = d]
            BY <3>1 DEF BotKnows, Asleep
        <3>2. CASE UNCHANGED bot
            BY <2>0, <3>2 DEF Talk, BotKnows
        <3> QED BY <1>3, <3>1, <3>2 DEF Receive
    <2>4. \A e \in Docs : told'[e] = told[e] \/ told'[e] \in {"nothing", "send again"}
        BY <1>3, <2>0 DEF Receive
    <2>5. Truth'
        BY <2>0, <2>4 DEF Talk, Truth, AnswersAreTrue, AlreadySavedIsSaved
    <2> QED BY <2>2, <2>3, <2>5 DEF Talk
<1> QED BY <1>1, <1>2, <1>3, BotTalk, WorkerTalk, OperatorTalk DEF Next

(* What a sender is told about a document is true, however often posts were  *)
(* repeated, answers lost and workers left behind.                           *)
THEOREM Truthful == Spec => []AnswersAreTrue
<1>1. Talk => AnswersAreTrue
    BY DEF Talk, Truth
<1> QED BY InitInv, NextInv, InitTalk, NextTalk, <1>1, PTL DEF Spec

(* Where a company is configured before the bot runs, so is "already saved": *)
(* the unique constraint answers 409 for a row that exists.                  *)
THEOREM SavedIsSaved ==
    ASSUME CompanySetUp
    PROVE  Spec => []AlreadySavedIsSaved
<1>1. Talk => AlreadySavedIsSaved
    BY DEF Talk, Truth
<1> QED BY InitInv, NextInv, InitTalk, NextTalk, <1>1, PTL DEF Spec

-----------------------------------------------------------------------------
(* What overwrites a row: LostOnlyToOldCopies.                               *)

(* Every row, wherever it is in memory, carries a reading, a placeholder's   *)
(* included, and what a post brings is one OCR produced.                     *)
Carries(bill) == bill # NoBill => bill.raw \in Reading

(* What a worker is about to commit owes everything it does not say to the   *)
(* copy it started from; without a copy it inserts.                          *)
Owed(w) ==
    w.pc = "commit" =>
        /\ w.copy = NoBill => bills[w.doc] = NoBill
        /\ w.copy # NoBill =>
              /\ w.next.paid = w.copy.paid /\ w.next.deleted = w.copy.deleted /\ ~w.copy.deleted
              /\ IsRead(w.copy) => IsRead(w.next)

OneCommits ==
    \A s, t \in Slots :
        At(s, "commit") /\ At(t, "commit") /\ workers[s].doc = workers[t].doc => s = t

CopiesInv ==
    /\ \A d \in Docs : Carries(bills[d])
    /\ bot.raw \in Readings \cup {NoRaw}
    /\ \A s \in Slots :
          /\ workers[s].raw \in Readings \cup {NoRaw}
          /\ Carries(workers[s].copy) /\ (workers[s].copy # NoBill => ~workers[s].copy.deleted)
          /\ workers[s].pc \in {"commit", "publish"} => workers[s].next.raw \in Reading
          /\ Owed(workers[s])
    /\ \A o \in Operators : screens[o].op # "none" => screens[o].copy.raw \in Reading
    /\ OneCommits

(* A reading that is not the placeholder does not become it when its         *)
(* confidence is filled in.                                                  *)
LEMMA ReadStaysRead ==
    ASSUME NEW known \in Reading, known # Unread
    PROVE  [known EXCEPT !.confidence = IF @ = Unstated THEN 90 ELSE @] # Unread
<1> DEFINE filled == [known EXCEPT !.confidence = IF known.confidence = Unstated THEN 90 ELSE known.confidence]
<1>1. CASE known.confidence = Unstated
    <2>1. filled.confidence = 90
        BY <1>1 DEF Reading
    <2>2. Unread.confidence = 30
        BY DEF Unread
    <2> HIDE DEF filled
    <2>3. filled # Unread
        BY <2>1, <2>2
    <2> QED BY <2>3 DEF filled
<1>2. CASE known.confidence # Unstated
    <2>1. filled = known
        BY <1>2 DEF Reading
    <2> QED BY <2>1
<1> QED BY <1>1, <1>2

LEMMA DigestOwes ==
    ASSUME Unread \notin Readings,
           NEW d \in Docs, NEW copy \in Bill, NEW raw \in Readings \cup {NoRaw}
    PROVE  LET next == Digest(d, copy, raw) IN
           /\ next.raw \in Reading /\ next.paid = copy.paid /\ next.deleted = copy.deleted
           /\ copy.raw \in Reading /\ IsRead(copy) => IsRead(next)
<1> DEFINE ext == Parse(raw, copy.raw)
           next == Digest(d, copy, raw)
<1>1. copy.raw \in Reading \cup {NoRaw} /\ raw \in Reading \cup {NoRaw}
    BY ReadingAssumption DEF Bill
<1>2. ext \in Reading
    BY <1>1, ParseType
<1>3. copy.raw \in Reading /\ IsRead(copy) => ext # Unread
    <2> SUFFICES ASSUME copy.raw \in Reading, copy.raw # Unread PROVE ext # Unread
        BY DEF IsRead
    <2>1. PICK known : known = Known(raw, copy.raw)
        OBVIOUS
    <2>2. known \in Reading /\ known # Unread /\ known # NoRaw
        BY <2>1, ReadingAssumption, NoRawIsNoReading DEF Known
    <2>3. ext = [known EXCEPT !.confidence = IF @ = Unstated THEN 90 ELSE @]
        BY <2>1, <2>2 DEF Parse
    <2> QED BY <2>2, <2>3, ReadStaysRead
<1> HIDE DEF ext
<1>4. next.raw = ext /\ next.paid = copy.paid /\ next.deleted = copy.deleted
    BY DEF Digest, Bill, ext
<1> QED BY <1>2, <1>3, <1>4 DEF IsRead

LEMMA InitCopies == Init => CopiesInv
<1> SUFFICES ASSUME Init PROVE CopiesInv
    OBVIOUS
<1>1. Free.pc = "idle" /\ Free.raw = NoRaw /\ Free.copy = NoBill /\ Asleep.raw = NoRaw /\ Away.op = "none"
    BY DEF Free, Asleep, Away
<1> QED BY <1>1 DEF Init, CopiesInv, Carries, Owed, OneCommits, At

(* The bot's raw after an answer.                                            *)
LEMMA BotRaw ==
    ASSUME bot.raw \in Readings \cup {NoRaw}, IInv,
           \/ Retry \/ GiveUp
           \/ \E code \in {"created", "conflict", "rejected", "error"} : \E status : Take(code, status)
    PROVE  bot'.raw \in Readings \cup {NoRaw}
<1>1. Asleep.raw = NoRaw
    BY DEF Asleep
<1>2. ASSUME NEW what, Tell(what) PROVE bot'.raw = NoRaw
    BY <1>1, <1>2 DEF Tell
<1>3. ASSUME Retry PROVE bot'.raw \in Readings \cup {NoRaw}
    <2>1. CASE bot' = [bot EXCEPT !.pc = "post", !.attempt = @ + 1]
        <3>1. bot'.raw = bot.raw
            BY <2>1 DEF IInv, TypeOK
        <3> QED BY <3>1
    <2> QED BY <1>2, <1>3, <2>1 DEF Retry, GiveUp
<1>4. ASSUME NEW code, NEW status, Take(code, status) PROVE bot'.raw \in Readings \cup {NoRaw}
    <2>1. CASE bot' = [bot EXCEPT !.pc = "ocr", !.step = 2, !.attempt = 1]
        <3>1. bot'.raw = bot.raw
            BY <2>1 DEF IInv, TypeOK
        <3> QED BY <3>1
    <2> QED BY <1>2, <1>3, <1>4, <2>1 DEF Take, GiveUp
<1> QED BY <1>2, <1>3, <1>4 DEF GiveUp

(* One worker is replaced, rows and screens stay.                            *)
LEMMA WorkerMoves ==
    ASSUME IInv, CopiesInv, NEW s \in Slots, NEW w, workers' = [workers EXCEPT ![s] = w],
           w.raw \in Readings \cup {NoRaw}, Carries(w.copy), w.copy # NoBill => ~w.copy.deleted,
           w.pc \in {"commit", "publish"} => w.next.raw \in Reading, Owed(w),
           w.pc = "commit" => \A t \in Slots : t # s => ~(At(t, "commit") /\ workers[t].doc = w.doc),
           bot'.raw \in Readings \cup {NoRaw}, UNCHANGED <<bills, screens>>
    PROVE  CopiesInv'
<1>1. \A t \in Slots : workers'[t] = IF t = s THEN w ELSE workers[t]
    BY DEF IInv, TypeOK
<1>2. ASSUME NEW t \in Slots
      PROVE  /\ workers'[t].raw \in Readings \cup {NoRaw}
             /\ Carries(workers'[t].copy) /\ (workers'[t].copy # NoBill => ~workers'[t].copy.deleted)
             /\ workers'[t].pc \in {"commit", "publish"} => workers'[t].next.raw \in Reading
             /\ Owed(workers'[t])
    BY <1>1 DEF CopiesInv
<1>3. \A t \in Slots : Owed(workers[t])'
    BY <1>2 DEF Owed
<1>4. OneCommits'
    BY <1>1 DEF CopiesInv, OneCommits, At
<1> QED BY <1>2, <1>3, <1>4 DEF CopiesInv, Carries

LEMMA FreeMoves ==
    ASSUME IInv, CopiesInv, NEW s \in Slots, workers' = [workers EXCEPT ![s] = Free],
           bot'.raw \in Readings \cup {NoRaw}, UNCHANGED <<bills, screens>>
    PROVE  CopiesInv'
<1>1. Free.pc = "idle" /\ Free.raw = NoRaw /\ Free.copy = NoBill
    BY DEF Free
<1>2. Owed(Free) /\ Carries(Free.copy)
    BY <1>1 DEF Owed, Carries
<1> QED BY <1>1, <1>2, WorkerMoves

(* Rows, workers and screens stay.                                           *)
LEMMA BotCopies ==
    ASSUME CopiesInv, bot'.raw \in Readings \cup {NoRaw}, UNCHANGED <<bills, workers, screens>>
    PROVE  CopiesInv'
BY DEF CopiesInv, Carries, Owed, OneCommits, At

LEMMA BotStepCopies ==
    ASSUME IInv, CopiesInv, BotStep \/ \E d \in Docs : Receive(d)
    PROVE  CopiesInv'
<1>0. bot.raw \in Readings \cup {NoRaw}
    BY DEF CopiesInv
<1>1. ASSUME NEW d \in Docs, Receive(d) PROVE CopiesInv'
    <2>1. bot'.raw \in Readings \cup {NoRaw}
        BY <1>0, <1>1 DEF Receive, Asleep
    <2> QED BY <1>1, <2>1, BotCopies DEF Receive
<1>2. ASSUME NEW s \in Slots, Post(s) PROVE CopiesInv'
    <2> DEFINE w == [Free EXCEPT !.pc = "lookup", !.doc = bot.doc, !.raw = bot.raw, !.awaited = TRUE]
    <2>1. w.raw = bot.raw /\ w.copy = NoBill /\ w.pc = "lookup"
        BY DEF Free
    <2>2. workers' = [workers EXCEPT ![s] = w] /\ bot' = [bot EXCEPT !.pc = "wait"]
        BY <1>2 DEF Post
    <2>3. bot'.raw = bot.raw
        BY <2>2 DEF IInv, TypeOK
    <2> HIDE DEF w
    <2>4. Owed(w) /\ Carries(w.copy)
        BY <2>1 DEF Owed, Carries
    <2> QED BY <1>0, <1>2, <2>1, <2>2, <2>3, <2>4, WorkerMoves DEF Post
<1>3. CASE Timeout
    <2>1. bot'.raw \in Readings \cup {NoRaw}
        BY <1>0, <1>3, BotRaw DEF Timeout
    <2>2. ASSUME NEW s \in Slots
          PROVE  /\ workers'[s].raw = workers[s].raw /\ workers'[s].copy = workers[s].copy
                 /\ workers'[s].next = workers[s].next /\ workers'[s].pc = workers[s].pc
                 /\ workers'[s].doc = workers[s].doc
        <3>1. workers'[s] = [workers[s] EXCEPT !.awaited = FALSE] /\ workers[s] \in Request
            BY <1>3 DEF Timeout, IInv, TypeOK
        <3> QED BY <3>1 DEF Request
    <2>3. \A s \in Slots : Owed(workers[s])'
        BY <1>3, <2>2 DEF CopiesInv, Owed, Timeout
    <2>4. OneCommits'
        BY <2>2 DEF CopiesInv, OneCommits, At
    <2> QED BY <1>3, <2>1, <2>2, <2>3, <2>4 DEF CopiesInv, Carries, Timeout
<1>4. CASE Unreachable
    BY <1>0, <1>4, BotRaw, BotCopies DEF Unreachable
<1>5. CASE OcrFails
    BY <1>0, <1>5, BotRaw, BotCopies DEF OcrFails
<1>6. ASSUME NEW r \in Readings, Ocr(r) PROVE CopiesInv'
    <2>1. bot'.raw = r
        BY <1>6 DEF Ocr, IInv, TypeOK
    <2> QED BY <1>6, <2>1, BotCopies DEF Ocr
<1> QED BY <1>1, <1>2, <1>3, <1>4, <1>5, <1>6 DEF BotStep

LEMMA WriteCopies ==
    ASSUME Unread \notin Readings, IInv, CopiesInv, NEW s \in Slots, Write(s)
    PROVE  CopiesInv'
<1> DEFINE w == workers[s]
           base == IF w.copy # NoBill THEN w.copy ELSE NewBill
           next == Digest(w.doc, base, w.raw)
           v == [w EXCEPT !.pc = "commit", !.next = next]
<1>0. w \in Request /\ w.doc \in Docs /\ w.raw \in Readings \cup {NoRaw}
    BY DEF IInv, TypeOK, Request, CopiesInv
<1>1. base \in Bill /\ (w.copy # NoBill => base = w.copy /\ base.raw \in Reading)
    BY <1>0, NewBillType DEF Request, CopiesInv, Carries
<1>2. /\ next.raw \in Reading /\ next.paid = base.paid /\ next.deleted = base.deleted
      /\ base.raw \in Reading /\ IsRead(base) => IsRead(next)
    BY <1>0, <1>1, DigestOwes
<1>3. workers' = [workers EXCEPT ![s] = v]
    BY DEF Write, IInv, TypeOK
<1> HIDE DEF next, base
<1>4. v.copy = w.copy /\ v.next = next /\ v.pc = "commit" /\ v.raw = w.raw /\ v.doc = w.doc
    BY <1>0 DEF Request
<1> HIDE DEF v
<1>5. w.copy # NoBill \/ bills[w.doc] = NoBill
    BY DEF Write
<1>6. Owed(v)
    BY <1>1, <1>2, <1>4, <1>5 DEF Owed, CopiesInv
<1>7. \A t \in Slots : ~(At(t, "commit") /\ workers[t].doc = w.doc)
    BY DEF Write, RowFree
<1>8. Carries(w.copy) /\ (w.copy # NoBill => ~w.copy.deleted) /\ bot'.raw \in Readings \cup {NoRaw}
    BY DEF CopiesInv, Write
<1>9. UNCHANGED <<bills, screens>>
    BY DEF Write
<1> QED BY <1>0, <1>2, <1>3, <1>4, <1>6, <1>7, <1>8, <1>9, WorkerMoves

(* A row changes: whoever is about to commit it is the one that does.        *)
LEMMA RowsCopied ==
    ASSUME IInv, CopiesInv, NEW d \in Docs, NEW row \in Bill, row.raw \in Reading,
           bills' = [bills EXCEPT ![d] = row], bot' = bot,
           \A t \in Slots : workers'[t] # workers[t] =>
               /\ workers'[t].pc # "commit" /\ workers'[t].raw \in Readings \cup {NoRaw}
               /\ workers'[t].copy = NoBill
               /\ workers'[t].pc = "publish" => workers'[t].next.raw \in Reading,
           \A t \in Slots : workers'[t].pc = "commit" => workers[t].doc # d,
           \A o \in Operators : screens'[o].op # "none" => screens'[o].copy.raw \in Reading
    PROVE  CopiesInv'
<1>1. ASSUME NEW e \in Docs PROVE Carries(bills'[e])
    BY DEF IInv, TypeOK, CopiesInv, Carries
<1>2. ASSUME NEW t \in Slots
      PROVE  /\ workers'[t].raw \in Readings \cup {NoRaw}
             /\ Carries(workers'[t].copy) /\ (workers'[t].copy # NoBill => ~workers'[t].copy.deleted)
             /\ workers'[t].pc \in {"commit", "publish"} => workers'[t].next.raw \in Reading
    BY DEF CopiesInv, Carries
<1>3. ASSUME NEW t \in Slots, workers'[t].pc = "commit"
      PROVE  workers'[t] = workers[t] /\ bills'[workers[t].doc] = bills[workers[t].doc]
    BY <1>3 DEF IInv, TypeOK, Request
<1>4. ASSUME NEW t \in Slots PROVE Owed(workers[t])'
    <2>1. CASE workers'[t].pc = "commit"
        <3>1. workers'[t] = workers[t] /\ bills'[workers[t].doc] = bills[workers[t].doc]
            BY <1>3, <2>1
        <3> QED BY <2>1, <3>1 DEF CopiesInv, Owed
    <2>2. CASE workers'[t].pc # "commit"
        BY <2>2 DEF Owed
    <2> QED BY <2>1, <2>2
<1>5. OneCommits'
    BY <1>3 DEF CopiesInv, OneCommits, At
<1> QED BY <1>1, <1>2, <1>4, <1>5 DEF CopiesInv, Carries

LEMMA CommitCopies ==
    ASSUME IInv, CopiesInv, NEW s \in Slots, Commit(s)
    PROVE  CopiesInv'
<1> DEFINE w == workers[s]
           v == [Free EXCEPT !.pc = "publish", !.doc = w.doc, !.next = w.next, !.awaited = w.awaited]
<1>0. w.pc = "commit" /\ w.doc \in Docs /\ w.next \in Bill /\ w.next.raw \in Reading
    BY DEF Commit, At, IInv, TypeOK, CopiesInv, Request
<1>1. bills' = [bills EXCEPT ![w.doc] = w.next] /\ workers' = [workers EXCEPT ![s] = v]
      /\ bot' = bot /\ screens' = screens
    BY DEF Commit
<1>2. v.copy = NoBill /\ v.raw = NoRaw /\ v.next = w.next /\ v.pc = "publish"
    BY DEF Free
<1> HIDE DEF v
<1>3. \A t \in Slots : workers'[t] = IF t = s THEN v ELSE workers[t]
    BY <1>1 DEF IInv, TypeOK
<1>4. ASSUME NEW t \in Slots, workers'[t].pc = "commit" PROVE workers[t].doc # w.doc
    BY <1>0, <1>2, <1>3, <1>4 DEF CopiesInv, OneCommits, At
<1>5. \A o \in Operators : screens'[o].op # "none" => screens'[o].copy.raw \in Reading
    BY <1>1 DEF CopiesInv
<1>6. ASSUME NEW t \in Slots, workers'[t] # workers[t]
      PROVE  /\ workers'[t].pc # "commit" /\ workers'[t].raw \in Readings \cup {NoRaw}
             /\ workers'[t].copy = NoBill
             /\ workers'[t].pc = "publish" => workers'[t].next.raw \in Reading
    BY <1>0, <1>2, <1>3, <1>6
<1> QED BY <1>0, <1>1, <1>4, <1>5, <1>6, RowsCopied

LEMMA WorkerCopies ==
    ASSUME Unread \notin Readings, IInv, CopiesInv, NEW s \in Slots, WorkerStep(s) \/ Fail(s)
    PROVE  CopiesInv'
<1>0. bot.raw \in Readings \cup {NoRaw}
    BY DEF CopiesInv
<1>1. ASSUME NEW code \in {"created", "conflict", "rejected", "error"}, NEW status, Answer(s, code, status),
             UNCHANGED <<bills, screens>>
      PROVE  CopiesInv'
    <2>1. bot'.raw \in Readings \cup {NoRaw}
        BY <1>0, <1>1, BotRaw DEF Answer
    <2> QED BY <1>1, <2>1, FreeMoves DEF Answer
<1>2. CASE Refuse(s)
    BY <1>1, <1>2 DEF Refuse
<1>3. CASE Clash(s)
    BY <1>1, <1>3 DEF Clash
<1>4. CASE Reply(s)
    BY <1>1, <1>4 DEF Reply
<1>5. CASE Fail(s)
    BY <1>1, <1>5 DEF Fail
<1>6. CASE Lookup(s)
    <2> DEFINE bill == bills[workers[s].doc]
               copy == IF bill.deleted THEN NoBill ELSE bill
               w == [workers[s] EXCEPT !.pc = "write", !.copy = copy]
    <2>1. workers[s] \in Request /\ workers' = [workers EXCEPT ![s] = w]
        BY <1>6 DEF Lookup, IInv, TypeOK
    <2>2. Carries(copy) /\ (copy # NoBill => ~copy.deleted)
        BY <2>1 DEF CopiesInv, Carries, Request
    <2> HIDE DEF copy, bill
    <2>3. w.copy = copy /\ w.pc = "write" /\ w.raw = workers[s].raw
        BY <2>1 DEF Request
    <2> HIDE DEF w
    <2>4. Owed(w) /\ w.raw \in Readings \cup {NoRaw}
        BY <2>3 DEF Owed, CopiesInv
    <2> QED BY <1>0, <1>6, <2>1, <2>2, <2>3, <2>4, WorkerMoves DEF Lookup
<1> QED BY <1>2, <1>3, <1>4, <1>5, <1>6, WriteCopies, CommitCopies DEF WorkerStep

(* What an operator saves, and what it owes to the row or to the copy.       *)
LEMMA OperatorWrites ==
    ASSUME IInv, CopiesInv, NEW o \in Operators, OperatorStep(o), bills' # bills
    PROVE  \E row \in Bill :
              LET d == screens[o].doc
              IN /\ bills' = [bills EXCEPT ![d] = row] /\ RowFree(d)
                 /\ screens' = [screens EXCEPT ![o] = Away] /\ bot' = bot /\ workers' = workers
                 /\ row.raw \in Reading
                 /\ \/ /\ screens[o].op = "correct" /\ screens[o].copy \in Bill
                       /\ row.raw = screens[o].copy.raw /\ row.paid = screens[o].copy.paid
                       /\ row.deleted = screens[o].copy.deleted
                    \/ /\ screens[o].op \in {"pay", "unpay"}
                       /\ row.raw = bills[d].raw /\ row.deleted = bills[d].deleted
                    \/ /\ row.raw = bills[d].raw /\ row.paid = bills[d].paid /\ row.deleted
<1> DEFINE d == screens[o].doc
           now == bills[d]
<1>1. ASSUME screens[o].op # "none"
      PROVE  now \in Bill /\ now.raw \in Reading /\ screens[o].copy \in Bill /\ screens[o].copy.raw \in Reading
    BY <1>1 DEF IInv, TypeOK, Sound, CopiesInv, Carries
<1>2. ASSUME NEW op, NEW row, Save(o, op, row), op # "none"
      PROVE  /\ screens[o].op = op /\ screens[o].op # "none" /\ bills' = [bills EXCEPT ![d] = row] /\ RowFree(d)
             /\ screens' = [screens EXCEPT ![o] = Away] /\ bot' = bot /\ workers' = workers
    BY <1>2 DEF Save
<1>3. ASSUME NEW seller \in Sellers, Correct(o, seller)
      PROVE  \E row \in Bill :
                /\ screens[o].op = "correct" /\ Save(o, "correct", row)
                /\ row.raw = screens[o].copy.raw /\ row.paid = screens[o].copy.paid
                /\ row.deleted = screens[o].copy.deleted
    <2> DEFINE row == [screens[o].copy EXCEPT !.seller = seller, !.status = "processed", !.reviewed = TRUE]
    <2>1. screens[o].op = "correct" /\ Save(o, "correct", row)
        BY <1>3 DEF Correct, Save
    <2>2. row \in Bill /\ row.raw = screens[o].copy.raw /\ row.paid = screens[o].copy.paid
          /\ row.deleted = screens[o].copy.deleted
        BY <1>1, <2>1 DEF Bill
    <2> HIDE DEF row
    <2> QED BY <2>1, <2>2
<1>4. ASSUME NEW flag \in BOOLEAN, NEW op \in {"pay", "unpay"}, Save(o, op, [now EXCEPT !.paid = flag])
      PROVE  \E row \in Bill :
                /\ screens[o].op \in {"pay", "unpay"} /\ Save(o, op, row)
                /\ row.raw = now.raw /\ row.deleted = now.deleted
    <2> DEFINE row == [now EXCEPT !.paid = flag]
    <2>1. screens[o].op = op
        BY <1>4 DEF Save
    <2>2. row \in Bill /\ row.raw = now.raw /\ row.deleted = now.deleted
        BY <1>1, <2>1 DEF Bill
    <2> QED BY <1>4, <2>1, <2>2
<1>5. ASSUME DeleteBill(o)
      PROVE  \E row \in Bill :
                /\ Save(o, "delete", row) /\ row.raw = now.raw /\ row.paid = now.paid /\ row.deleted
    <2> DEFINE row == [now EXCEPT !.deleted = TRUE]
    <2>1. screens[o].op = "delete" /\ Save(o, "delete", row)
        BY <1>5 DEF DeleteBill, Save
    <2>2. row \in Bill /\ row.raw = now.raw /\ row.paid = now.paid /\ row.deleted
        BY <1>1, <2>1 DEF Bill
    <2> HIDE DEF row
    <2> QED BY <2>1, <2>2
<1>6. CASE \E seller \in Sellers : Correct(o, seller)
    <2>1. PICK row \in Bill : /\ screens[o].op = "correct" /\ Save(o, "correct", row)
                              /\ row.raw = screens[o].copy.raw /\ row.paid = screens[o].copy.paid
                              /\ row.deleted = screens[o].copy.deleted
        BY <1>3, <1>6
    <2>2. screens[o].copy \in Bill /\ row.raw \in Reading
        BY <1>1, <2>1
    <2> QED BY <1>2, <2>1, <2>2
<1>7. CASE MarkPaid(o) \/ UnmarkPaid(o)
    <2>1. PICK op \in {"pay", "unpay"} : \E flag \in BOOLEAN : Save(o, op, [now EXCEPT !.paid = flag])
        BY <1>7 DEF MarkPaid, UnmarkPaid
    <2>2. PICK row \in Bill : /\ screens[o].op \in {"pay", "unpay"} /\ Save(o, op, row)
                              /\ row.raw = now.raw /\ row.deleted = now.deleted
        BY <1>4, <2>1
    <2>3. row.raw \in Reading
        BY <1>1, <2>2
    <2> QED BY <1>2, <2>2, <2>3
<1>8. CASE DeleteBill(o)
    <2>1. PICK row \in Bill : Save(o, "delete", row) /\ row.raw = now.raw /\ row.paid = now.paid /\ row.deleted
        BY <1>5, <1>8
    <2>2. row.raw \in Reading
        BY <1>1, <1>2, <2>1
    <2> QED BY <1>2, <2>1, <2>2
<1>9. ~Refused(o) /\ ~(\E op \in {"correct", "pay", "unpay", "delete"}, e \in Docs : Open(o, op, e))
    BY DEF Refused, Open
<1> QED BY <1>6, <1>7, <1>8, <1>9 DEF OperatorStep

LEMMA OperatorCopies ==
    ASSUME IInv, CopiesInv, NEW o \in Operators, OperatorStep(o)
    PROVE  CopiesInv'
<1>0. Away.op = "none" /\ screens \in [Operators -> [op : {"none", "correct", "pay", "unpay", "delete"},
                                                    doc : Docs, copy : Bill \cup {NoBill}]]
    BY DEF Away, IInv, TypeOK
<1>1. CASE bills' # bills
    <2> DEFINE d == screens[o].doc
    <2>1. PICK row \in Bill : /\ bills' = [bills EXCEPT ![d] = row] /\ RowFree(d)
                              /\ screens' = [screens EXCEPT ![o] = Away] /\ bot' = bot /\ workers' = workers
                              /\ row.raw \in Reading
        BY <1>1, OperatorWrites
    <2>2. d \in Docs
        BY <1>0
    <2>3. ASSUME NEW t \in Slots, workers'[t].pc = "commit" PROVE workers[t].doc # d
        BY <2>1, <2>3 DEF RowFree, At
    <2>4. ASSUME NEW q \in Operators, screens'[q].op # "none" PROVE screens'[q].copy.raw \in Reading
        BY <1>0, <2>1, <2>4 DEF CopiesInv
    <2> QED BY <2>1, <2>2, <2>3, <2>4, RowsCopied
<1>2. CASE bills' = bills
    <2>1. workers' = workers /\ bot' = bot
        BY DEF OperatorStep, Open, Correct, MarkPaid, UnmarkPaid, DeleteBill, Save, Refused
    <2>2. ASSUME NEW q \in Operators, screens'[q].op # "none" PROVE screens'[q].copy.raw \in Reading
        <3>1. CASE screens' = [screens EXCEPT ![o] = Away]
            BY <1>0, <2>2, <3>1 DEF CopiesInv
        <3>2. ASSUME NEW op, NEW d \in Docs, Open(o, op, d) PROVE screens'[q].copy.raw \in Reading
            <4>1. bills[d] # NoBill /\ bills[d].raw \in Reading
                BY <3>2 DEF Open, NoBill, CopiesInv, Carries
            <4>2. screens' = [screens EXCEPT ![o] = [op |-> op, doc |-> d, copy |-> bills[d]]]
                BY <3>2 DEF Open
            <4> QED BY <1>0, <2>2, <4>1, <4>2 DEF CopiesInv
        <3> QED BY <3>1, <3>2 DEF OperatorStep, Correct, MarkPaid, UnmarkPaid, DeleteBill, Save, Refused
    <2>3. (\A s \in Slots : Owed(workers[s]))' /\ OneCommits'
        BY <1>2, <2>1 DEF CopiesInv, Owed, OneCommits, At
    <2> QED BY <1>2, <2>1, <2>2, <2>3 DEF CopiesInv, Carries
<1> QED BY <1>1, <1>2

LEMMA NextCopies ==
    ASSUME Unread \notin Readings
    PROVE  IInv /\ CopiesInv /\ [Next]_vars => CopiesInv'
<1> SUFFICES ASSUME IInv, CopiesInv, [Next]_vars PROVE CopiesInv'
    OBVIOUS
<1>1. CASE UNCHANGED vars \/ SetUpCompany
    <2>1. UNCHANGED <<bills, bot, workers, screens>>
        BY <1>1 DEF vars, SetUpCompany
    <2> QED BY <2>1, BotCopies DEF CopiesInv
<1> QED BY <1>1, BotStepCopies, WorkerCopies, OperatorCopies DEF Next

(* The steps that overwrite a row.                                           *)
LEMMA CommitLoses ==
    ASSUME IInv, CopiesInv, NEW s \in Slots, Commit(s), NEW d \in Docs, bills[d] # NoBill, bills'[d] # bills[d]
    PROVE  \E c \in Copies(d) \ {NoBill} :
              /\ bills'[d].paid = c.paid /\ bills'[d].deleted = c.deleted /\ ~c.deleted
              /\ IsRead(c) => IsRead(bills'[d])
<1> DEFINE w == workers[s]
<1>1. w.pc = "commit" /\ d = w.doc /\ bills'[d] = w.next
    BY DEF Commit, At, IInv, TypeOK
<1>2. w.copy # NoBill
    BY <1>1 DEF CopiesInv, Owed
<1>3. w.copy \in Copies(d) \ {NoBill}
    BY <1>1, <1>2 DEF Copies
<1>4. /\ w.next.paid = w.copy.paid /\ w.next.deleted = w.copy.deleted /\ ~w.copy.deleted
      /\ IsRead(w.copy) => IsRead(w.next)
    BY <1>1, <1>2 DEF CopiesInv, Owed
<1> QED BY <1>1, <1>3, <1>4

(* A row that somebody saves meanwhile is overwritten only from a copy taken *)
(* before: no post takes a reading from a bill but one whose copy had none,  *)
(* payments change at an operator's hand or with an old copy, and deleted    *)
(* bills come back only with one.  OCR answers are never the placeholder: an *)
(* unnamed vendor is "Unknown Vendor" (telegram-bot/main.py:447).            *)
THEOREM OnlyOldCopiesLose ==
    ASSUME Unread \notin Readings
    PROVE  Spec => LostOnlyToOldCopies
<1> DEFINE Loses(d) ==
              LET old == Copies(d) \ {NoBill}
              IN /\ IsRead(bills[d]) /\ ~IsRead(bills'[d]) => \E c \in old : ~IsRead(c)
                 /\ bills'[d].paid # bills[d].paid => Settles(d) \/ \E c \in old : c.paid = bills'[d].paid
                 /\ bills[d].deleted /\ ~bills'[d].deleted => \E c \in old : ~c.deleted
           Kept == \A d \in Docs : bills[d] # NoBill => Loses(d)
<1>1. IInv /\ CopiesInv /\ [Next]_vars => [Kept]_vars
    <2> SUFFICES ASSUME IInv, CopiesInv, [Next]_vars, NEW d \in Docs, bills[d] # NoBill PROVE Loses(d)
        OBVIOUS
    <2>1. CASE bills'[d] = bills[d]
        BY <2>1
    <2>2. CASE bills'[d] # bills[d]
        <3>1. ASSUME NEW s \in Slots, Commit(s) PROVE Loses(d)
            BY <2>2, <3>1, CommitLoses
        <3>2. ASSUME NEW o \in Operators, OperatorStep(o) PROVE Loses(d)
            <4> DEFINE e == screens[o].doc
            <4>1. PICK row \in Bill :
                     /\ bills' = [bills EXCEPT ![e] = row] /\ screens' = [screens EXCEPT ![o] = Away]
                     /\ \/ /\ screens[o].op = "correct" /\ screens[o].copy \in Bill
                           /\ row.raw = screens[o].copy.raw /\ row.paid = screens[o].copy.paid
                           /\ row.deleted = screens[o].copy.deleted
                        \/ /\ screens[o].op \in {"pay", "unpay"}
                           /\ row.raw = bills[e].raw /\ row.deleted = bills[e].deleted
                        \/ /\ row.raw = bills[e].raw /\ row.paid = bills[e].paid /\ row.deleted
                BY <2>2, <3>2, OperatorWrites
            <4>2. d = e /\ bills'[d] = row
                BY <2>2, <4>1 DEF IInv, TypeOK
            <4>3. CASE /\ screens[o].op = "correct" /\ screens[o].copy \in Bill
                       /\ row.raw = screens[o].copy.raw /\ row.paid = screens[o].copy.paid
                       /\ row.deleted = screens[o].copy.deleted
                <5>1. screens[o].copy \in Copies(d) \ {NoBill}
                    BY <4>2, <4>3, NoBillIsNoRow DEF Copies
                <5> QED BY <4>2, <4>3, <5>1 DEF IsRead
            <4>4. CASE /\ screens[o].op \in {"pay", "unpay"}
                       /\ row.raw = bills[e].raw /\ row.deleted = bills[e].deleted
                <5>1. screens'[o] = Away
                    BY <4>1 DEF IInv, TypeOK
                <5>2. Settles(d)
                    BY <4>2, <4>4, <5>1 DEF Settles
                <5> QED BY <4>2, <4>4, <5>2 DEF IsRead
            <4>5. CASE row.raw = bills[e].raw /\ row.paid = bills[e].paid /\ row.deleted
                BY <4>2, <4>5 DEF IsRead
            <4> QED BY <4>1, <4>3, <4>4, <4>5
        <3>3. ASSUME NEW s \in Slots, WorkerStep(s) \/ Fail(s), ~Commit(s) PROVE FALSE
            BY <2>2, <3>3 DEF WorkerStep, Lookup, Refuse, Write, Clash, Reply, Fail
        <3>4. ~(BotStep \/ SetUpCompany \/ UNCHANGED vars \/ \E c \in Docs : Receive(c))
            BY <2>2 DEF BotStep, Post, Unreachable, Timeout, OcrFails, Ocr, Receive, SetUpCompany, vars
        <3> QED BY <3>1, <3>2, <3>3, <3>4 DEF Next
    <2> QED BY <2>1, <2>2
<1> HIDE DEF Kept
<1>2. Spec => [][Kept]_vars
    BY <1>1, InitInv, NextInv, InitCopies, NextCopies, PTL DEF Spec
<1> QED BY <1>2 DEF LostOnlyToOldCopies, Kept
=============================================================================
