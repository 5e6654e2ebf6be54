--------------------------- MODULE InvoiceRegister ---------------------------
(***************************************************************************)
(* The bill register of modules/finance for one tenant and financial year: *)
(* requests that generate, import, correct, cancel, delete and mark        *)
(* invoices, the shared number sequence, the stored documents, and the     *)
(* period locks consulted before a write.                                  *)
(*                                                                         *)
(* Every request is a process.  A transaction keeps its writes to itself   *)
(* until Commit; what others notice before that are its locks (counter     *)
(* row, unique key, invoice row, file row) and the bytes it puts on or     *)
(* removes from the storage provider, which no rollback brings back.       *)
(***************************************************************************)
EXTENDS Naturals, FiniteSets

CONSTANTS
    Requests,      \* request processes
    Months,        \* where an invoice date files a bill; stands for the printed
                   \* name as well, the other part of a document's path
    ImportNumbers, \* numbers printed on scans that may be imported
    MaxRequests,   \* bound: requests started and period locks turned, together
    MaxSuffix,     \* _MAX_DEDUPE_ATTEMPTS + 1
    FailPoints     \* program points at which a request may fail or be killed

Number == Nat \ {0}
ASSUME ImportAssumption == ImportNumbers \subseteq Number
ASSUME MonthAssumption  == Months # {}
ASSUME BoundAssumption  == MaxRequests \in Nat /\ MaxSuffix \in Number

Ops == {"generate", "import", "update", "cancel", "delete", "mark_sent", "mark_paid", "unmark_paid"}
PCs == {"idle", "guard", "reserve", "create", "header", "store", "reconcile",
        "unlink", "retire", "flag", "mark", "commit"}
ASSUME FailAssumption == FailPoints \subseteq PCs \ {"idle"}

Key    == [n : Number, month : Months, suffix : Number]    \* path of a document
NoKey  == [n |-> 0]
Row    == [source : {"generated", "imported"}, status : {"issued", "cancelled"},
           deleted : BOOLEAN, sent : BOOLEAN, paid : BOOLEAN, month : Months,
           figures : Nat, lines : SUBSET Nat, raised : Nat, file : Key]
NoRow  == [file |-> NoKey]

VARIABLES
    counter,   \* InvoiceNumberSequence.last_number
    register,  \* the Invoice rows by sequence number, each with its lines; figures
               \* and lines carry the ticket of the request that wrote them
    files,     \* the StoredFile rows by key: "live", or "deleted" (softly)
    bytes,     \* the keys the storage provider holds bytes under
    locked,    \* months whose BusinessPeriod is locked
    requests,  \* [Requests -> what the process holds, uncommitted writes included]
    tickets    \* how many requests and locks there were

vars == <<counter, register, files, bytes, locked, requests, tickets>>

Idle == [pc |-> "idle", op |-> "generate", n |-> 0, month |-> CHOOSE m \in Months : TRUE,
         ticket |-> 0, copy |-> NoRow, removed |-> {}, file |-> NoKey, last |-> 0]

Init ==
    /\ counter = 0
    /\ register = [n \in {} |-> NoRow]
    /\ files = [k \in {} |-> "live"]
    /\ bytes = {}
    /\ locked = {}
    /\ requests = [p \in Requests |-> Idle]
    /\ tickets = 0

At(p, pc)   == requests[p].pc = pc
Does(p, op) == requests[p].op = op
Goto(p, pc) == requests' = [requests EXCEPT ![p].pc = pc]
Return(p)   == requests' = [requests EXCEPT ![p] = Idle]
Put(f, k, v) == [j \in DOMAIN f \cup {k} |-> IF j = k THEN v ELSE f[j]]
Larger(a, b) == IF a > b THEN a ELSE b

Ticket ==
    /\ tickets < MaxRequests
    /\ tickets' = tickets + 1

-----------------------------------------------------------------------------
(* What an open transaction keeps others from touching.                      *)

HoldsCounter(q) ==
    \/ Does(q, "generate") /\ requests[q].pc \in {"create", "store", "commit"}
    \/ Does(q, "import") /\ At(q, "commit")

HoldsNumber(q, n) ==
    /\ requests[q].op \in {"generate", "import"}
    /\ requests[q].n = n /\ requests[q].pc \in {"store", "reconcile", "commit"}

(* Variant: the header of a correction is saved last, after its lines.       *)
HoldsRowAtCommit(q, n) == requests[q].n = n /\ Does(q, "delete") /\ At(q, "commit")

HoldsRow(q, n) ==
    /\ requests[q].n = n
    /\ \/ Does(q, "update") /\ requests[q].pc \in {"store", "unlink", "retire", "commit"}
       \/ Does(q, "delete") /\ At(q, "commit")

HoldsFile(q, k) ==
    /\ requests[q].copy.file = k
    /\ requests[q].op \in {"update", "delete"} /\ requests[q].pc \in {"flag", "commit"}

WaitsFor(p, q) ==
    /\ p # q
    /\ \/ requests[p].pc \in {"reserve", "reconcile"} /\ HoldsCounter(q)
       \/ At(p, "create") /\ HoldsNumber(q, requests[p].n)
       \/ requests[p].pc \in {"header", "flag", "mark"} /\ HoldsRow(q, requests[p].n)
       \/ At(p, "retire") /\ HoldsFile(q, requests[p].copy.file)

Runs(p, pc) == At(p, pc) /\ \A q \in Requests : ~WaitsFor(p, q)

-----------------------------------------------------------------------------
(* Requests start.  generate checks the period before its transaction.       *)
StartGenerate(p, m) ==
    /\ At(p, "idle") /\ m \notin locked
    /\ Ticket
    /\ requests' = [requests EXCEPT ![p] =
          [Idle EXCEPT !.pc = "reserve", !.month = m, !.ticket = tickets']]
    /\ UNCHANGED <<counter, register, files, bytes, locked>>

(* import_historical: no period check; the clash is looked up beforehand.    *)
StartImport(p, n, m) ==
    /\ At(p, "idle") /\ n \notin DOMAIN register
    /\ Ticket
    /\ requests' = [requests EXCEPT ![p] =
          [Idle EXCEPT !.pc = "create", !.op = "import", !.n = n, !.month = m, !.ticket = tickets']]
    /\ UNCHANGED <<counter, register, files, bytes, locked>>

(* The other requests work on the copy get_object reads.                     *)
Fetch(p, op, n, m) ==
    /\ At(p, "idle") /\ ~register[n].deleted
    /\ Ticket
    /\ requests' = [requests EXCEPT ![p] =
          [Idle EXCEPT !.pc = "guard", !.op = op, !.n = n, !.copy = register[n],
                       !.month = m, !.ticket = tickets']]
    /\ UNCHANGED <<counter, register, files, bytes, locked>>

(* Variant: nobody asks whether the bill is cancelled.                       *)
LiveAlways(copy) == TRUE

Live(copy) == copy.status = "issued"

(* The guards, on the copy and on the periods as they are now.               *)
Allows(p) ==
    LET copy == requests[p].copy
        open == copy.month \notin locked
    IN /\ Live(copy)
       /\ CASE Does(p, "update")      -> open /\ requests[p].month \notin locked
            [] Does(p, "cancel")      -> open
            [] Does(p, "delete")      -> open /\ ~copy.paid /\ ~copy.sent
            [] Does(p, "mark_sent")   -> ~copy.sent
            [] Does(p, "mark_paid")   -> ~copy.paid
            [] Does(p, "unmark_paid") -> copy.paid

Guard(p) ==
    /\ At(p, "guard")
    /\ IF ~Allows(p) THEN Return(p)
       ELSE Goto(p, CASE Does(p, "update") -> "header"
                      [] Does(p, "delete") -> "unlink"
                      [] OTHER             -> "mark")
    /\ UNCHANGED <<counter, register, files, bytes, locked, tickets>>

-----------------------------------------------------------------------------
(* _highest_saved: soft-deleted rows count, uncommitted ones are not seen.   *)
HighestSaved ==
    IF DOMAIN register = {} THEN 0
    ELSE CHOOSE n \in DOMAIN register : \A j \in DOMAIN register : j <= n

(* Variant: reserve runs in a transaction of its own.                        *)
ReserveAtOnce(p) ==
    /\ Runs(p, "reserve")
    /\ LET last == Larger(counter, HighestSaved) + 1 IN
       /\ requests' = [requests EXCEPT ![p].pc = "create", ![p].n = last, ![p].last = last]
       /\ counter' = last
    /\ UNCHANGED <<register, files, bytes, locked, tickets>>

Reserve(p) ==
    /\ Runs(p, "reserve")
    /\ LET last == Larger(counter, HighestSaved) + 1 IN
       requests' = [requests EXCEPT ![p].pc = "create", ![p].n = last, ![p].last = last]
    /\ UNCHANGED <<counter, register, files, bytes, locked, tickets>>

(* Variant: no unique constraint on the number.                              *)
CreateUnchecked(p) ==
    /\ Runs(p, "create")
    /\ Goto(p, "store")
    /\ UNCHANGED <<counter, register, files, bytes, locked, tickets>>

(* Invoice.objects.create and its lines; a number taken by now is an         *)
(* IntegrityError, which rolls the transaction back.                         *)
Create(p) ==
    /\ Runs(p, "create")
    /\ IF requests[p].n \in DOMAIN register THEN Return(p) ELSE Goto(p, "store")
    /\ UNCHANGED <<counter, register, files, bytes, locked, tickets>>

(* update: invoice.save() takes the row, then the lines one can see go.      *)
SaveHeader(p) ==
    /\ Runs(p, "header")
    /\ requests' = [requests EXCEPT ![p].pc = "store", ![p].removed = register[requests[p].n].lines]
    /\ UNCHANGED <<counter, register, files, bytes, locked, tickets>>

(* Variant: suffixes start one too low.                                      *)
SuffixesFromZero == 0 .. MaxSuffix

Suffixes == 1 .. MaxSuffix

(* _dedupe_key: the first suffix no file has, soft-deleted files not looked  *)
(* at; there may be none.                                                    *)
DocumentKey(n, m, s) == [n |-> n, month |-> m, suffix |-> s]
FreeSuffixes(n, m) ==
    {s \in Suffixes : DocumentKey(n, m, s) \in DOMAIN files => files[DocumentKey(n, m, s)] # "live"}
DedupeKey(n, m) ==
    DocumentKey(n, m, CHOOSE s \in FreeSuffixes(n, m) : \A t \in FreeSuffixes(n, m) : s <= t)

(* _attach_documents: the bytes go to the provider before the row is         *)
(* created, which the unique key of StoredFile may refuse.                   *)
Store(p) ==
    LET n == requests[p].n
        m == requests[p].month
        key == DedupeKey(n, m)
    IN
    /\ Runs(p, "store")
    /\ IF FreeSuffixes(n, m) = {} THEN UNCHANGED bytes ELSE bytes' = bytes \cup {key}
    /\ IF FreeSuffixes(n, m) = {} \/ key \in DOMAIN files THEN Return(p)
       ELSE requests' = [requests EXCEPT ![p].file = key,
               ![p].pc = CASE Does(p, "generate") -> "commit"
                           [] Does(p, "import")   -> "reconcile"
                           [] Does(p, "update")   -> "unlink"]
    /\ UNCHANGED <<counter, register, files, locked, tickets>>

(* Variant: an import leaves the counter to the next reserve.                *)
ReconcileNot(p) ==
    /\ Runs(p, "reconcile")
    /\ requests' = [requests EXCEPT ![p].pc = "commit", ![p].last = counter]
    /\ UNCHANGED <<counter, register, files, bytes, locked, tickets>>

Reconcile(p) ==
    /\ Runs(p, "reconcile")
    /\ requests' = [requests EXCEPT ![p].pc = "commit", ![p].last = Larger(counter, requests[p].n)]
    /\ UNCHANGED <<counter, register, files, bytes, locked, tickets>>

(* Variant: update lists the superseded files after attaching the new ones.  *)
SupersededAfter(p) == IF Does(p, "update") THEN requests[p].file ELSE requests[p].copy.file

(* The files of the copy, whatever the row names by now.                     *)
Superseded(p) == requests[p].copy.file

(* StorageService.delete: first the bytes, at once, then the row.            *)
Unlink(p) ==
    /\ At(p, "unlink")
    /\ bytes' = bytes \ {Superseded(p)}
    /\ Goto(p, "retire")
    /\ UNCHANGED <<counter, register, files, locked, tickets>>

Retire(p) ==
    /\ Runs(p, "retire")
    /\ Goto(p, IF Does(p, "update") THEN "commit" ELSE "flag")
    /\ UNCHANGED <<counter, register, files, bytes, locked, tickets>>

(* delete: invoice.delete() is the last statement.                           *)
Flag(p) ==
    /\ Runs(p, "flag")
    /\ Goto(p, "commit")
    /\ UNCHANGED <<counter, register, files, bytes, locked, tickets>>

-----------------------------------------------------------------------------
(* The end of a transaction: its writes become visible at once.              *)
NewRow(p) ==
    LET r == requests[p] IN
    [source |-> IF Does(p, "import") THEN "imported" ELSE "generated", status |-> "issued",
     deleted |-> FALSE, sent |-> FALSE, paid |-> FALSE, month |-> r.month,
     figures |-> r.ticket, lines |-> {r.ticket}, raised |-> r.ticket, file |-> r.file]

CommitNew(p) ==
    /\ At(p, "commit") /\ requests[p].op \in {"generate", "import"}
    /\ counter' = requests[p].last
    /\ register' = Put(register, requests[p].n, NewRow(p))
    /\ files' = Put(files, requests[p].file, "live")
    /\ Return(p)
    /\ UNCHANGED <<bytes, locked, tickets>>

(* Every field is saved as the copy has it, is_deleted and status included.  *)
CommitUpdate(p) ==
    LET r == requests[p] IN
    /\ At(p, "commit") /\ Does(p, "update")
    /\ register' = [register EXCEPT ![r.n] =
          [r.copy EXCEPT !.month = r.month, !.figures = r.ticket, !.file = r.file,
                         !.lines = (register[r.n].lines \ r.removed) \cup {r.ticket}]]
    /\ files' = Put(Put(files, r.file, "live"), Superseded(p), "deleted")
    /\ Return(p)
    /\ UNCHANGED <<counter, bytes, locked, tickets>>

CommitDelete(p) ==
    LET r == requests[p] IN
    /\ At(p, "commit") /\ Does(p, "delete")
    /\ register' = [register EXCEPT ![r.n].deleted = TRUE]
    /\ files' = Put(files, Superseded(p), "deleted")
    /\ Return(p)
    /\ UNCHANGED <<counter, bytes, locked, tickets>>

(* cancel and the payment marks are one UPDATE of the fields they set.       *)
Mark(p) ==
    LET n == requests[p].n IN
    /\ Runs(p, "mark")
    /\ register' = CASE Does(p, "cancel")      -> [register EXCEPT ![n].status = "cancelled"]
                     [] Does(p, "mark_sent")   -> [register EXCEPT ![n].sent = TRUE]
                     [] Does(p, "mark_paid")   -> [register EXCEPT ![n].paid = TRUE]
                     [] Does(p, "unmark_paid") -> [register EXCEPT ![n].paid = FALSE]
    /\ Return(p)
    /\ UNCHANGED <<counter, files, bytes, locked, tickets>>

(* An exception or a kill: everything uncommitted is gone, bytes are not.    *)
Fail(p) ==
    /\ requests[p].pc \in FailPoints
    /\ Return(p)
    /\ UNCHANGED <<counter, register, files, bytes, locked, tickets>>

(* The database breaks a deadlock by rolling one side back.                  *)
DeadlockVictim(p) ==
    /\ \E q \in Requests : WaitsFor(p, q) /\ WaitsFor(q, p)
    /\ Return(p)
    /\ UNCHANGED <<counter, register, files, bytes, locked, tickets>>

(* PeriodService.lock and unlock                                             *)
LockPeriod(m) ==
    /\ m \notin locked
    /\ Ticket
    /\ locked' = locked \cup {m}
    /\ UNCHANGED <<counter, register, files, bytes, requests>>

UnlockPeriod(m) ==
    /\ m \in locked
    /\ Ticket
    /\ locked' = locked \ {m}
    /\ UNCHANGED <<counter, register, files, bytes, requests>>

-----------------------------------------------------------------------------
Start(p) ==
    \E m \in Months :
       \/ StartGenerate(p, m)
       \/ \E n \in ImportNumbers : StartImport(p, n, m)
       \/ \E n \in DOMAIN register : Fetch(p, "update", n, m)

Touch(p) ==
    \E n \in DOMAIN register, op \in {"cancel", "delete", "mark_sent", "mark_paid", "unmark_paid"} :
       Fetch(p, op, n, register[n].month)

Step(p) ==
    \/ Guard(p) \/ Reserve(p) \/ Create(p) \/ SaveHeader(p) \/ Store(p) \/ Reconcile(p)
    \/ Unlink(p) \/ Retire(p) \/ Flag(p) \/ Mark(p)
    \/ CommitNew(p) \/ CommitUpdate(p) \/ CommitDelete(p)
    \/ DeadlockVictim(p)

(* The bound is reached and everybody is done; any other standstill is a     *)
(* deadlock the database does not see.                                       *)
Rest ==
    /\ tickets = MaxRequests /\ \A p \in Requests : At(p, "idle")
    /\ UNCHANGED vars

Next ==
    \/ \E p \in Requests : Start(p) \/ Touch(p) \/ Step(p) \/ Fail(p)
    \/ \E m \in Months : LockPeriod(m) \/ UnlockPeriod(m)
    \/ Rest

Spec == Init /\ [][Next]_vars

-----------------------------------------------------------------------------
Request == [pc : PCs, op : Ops, n : Nat, month : Months, ticket : Nat, copy : Row \cup {NoRow},
            removed : SUBSET Nat, file : Key \cup {NoKey}, last : Nat]

(* Type invariant; every row names a file there is a row for.                *)
TypeOK ==
    /\ counter \in Nat /\ tickets \in 0 .. MaxRequests
    /\ DOMAIN register \subseteq Number /\ register \in [DOMAIN register -> Row]
    /\ DOMAIN files \subseteq Key /\ files \in [DOMAIN files -> {"live", "deleted"}]
    /\ bytes \subseteq Key
    /\ locked \subseteq Months
    /\ requests \in [Requests -> Request]
    /\ \A n \in DOMAIN register : register[n].file \in DOMAIN files

(* The counter is the highest number on the register, soft-deleted bills     *)
(* included, whatever rolled back: an import raises it the instant it        *)
(* commits (numbering.py:121-123), a failed reserve leaves nothing.          *)
CounterIsHighest == counter = HighestSaved

(* "never a gap" (numbering.py:3-4): below a generated number every request  *)
(* that failed or was rolled back left no hole; only an import may jump.     *)
NoGap ==
    \A n \in DOMAIN register : register[n].source = "generated" /\ n > 1 => n - 1 \in DOMAIN register

(* The number reserve hands to generate is still free when the bill is       *)
(* inserted, and as long as the transaction lasts: of the two, only an       *)
(* import is ever refused by the unique constraint.                          *)
ReservedStaysFree ==
    \A p \in Requests :
        Does(p, "generate") /\ requests[p].pc \in {"create", "store", "commit"}
            => requests[p].n \notin DOMAIN register

(* "never a repeat": a number on the register belongs for ever to the bill   *)
(* it was raised for, although import looks for a clash long before it       *)
(* inserts.                                                                  *)
NumberKept ==
    [][\A n \in DOMAIN register :
          n \in DOMAIN register' /\ register'[n].raised = register[n].raised]_vars

(* The lines of a bill are those its totals were computed from, however      *)
(* corrections of the same bill overlap.                                     *)
LinesMatchHeader == \A n \in DOMAIN register : register[n].lines = {register[n].figures}

(* Some correction or deletion of n has removed the bytes and is not over.   *)
Discarding(n) ==
    \E p \in Requests : /\ requests[p].n = n /\ requests[p].pc \in {"retire", "flag", "commit"}
                         /\ requests[p].copy.file = register[n].file

(* A bill on the register has its documents, cancelled or not, whichever     *)
(* requests overlapped, failed before discarding anything, or lost a         *)
(* deadlock.                                                                 *)
DocumentsKept ==
    \A n \in DOMAIN register :
        LET file == register[n].file IN
        ~register[n].deleted => (files[file] = "live" /\ file \in bytes) \/ Discarding(n)

(* Request p, which is for op, writes the bill n from the copy it read.       *)
Saves(p, n, op) == requests[p].n = n /\ Does(p, op) /\ requests'[p] # requests[p]

(* "Once a bill has been seen by the outside world it is cancelled, never    *)
(* removed" (invoice.py:417-418), and what was decided about a bill stands:  *)
(* a cancelled one changes, and a cancellation, deletion, dispatch or        *)
(* payment is taken back, only by a correction whose copy is older than the  *)
(* decision, a payment also by the request for that; and only a request that *)
(* read the bill unsent, unpaid and not cancelled deletes it.                *)
DecisionsKept ==
    [][\A n \in DOMAIN register :
          LET row  == register[n]
              next == register'[n]
          IN
          /\ row.status = "cancelled" /\ next # row =>
                \E p \in Requests, op \in Ops : Saves(p, n, op) /\ requests[p].copy.status = "issued"
          /\ row.status = "cancelled" /\ next.status # "cancelled" =>
                \E p \in Requests : Saves(p, n, "update") /\ requests[p].copy.status = "issued"
          /\ row.deleted /\ ~next.deleted =>
                \E p \in Requests : Saves(p, n, "update") /\ ~requests[p].copy.deleted
          /\ row.sent /\ ~next.sent =>
                \E p \in Requests : Saves(p, n, "update") /\ ~requests[p].copy.sent
          /\ row.paid /\ ~next.paid =>
                \E p \in Requests : \/ Saves(p, n, "update") /\ ~requests[p].copy.paid
                                    \/ Saves(p, n, "unmark_paid") /\ requests[p].copy.paid
          /\ ~row.deleted /\ next.deleted =>
                \E p \in Requests : /\ Saves(p, n, "delete") /\ requests[p].copy.status = "issued"
                                    /\ ~requests[p].copy.sent /\ ~requests[p].copy.paid]_vars

(* _dedupe_key: "must stay unique against StoredFile.key's DB constraint     *)
(* ... Append a numeric suffix before the extension on collision"            *)
(* (storage/services.py:41-43): the key it returns is one no file has.       *)
KeyIsFree ==
    \A p \in Requests :
        Runs(p, "store") /\ FreeSuffixes(requests[p].n, requests[p].month) # {}
            => DedupeKey(requests[p].n, requests[p].month) \notin DOMAIN files
=============================================================================
