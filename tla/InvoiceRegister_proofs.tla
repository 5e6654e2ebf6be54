----------------------- MODULE InvoiceRegister_proofs -----------------------
(***************************************************************************)
(* The number sequence of the register, for any number of requests, months *)
(* and importable numbers: the counter is the highest number, generated    *)
(* numbers leave no gap, and the number reserve hands out stays free until *)
(* its bill is inserted.  None of this is inductive alone: it rests on the *)
(* counter row's lock (one holder) and on what the holder has in memory,   *)
(* which RegisterInv adds to the type invariant TypeInv.  Then the bills   *)
(* themselves: what the guards saw (Guarded), the lines, which rest on the *)
(* row's lock (LinesInv), and the documents, which rest on their keys      *)
(* (FilesInv).                                                             *)
(***************************************************************************)
EXTENDS InvoiceRegister, NaturalsInduction, WellFoundedInduction, TLAPS

(* The program points of each kind of request.                               *)
Points(op) ==
    CASE op = "generate" -> {"idle", "reserve", "create", "store", "commit"}
      [] op = "import"   -> {"create", "store", "reconcile", "commit"}
      [] op = "update"   -> {"guard", "header", "store", "unlink", "retire", "commit"}
      [] op = "delete"   -> {"guard", "unlink", "retire", "flag", "commit"}
      [] OTHER           -> {"guard", "mark"}

(* What a request knows where it stands.                                     *)
Sound(r) ==
    /\ r.pc \in Points(r.op)
    /\ r.op \in {"generate", "import"} /\ r.pc \notin {"idle", "reserve"} => r.n \in Number
    /\ r.op \notin {"generate", "import"} => r.n \in DOMAIN register /\ r.copy \in Row
    /\ r.op # "delete" /\ r.pc \in {"reconcile", "unlink", "retire", "commit"} => r.file \in Key

TypeInv == TypeOK /\ \A p \in Requests : Sound(requests[p])

(* The counter is the largest number on the register.                        *)
Highest ==
    /\ \A n \in DOMAIN register : n <= counter
    /\ counter # 0 => counter \in DOMAIN register

-----------------------------------------------------------------------------
LEMMA IdleSound == Idle \in Request /\ Sound(Idle)
<1>1. (CHOOSE m \in Months : TRUE) \in Months
    BY MonthAssumption
<1>2. Idle \in Request
    BY <1>1 DEF Idle, Request, PCs, Ops
<1>3. Sound(Idle)
    BY DEF Idle, Sound, Points
<1> QED BY <1>2, <1>3

LEMMA InitType == Init => TypeInv
<1> SUFFICES ASSUME Init PROVE TypeInv
    OBVIOUS
<1>1. TypeOK
    BY IdleSound, BoundAssumption DEF Init, TypeOK
<1>2. ASSUME NEW p \in Requests PROVE Sound(requests[p])
    BY IdleSound DEF Init
<1> QED BY <1>1, <1>2 DEF TypeInv

Less == {pair \in Nat \X Nat : pair[1] < pair[2]}

LEMMA HasLeast ==
    ASSUME NEW S, S \subseteq Nat, S # {}
    PROVE  \E s \in S : \A t \in S : s <= t
<1>1. IsWellFoundedOn(Less, Nat)
    BY NatLessThanWellFounded DEF OpToRel, Less
<1>2. PICK s \in S : \A t \in S : ~(<<t, s>> \in Less)
    BY <1>1, WFMin
<1>3. ASSUME NEW t \in S PROVE s <= t
    <2>1. <<t, s>> \in Nat \X Nat /\ s \in Nat /\ t \in Nat
        OBVIOUS
    <2>2. ~(t < s)
        BY <1>2, <2>1 DEF Less
    <2> QED BY <2>1, <2>2
<1> QED BY <1>3

(* A set of suffixes that is not empty has a first one.                      *)
LEMMA FirstFree ==
    ASSUME NEW n \in Number, NEW m \in Months, FreeSuffixes(n, m) # {}
    PROVE  DedupeKey(n, m) \in Key
<1> DEFINE S == FreeSuffixes(n, m)
<1>1. S \subseteq Number /\ S # {}
    BY BoundAssumption DEF FreeSuffixes, Suffixes, Number
<1>2. S \subseteq Nat
    BY <1>1 DEF Number
<1> HIDE DEF S
<1>3. \E s \in S : \A t \in S : s <= t
    BY <1>1, <1>2, HasLeast
<1>4. (CHOOSE s \in S : \A t \in S : s <= t) \in Number
    BY <1>1, <1>3
<1> QED BY <1>4 DEF DedupeKey, DocumentKey, Key, S

(* A request moves and no row changes.                                       *)
LEMMA MoveType ==
    ASSUME TypeInv, NEW p \in Requests, NEW r \in Request, Sound(r),
           requests' = [requests EXCEPT ![p] = r],
           UNCHANGED <<counter, register, files>>,
           bytes' \subseteq Key, locked' = locked, tickets' \in 0 .. MaxRequests
    PROVE  TypeInv'
<1>1. ASSUME NEW q \in Requests PROVE requests'[q] \in Request /\ Sound(requests'[q])
    BY DEF TypeInv, TypeOK
<1>2. TypeOK'
    BY <1>1 DEF TypeInv, TypeOK
<1>3. ASSUME NEW q \in Requests PROVE Sound(requests[q])'
    BY <1>1 DEF Sound
<1> QED BY <1>2, <1>3 DEF TypeInv

LEMMA ReturnType ==
    ASSUME TypeInv, NEW p \in Requests, Return(p),
           UNCHANGED <<counter, register, files>>,
           bytes' \subseteq Key, locked' = locked, tickets' \in 0 .. MaxRequests
    PROVE  TypeInv'
BY IdleSound, MoveType DEF Return

LEMMA StartType ==
    ASSUME TypeInv, NEW p \in Requests, Start(p) \/ Touch(p)
    PROVE  TypeInv'
<1>0. Ticket
    BY DEF Start, Touch, StartGenerate, StartImport, Fetch
<1>1. tickets' \in 0 .. MaxRequests /\ tickets' \in Nat
    BY <1>0, BoundAssumption DEF TypeInv, TypeOK, Ticket
<1>2. ASSUME NEW m \in Months, StartGenerate(p, m) PROVE TypeInv'
    <2> DEFINE r == [Idle EXCEPT !.pc = "reserve", !.month = m, !.ticket = tickets']
    <2>1. r \in Request /\ Sound(r)
        BY <1>1, IdleSound DEF Request, Sound, Points, Idle, PCs, Ops
    <2>2. requests' = [requests EXCEPT ![p] = r] /\ bytes' \subseteq Key
        BY <1>2 DEF StartGenerate, TypeInv, TypeOK
    <2> QED BY <1>1, <1>2, <2>1, <2>2, MoveType DEF StartGenerate
<1>3. ASSUME NEW m \in Months, NEW n \in ImportNumbers, StartImport(p, n, m) PROVE TypeInv'
    <2> DEFINE r == [Idle EXCEPT !.pc = "create", !.op = "import", !.n = n, !.month = m, !.ticket = tickets']
    <2>1. r \in Request /\ Sound(r)
        BY <1>1, IdleSound, ImportAssumption DEF Request, Sound, Points, Idle, PCs, Ops, Number
    <2>2. requests' = [requests EXCEPT ![p] = r] /\ bytes' \subseteq Key
        BY <1>3 DEF StartImport, TypeInv, TypeOK
    <2> QED BY <1>1, <1>3, <2>1, <2>2, MoveType DEF StartImport
<1>4. ASSUME NEW m \in Months, NEW n \in DOMAIN register, NEW op \in Ops \ {"generate", "import"},
             Fetch(p, op, n, m)
      PROVE TypeInv'
    <2> DEFINE r == [Idle EXCEPT !.pc = "guard", !.op = op, !.n = n, !.copy = register[n],
                                 !.month = m, !.ticket = tickets']
    <2>0. n \in Nat /\ register[n] \in Row
        BY DEF TypeInv, TypeOK, Number
    <2>1. r \in Request /\ Sound(r)
        BY ZenonT(30), <1>1, <2>0, IdleSound DEF Request, Sound, Points, Idle, PCs, Ops
    <2>2. requests' = [requests EXCEPT ![p] = r] /\ bytes' \subseteq Key
        BY <1>4 DEF Fetch, TypeInv, TypeOK
    <2> QED BY <1>1, <1>4, <2>1, <2>2, MoveType DEF Fetch
<1>5. ASSUME NEW n \in DOMAIN register PROVE register[n].month \in Months
    BY DEF TypeInv, TypeOK, Row
<1> QED BY <1>2, <1>3, <1>4, <1>5 DEF Start, Touch, Ops

LEMMA HighestIsCounter ==
    ASSUME TypeInv, Highest
    PROVE  HighestSaved = counter
<1>1. counter \in Nat /\ DOMAIN register \subseteq Number
    BY DEF TypeInv, TypeOK
<1>2. CASE DOMAIN register = {}
    BY <1>1, <1>2 DEF Highest, HighestSaved
<1>3. CASE DOMAIN register # {}
    <2>1. PICK n \in DOMAIN register : TRUE
        BY <1>3
    <2>2. counter \in DOMAIN register
        BY <1>1, <2>1 DEF Highest, Number
    <2>3. \A j \in DOMAIN register : (\A i \in DOMAIN register : i <= j) => j = counter
        BY <1>1, <2>2 DEF Highest, Number
    <2> QED BY <1>1, <1>3, <2>2, <2>3 DEF Highest, HighestSaved
<1> QED BY <1>2, <1>3

LEMMA GotoType ==
    ASSUME TypeInv, NEW p \in Requests, NEW pc \in PCs,
           pc \in Points(requests[p].op), requests[p].pc # "reserve", requests[p].pc # "idle",
           pc \in {"reconcile", "unlink", "retire", "commit"} =>
               requests[p].op = "delete" \/ requests[p].pc \in {"reconcile", "unlink", "retire"},
           Goto(p, pc),
           UNCHANGED <<counter, register, files, locked, tickets>>, bytes' \subseteq Key
    PROVE  TypeInv'
<1> DEFINE r == requests[p]
<1>1. r \in Request /\ Sound(r) /\ tickets \in 0 .. MaxRequests
    BY DEF TypeInv, TypeOK
<1>2. [r EXCEPT !.pc = pc] \in Request
    BY <1>1 DEF Request
<1>3. Sound([r EXCEPT !.pc = pc])
    BY <1>1 DEF Request, Sound
<1>4. requests' = [requests EXCEPT ![p] = [r EXCEPT !.pc = pc]]
    BY DEF Goto
<1> HIDE DEF r
<1> QED BY <1>1, <1>2, <1>3, <1>4, MoveType

LEMMA GuardType ==
    ASSUME TypeInv, NEW p \in Requests, Guard(p)
    PROVE  TypeInv'
<1>1. /\ requests[p] \in Request /\ Sound(requests[p]) /\ bytes \subseteq Key
      /\ tickets \in 0 .. MaxRequests
    BY DEF TypeInv, TypeOK
<1>2. requests[p].pc = "guard" /\ requests[p].op \notin {"generate", "import"}
    BY <1>1 DEF Guard, Sound, Points, At
<1>3. CASE ~Allows(p)
    BY <1>1, <1>3, ReturnType DEF Guard
<1>4. CASE Allows(p) /\ Does(p, "update")
    BY <1>1, <1>2, <1>4, GotoType DEF Guard, Does, PCs, Points
<1>5. CASE Allows(p) /\ Does(p, "delete")
    BY <1>1, <1>2, <1>5, GotoType DEF Guard, Does, PCs, Points
<1>6. CASE Allows(p) /\ ~Does(p, "delete") /\ ~Does(p, "update")
    <2>1. Goto(p, "mark")
        BY <1>6 DEF Guard
    <2> QED BY <1>1, <1>2, <1>6, <2>1, GotoType DEF Guard, Does, PCs, Points
<1> QED BY <1>3, <1>4, <1>5, <1>6

(* The statements of the transaction that raises a bill.                     *)
LEMMA RaiseType ==
    ASSUME TypeInv, Highest, NEW p \in Requests,
           Reserve(p) \/ Create(p) \/ Reconcile(p)
    PROVE  TypeInv'
<1>1. /\ requests[p] \in Request /\ Sound(requests[p]) /\ bytes \subseteq Key
      /\ tickets \in 0 .. MaxRequests /\ counter \in Nat
    BY DEF TypeInv, TypeOK
<1>2. CASE Reserve(p)
    <2> DEFINE last == Larger(counter, HighestSaved) + 1
               r == [requests[p] EXCEPT !.pc = "create", !.n = last, !.last = last]
    <2>1. last \in Number /\ last \in Nat
        BY <1>1, HighestIsCounter DEF Larger, Number
    <2>2. requests[p].pc = "reserve" /\ requests[p].op = "generate"
        BY <1>1, <1>2 DEF Reserve, Runs, At, Sound, Points
    <2>3. requests' = [requests EXCEPT ![p] = r]
        BY <1>2 DEF Reserve
    <2> HIDE DEF last
    <2>4. r \in Request /\ Sound(r)
        BY <1>1, <2>1, <2>2 DEF Request, Sound, Points, PCs
    <2> HIDE DEF r
    <2> QED BY <1>1, <1>2, <2>3, <2>4, MoveType DEF Reserve
<1>3. CASE Create(p)
    <2>1. requests[p].pc = "create" /\ requests[p].op \in {"generate", "import"}
        BY <1>1, <1>3 DEF Create, Runs, At, Sound, Points
    <2>2. CASE requests[p].n \in DOMAIN register
        BY <1>1, <1>3, <2>2, ReturnType DEF Create
    <2>3. CASE requests[p].n \notin DOMAIN register
        BY <1>1, <1>3, <2>1, <2>3, GotoType DEF Create, PCs, Points
    <2> QED BY <2>2, <2>3
<1>4. CASE Reconcile(p)
    <2> DEFINE last == Larger(counter, requests[p].n)
               r == [requests[p] EXCEPT !.pc = "commit", !.last = last]
    <2>1. last \in Nat
        BY <1>1 DEF Larger, Request
    <2>2. requests[p].pc = "reconcile" /\ requests[p].op = "import"
        BY <1>1, <1>4 DEF Reconcile, Runs, At, Sound, Points
    <2>3. requests' = [requests EXCEPT ![p] = r]
        BY <1>4 DEF Reconcile
    <2> HIDE DEF last
    <2>4. r \in Request /\ Sound(r)
        BY <1>1, <2>1, <2>2 DEF Request, Sound, Points, PCs
    <2> HIDE DEF r
    <2> QED BY <1>1, <1>4, <2>3, <2>4, MoveType DEF Reconcile
<1> QED BY <1>2, <1>3, <1>4

LEMMA StoreType ==
    ASSUME TypeInv, NEW p \in Requests, Store(p)
    PROVE  TypeInv'
<1> DEFINE n == requests[p].n
           m == requests[p].month
           key == DedupeKey(n, m)
           to == CASE Does(p, "generate") -> "commit"
                   [] Does(p, "import")   -> "reconcile"
                   [] Does(p, "update")   -> "unlink"
           r == [requests[p] EXCEPT !.file = key, !.pc = to]
<1>1. /\ requests[p] \in Request /\ Sound(requests[p]) /\ bytes \subseteq Key
      /\ tickets \in 0 .. MaxRequests /\ DOMAIN register \subseteq Number
    BY DEF TypeInv, TypeOK
<1>2. requests[p].pc = "store" /\ requests[p].op \in {"generate", "import", "update"}
    BY <1>1 DEF Store, Runs, At, Sound, Points
<1>3. n \in Number /\ m \in Months
    BY <1>1, <1>2 DEF Sound, Request
<1>4. CASE FreeSuffixes(n, m) = {}
    BY <1>1, <1>4, ReturnType DEF Store
<1>5. CASE FreeSuffixes(n, m) # {}
    <2>1. key \in Key
        BY <1>3, <1>5, FirstFree
    <2>2. bytes' \subseteq Key
        BY <1>1, <1>5, <2>1 DEF Store
    <2>3. CASE key \in DOMAIN files
        BY <1>1, <1>5, <2>2, <2>3, ReturnType DEF Store
    <2>4. CASE key \notin DOMAIN files
        <3>1. requests' = [requests EXCEPT ![p] = r]
            BY <1>5, <2>4 DEF Store
        <3>2. to \in PCs /\ to \in Points(requests[p].op) /\ to # "idle"
            BY <1>2 DEF Does, Points, PCs
        <3> HIDE DEF to, key
        <3>3. r \in Request /\ Sound(r)
            BY <1>1, <1>2, <1>3, <2>1, <3>2 DEF Request, Sound
        <3> HIDE DEF r
        <3> QED BY <1>1, <2>2, <3>1, <3>3, MoveType DEF Store
    <2> QED BY <2>3, <2>4
<1> QED BY <1>4, <1>5

(* The statements of a correction or a deletion.                             *)
LEMMA ReviseType ==
    ASSUME TypeInv, NEW p \in Requests,
           SaveHeader(p) \/ Unlink(p) \/ Retire(p) \/ Flag(p)
    PROVE  TypeInv'
<1>1. /\ requests[p] \in Request /\ Sound(requests[p]) /\ bytes \subseteq Key
      /\ tickets \in 0 .. MaxRequests
    BY DEF TypeInv, TypeOK
<1>2. CASE SaveHeader(p)
    <2> DEFINE r == [requests[p] EXCEPT !.pc = "store", !.removed = register[requests[p].n].lines]
    <2>1. requests[p].pc = "header" /\ requests[p].op = "update"
        BY <1>1, <1>2 DEF SaveHeader, Runs, At, Sound, Points
    <2>2. register[requests[p].n].lines \in SUBSET Nat
        BY <1>1, <2>1 DEF Sound, TypeInv, TypeOK, Row
    <2>3. requests' = [requests EXCEPT ![p] = r]
        BY <1>2 DEF SaveHeader
    <2>4. r \in Request /\ Sound(r)
        BY <1>1, <2>1, <2>2 DEF Request, Sound, Points, PCs
    <2> HIDE DEF r
    <2> QED BY <1>1, <1>2, <2>3, <2>4, MoveType DEF SaveHeader
<1>3. CASE Unlink(p)
    <2>1. requests[p].pc = "unlink" /\ requests[p].op \in {"update", "delete"}
        BY <1>1, <1>3 DEF Unlink, At, Sound, Points
    <2> QED BY <1>1, <1>3, <2>1, GotoType DEF Unlink, PCs, Points
<1>4. CASE Retire(p)
    <2>1. requests[p].pc = "retire" /\ requests[p].op \in {"update", "delete"}
        BY <1>1, <1>4 DEF Retire, Runs, At, Sound, Points
    <2>2. CASE Does(p, "update")
        BY <1>1, <1>4, <2>1, <2>2, GotoType DEF Retire, PCs, Points, Does
    <2>3. CASE ~Does(p, "update")
        BY <1>1, <1>4, <2>1, <2>3, GotoType DEF Retire, PCs, Points, Does
    <2> QED BY <2>2, <2>3
<1>5. CASE Flag(p)
    <2>1. requests[p].pc = "flag" /\ requests[p].op = "delete"
        BY <1>1, <1>5 DEF Flag, Runs, At, Sound, Points
    <2> QED BY <1>1, <1>5, <2>1, GotoType DEF Flag, PCs, Points
<1> QED BY <1>2, <1>3, <1>4, <1>5

-----------------------------------------------------------------------------
(* A write of one row becomes visible, the request is over.                  *)
LEMMA WriteType ==
    ASSUME TypeInv, NEW p \in Requests, NEW n \in Number, NEW row \in Row,
           Return(p), counter' \in Nat, register' = Put(register, n, row),
           DOMAIN files \subseteq DOMAIN files', DOMAIN files' \subseteq Key,
           files' \in [DOMAIN files' -> {"live", "deleted"}],
           row.file \in DOMAIN files', UNCHANGED <<bytes, locked, tickets>>
    PROVE  TypeInv'
<1>1. DOMAIN register' = DOMAIN register \cup {n}
    BY DEF Put
<1>2. \A j \in DOMAIN register' : register'[j] = IF j = n THEN row ELSE register[j]
    BY DEF Put
<1>3. ASSUME NEW q \in Requests PROVE requests'[q] \in Request /\ Sound(requests'[q])
    BY IdleSound DEF TypeInv, TypeOK, Return
<1>4. ASSUME NEW q \in Requests PROVE Sound(requests[q])'
    BY <1>1, <1>3 DEF Sound
<1>5. DOMAIN register' \subseteq Number /\ register' \in [DOMAIN register' -> Row]
    BY <1>1 DEF TypeInv, TypeOK, Put
<1>6. requests' \in [Requests -> Request]
    BY IdleSound DEF TypeInv, TypeOK, Return
<1>7. ASSUME NEW j \in DOMAIN register' PROVE register'[j].file \in DOMAIN files'
    BY <1>1, <1>2 DEF TypeInv, TypeOK
<1>8. TypeOK'
    BY <1>5, <1>6, <1>7 DEF TypeInv, TypeOK
<1> QED BY <1>4, <1>8 DEF TypeInv

LEMMA ExceptIsPut ==
    ASSUME NEW f, NEW k \in DOMAIN f, NEW v, f = [j \in DOMAIN f |-> f[j]]
    PROVE  [f EXCEPT ![k] = v] = Put(f, k, v)
<1>1. DOMAIN f \cup {k} = DOMAIN f
    OBVIOUS
<1>2. [f EXCEPT ![k] = v] = [j \in DOMAIN f |-> IF j = k THEN v ELSE f[j]]
    OBVIOUS
<1> QED BY <1>1, <1>2 DEF Put

LEMMA FilesType ==
    ASSUME TypeInv, NEW k \in Key, NEW v \in {"live", "deleted"}
    PROVE  /\ DOMAIN Put(files, k, v) = DOMAIN files \cup {k}
           /\ DOMAIN Put(files, k, v) \subseteq Key
           /\ Put(files, k, v) \in [DOMAIN Put(files, k, v) -> {"live", "deleted"}]
BY DEF TypeInv, TypeOK, Put

LEMMA CommitNewType ==
    ASSUME TypeInv, NEW p \in Requests, CommitNew(p)
    PROVE  TypeInv'
<1>1. /\ requests[p] \in Request /\ Sound(requests[p]) /\ counter \in Nat
      /\ requests[p].pc = "commit" /\ requests[p].op \in {"generate", "import"}
    BY DEF TypeInv, TypeOK, CommitNew, At
<1>2. requests[p].n \in Number /\ requests[p].file \in Key /\ requests[p].last \in Nat
    BY <1>1 DEF Sound, Request
<1>3. NewRow(p) \in Row /\ NewRow(p).file = requests[p].file
    BY <1>1, <1>2 DEF NewRow, Row, Request
<1> QED BY <1>2, <1>3, FilesType, WriteType DEF CommitNew

LEMMA RowWriteType ==
    ASSUME TypeInv, NEW p \in Requests, NEW row \in Row, requests[p].n \in DOMAIN register,
           register' = [register EXCEPT ![requests[p].n] = row], Return(p),
           DOMAIN files \subseteq DOMAIN files', DOMAIN files' \subseteq Key,
           files' \in [DOMAIN files' -> {"live", "deleted"}],
           row.file \in DOMAIN files', UNCHANGED <<counter, bytes, locked, tickets>>
    PROVE  TypeInv'
<1>1. register = [j \in DOMAIN register |-> register[j]]
    BY DEF TypeInv, TypeOK
<1>2. register' = Put(register, requests[p].n, row)
    BY <1>1, ExceptIsPut
<1>3. counter' \in Nat /\ requests[p].n \in Number
    BY DEF TypeInv, TypeOK
<1> QED BY <1>2, <1>3, WriteType

LEMMA CommitUpdateType ==
    ASSUME TypeInv, NEW p \in Requests, CommitUpdate(p)
    PROVE  TypeInv'
<1> DEFINE r == requests[p]
           lines == (register[r.n].lines \ r.removed) \cup {r.ticket}
           row == [r.copy EXCEPT !.month = r.month, !.figures = r.ticket, !.file = r.file, !.lines = lines]
           first == Put(files, r.file, "live")
<1>1. /\ r \in Request /\ Sound(r) /\ r.pc = "commit" /\ r.op = "update"
      /\ register \in [DOMAIN register -> Row]
    BY DEF TypeInv, TypeOK, CommitUpdate, At, Does
<1>2. r.n \in DOMAIN register /\ r.copy \in Row /\ r.file \in Key
    BY <1>1 DEF Sound
<1>3. lines \in SUBSET Nat
    BY <1>1, <1>2 DEF Row, Request
<1>4. row \in Row /\ row.file = r.file
    BY <1>1, <1>2, <1>3 DEF Row, Request
<1>5. register' = [register EXCEPT ![r.n] = row]
    BY DEF CommitUpdate
<1>6. Superseded(p) \in Key
    BY <1>2 DEF Superseded, Row
<1>7. /\ DOMAIN files' = (DOMAIN files \cup {r.file}) \cup {Superseded(p)}
      /\ DOMAIN files' \subseteq Key /\ files' \in [DOMAIN files' -> {"live", "deleted"}]
    <2>1. DOMAIN files \subseteq Key /\ files \in [DOMAIN files -> {"live", "deleted"}]
        BY DEF TypeInv, TypeOK
    <2>2. files' = Put(first, Superseded(p), "deleted")
        BY DEF CommitUpdate
    <2>3. DOMAIN first = DOMAIN files \cup {r.file} /\ first \in [DOMAIN first -> {"live", "deleted"}]
        BY <2>1 DEF Put
    <2> HIDE DEF first
    <2> QED BY <1>2, <1>6, <2>1, <2>2, <2>3 DEF Put
<1>8. Return(p) /\ UNCHANGED <<counter, bytes, locked, tickets>>
    BY DEF CommitUpdate
<1>9. row.file \in DOMAIN files' /\ DOMAIN files \subseteq DOMAIN files'
    BY <1>4, <1>7
<1> HIDE DEF row
<1> QED BY <1>2, <1>4, <1>5, <1>7, <1>8, <1>9, RowWriteType

LEMMA CommitDeleteType ==
    ASSUME TypeInv, NEW p \in Requests, CommitDelete(p)
    PROVE  TypeInv'
<1> DEFINE r == requests[p]
           old == register[r.n]
           row == [old EXCEPT !.deleted = TRUE]
<1>1. /\ r \in Request /\ Sound(r) /\ r.op = "delete" /\ register \in [DOMAIN register -> Row]
    BY DEF TypeInv, TypeOK, CommitDelete, Does
<1>2. r.n \in DOMAIN register /\ Superseded(p) \in Key
    BY <1>1 DEF Sound, Superseded, Row
<1>3. old \in Row
    BY <1>1, <1>2
<1>7. row \in Row /\ row.file = old.file
    BY <1>3 DEF Row
<1>4. register' = [register EXCEPT ![r.n] = row]
    BY <1>1, <1>2 DEF CommitDelete
<1>5. row.file \in DOMAIN files
    BY <1>2, <1>7 DEF TypeInv, TypeOK
<1>6. Return(p) /\ UNCHANGED <<counter, bytes, locked, tickets>> /\ files' = Put(files, Superseded(p), "deleted")
    BY DEF CommitDelete
<1> HIDE DEF row
<1> QED BY <1>2, <1>7, <1>4, <1>5, <1>6, FilesType, RowWriteType

LEMMA MarkType ==
    ASSUME TypeInv, NEW p \in Requests, Mark(p)
    PROVE  TypeInv'
<1> DEFINE r == requests[p]
           old == register[r.n]
<1>1. /\ r \in Request /\ Sound(r) /\ r.pc = "mark" /\ register \in [DOMAIN register -> Row]
      /\ DOMAIN files \subseteq Key /\ files \in [DOMAIN files -> {"live", "deleted"}]
    BY DEF TypeInv, TypeOK, Mark, Runs, At
<1>2. r.op \in {"cancel", "mark_sent", "mark_paid", "unmark_paid"}
    BY <1>1 DEF Request, Ops, Sound, Points
<1>3. r.n \in DOMAIN register /\ old \in Row /\ old.file \in DOMAIN files
    BY <1>1, <1>2 DEF Sound, TypeInv, TypeOK
<1>4. Return(p) /\ UNCHANGED <<counter, files, bytes, locked, tickets>>
    BY DEF Mark
<1>5. ASSUME NEW row \in Row, row.file = old.file, register' = [register EXCEPT ![r.n] = row]
      PROVE TypeInv'
    BY <1>1, <1>3, <1>4, <1>5, RowWriteType
<1>6. CASE Does(p, "cancel")
    <2> DEFINE row == [old EXCEPT !.status = "cancelled"]
    <2>1. row \in Row /\ row.file = old.file
        BY <1>3 DEF Row
    <2>2. register' = [register EXCEPT ![r.n] = row]
        BY <1>1, <1>3, <1>6 DEF Mark, Does
    <2> QED BY <1>5, <2>1, <2>2
<1>7. CASE Does(p, "mark_sent")
    <2> DEFINE row == [old EXCEPT !.sent = TRUE]
    <2>1. row \in Row /\ row.file = old.file
        BY <1>3 DEF Row
    <2>2. register' = [register EXCEPT ![r.n] = row]
        BY <1>1, <1>3, <1>7 DEF Mark, Does
    <2> QED BY <1>5, <2>1, <2>2
<1>8. CASE Does(p, "mark_paid")
    <2> DEFINE row == [old EXCEPT !.paid = TRUE]
    <2>1. row \in Row /\ row.file = old.file
        BY <1>3 DEF Row
    <2>2. register' = [register EXCEPT ![r.n] = row]
        BY <1>1, <1>3, <1>8 DEF Mark, Does
    <2> QED BY <1>5, <2>1, <2>2
<1>9. CASE Does(p, "unmark_paid")
    <2> DEFINE row == [old EXCEPT !.paid = FALSE]
    <2>1. row \in Row /\ row.file = old.file
        BY <1>3 DEF Row
    <2>2. register' = [register EXCEPT ![r.n] = row]
        BY <1>1, <1>3, <1>9 DEF Mark, Does
    <2> QED BY <1>5, <2>1, <2>2
<1> QED BY <1>2, <1>6, <1>7, <1>8, <1>9 DEF Does

LEMMA OtherType ==
    ASSUME TypeInv,
           \/ \E p \in Requests : Fail(p) \/ DeadlockVictim(p)
           \/ \E m \in Months : LockPeriod(m) \/ UnlockPeriod(m)
           \/ UNCHANGED vars
    PROVE  TypeInv'
<1>1. bytes \subseteq Key /\ tickets \in 0 .. MaxRequests
    BY DEF TypeInv, TypeOK
<1>2. ASSUME NEW p \in Requests, Fail(p) \/ DeadlockVictim(p) PROVE TypeInv'
    BY <1>1, <1>2, ReturnType DEF Fail, DeadlockVictim
<1>3. ASSUME NEW m \in Months, LockPeriod(m) \/ UnlockPeriod(m) PROVE TypeInv'
    <2>1. tickets' \in 0 .. MaxRequests
        BY <1>1, <1>3, BoundAssumption DEF LockPeriod, UnlockPeriod, Ticket
    <2>2. locked' \subseteq Months /\ UNCHANGED <<counter, register, files, bytes, requests>>
        BY <1>3 DEF LockPeriod, UnlockPeriod, TypeInv, TypeOK
    <2> QED BY <2>1, <2>2 DEF TypeInv, TypeOK, Sound
<1>4. CASE UNCHANGED vars
    BY <1>4 DEF TypeInv, TypeOK, Sound, vars
<1> QED BY <1>2, <1>3, <1>4

-----------------------------------------------------------------------------
(* One request holds the counter row.  It knows the number it was handed,    *)
(* and an import the value it will leave.                                    *)
CounterInv ==
    /\ \A p, q \in Requests : HoldsCounter(p) /\ HoldsCounter(q) => p = q
    /\ \A p \in Requests : HoldsCounter(p) =>
          requests[p].last = IF Does(p, "generate") THEN counter + 1 ELSE Larger(counter, requests[p].n)
    /\ \A p \in Requests : HoldsCounter(p) /\ Does(p, "generate") => requests[p].n = requests[p].last

(* One request has inserted a number that is not on the register yet.        *)
UniqueInv ==
    /\ \A p, q \in Requests :
          HoldsNumber(p, requests[p].n) /\ HoldsNumber(q, requests[p].n) => p = q
    /\ \A p \in Requests : HoldsNumber(p, requests[p].n) => requests[p].n \notin DOMAIN register

(* A copy is of the bill whose row it will be written to, however old it is. *)
CopyOf(r) ==
    r.op \notin {"generate", "import"} =>
        r.copy.source = register[r.n].source /\ r.copy.raised = register[r.n].raised

RegisterInv ==
    /\ TypeInv /\ Highest /\ CounterInv /\ UniqueInv
    /\ \A p \in Requests : CopyOf(requests[p])
    /\ NoGap

(* No bill leaves the register or changes its origin.                        *)
BillsKept ==
    \A n \in DOMAIN register :
        /\ n \in DOMAIN register'
        /\ register'[n].source = register[n].source /\ register'[n].raised = register[n].raised

LEMMA InitRegister == Init => RegisterInv
<1> SUFFICES ASSUME Init PROVE RegisterInv
    OBVIOUS
<1>1. TypeInv
    BY InitType
<1>2. Highest /\ NoGap
    BY DEF Init, Highest, NoGap
<1>3. CounterInv /\ UniqueInv
    BY DEF Init, CounterInv, UniqueInv, HoldsCounter, HoldsNumber, Idle, Does, At
<1>4. \A p \in Requests : CopyOf(requests[p])
    BY DEF Init, CopyOf, Idle
<1> QED BY <1>1, <1>2, <1>3, <1>4 DEF RegisterInv

(* A step after which the request holds neither the counter nor a number,    *)
(* and which raises no bill.                                                 *)
LEMMA QuietInv ==
    ASSUME RegisterInv, TypeInv', NEW p \in Requests, NEW r \in Request,
           requests' = [requests EXCEPT ![p] = r],
           r.op = "generate" => r.pc \in {"idle", "reserve"},
           r.op = "import" => r.pc = "create",
           CopyOf(r), counter' = counter, DOMAIN register' = DOMAIN register, BillsKept
    PROVE  RegisterInv'
<1>1. ASSUME NEW q \in Requests PROVE requests'[q] = IF q = p THEN r ELSE requests[q]
    BY DEF RegisterInv, TypeInv, TypeOK
<1>2. Highest'
    BY DEF RegisterInv, Highest
<1>3. ASSUME NEW q \in Requests, HoldsCounter(q)'
      PROVE  q # p /\ HoldsCounter(q) /\ requests'[q] = requests[q]
    BY <1>1, <1>3 DEF HoldsCounter, Does, At
<1>4. CounterInv'
    BY <1>3 DEF RegisterInv, CounterInv, Does
<1>5. ASSUME NEW q \in Requests, NEW n, HoldsNumber(q, n)'
      PROVE  q # p /\ HoldsNumber(q, n) /\ requests'[q] = requests[q]
    BY <1>1, <1>5 DEF HoldsNumber
<1>6. UniqueInv'
    <2>1. ASSUME NEW q \in Requests, NEW o \in Requests,
                 HoldsNumber(q, requests[q].n)', HoldsNumber(o, requests[q].n)'
          PROVE  q = o
        BY <1>5, <2>1 DEF RegisterInv, UniqueInv
    <2>2. ASSUME NEW q \in Requests, HoldsNumber(q, requests[q].n)'
          PROVE  requests'[q].n \notin DOMAIN register'
        BY <1>5, <2>2 DEF RegisterInv, UniqueInv
    <2> QED BY <2>1, <2>2 DEF UniqueInv
<1>7. ASSUME NEW q \in Requests PROVE CopyOf(requests[q])'
    <2>1. CopyOf(requests'[q])
        BY <1>1 DEF RegisterInv
    <2>2. requests'[q].op \notin {"generate", "import"} => requests'[q].n \in DOMAIN register
        BY DEF TypeInv, Sound
    <2> QED BY <2>1, <2>2 DEF CopyOf, BillsKept
<1>8. NoGap'
    BY DEF RegisterInv, NoGap, BillsKept
<1> QED BY <1>2, <1>4, <1>6, <1>7, <1>8 DEF RegisterInv

LEMMA ReturnInv ==
    ASSUME RegisterInv, TypeInv', NEW p \in Requests, Return(p),
           counter' = counter, DOMAIN register' = DOMAIN register, BillsKept
    PROVE  RegisterInv'
<1>1. Idle.op = "generate" /\ Idle.pc = "idle" /\ CopyOf(Idle)
    BY DEF Idle, CopyOf
<1> QED BY <1>1, IdleSound, QuietInv DEF Return

(* Starting, guarding, correcting, deleting and marking.                     *)
LEMMA StartInv ==
    ASSUME RegisterInv, TypeInv', NEW p \in Requests, Start(p) \/ Touch(p)
    PROVE  RegisterInv'
<1>1. BillsKept /\ counter' = counter /\ DOMAIN register' = DOMAIN register
    BY DEF Start, Touch, StartGenerate, StartImport, Fetch, BillsKept
<1>2. requests'[p] \in Request /\ requests \in [Requests -> Request]
    BY DEF RegisterInv, TypeInv, TypeOK
<1>3. ASSUME NEW r, requests' = [requests EXCEPT ![p] = r], CopyOf(r),
             (r.op = "generate" => r.pc \in {"idle", "reserve"}), (r.op = "import" => r.pc = "create")
      PROVE RegisterInv'
    <2>1. r \in Request
        BY <1>2, <1>3
    <2> QED BY <1>1, <1>3, <2>1, QuietInv
<1>4. ASSUME NEW m \in Months, StartGenerate(p, m) PROVE RegisterInv'
    <2> DEFINE r == [Idle EXCEPT !.pc = "reserve", !.month = m, !.ticket = tickets']
    <2>1. r.op = "generate" /\ r.pc = "reserve" /\ CopyOf(r)
        BY DEF Idle, CopyOf
    <2>2. requests' = [requests EXCEPT ![p] = r]
        BY <1>4 DEF StartGenerate
    <2> HIDE DEF r
    <2> QED BY <1>3, <2>1, <2>2
<1>5. ASSUME NEW m \in Months, NEW n \in ImportNumbers, StartImport(p, n, m) PROVE RegisterInv'
    <2> DEFINE r == [Idle EXCEPT !.pc = "create", !.op = "import", !.n = n, !.month = m, !.ticket = tickets']
    <2>1. r.op = "import" /\ r.pc = "create" /\ CopyOf(r)
        BY DEF Idle, CopyOf
    <2>2. requests' = [requests EXCEPT ![p] = r]
        BY <1>5 DEF StartImport
    <2> HIDE DEF r
    <2> QED BY <1>3, <2>1, <2>2
<1>6. ASSUME NEW m, NEW n \in DOMAIN register, NEW op \in Ops \ {"generate", "import"},
             Fetch(p, op, n, m)
      PROVE RegisterInv'
    <2> DEFINE r == [Idle EXCEPT !.pc = "guard", !.op = op, !.n = n, !.copy = register[n],
                                 !.month = m, !.ticket = tickets']
    <2>1. r.op \notin {"generate", "import"} /\ CopyOf(r)
        BY DEF Idle, CopyOf
    <2>2. requests' = [requests EXCEPT ![p] = r]
        BY <1>6 DEF Fetch
    <2> HIDE DEF r
    <2> QED BY <1>3, <2>1, <2>2
<1> QED BY <1>4, <1>5, <1>6 DEF Start, Touch, Ops

LEMMA GotoInv ==
    ASSUME RegisterInv, TypeInv', NEW p \in Requests, NEW pc \in PCs,
           requests[p].op \notin {"generate", "import"}, Goto(p, pc),
           counter' = counter, register' = register
    PROVE  RegisterInv'
<1> DEFINE r == [requests[p] EXCEPT !.pc = pc]
<1>1. requests[p] \in Request /\ CopyOf(requests[p])
    BY DEF RegisterInv, TypeInv, TypeOK
<1>2. r \in Request /\ CopyOf(r) /\ r.op \notin {"generate", "import"}
    BY <1>1 DEF Request, CopyOf
<1>3. requests' = [requests EXCEPT ![p] = r]
    BY DEF Goto
<1>4. BillsKept /\ DOMAIN register' = DOMAIN register
    BY DEF BillsKept
<1> HIDE DEF r
<1> QED BY <1>2, <1>3, <1>4, QuietInv

LEMMA ReviseInv ==
    ASSUME RegisterInv, TypeInv', NEW p \in Requests,
           Guard(p) \/ SaveHeader(p) \/ Unlink(p) \/ Retire(p) \/ Flag(p)
    PROVE  RegisterInv'
<1>1. /\ requests[p] \in Request /\ Sound(requests[p]) /\ CopyOf(requests[p])
    BY DEF RegisterInv, TypeInv, TypeOK
<1>2. counter' = counter /\ register' = register
    BY DEF Guard, SaveHeader, Unlink, Retire, Flag
<1>3. BillsKept /\ DOMAIN register' = DOMAIN register
    BY <1>2 DEF BillsKept
<1>4. requests[p].op \notin {"generate", "import"}
    BY <1>1 DEF Guard, SaveHeader, Unlink, Retire, Flag, Runs, At, Sound, Points
<1>5. CASE Guard(p) /\ ~Allows(p)
    BY <1>2, <1>3, <1>5, ReturnInv DEF Guard
<1>6. CASE Guard(p) /\ Allows(p)
    BY <1>2, <1>4, <1>6, GotoInv DEF Guard, PCs
<1>7. CASE SaveHeader(p)
    <2> DEFINE r == [requests[p] EXCEPT !.pc = "store", !.removed = register[requests[p].n].lines]
    <2>1. requests' = [requests EXCEPT ![p] = r]
        BY <1>7 DEF SaveHeader
    <2>2. r \in Request
        <3>1. requests'[p] = r /\ requests' \in [Requests -> Request]
            BY <2>1 DEF RegisterInv, TypeInv, TypeOK
        <3> QED BY <3>1
    <2>3. CopyOf(r) /\ r.op \notin {"generate", "import"}
        BY <1>1, <1>4 DEF CopyOf, Request
    <2> HIDE DEF r
    <2> QED BY <1>2, <1>3, <2>1, <2>2, <2>3, QuietInv
<1>8. CASE Unlink(p) \/ Flag(p)
    BY <1>2, <1>4, <1>8, GotoInv DEF Unlink, Flag, PCs
<1>9. CASE Retire(p)
    BY <1>2, <1>4, <1>9, GotoInv DEF Retire, PCs
<1> QED BY <1>5, <1>6, <1>7, <1>8, <1>9

(* The statements of a transaction that raises a bill, and of its documents. *)
LEMMA ReserveInv ==
    ASSUME RegisterInv, TypeInv', NEW p \in Requests, Reserve(p)
    PROVE  RegisterInv'
<1> DEFINE last == counter + 1
<1>1. /\ requests[p] \in Request /\ Sound(requests[p]) /\ counter \in Nat
      /\ requests \in [Requests -> Request]
    BY DEF RegisterInv, TypeInv, TypeOK
<1>2. requests[p].pc = "reserve" /\ requests[p].op = "generate"
    BY <1>1 DEF Reserve, Runs, At, Sound, Points
<1>3. Larger(counter, HighestSaved) + 1 = last
    BY <1>1, HighestIsCounter DEF RegisterInv, Larger
<1>4. requests' = [requests EXCEPT ![p].pc = "create", ![p].n = last, ![p].last = last]
    BY <1>3 DEF Reserve
<1>5. requests'[p].op = "generate" /\ requests'[p].pc = "create" /\ requests'[p].n = last /\ requests'[p].last = last
    BY <1>1, <1>2, <1>4 DEF Request
<1>6. \A q \in Requests : q # p => requests'[q] = requests[q] /\ ~HoldsCounter(q)
    BY <1>1, <1>2, <1>4 DEF Reserve, Runs, At, WaitsFor
<1>7. CounterInv'
    <2>1. ASSUME NEW q \in Requests, HoldsCounter(q)' PROVE q = p
        BY <1>6, <2>1 DEF HoldsCounter, Does, At
    <2>2. counter' = counter /\ Does(p, "generate")'
        BY <1>5 DEF Reserve, Does
    <2> QED BY <1>5, <2>1, <2>2 DEF CounterInv
<1>8. UniqueInv'
    <2>1. ASSUME NEW q \in Requests, NEW n, HoldsNumber(q, n)'
          PROVE  q # p /\ HoldsNumber(q, n) /\ requests'[q] = requests[q]
        BY <1>5, <1>6, <2>1 DEF HoldsNumber
    <2> QED BY <2>1 DEF RegisterInv, UniqueInv, Reserve
<1>9. (\A q \in Requests : CopyOf(requests[q]))' /\ Highest' /\ NoGap'
    BY <1>5, <1>6 DEF RegisterInv, CopyOf, Highest, NoGap, Reserve
<1> QED BY <1>7, <1>8, <1>9 DEF RegisterInv

LEMMA CreateInv ==
    ASSUME RegisterInv, TypeInv', NEW p \in Requests, Create(p)
    PROVE  RegisterInv'
<1>1. /\ requests[p] \in Request /\ Sound(requests[p]) /\ requests \in [Requests -> Request]
    BY DEF RegisterInv, TypeInv, TypeOK
<1>2. requests[p].pc = "create" /\ requests[p].op \in {"generate", "import"}
    BY <1>1 DEF Create, Runs, At, Sound, Points
<1>3. counter' = counter /\ register' = register
    BY DEF Create
<1>4. CASE requests[p].n \in DOMAIN register
    BY <1>3, <1>4, ReturnInv DEF Create, BillsKept
<1>5. CASE requests[p].n \notin DOMAIN register
    <2>1. requests' = [requests EXCEPT ![p].pc = "store"]
        BY <1>5 DEF Create, Goto
    <2>2. /\ requests'[p].op = requests[p].op /\ requests'[p].pc = "store"
          /\ requests'[p].n = requests[p].n /\ requests'[p].last = requests[p].last
        BY <1>1, <2>1 DEF Request
    <2>3. \A q \in Requests : q # p => requests'[q] = requests[q] /\ ~HoldsNumber(q, requests[p].n)
        BY <1>1, <1>2, <2>1 DEF Create, Runs, At, WaitsFor
    <2>4. \A q \in Requests : HoldsCounter(q)' <=> HoldsCounter(q)
        BY <1>2, <2>2, <2>3 DEF HoldsCounter, Does, At
    <2>5. CounterInv'
        BY <1>3, <2>2, <2>3, <2>4 DEF RegisterInv, CounterInv, Does
    <2>6. UniqueInv'
        <3>1. ASSUME NEW q \in Requests, NEW n, HoldsNumber(q, n)', q # p PROVE HoldsNumber(q, n)
            BY <2>3, <3>1 DEF HoldsNumber
        <3>2. ASSUME NEW n, HoldsNumber(p, n)' PROVE n = requests[p].n
            BY <2>2, <3>2 DEF HoldsNumber
        <3>3. ASSUME NEW q \in Requests, NEW o \in Requests,
                     HoldsNumber(q, requests[q].n)', HoldsNumber(o, requests[q].n)'
              PROVE  q = o
            <4>1. CASE q = p \/ o = p
                BY <2>2, <2>3, <3>1, <3>2, <3>3, <4>1
            <4>2. CASE q # p /\ o # p
                BY <2>3, <3>1, <3>3, <4>2 DEF RegisterInv, UniqueInv
            <4> QED BY <4>1, <4>2
        <3>4. ASSUME NEW q \in Requests, HoldsNumber(q, requests[q].n)'
              PROVE  requests'[q].n \notin DOMAIN register'
            BY <1>3, <1>5, <2>2, <2>3, <3>1, <3>4 DEF RegisterInv, UniqueInv
        <3> QED BY <3>3, <3>4 DEF UniqueInv
    <2>7. (\A q \in Requests : CopyOf(requests[q]))' /\ Highest' /\ NoGap'
        BY <1>2, <1>3, <2>2, <2>3 DEF RegisterInv, CopyOf, Highest, NoGap
    <2> QED BY <2>5, <2>6, <2>7 DEF RegisterInv
<1> QED BY <1>4, <1>5

LEMMA StoreInv ==
    ASSUME RegisterInv, TypeInv', NEW p \in Requests, Store(p)
    PROVE  RegisterInv'
<1> DEFINE n == requests[p].n
           key == DedupeKey(n, requests[p].month)
           to == CASE Does(p, "generate") -> "commit"
                   [] Does(p, "import")   -> "reconcile"
                   [] Does(p, "update")   -> "unlink"
           r == [requests[p] EXCEPT !.file = key, !.pc = to]
<1>1. /\ requests[p] \in Request /\ Sound(requests[p]) /\ requests \in [Requests -> Request]
      /\ CopyOf(requests[p])
    BY DEF RegisterInv, TypeInv, TypeOK
<1>2. requests[p].pc = "store" /\ requests[p].op \in {"generate", "import", "update"}
    BY <1>1 DEF Store, Runs, At, Sound, Points
<1>3. counter' = counter /\ register' = register /\ BillsKept
    BY DEF Store, BillsKept
<1>4. CASE Return(p)
    BY <1>3, <1>4, ReturnInv
<1>5. CASE ~Return(p)
    <2>1. requests' = [requests EXCEPT ![p] = r]
        BY <1>5 DEF Store
    <2>7. /\ requests[p].op = "generate" => to = "commit"
          /\ requests[p].op = "import" => to = "reconcile"
          /\ requests[p].op = "update" => to = "unlink"
        BY DEF Does
    <2> HIDE DEF to, key
    <2>2. /\ r.pc = to /\ r.op = requests[p].op /\ r.n = n /\ r.last = requests[p].last
          /\ r.copy = requests[p].copy
        BY <1>1 DEF Request
    <2> HIDE DEF r
    <2>3. r \in Request
        <3>1. requests'[p] = r /\ requests' \in [Requests -> Request]
            BY <1>1, <2>1 DEF TypeInv, TypeOK
        <3> QED BY <3>1
    <2>4. CASE r.op = "update"
        BY <1>1, <1>3, <2>1, <2>2, <2>3, <2>4, QuietInv DEF CopyOf
    <2>5. CASE r.op \in {"generate", "import"}
        <3>1. \A q \in Requests : requests'[q] = IF q = p THEN r ELSE requests[q]
            BY <1>1, <2>1
        <3>2. ASSUME NEW q \in Requests
              PROVE  /\ requests'[q].n = requests[q].n /\ requests'[q].last = requests[q].last
                     /\ requests'[q].op = requests[q].op
            BY <2>2, <3>1
        <3>3. ASSUME NEW q \in Requests, HoldsCounter(q)' PROVE HoldsCounter(q)
            <4>1. CASE q = p
                BY <1>2, <2>2, <2>5, <2>7, <3>1, <3>3, <4>1 DEF HoldsCounter, Does, At
            <4>2. CASE q # p
                BY <3>1, <3>3, <4>2 DEF HoldsCounter, Does, At
            <4> QED BY <4>1, <4>2
        <3>7. ASSUME NEW q \in Requests, NEW i, HoldsNumber(q, i)' PROVE HoldsNumber(q, i)
            <4>1. CASE q = p
                BY <1>2, <2>2, <2>5, <2>7, <3>1, <3>7, <4>1 DEF HoldsNumber
            <4>2. CASE q # p
                BY <3>1, <3>7, <4>2 DEF HoldsNumber
            <4> QED BY <4>1, <4>2
        <3>4. CounterInv'
            <4>1. ASSUME NEW q \in Requests, NEW o \in Requests, HoldsCounter(q)', HoldsCounter(o)'
                  PROVE  q = o
                BY <3>3, <4>1 DEF RegisterInv, CounterInv
            <4>2. ASSUME NEW q \in Requests, HoldsCounter(q)'
                  PROVE  /\ requests'[q].last = (IF Does(q, "generate") THEN counter + 1
                                                 ELSE Larger(counter, requests[q].n))'
                         /\ Does(q, "generate")' => requests'[q].n = requests'[q].last
                <5>1. HoldsCounter(q)
                    BY <3>3, <4>2
                <5>2. /\ requests[q].last = IF Does(q, "generate") THEN counter + 1
                                            ELSE Larger(counter, requests[q].n)
                      /\ Does(q, "generate") => requests[q].n = requests[q].last
                    BY <5>1 DEF RegisterInv, CounterInv
                <5>3. Does(q, "generate")' <=> Does(q, "generate")
                    BY <3>2 DEF Does
                <5>4. Larger(counter, requests[q].n)' = Larger(counter, requests[q].n)
                    BY <1>3, <3>2 DEF Larger
                <5> QED BY <1>3, <3>2, <5>2, <5>3, <5>4
            <4> QED BY <4>1, <4>2 DEF CounterInv
        <3>5. UniqueInv'
            <4>1. ASSUME NEW q \in Requests, NEW o \in Requests,
                         HoldsNumber(q, requests[q].n)', HoldsNumber(o, requests[q].n)'
                  PROVE  q = o
                <5>1. HoldsNumber(q, requests[q].n) /\ HoldsNumber(o, requests[q].n)
                    BY <3>2, <3>7, <4>1
                <5> QED BY <5>1 DEF RegisterInv, UniqueInv
            <4>2. ASSUME NEW q \in Requests, HoldsNumber(q, requests[q].n)'
                  PROVE  requests'[q].n \notin DOMAIN register'
                <5>1. HoldsNumber(q, requests[q].n)
                    BY <3>2, <3>7, <4>2
                <5> QED BY <1>3, <3>2, <5>1 DEF RegisterInv, UniqueInv
            <4> QED BY <4>1, <4>2 DEF UniqueInv
        <3>6. (\A q \in Requests : CopyOf(requests[q]))' /\ Highest' /\ NoGap'
            BY <1>3, <2>5, <3>1 DEF RegisterInv, CopyOf, Highest, NoGap
        <3> QED BY <3>4, <3>5, <3>6 DEF RegisterInv
    <2> QED BY <1>2, <2>2, <2>4, <2>5
<1> QED BY <1>4, <1>5

LEMMA ReconcileInv ==
    ASSUME RegisterInv, TypeInv', NEW p \in Requests, Reconcile(p)
    PROVE  RegisterInv'
<1> DEFINE last == Larger(counter, requests[p].n)
<1>1. /\ requests[p] \in Request /\ Sound(requests[p]) /\ requests \in [Requests -> Request]
    BY DEF RegisterInv, TypeInv, TypeOK
<1>2. requests[p].pc = "reconcile" /\ requests[p].op = "import"
    BY <1>1 DEF Reconcile, Runs, At, Sound, Points
<1>3. counter' = counter /\ register' = register
    BY DEF Reconcile
<1>4. requests' = [requests EXCEPT ![p].pc = "commit", ![p].last = last]
    BY DEF Reconcile
<1>5. /\ requests'[p].op = "import" /\ requests'[p].pc = "commit"
      /\ requests'[p].n = requests[p].n /\ requests'[p].last = last
    BY <1>1, <1>2, <1>4 DEF Request
<1>6. \A q \in Requests : q # p => requests'[q] = requests[q] /\ ~HoldsCounter(q)
    BY <1>1, <1>2, <1>4 DEF Reconcile, Runs, At, WaitsFor
<1> HIDE DEF last
<1>7. CounterInv'
    <2>1. ASSUME NEW q \in Requests, HoldsCounter(q)' PROVE q = p
        BY <1>6, <2>1 DEF HoldsCounter, Does, At
    <2>2. ~Does(p, "generate")' /\ requests'[p].last = Larger(counter, requests[p].n)'
        BY <1>3, <1>5 DEF Does, Larger, last
    <2> QED BY <2>1, <2>2 DEF CounterInv
<1>8. UniqueInv'
    <2>1. \A q \in Requests : requests'[q].n = requests[q].n
        BY <1>5, <1>6
    <2>2. \A q \in Requests : \A i : HoldsNumber(q, i)' <=> HoldsNumber(q, i)
        BY <1>2, <1>5, <1>6 DEF HoldsNumber
    <2> QED BY <1>3, <2>1, <2>2 DEF RegisterInv, UniqueInv
<1>9. (\A q \in Requests : CopyOf(requests[q]))' /\ Highest' /\ NoGap'
    BY <1>3, <1>5, <1>6 DEF RegisterInv, CopyOf, Highest, NoGap
<1> QED BY <1>7, <1>8, <1>9 DEF RegisterInv

(* A commit that raises no bill.                                             *)
LEMMA RowInv ==
    ASSUME RegisterInv, TypeInv', NEW p \in Requests,
           CommitUpdate(p) \/ CommitDelete(p) \/ Mark(p)
    PROVE  RegisterInv' /\ BillsKept
<1> DEFINE r == requests[p]
<1>1. /\ r \in Request /\ Sound(r) /\ CopyOf(r) /\ register \in [DOMAIN register -> Row]
    BY DEF RegisterInv, TypeInv, TypeOK
<1>2. r.op \notin {"generate", "import"} /\ r.n \in DOMAIN register
    BY <1>1 DEF CommitUpdate, CommitDelete, Mark, Does, Runs, At, Sound, Points
<1>3. r.copy.source = register[r.n].source /\ r.copy.raised = register[r.n].raised /\ r.copy \in Row
    BY <1>1, <1>2 DEF CopyOf, Sound
<1>4. Return(p) /\ counter' = counter
    BY DEF CommitUpdate, CommitDelete, Mark
<1>5. ASSUME NEW row, register' = [register EXCEPT ![r.n] = row],
             row.source = register[r.n].source, row.raised = register[r.n].raised
      PROVE  RegisterInv' /\ BillsKept
    <2>1. BillsKept /\ DOMAIN register' = DOMAIN register
        BY <1>5 DEF BillsKept
    <2> QED BY <1>4, <2>1, ReturnInv
<1>6. CASE CommitUpdate(p)
    <2> DEFINE row == [r.copy EXCEPT !.month = r.month, !.figures = r.ticket, !.file = r.file,
                           !.lines = (register[r.n].lines \ r.removed) \cup {r.ticket}]
    <2>1. row.source = register[r.n].source /\ row.raised = register[r.n].raised
        BY <1>3 DEF Row
    <2>2. register' = [register EXCEPT ![r.n] = row]
        BY <1>6 DEF CommitUpdate
    <2> HIDE DEF row
    <2> QED BY <1>5, <2>1, <2>2
<1>9. register[r.n] \in Row
    BY <1>1, <1>2
<1>7. CASE CommitDelete(p)
    <2> DEFINE row == [register[r.n] EXCEPT !.deleted = TRUE]
    <2>1. row.source = register[r.n].source /\ row.raised = register[r.n].raised
        BY <1>9 DEF Row
    <2>2. register' = [register EXCEPT ![r.n] = row]
        BY <1>1, <1>7 DEF CommitDelete
    <2> HIDE DEF row
    <2> QED BY <1>5, <2>1, <2>2
<1>8. CASE Mark(p)
    <2>1. r.op \in {"cancel", "mark_sent", "mark_paid", "unmark_paid"}
        BY <1>1, <1>8 DEF Mark, Runs, At, Request, Ops, Sound, Points
    <2>2. CASE Does(p, "cancel")
        <3> DEFINE row == [register[r.n] EXCEPT !.status = "cancelled"]
        <3>1. row.source = register[r.n].source /\ row.raised = register[r.n].raised
            BY <1>9 DEF Row
        <3>2. register' = [register EXCEPT ![r.n] = row]
            BY <1>1, <1>8, <2>2 DEF Mark, Does
        <3> HIDE DEF row
        <3> QED BY <1>5, <3>1, <3>2
    <2>3. CASE Does(p, "mark_sent")
        <3> DEFINE row == [register[r.n] EXCEPT !.sent = TRUE]
        <3>1. row.source = register[r.n].source /\ row.raised = register[r.n].raised
            BY <1>9 DEF Row
        <3>2. register' = [register EXCEPT ![r.n] = row]
            BY <1>1, <1>8, <2>3 DEF Mark, Does
        <3> HIDE DEF row
        <3> QED BY <1>5, <3>1, <3>2
    <2>4. CASE Does(p, "mark_paid")
        <3> DEFINE row == [register[r.n] EXCEPT !.paid = TRUE]
        <3>1. row.source = register[r.n].source /\ row.raised = register[r.n].raised
            BY <1>9 DEF Row
        <3>2. register' = [register EXCEPT ![r.n] = row]
            BY <1>1, <1>8, <2>4 DEF Mark, Does
        <3> HIDE DEF row
        <3> QED BY <1>5, <3>1, <3>2
    <2>5. CASE Does(p, "unmark_paid")
        <3> DEFINE row == [register[r.n] EXCEPT !.paid = FALSE]
        <3>1. row.source = register[r.n].source /\ row.raised = register[r.n].raised
            BY <1>9 DEF Row
        <3>2. register' = [register EXCEPT ![r.n] = row]
            BY <1>1, <1>8, <2>5 DEF Mark, Does
        <3> HIDE DEF row
        <3> QED BY <1>5, <3>1, <3>2
    <2> QED BY <2>1, <2>2, <2>3, <2>4, <2>5 DEF Does
<1> QED BY <1>6, <1>7, <1>8

(* The commit that raises a bill: it writes back the counter it holds, and a *)
(* number nobody has, the next one unless it was printed on a scan.          *)
LEMMA CommitNewInv ==
    ASSUME RegisterInv, TypeInv', NEW p \in Requests, CommitNew(p)
    PROVE  RegisterInv' /\ BillsKept
<1> DEFINE n == requests[p].n
<1>1. /\ requests[p] \in Request /\ Sound(requests[p]) /\ requests \in [Requests -> Request]
      /\ counter \in Nat /\ DOMAIN register \subseteq Number
    BY DEF RegisterInv, TypeInv, TypeOK
<1>2. /\ requests[p].pc = "commit" /\ requests[p].op \in {"generate", "import"}
      /\ n \in Number
    BY <1>1 DEF CommitNew, At, Sound
<1>3. HoldsCounter(p) /\ HoldsNumber(p, n)
    BY <1>2 DEF HoldsCounter, HoldsNumber, Does, At
<1>4. n \notin DOMAIN register
    BY <1>3 DEF RegisterInv, UniqueInv
<1>5. /\ requests[p].op = "generate" => n = counter + 1 /\ counter' = counter + 1
      /\ requests[p].op # "generate" => counter' = Larger(counter, n)
    BY <1>3 DEF RegisterInv, CounterInv, Does, CommitNew
<1>6. counter' = Larger(counter, n)
    BY <1>1, <1>5 DEF Larger
<1>7. /\ register' = Put(register, n, NewRow(p)) /\ Return(p)
    BY DEF CommitNew
<1>8. /\ DOMAIN register' = DOMAIN register \cup {n} /\ register'[n] = NewRow(p)
      /\ \A i \in DOMAIN register : register'[i] = register[i]
    BY <1>4, <1>7 DEF Put
<1>9. BillsKept
    BY <1>8 DEF BillsKept
<1>10. Highest'
    BY <1>1, <1>2, <1>6, <1>8 DEF RegisterInv, Highest, Larger, Number
<1>11. /\ requests'[p] = Idle
       /\ \A q \in Requests : q # p =>
              requests'[q] = requests[q] /\ ~HoldsCounter(q) /\ ~HoldsNumber(q, n)
    <2>1. \A q \in Requests : q # p => ~HoldsCounter(q) /\ ~HoldsNumber(q, n)
        BY <1>3 DEF RegisterInv, CounterInv, UniqueInv
    <2> QED BY <1>1, <1>7, <2>1 DEF Return
<1>12. ASSUME NEW q \in Requests PROVE ~HoldsCounter(q)'
    BY <1>11 DEF HoldsCounter, Does, At, Idle
<1>13. CounterInv'
    BY <1>12 DEF CounterInv
<1>14. ASSUME NEW q \in Requests, NEW i, HoldsNumber(q, i)'
       PROVE  q # p /\ HoldsNumber(q, i) /\ requests'[q] = requests[q] /\ i # n
    BY <1>11, <1>14 DEF HoldsNumber, Idle
<1>15. UniqueInv'
    <2>1. ASSUME NEW q \in Requests, NEW o \in Requests,
                 HoldsNumber(q, requests[q].n)', HoldsNumber(o, requests[q].n)'
          PROVE  q = o
        BY <1>14, <2>1 DEF RegisterInv, UniqueInv
    <2>2. ASSUME NEW q \in Requests, HoldsNumber(q, requests[q].n)'
          PROVE  requests'[q].n \notin DOMAIN register'
        BY <1>8, <1>14, <2>2 DEF RegisterInv, UniqueInv
    <2> QED BY <2>1, <2>2 DEF UniqueInv
<1>16. ASSUME NEW q \in Requests PROVE CopyOf(requests[q])'
    <2>1. CASE q = p
        BY <1>11, <2>1 DEF CopyOf, Idle
    <2>2. CASE q # p
        <3>1. requests[q].op \notin {"generate", "import"} => requests[q].n \in DOMAIN register
            BY DEF RegisterInv, TypeInv, Sound
        <3> QED BY <1>8, <1>11, <2>2, <3>1 DEF RegisterInv, CopyOf
    <2> QED BY <2>1, <2>2
<1>17. NoGap'
    <2>1. ASSUME NEW i \in DOMAIN register', register'[i].source = "generated", i > 1
          PROVE  i - 1 \in DOMAIN register'
        <3>1. CASE i # n
            BY <1>8, <2>1, <3>1 DEF RegisterInv, NoGap
        <3>2. CASE i = n
            <4>1. requests[p].op = "generate"
                BY <1>2, <1>8, <2>1, <3>2 DEF NewRow, Does
            <4>2. n = counter + 1 /\ counter # 0
                BY <1>1, <1>5, <2>1, <3>2, <4>1
            <4> QED BY <1>1, <1>8, <3>2, <4>2 DEF RegisterInv, Highest
        <3> QED BY <3>1, <3>2
    <2> QED BY <2>1 DEF NoGap
<1> QED BY <1>9, <1>10, <1>13, <1>15, <1>16, <1>17 DEF RegisterInv

(* Failing, losing a deadlock, the period locks, and nothing.                *)
LEMMA OtherInv ==
    ASSUME RegisterInv, TypeInv',
           \/ \E p \in Requests : Fail(p) \/ DeadlockVictim(p)
           \/ \E m \in Months : LockPeriod(m) \/ UnlockPeriod(m)
           \/ UNCHANGED vars
    PROVE  RegisterInv' /\ BillsKept
<1>1. counter' = counter /\ register' = register
    BY DEF Fail, DeadlockVictim, LockPeriod, UnlockPeriod, vars
<1>2. BillsKept
    BY <1>1 DEF BillsKept
<1>3. ASSUME NEW p \in Requests, Fail(p) \/ DeadlockVictim(p) PROVE RegisterInv'
    <2>1. Return(p)
        BY <1>3 DEF Fail, DeadlockVictim
    <2> QED BY <1>1, <1>2, <2>1, ReturnInv
<1>4. CASE requests' = requests
    <2>1. Highest' /\ NoGap' /\ (\A p \in Requests : CopyOf(requests[p]))'
        BY <1>1, <1>4 DEF RegisterInv, Highest, NoGap, CopyOf
    <2>2. CounterInv'
        BY <1>1, <1>4 DEF RegisterInv, CounterInv, HoldsCounter, Does, At, Larger
    <2>3. UniqueInv'
        BY <1>1, <1>4 DEF RegisterInv, UniqueInv, HoldsNumber
    <2> QED BY <1>2, <2>1, <2>2, <2>3 DEF RegisterInv
<1>5. (\E m \in Months : LockPeriod(m) \/ UnlockPeriod(m)) \/ UNCHANGED vars => requests' = requests
    BY DEF LockPeriod, UnlockPeriod, vars
<1> QED BY <1>2, <1>3, <1>4, <1>5

LEMMA StepType ==
    ASSUME RegisterInv, NEW p \in Requests, Step(p)
    PROVE  TypeInv'
<1>1. TypeInv /\ Highest
    BY DEF RegisterInv
<1>2. CASE Guard(p) \/ SaveHeader(p) \/ Unlink(p) \/ Retire(p) \/ Flag(p)
    BY <1>1, <1>2, GuardType, ReviseType
<1>3. CASE Reserve(p) \/ Create(p) \/ Reconcile(p) \/ Store(p)
    BY <1>1, <1>3, RaiseType, StoreType
<1>4. CASE CommitNew(p) \/ CommitUpdate(p) \/ CommitDelete(p) \/ Mark(p)
    BY <1>1, <1>4, CommitNewType, CommitUpdateType, CommitDeleteType, MarkType
<1>5. CASE DeadlockVictim(p)
    BY <1>1, <1>5, OtherType
<1> QED BY <1>2, <1>3, <1>4, <1>5 DEF Step

LEMMA StepInv ==
    ASSUME RegisterInv, NEW p \in Requests, Step(p)
    PROVE  RegisterInv' /\ BillsKept
<1>1. TypeInv'
    BY StepType
<1>2. CASE Guard(p) \/ SaveHeader(p) \/ Unlink(p) \/ Retire(p) \/ Flag(p)
    <2>1. register' = register
        BY <1>2 DEF Guard, SaveHeader, Unlink, Retire, Flag
    <2> QED BY <1>1, <1>2, <2>1, ReviseInv DEF BillsKept
<1>3. CASE Reserve(p) \/ Create(p) \/ Reconcile(p) \/ Store(p)
    <2>1. register' = register
        BY <1>3 DEF Reserve, Create, Reconcile, Store
    <2> QED BY <1>1, <1>3, <2>1, ReserveInv, CreateInv, ReconcileInv, StoreInv DEF BillsKept
<1>4. CASE CommitNew(p)
    BY <1>1, <1>4, CommitNewInv
<1>5. CASE CommitUpdate(p) \/ CommitDelete(p) \/ Mark(p)
    BY <1>1, <1>5, RowInv
<1>6. CASE DeadlockVictim(p)
    BY <1>1, <1>6, OtherInv
<1> QED BY <1>2, <1>3, <1>4, <1>5, <1>6 DEF Step

LEMMA NextInv == RegisterInv /\ [Next]_vars => RegisterInv' /\ BillsKept
<1> SUFFICES ASSUME RegisterInv, [Next]_vars PROVE RegisterInv' /\ BillsKept
    OBVIOUS
<1>1. TypeInv
    BY DEF RegisterInv
<1>2. ASSUME NEW p \in Requests, Start(p) \/ Touch(p) PROVE RegisterInv' /\ BillsKept
    <2>1. register' = register
        BY <1>2 DEF Start, Touch, StartGenerate, StartImport, Fetch
    <2> QED BY <1>1, <1>2, <2>1, StartType, StartInv DEF BillsKept
<1>3. ASSUME NEW p \in Requests, Step(p) PROVE RegisterInv' /\ BillsKept
    BY <1>3, StepInv
<1>4. CASE \/ \E p \in Requests : Fail(p)
           \/ \E m \in Months : LockPeriod(m) \/ UnlockPeriod(m)
           \/ UNCHANGED vars
    BY <1>1, <1>4, OtherType, OtherInv
<1> QED BY <1>2, <1>3, <1>4 DEF Next, Rest

-----------------------------------------------------------------------------
LEMMA Reachable == Spec => []RegisterInv
BY InitRegister, NextInv, PTL DEF Spec

(* Rows, keys, copies and locks have their types, a bill names a stored file *)
(* there is a row for, and the suffix _dedupe_key picks is one of its range. *)
THEOREM TypeCorrect == Spec => []TypeOK
<1>1. RegisterInv => TypeOK
    BY DEF RegisterInv, TypeInv
<1> QED BY <1>1, Reachable, PTL

(* numbering.py: however requests interleave, fail and are rolled back, the  *)
(* counter is the highest number on the register.                            *)
THEOREM CounterHighest == Spec => []CounterIsHighest
<1>1. RegisterInv => CounterIsHighest
    BY HighestIsCounter DEF RegisterInv, CounterIsHighest
<1> QED BY <1>1, Reachable, PTL

(* "never a gap": every generated number above 1 follows one on the register.*)
THEOREM NoGaps == Spec => []NoGap
<1>1. RegisterInv => NoGap
    BY DEF RegisterInv
<1> QED BY <1>1, Reachable, PTL

(* The number InvoiceNumberService.reserve returns is free until generate    *)
(* commits: the row lock keeps every other reserve and every reconcile out,  *)
(* and an import that has not reconciled cannot reach its commit.            *)
THEOREM ReservedFree == Spec => []ReservedStaysFree
<1>1. RegisterInv => ReservedStaysFree
    <2> SUFFICES ASSUME RegisterInv, NEW p \in Requests, Does(p, "generate"),
                        requests[p].pc \in {"create", "store", "commit"}
                 PROVE  requests[p].n \notin DOMAIN register
        BY DEF ReservedStaysFree
    <2>1. HoldsCounter(p)
        BY DEF HoldsCounter
    <2>2. requests[p].n = counter + 1
        BY <2>1 DEF RegisterInv, CounterInv
    <2>3. counter \in Nat /\ \A n \in DOMAIN register : n <= counter
        BY DEF RegisterInv, TypeInv, TypeOK, Highest
    <2> QED BY <2>2, <2>3
<1> QED BY <1>1, Reachable, PTL

(* "never a repeat": no step replaces the bill a number was raised for, the  *)
(* commit of a correction made from an old copy included.                    *)
THEOREM NumbersKept == Spec => NumberKept
<1> DEFINE Kept == \A n \in DOMAIN register :
                      n \in DOMAIN register' /\ register'[n].raised = register[n].raised
<1>1. RegisterInv /\ [Next]_vars => [Kept]_vars
    BY NextInv DEF BillsKept
<1> HIDE DEF Kept
<1>2. Spec => [][Kept]_vars
    BY <1>1, Reachable, PTL DEF Spec
<1> QED BY <1>2 DEF NumberKept, Kept

-----------------------------------------------------------------------------
(* Corrections and deletions of one bill: who holds its row, what has been   *)
(* decided about the copy, and which of its files are on their way.          *)

(* What the guard saw of the copy, which nobody changes afterwards.          *)
Guarded(r) ==
    r.op \notin {"generate", "import"} =>
        /\ ~r.copy.deleted
        /\ r.pc # "guard" => r.copy.status = "issued"
        /\ r.pc # "guard" /\ r.op = "delete" => ~r.copy.sent /\ ~r.copy.paid
        /\ r.pc # "guard" /\ r.op = "unmark_paid" => r.copy.paid

(* One transaction has written the row, and a correction removes the lines   *)
(* that are still there when it commits.                                     *)
OneWriter ==
    \A p, q \in Requests :
        HoldsRow(p, requests[p].n) /\ HoldsRow(q, requests[p].n) => p = q

LinesSeen ==
    \A p \in Requests :
        HoldsRow(p, requests[p].n) /\ Does(p, "update") =>
            requests[p].removed = register[requests[p].n].lines

(* A document that was put on the provider and has no committed row yet.     *)
Attaching(r) == r.op # "delete" /\ r.pc \in {"reconcile", "unlink", "retire", "commit"}

(* Documents are filed under the number of their bill.                       *)
FilesInv ==
    /\ \A n \in DOMAIN register : register[n].file.n = n
    /\ \A p \in Requests : requests[p].op \notin {"generate", "import"} =>
          requests[p].copy.file.n = requests[p].n /\ requests[p].copy.file \in DOMAIN files
    /\ \A p \in Requests : Attaching(requests[p]) =>
          /\ requests[p].file.n = requests[p].n
          /\ requests[p].file \in bytes /\ requests[p].file \notin DOMAIN files

Act(p) == Start(p) \/ Touch(p) \/ Step(p) \/ Fail(p)

LEMMA StepPreserves ==
    ASSUME RegisterInv, NEW p \in Requests, Act(p)
    PROVE  RegisterInv' /\ BillsKept
<1>1. Next
    BY DEF Act, Next
<1> QED BY <1>1, NextInv

LEMMA OthersStand ==
    ASSUME RegisterInv, NEW p \in Requests, Act(p)
    PROVE  \A q \in Requests : q # p => requests'[q] = requests[q]
<1>1. requests \in [Requests -> Request]
    BY DEF RegisterInv, TypeInv, TypeOK
<1>2. \E r : requests' = [requests EXCEPT ![p] = r]
    <2>1. ASSUME Start(p) \/ Touch(p) PROVE \E r : requests' = [requests EXCEPT ![p] = r]
        BY <2>1 DEF Start, Touch, StartGenerate, StartImport, Fetch
    <2>2. ASSUME Return(p) PROVE \E r : requests' = [requests EXCEPT ![p] = r]
        BY <2>2 DEF Return
    <2>3. ASSUME NEW pc, Goto(p, pc) PROVE \E r : requests' = [requests EXCEPT ![p] = r]
        <3>1. requests' = [requests EXCEPT ![p] = [requests[p] EXCEPT !.pc = pc]]
            BY <2>3 DEF Goto
        <3> QED BY <3>1
    <2>4. ASSUME Reserve(p) PROVE \E r : requests' = [requests EXCEPT ![p] = r]
        <3> DEFINE last == Larger(counter, HighestSaved) + 1
        <3>1. requests' = [requests EXCEPT ![p] = [requests[p] EXCEPT !.pc = "create", !.n = last, !.last = last]]
            BY <2>4 DEF Reserve
        <3> QED BY <3>1
    <2>5. ASSUME Reconcile(p) PROVE \E r : requests' = [requests EXCEPT ![p] = r]
        <3> DEFINE last == Larger(counter, requests[p].n)
        <3>1. requests' = [requests EXCEPT ![p] = [requests[p] EXCEPT !.pc = "commit", !.last = last]]
            BY <2>5 DEF Reconcile
        <3> QED BY <3>1
    <2>6. ASSUME SaveHeader(p) PROVE \E r : requests' = [requests EXCEPT ![p] = r]
        <3> DEFINE r == [requests[p] EXCEPT !.pc = "store", !.removed = register[requests[p].n].lines]
        <3>1. requests' = [requests EXCEPT ![p] = r]
            BY <2>6 DEF SaveHeader
        <3> QED BY <3>1
    <2>7. ASSUME Store(p) PROVE \E r : requests' = [requests EXCEPT ![p] = r]
        <3> DEFINE key == DedupeKey(requests[p].n, requests[p].month)
                   to == CASE Does(p, "generate") -> "commit"
                           [] Does(p, "import")   -> "reconcile"
                           [] Does(p, "update")   -> "unlink"
        <3>1. CASE Return(p)
            BY <2>2, <3>1
        <3>2. CASE ~Return(p)
            <4>1. requests' = [requests EXCEPT ![p] = [requests[p] EXCEPT !.file = key, !.pc = to]]
                BY <2>7, <3>2 DEF Store
            <4> QED BY <4>1
        <3> QED BY <3>1, <3>2
    <2>8. ASSUME CommitNew(p) \/ CommitUpdate(p) \/ CommitDelete(p) \/ Mark(p) \/ DeadlockVictim(p) \/ Fail(p)
          PROVE  \E r : requests' = [requests EXCEPT ![p] = r]
        BY <2>2, <2>8 DEF CommitNew, CommitUpdate, CommitDelete, Mark, DeadlockVictim, Fail
    <2>9. ASSUME Guard(p) \/ Create(p) \/ Unlink(p) \/ Retire(p) \/ Flag(p)
          PROVE  \E r : requests' = [requests EXCEPT ![p] = r]
        BY <2>2, <2>3, <2>9 DEF Guard, Create, Unlink, Retire, Flag
    <2> QED BY <2>1, <2>4, <2>5, <2>6, <2>7, <2>8, <2>9 DEF Act, Step
<1> QED BY <1>1, <1>2

(* The program point after a Goto, and what stays.                           *)
SameBill(p) ==
    /\ requests'[p].op = requests[p].op /\ requests'[p].n = requests[p].n
    /\ requests'[p].copy = requests[p].copy /\ requests'[p].ticket = requests[p].ticket
    /\ requests'[p].month = requests[p].month

LEMMA Went ==
    ASSUME RegisterInv, NEW p \in Requests, NEW pc, Goto(p, pc)
    PROVE  /\ requests'[p].pc = pc /\ SameBill(p)
           /\ requests'[p].file = requests[p].file /\ requests'[p].removed = requests[p].removed
BY DEF RegisterInv, TypeInv, TypeOK, Request, Goto, SameBill

LEMMA Returned ==
    ASSUME RegisterInv, NEW p \in Requests, Return(p)
    PROVE  requests'[p] = Idle
BY DEF RegisterInv, TypeInv, TypeOK, Return

LEMMA HeaderSaved ==
    ASSUME RegisterInv, NEW p \in Requests, SaveHeader(p)
    PROVE  /\ requests'[p].pc = "store" /\ SameBill(p)
           /\ requests[p].op = "update" /\ requests[p].pc = "header"
           /\ requests'[p].removed = register[requests[p].n].lines
<1>1. requests \in [Requests -> Request] /\ Sound(requests[p])
    BY DEF RegisterInv, TypeInv, TypeOK
<1>2. requests[p].op = "update" /\ requests[p].pc = "header"
    BY <1>1 DEF SaveHeader, Runs, At, Sound, Points
<1> QED BY <1>1, <1>2 DEF SaveHeader, SameBill, Request

(* _dedupe_key answers with a key of the bill's number.                      *)
LEMMA KeyOfBill == \A n, m : DedupeKey(n, m).n = n
BY DEF DedupeKey, DocumentKey

LEMMA DocumentStored ==
    ASSUME RegisterInv, NEW p \in Requests, Store(p), requests'[p] # Idle
    PROVE  /\ SameBill(p) /\ requests'[p].removed = requests[p].removed
           /\ requests[p].pc = "store"
           /\ \/ requests[p].op = "generate" /\ requests'[p].pc = "commit"
              \/ requests[p].op = "import" /\ requests'[p].pc = "reconcile"
              \/ requests[p].op = "update" /\ requests'[p].pc = "unlink"
           /\ requests'[p].file.n = requests[p].n
           /\ requests'[p].file \notin DOMAIN files
           /\ bytes' = bytes \cup {requests'[p].file}
<1> DEFINE key == DedupeKey(requests[p].n, requests[p].month)
           to == CASE Does(p, "generate") -> "commit"
                   [] Does(p, "import")   -> "reconcile"
                   [] Does(p, "update")   -> "unlink"
           r == [requests[p] EXCEPT !.file = key, !.pc = to]
<1>1. requests \in [Requests -> Request] /\ Sound(requests[p])
    BY DEF RegisterInv, TypeInv, TypeOK
<1>2. requests[p].pc = "store" /\ requests[p].op \in {"generate", "import", "update"}
    BY <1>1 DEF Store, Runs, At, Sound, Points
<1>3. ~Return(p)
    BY Returned
<1>4. /\ requests' = [requests EXCEPT ![p] = r]
      /\ key \notin DOMAIN files /\ bytes' = bytes \cup {key}
    BY <1>3 DEF Store
<1>5. /\ requests[p].op = "generate" => to = "commit"
      /\ requests[p].op = "import" => to = "reconcile"
      /\ requests[p].op = "update" => to = "unlink"
    BY DEF Does
<1>6. key.n = requests[p].n
    BY KeyOfBill
<1> HIDE DEF key, to
<1>7. requests'[p] = r
    BY <1>1, <1>4
<1>8. /\ r.pc = to /\ r.file = key /\ r.op = requests[p].op /\ r.n = requests[p].n
      /\ r.copy = requests[p].copy /\ r.ticket = requests[p].ticket /\ r.removed = requests[p].removed
      /\ r.month = requests[p].month
    BY <1>1 DEF Request
<1> HIDE DEF r
<1> QED BY <1>2, <1>4, <1>5, <1>6, <1>7, <1>8 DEF SameBill

LEMMA Begun ==
    ASSUME RegisterInv, NEW p \in Requests, Start(p) \/ Touch(p)
    PROVE  /\ register' = register /\ files' = files /\ bytes' = bytes
           /\ requests[p].pc = "idle"
           /\ \/ requests'[p].op \in {"generate", "import"} /\ requests'[p].pc \in {"reserve", "create"}
              \/ /\ requests'[p].op \notin {"generate", "import"} /\ requests'[p].pc = "guard"
                 /\ requests'[p].n \in DOMAIN register
                 /\ requests'[p].copy = register[requests'[p].n] /\ ~requests'[p].copy.deleted
<1>1. requests \in [Requests -> Request]
    BY DEF RegisterInv, TypeInv, TypeOK
<1>2. ASSUME NEW m, StartGenerate(p, m)
      PROVE  requests'[p].op = "generate" /\ requests'[p].pc = "reserve"
    BY <1>1, <1>2 DEF StartGenerate, Idle
<1>3. ASSUME NEW m, NEW n, StartImport(p, n, m)
      PROVE  requests'[p].op = "import" /\ requests'[p].pc = "create"
    BY <1>1, <1>3 DEF StartImport, Idle
<1>4. ASSUME NEW m, NEW n \in DOMAIN register, NEW op \in Ops \ {"generate", "import"}, Fetch(p, op, n, m)
      PROVE  /\ requests'[p].op \notin {"generate", "import"} /\ requests'[p].pc = "guard"
             /\ requests'[p].n \in DOMAIN register
             /\ requests'[p].copy = register[requests'[p].n] /\ ~requests'[p].copy.deleted
    BY <1>1, <1>4 DEF Fetch, Idle
<1>5. register' = register /\ files' = files /\ bytes' = bytes /\ requests[p].pc = "idle"
    BY DEF Start, Touch, StartGenerate, StartImport, Fetch, At
<1> QED BY <1>2, <1>3, <1>4, <1>5 DEF Start, Touch, Ops

(* A correction, deletion or mark that is not over was at the statement      *)
(* before, and has changed no row.                                           *)
LEMMA Revised ==
    ASSUME RegisterInv, NEW p \in Requests, Step(p) \/ Fail(p),
           requests'[p].op \notin {"generate", "import"}
    PROVE  /\ register' = register /\ files' = files /\ SameBill(p)
           /\ \/ /\ Guard(p) /\ Allows(p) /\ requests'[p].pc \in {"header", "unlink", "mark"}
                 /\ requests'[p].pc = "unlink" => requests[p].op = "delete"
                 /\ bytes' = bytes
              \/ SaveHeader(p) /\ bytes' = bytes
              \/ Store(p) /\ requests'[p] # Idle
              \/ Unlink(p) /\ requests[p].pc = "unlink" /\ requests'[p].pc = "retire"
              \/ /\ Retire(p) /\ requests[p].pc = "retire" /\ bytes' = bytes
                 /\ requests'[p].pc = IF requests[p].op = "update" THEN "commit" ELSE "flag"
              \/ /\ Flag(p) /\ requests[p].pc = "flag" /\ requests'[p].pc = "commit"
                 /\ requests[p].op = "delete" /\ bytes' = bytes
<1>1. requests \in [Requests -> Request] /\ Sound(requests[p])
    BY DEF RegisterInv, TypeInv, TypeOK
<1>2. requests'[p] # Idle /\ ~Return(p)
    BY Returned DEF Idle
<1>3. ~Reserve(p) /\ ~Reconcile(p) /\ ~Create(p)
    <2>1. ASSUME Reserve(p) PROVE FALSE
        <3>1. requests[p].op = "generate"
            BY <1>1, <2>1 DEF Reserve, Runs, At, Sound, Points
        <3>2. requests'[p].op = requests[p].op
            BY <1>1, <2>1 DEF Reserve, Request
        <3> QED BY <3>1, <3>2
    <2>2. ASSUME Reconcile(p) PROVE FALSE
        <3>1. requests[p].op = "import"
            BY <1>1, <2>2 DEF Reconcile, Runs, At, Sound, Points
        <3>2. requests'[p].op = requests[p].op
            BY <1>1, <2>2 DEF Reconcile, Request
        <3> QED BY <3>1, <3>2
    <2>3. ASSUME Create(p) PROVE FALSE
        <3>1. requests[p].op \in {"generate", "import"}
            BY <1>1, <2>3 DEF Create, Runs, At, Sound, Points
        <3>2. requests'[p].op = requests[p].op
            BY <1>2, <2>3, Went DEF Create, SameBill
        <3> QED BY <3>1, <3>2
    <2> QED BY <2>1, <2>2, <2>3
<1>4. CASE Guard(p)
    <2>1. Allows(p)
        BY <1>2, <1>4 DEF Guard
    <2> DEFINE to == CASE Does(p, "update") -> "header"
                       [] Does(p, "delete") -> "unlink"
                       [] OTHER             -> "mark"
    <2>2. Goto(p, to)
        BY <1>4, <2>1 DEF Guard
    <2>3. to \in {"header", "unlink", "mark"} /\ (to = "unlink" => requests[p].op = "delete")
        BY DEF Does
    <2>4. requests'[p].pc = to /\ SameBill(p)
        BY <2>2, Went
    <2> QED BY <1>4, <2>1, <2>3, <2>4 DEF Guard
<1>5. CASE SaveHeader(p)
    BY <1>5, HeaderSaved DEF SaveHeader
<1>6. CASE Store(p)
    BY <1>2, <1>6, DocumentStored DEF Store
<1>7. CASE Unlink(p)
    BY <1>7, Went DEF Unlink, At
<1>8. CASE Retire(p)
    BY <1>8, Went DEF Retire, Runs, At, Does
<1>9. CASE Flag(p)
    <2>1. requests[p].pc = "flag" /\ requests[p].op = "delete"
        BY <1>1, <1>9 DEF Flag, Runs, At, Sound, Points
    <2> QED BY <1>9, <2>1, Went DEF Flag
<1>10. ~(CommitNew(p) \/ CommitUpdate(p) \/ CommitDelete(p) \/ Mark(p) \/ DeadlockVictim(p) \/ Fail(p))
    BY <1>2 DEF CommitNew, CommitUpdate, CommitDelete, Mark, DeadlockVictim, Fail
<1> QED BY <1>3, <1>4, <1>5, <1>6, <1>7, <1>8, <1>9, <1>10 DEF Step

(* A bill that is being raised and has its document.                         *)
LEMMA Raised ==
    ASSUME RegisterInv, NEW p \in Requests, Step(p) \/ Fail(p),
           requests'[p].op \in {"generate", "import"}, requests'[p].pc \in {"reconcile", "commit"}
    PROVE  /\ register' = register /\ files' = files
           /\ requests'[p].op = requests[p].op /\ requests'[p].n = requests[p].n
           /\ \/ Store(p) /\ requests'[p] # Idle
              \/ /\ Reconcile(p) /\ requests[p].pc = "reconcile" /\ requests[p].op = "import"
                 /\ requests'[p].file = requests[p].file /\ bytes' = bytes
<1>1. requests \in [Requests -> Request] /\ Sound(requests[p])
    BY DEF RegisterInv, TypeInv, TypeOK
<1>2. requests'[p] # Idle /\ ~Return(p)
    BY Returned DEF Idle
<1>3. ~Reserve(p) /\ ~Create(p)
    <2>1. ASSUME Reserve(p) PROVE FALSE
        <3>1. requests'[p].pc = "create"
            BY <1>1, <2>1 DEF Reserve, Request
        <3> QED BY <3>1
    <2>2. ASSUME Create(p) PROVE FALSE
        BY <1>2, <2>2, Went DEF Create
    <2> QED BY <2>1, <2>2
<1>4. CASE Reconcile(p)
    <2>1. requests[p].pc = "reconcile" /\ requests[p].op = "import"
        BY <1>1, <1>4 DEF Reconcile, Runs, At, Sound, Points
    <2>2. requests'[p].file = requests[p].file /\ requests'[p].op = requests[p].op /\ requests'[p].n = requests[p].n
        BY <1>1, <1>4 DEF Reconcile, Request
    <2> QED BY <1>4, <2>1, <2>2 DEF Reconcile
<1>5. CASE Store(p)
    BY <1>2, <1>5, DocumentStored DEF Store, SameBill
<1>6. CASE SaveHeader(p)
    BY <1>6, HeaderSaved DEF SameBill
<1>7. CASE Guard(p) \/ Unlink(p) \/ Retire(p) \/ Flag(p)
    <2>1. requests[p].op \notin {"generate", "import"}
        BY <1>1, <1>7 DEF Guard, Unlink, Retire, Flag, Runs, At, Sound, Points
    <2>2. requests'[p].op = requests[p].op
        BY <1>2, <1>7, Went DEF Guard, Unlink, Retire, Flag, SameBill
    <2> QED BY <2>1, <2>2
<1>8. ~(CommitNew(p) \/ CommitUpdate(p) \/ CommitDelete(p) \/ Mark(p) \/ DeadlockVictim(p) \/ Fail(p))
    BY <1>2 DEF CommitNew, CommitUpdate, CommitDelete, Mark, DeadlockVictim, Fail
<1> QED BY <1>3, <1>4, <1>5, <1>6, <1>7, <1>8 DEF Step

-----------------------------------------------------------------------------
(* The guards: DecisionsKept.                                                *)
LEMMA GuardedStep ==
    ASSUME RegisterInv, \A q \in Requests : Guarded(requests[q]), NEW p \in Requests, Act(p)
    PROVE  \A q \in Requests : Guarded(requests'[q])
<1>1. ASSUME Start(p) \/ Touch(p) PROVE Guarded(requests'[p])
    BY <1>1, Begun DEF Guarded
<1>2. ASSUME Step(p) \/ Fail(p), requests'[p].op \notin {"generate", "import"} PROVE Guarded(requests'[p])
    <2>1. SameBill(p)
        BY <1>2, Revised
    <2>2. CASE Guard(p)
        <3>0. requests'[p] # Idle
            BY <1>2 DEF Idle
        <3>1. Allows(p)
            BY <2>2, <3>0, Returned DEF Guard
        <3>2. requests[p].copy.status = "issued"
              /\ (requests[p].op = "delete" => ~requests[p].copy.sent /\ ~requests[p].copy.paid)
              /\ (requests[p].op = "unmark_paid" => requests[p].copy.paid)
            BY <3>1 DEF Allows, Live, Does
        <3> QED BY <2>1, <3>2 DEF Guarded, SameBill
    <2>3. CASE ~Guard(p)
        <3>1. requests[p].pc # "guard"
            BY <1>2, <2>3, Revised, HeaderSaved, DocumentStored
        <3> QED BY <2>1, <3>1 DEF Guarded, SameBill
    <2> QED BY <2>2, <2>3
<1>3. Guarded(requests'[p])
    BY <1>1, <1>2 DEF Act, Guarded
<1> QED BY <1>3, OthersStand

(* A request that writes a row.                                              *)
Writes(p) == CommitNew(p) \/ CommitUpdate(p) \/ CommitDelete(p) \/ Mark(p)

LEMMA RowWritten ==
    ASSUME RegisterInv, NEW p \in Requests, Act(p), register' # register
    PROVE  Writes(p) /\ requests'[p] = Idle
<1>1. Writes(p)
    BY DEF Writes, Act, Start, Touch, Step, StartGenerate, StartImport, Fetch, Guard, Reserve, Create,
           SaveHeader, Store, Reconcile, Unlink, Retire, Flag, DeadlockVictim, Fail
<1>2. Return(p)
    BY <1>1 DEF Writes, CommitNew, CommitUpdate, CommitDelete, Mark
<1> QED BY <1>1, <1>2, Returned

(* The one row a step of p changes, and what becomes of it: in one lemma,    *)
(* then in two that are easier to cite.                                      *)
LEMMA RowEffects ==
    ASSUME RegisterInv, NEW p \in Requests, Writes(p)
    PROVE  /\ \A n \in DOMAIN register : n # requests[p].n => register'[n] = register[n]
           /\ CommitNew(p) =>
                 /\ requests[p].n \notin DOMAIN register
                 /\ requests[p].op \in {"generate", "import"} /\ requests[p].pc = "commit"
                 /\ DOMAIN register' = DOMAIN register \cup {requests[p].n}
                 /\ register'[requests[p].n].lines = {register'[requests[p].n].figures}
                 /\ register'[requests[p].n].file = requests[p].file
           /\ ~CommitNew(p) =>
                 /\ DOMAIN register' = DOMAIN register /\ requests[p].n \in DOMAIN register
                 /\ requests[p].op \notin {"generate", "import"} /\ requests[p].pc \in {"commit", "mark"}
           /\ CommitUpdate(p) =>
                 /\ requests[p].op = "update" /\ requests[p].pc = "commit"
                 /\ register'[requests[p].n].figures = requests[p].ticket
                 /\ register'[requests[p].n].lines =
                       (register[requests[p].n].lines \ requests[p].removed) \cup {requests[p].ticket}
                 /\ register'[requests[p].n].file = requests[p].file
                 /\ register'[requests[p].n].deleted = requests[p].copy.deleted
                 /\ register'[requests[p].n].status = requests[p].copy.status
                 /\ register'[requests[p].n].sent = requests[p].copy.sent
                 /\ register'[requests[p].n].paid = requests[p].copy.paid
           /\ CommitDelete(p) \/ Mark(p) =>
                 /\ register'[requests[p].n].figures = register[requests[p].n].figures
                 /\ register'[requests[p].n].lines = register[requests[p].n].lines
                 /\ register'[requests[p].n].file = register[requests[p].n].file
                 /\ register[requests[p].n].status = "cancelled" => register'[requests[p].n].status = "cancelled"
                 /\ register[requests[p].n].sent => register'[requests[p].n].sent
                 /\ register[requests[p].n].paid /\ ~register'[requests[p].n].paid => requests[p].op = "unmark_paid"
           /\ Mark(p) =>
                 /\ register'[requests[p].n].deleted = register[requests[p].n].deleted
                 /\ requests[p].pc = "mark"
           /\ CommitDelete(p) =>
                 /\ register'[requests[p].n].deleted
                 /\ requests[p].op = "delete" /\ requests[p].pc = "commit"
<1> DEFINE r == requests[p]
           old == register[r.n]
<1>1. /\ r \in Request /\ Sound(r) /\ register \in [DOMAIN register -> Row]
      /\ requests \in [Requests -> Request]
    BY DEF RegisterInv, TypeInv, TypeOK
<1>2. CommitNew(p) \/ CommitUpdate(p) \/ CommitDelete(p) \/ Mark(p)
    BY DEF Writes
<1>3. CASE CommitNew(p)
    <2>1. r.op \in {"generate", "import"} /\ r.pc = "commit"
        BY <1>3 DEF CommitNew, At
    <2>2. HoldsNumber(p, r.n)
        BY <2>1 DEF HoldsNumber
    <2>3. r.n \notin DOMAIN register
        BY <2>2 DEF RegisterInv, UniqueInv
    <2>4. register' = Put(register, r.n, NewRow(p))
        BY <1>3 DEF CommitNew
    <2>5. NewRow(p).lines = {NewRow(p).figures} /\ NewRow(p).file = r.file
        BY DEF NewRow
    <2>6. /\ DOMAIN register' = DOMAIN register \cup {r.n} /\ register'[r.n] = NewRow(p)
          /\ \A n \in DOMAIN register : n # r.n => register'[n] = register[n]
        BY <2>4 DEF Put
    <2>7. ~CommitUpdate(p) /\ ~CommitDelete(p) /\ ~Mark(p)
        BY <2>1 DEF CommitUpdate, CommitDelete, Mark, Does, Runs, At
    <2> QED BY <1>3, <2>1, <2>3, <2>5, <2>6, <2>7
<1>4. CASE CommitUpdate(p) \/ CommitDelete(p) \/ Mark(p)
    <2>1. r.op \notin {"generate", "import"} /\ r.pc \in {"commit", "mark"}
        BY <1>1, <1>4 DEF CommitUpdate, CommitDelete, Mark, Does, Runs, At, Sound, Points
    <2>2. r.n \in DOMAIN register /\ r.copy \in Row
        BY <1>1, <2>1 DEF Sound
    <2>3. old \in Row
        BY <1>1, <2>2
    <2>4. ~CommitNew(p)
        BY <2>1 DEF CommitNew
    <2>5. ASSUME NEW row, register' = [register EXCEPT ![r.n] = row]
          PROVE  /\ DOMAIN register' = DOMAIN register /\ register'[r.n] = row
                 /\ \A n \in DOMAIN register : n # r.n => register'[n] = register[n]
        BY <1>1, <2>2, <2>5
    <2>6. CASE CommitUpdate(p)
        <3> DEFINE row == [r.copy EXCEPT !.month = r.month, !.figures = r.ticket, !.file = r.file,
                               !.lines = (old.lines \ r.removed) \cup {r.ticket}]
        <3>1. register' = [register EXCEPT ![r.n] = row]
            BY <2>6 DEF CommitUpdate
        <3>2. /\ row.figures = r.ticket /\ row.file = r.file /\ row.deleted = r.copy.deleted
              /\ row.status = r.copy.status /\ row.sent = r.copy.sent /\ row.paid = r.copy.paid
              /\ row.lines = (old.lines \ r.removed) \cup {r.ticket}
            BY <2>2 DEF Row
        <3> HIDE DEF row
        <3>3. /\ DOMAIN register' = DOMAIN register /\ register'[r.n] = row
              /\ \A n \in DOMAIN register : n # r.n => register'[n] = register[n]
            BY <2>5, <3>1
        <3>4. r.op = "update" /\ r.pc = "commit" /\ ~CommitDelete(p) /\ ~Mark(p)
            BY <2>6 DEF CommitUpdate, CommitDelete, Mark, Does, Runs, At
        <3> QED BY <2>1, <2>2, <2>4, <3>2, <3>3, <3>4
    <2>7. CASE CommitDelete(p)
        <3> DEFINE row == [old EXCEPT !.deleted = TRUE]
        <3>1. register' = [register EXCEPT ![r.n] = row]
            BY <1>1, <2>2, <2>7 DEF CommitDelete
        <3>2. /\ row.figures = old.figures /\ row.lines = old.lines /\ row.file = old.file /\ row.deleted
              /\ row.status = old.status /\ row.sent = old.sent /\ row.paid = old.paid
            BY <2>3 DEF Row
        <3> HIDE DEF row
        <3>3. /\ DOMAIN register' = DOMAIN register /\ register'[r.n] = row
              /\ \A n \in DOMAIN register : n # r.n => register'[n] = register[n]
            BY <2>5, <3>1
        <3>4. r.op = "delete" /\ r.pc = "commit" /\ ~CommitUpdate(p) /\ ~Mark(p)
            BY <2>7 DEF CommitUpdate, CommitDelete, Mark, Does, Runs, At
        <3> QED BY <2>1, <2>2, <2>4, <3>2, <3>3, <3>4
    <2>8. CASE Mark(p)
        <3>1. r.op \in {"cancel", "mark_sent", "mark_paid", "unmark_paid"} /\ r.pc = "mark"
            BY <1>1, <2>8 DEF Mark, Runs, At, Request, Ops, Sound, Points
        <3>2. ~CommitUpdate(p) /\ ~CommitDelete(p)
            BY <3>1 DEF CommitUpdate, CommitDelete, At
        <3> DEFINE Marked(row) ==
                      /\ register' = [register EXCEPT ![r.n] = row]
                      /\ row.figures = old.figures /\ row.lines = old.lines /\ row.file = old.file
                      /\ row.deleted = old.deleted
                      /\ old.status = "cancelled" => row.status = "cancelled"
                      /\ old.sent => row.sent
                      /\ old.paid /\ ~row.paid => r.op = "unmark_paid"
        <3>3. \E row : Marked(row)
            <4>2. CASE Does(p, "cancel")
                <5>1. register' = [register EXCEPT ![r.n] = [old EXCEPT !.status = "cancelled"]]
                    BY <1>1, <2>2, <2>8, <4>2 DEF Mark, Does
                <5>2. Marked([old EXCEPT !.status = "cancelled"])
                    BY <2>3, <5>1 DEF Row
                <5> QED BY <5>2
            <4>3. CASE Does(p, "mark_sent")
                <5>1. register' = [register EXCEPT ![r.n] = [old EXCEPT !.sent = TRUE]]
                    BY <1>1, <2>2, <2>8, <4>3 DEF Mark, Does
                <5>2. Marked([old EXCEPT !.sent = TRUE])
                    BY <2>3, <5>1 DEF Row
                <5> QED BY <5>2
            <4>4. CASE Does(p, "mark_paid")
                <5>1. register' = [register EXCEPT ![r.n] = [old EXCEPT !.paid = TRUE]]
                    BY <1>1, <2>2, <2>8, <4>4 DEF Mark, Does
                <5>2. Marked([old EXCEPT !.paid = TRUE])
                    BY <2>3, <5>1 DEF Row
                <5> QED BY <5>2
            <4>5. CASE Does(p, "unmark_paid")
                <5>1. register' = [register EXCEPT ![r.n] = [old EXCEPT !.paid = FALSE]]
                    BY <1>1, <2>2, <2>8, <4>5 DEF Mark, Does
                <5>2. Marked([old EXCEPT !.paid = FALSE])
                    BY <2>3, <4>5, <5>1 DEF Row, Does
                <5> QED BY <5>2
            <4> HIDE DEF Marked
            <4> QED BY <3>1, <4>2, <4>3, <4>4, <4>5 DEF Does
        <3>4. PICK row : Marked(row)
            BY <3>3
        <3>5. /\ DOMAIN register' = DOMAIN register /\ register'[r.n] = row
              /\ \A n \in DOMAIN register : n # r.n => register'[n] = register[n]
            BY <2>5, <3>4
        <3> QED BY <2>1, <2>2, <2>4, <3>1, <3>2, <3>4, <3>5
    <2> QED BY <1>4, <2>6, <2>7, <2>8
<1> QED BY <1>2, <1>3, <1>4

LEMMA OneRow ==
    ASSUME RegisterInv, NEW p \in Requests, Writes(p)
    PROVE  /\ \A n \in DOMAIN register : n # requests[p].n => register'[n] = register[n]
           /\ CommitNew(p) =>
                 /\ requests[p].n \notin DOMAIN register
                 /\ requests[p].op \in {"generate", "import"} /\ requests[p].pc = "commit"
                 /\ DOMAIN register' = DOMAIN register \cup {requests[p].n}
                 /\ register'[requests[p].n].lines = {register'[requests[p].n].figures}
                 /\ register'[requests[p].n].file = requests[p].file
           /\ ~CommitNew(p) =>
                 /\ DOMAIN register' = DOMAIN register /\ requests[p].n \in DOMAIN register
                 /\ requests[p].op \notin {"generate", "import"} /\ requests[p].pc \in {"commit", "mark"}
           /\ CommitUpdate(p) =>
                 /\ requests[p].op = "update" /\ requests[p].pc = "commit"
                 /\ register'[requests[p].n].figures = requests[p].ticket
                 /\ register'[requests[p].n].lines =
                       (register[requests[p].n].lines \ requests[p].removed) \cup {requests[p].ticket}
                 /\ register'[requests[p].n].file = requests[p].file
                 /\ register'[requests[p].n].deleted = requests[p].copy.deleted
           /\ CommitDelete(p) \/ Mark(p) =>
                 /\ register'[requests[p].n].figures = register[requests[p].n].figures
                 /\ register'[requests[p].n].lines = register[requests[p].n].lines
                 /\ register'[requests[p].n].file = register[requests[p].n].file
           /\ Mark(p) =>
                 /\ register'[requests[p].n].deleted = register[requests[p].n].deleted
                 /\ requests[p].pc = "mark"
           /\ CommitDelete(p) =>
                 /\ register'[requests[p].n].deleted
                 /\ requests[p].op = "delete" /\ requests[p].pc = "commit"
BY RowEffects

LEMMA DecisionsWritten ==
    ASSUME RegisterInv, NEW p \in Requests, Writes(p)
    PROVE  /\ CommitUpdate(p) =>
                 /\ requests[p].op = "update"
                 /\ register'[requests[p].n].deleted = requests[p].copy.deleted
                 /\ register'[requests[p].n].status = requests[p].copy.status
                 /\ register'[requests[p].n].sent = requests[p].copy.sent
                 /\ register'[requests[p].n].paid = requests[p].copy.paid
           /\ CommitDelete(p) \/ Mark(p) =>
                 /\ register[requests[p].n].status = "cancelled" => register'[requests[p].n].status = "cancelled"
                 /\ register[requests[p].n].sent => register'[requests[p].n].sent
                 /\ register[requests[p].n].paid /\ ~register'[requests[p].n].paid => requests[p].op = "unmark_paid"
BY RowEffects

(* A step that leaves the requests alone: the period locks and stuttering.   *)
LEMMA StepsOfOne ==
    ASSUME [Next]_vars
    PROVE  \/ \E p \in Requests : Act(p)
           \/ UNCHANGED <<counter, register, files, bytes, requests>>
<1>1. (\E m \in Months : LockPeriod(m) \/ UnlockPeriod(m)) \/ UNCHANGED vars
          => UNCHANGED <<counter, register, files, bytes, requests>>
    BY DEF LockPeriod, UnlockPeriod, vars
<1> QED BY <1>1 DEF Next, Rest, Act

AllGuarded == \A p \in Requests : Guarded(requests[p])

LEMMA GuardedInvariant == Spec => []AllGuarded
<1>1. Init => AllGuarded
    BY DEF Init, AllGuarded, Guarded, Idle
<1>2. RegisterInv /\ AllGuarded /\ [Next]_vars => AllGuarded'
    <2> SUFFICES ASSUME RegisterInv, AllGuarded, [Next]_vars PROVE AllGuarded'
        OBVIOUS
    <2>1. ASSUME NEW p \in Requests, Act(p) PROVE AllGuarded'
        BY <2>1, GuardedStep DEF AllGuarded
    <2>2. CASE UNCHANGED <<counter, register, files, bytes, requests>>
        BY <2>2 DEF AllGuarded
    <2> QED BY <2>1, <2>2, StepsOfOne
<1> QED BY <1>1, <1>2, Reachable, PTL DEF Spec

(* What was decided about a bill stands: it is cancelled, sent or paid, or   *)
(* deleted, until a correction writes back a copy that is older, or the      *)
(* payment is taken back by the request for it; nothing else, however the    *)
(* requests overlap, changes a cancelled bill, and a deletion rests on a     *)
(* copy that was neither sent nor paid nor cancelled.                        *)
THEOREM DecisionsStand == Spec => DecisionsKept
<1> DEFINE Stands(n) ==
       LET row  == register[n]
           next == register'[n]
       IN
       /\ row.status = "cancelled" /\ next # row =>
             \E p \in Requests, op \in Ops : Saves(p, n, op) /\ requests[p].copy.status = "issued"
       /\ row.status = "cancelled" /\ next.status # "cancelled" =>
             \E p \in Requests : Saves(p, n, "update") /\ requests[p].copy.status = "issued"
       /\ row.deleted /\ ~next.deleted =>
             \E p \in Requests : Saves(p, n, "update") /\ ~requests[p].copy.deleted
       /\ row.sent /\ ~next.sent =>
             \E p \in Requests : Saves(p, n, "update") /\ ~requests[p].copy.sent
       /\ row.paid /\ ~next.paid =>
             \E p \in Requests : \/ Saves(p, n, "update") /\ ~requests[p].copy.paid
                                 \/ Saves(p, n, "unmark_paid") /\ requests[p].copy.paid
       /\ ~row.deleted /\ next.deleted =>
             \E p \in Requests : /\ Saves(p, n, "delete") /\ requests[p].copy.status = "issued"
                                 /\ ~requests[p].copy.sent /\ ~requests[p].copy.paid
<1>1. ASSUME RegisterInv, AllGuarded, [Next]_vars, NEW n \in DOMAIN register PROVE Stands(n)
    <2>1. CASE register'[n] = register[n]
        BY <2>1
    <2>2. CASE register'[n] # register[n]
        <3>1. PICK p \in Requests : Act(p)
            BY <1>1, <2>2, StepsOfOne
        <3>2. requests[p].n = n /\ ~CommitNew(p)
            BY <1>1, <2>2, <3>1, RowWritten, OneRow
        <3>3. requests[p].pc \in {"commit", "mark"} /\ requests[p].op \notin {"generate", "import"}
            BY <1>1, <2>2, <3>1, <3>2, RowWritten, OneRow
        <3>4. requests'[p] # requests[p] /\ requests[p].op \in Ops
            <4>1. requests[p] \in Request
                BY <1>1 DEF RegisterInv, TypeInv, TypeOK
            <4>2. requests'[p] = Idle
                BY <1>1, <2>2, <3>1, RowWritten
            <4>3. Idle.pc = "idle"
                BY DEF Idle
            <4> QED BY <3>3, <4>1, <4>2, <4>3 DEF Request
        <3>5. Saves(p, n, requests[p].op)
            BY <3>2, <3>4 DEF Saves, Does
        <3>6. /\ requests[p].copy.status = "issued" /\ ~requests[p].copy.deleted
              /\ requests[p].op = "delete" => ~requests[p].copy.sent /\ ~requests[p].copy.paid
              /\ requests[p].op = "unmark_paid" => requests[p].copy.paid
            BY <1>1, <3>3 DEF AllGuarded, Guarded
        <3>7. register[n] \in Row /\ Writes(p)
            BY <1>1, <2>2, <3>1, RowWritten DEF RegisterInv, TypeInv, TypeOK
        <3>8. CASE CommitUpdate(p)
            <4>1. /\ requests[p].op = "update"
                  /\ register'[n].deleted = requests[p].copy.deleted
                  /\ register'[n].status = requests[p].copy.status
                  /\ register'[n].sent = requests[p].copy.sent
                  /\ register'[n].paid = requests[p].copy.paid
                BY <1>1, <3>2, <3>7, <3>8, DecisionsWritten
            <4>2. Saves(p, n, "update")
                BY <3>5, <4>1
            <4>3. requests[p].copy.status = "issued" /\ ~register'[n].deleted
                BY <3>6, <4>1
            <4>4. \E q \in Requests, op \in Ops : Saves(q, n, op) /\ requests[q].copy.status = "issued"
                BY <3>4, <3>5, <4>3
            <4>5. ~register'[n].sent => ~requests[p].copy.sent
                BY <4>1
            <4>6. ~register'[n].paid => ~requests[p].copy.paid
                BY <4>1
            <4> QED BY <3>6, <4>2, <4>3, <4>4, <4>5, <4>6
        <3>9. CASE CommitDelete(p) \/ Mark(p)
            <4>1. /\ register[n].status = "cancelled" => register'[n].status = "cancelled"
                  /\ register[n].sent => register'[n].sent
                  /\ register[n].paid /\ ~register'[n].paid => requests[p].op = "unmark_paid"
                BY <1>1, <3>2, <3>7, <3>9, DecisionsWritten
            <4>2. \/ register'[n].deleted /\ requests[p].op = "delete"
                  \/ register'[n].deleted = register[n].deleted
                BY <1>1, <3>2, <3>7, <3>9, OneRow
            <4> QED BY <3>4, <3>5, <3>6, <4>1, <4>2
        <3> QED BY <3>2, <3>7, <3>8, <3>9 DEF Writes
    <2> QED BY <2>1, <2>2
<1> HIDE DEF Stands
<1>2. RegisterInv /\ AllGuarded /\ [Next]_vars => [\A n \in DOMAIN register : Stands(n)]_vars
    BY <1>1
<1>3. Spec => [][\A n \in DOMAIN register : Stands(n)]_vars
    BY <1>2, Reachable, GuardedInvariant, PTL DEF Spec
<1> QED BY <1>3 DEF DecisionsKept, Stands

-----------------------------------------------------------------------------
(* The lines: LinesMatchHeader.                                              *)

(* A request takes a row only when nobody has it, and by one of two          *)
(* statements: it goes on holding it, or it saves the header, or it flags.   *)
LEMMA RowTaken ==
    ASSUME RegisterInv, NEW p \in Requests, Act(p), HoldsRow(p, requests[p].n)'
    PROVE  /\ requests'[p].n = requests[p].n /\ requests'[p].op = requests[p].op
           /\ register' = register
           /\ \/ HoldsRow(p, requests[p].n) /\ requests'[p].removed = requests[p].removed
              \/ /\ \A q \in Requests : q # p => ~HoldsRow(q, requests[p].n)
                 /\ Does(p, "update") => requests'[p].removed = register[requests[p].n].lines
<1> DEFINE n == requests[p].n
<1>1. /\ requests'[p].op \in {"update", "delete"}
      /\ requests'[p].op = "update" => requests'[p].pc \in {"store", "unlink", "retire", "commit"}
      /\ requests'[p].op = "delete" => requests'[p].pc = "commit"
    BY DEF HoldsRow, Does, At
<1>2. Step(p) \/ Fail(p)
    BY <1>1, Begun DEF Act
<1>3. register' = register /\ SameBill(p)
    BY <1>1, <1>2, Revised
<1>4. n = requests'[p].n /\ requests[p].op = requests'[p].op
    BY <1>3 DEF SameBill
<1>5. CASE SaveHeader(p)
    <2>1. requests[p].pc = "header" /\ \A q \in Requests : ~WaitsFor(p, q)
        BY <1>5, HeaderSaved DEF SaveHeader, Runs
    <2>2. \A q \in Requests : q # p => ~HoldsRow(q, n)
        BY <2>1 DEF WaitsFor
    <2> QED BY <1>3, <1>4, <1>5, <2>2, HeaderSaved
<1>6. CASE Flag(p)
    <2>1. requests[p].pc = "flag" /\ requests[p].op = "delete" /\ \A q \in Requests : ~WaitsFor(p, q)
        BY <1>1, <1>2, <1>6, Went DEF Flag, Runs, At, RegisterInv, TypeInv, Sound, Points
    <2>2. \A q \in Requests : q # p => ~HoldsRow(q, n)
        BY <2>1 DEF WaitsFor
    <2> QED BY <1>3, <1>4, <2>1, <2>2 DEF Does
<1>7. CASE Store(p) /\ requests'[p] # Idle
    <2>1. requests[p].pc = "store" /\ requests[p].op = "update"
          /\ requests'[p].removed = requests[p].removed
        BY <1>1, <1>4, <1>7, DocumentStored
    <2> QED BY <1>3, <1>4, <2>1 DEF HoldsRow, Does
<1>8. CASE Unlink(p) /\ requests[p].pc = "unlink" /\ requests'[p].pc = "retire"
    <2>1. requests[p].op = "update" /\ requests'[p].removed = requests[p].removed
        BY <1>1, <1>4, <1>8, Went DEF Unlink
    <2> QED BY <1>3, <1>4, <1>8, <2>1 DEF HoldsRow, Does
<1>9. CASE /\ Retire(p) /\ requests[p].pc = "retire"
           /\ requests'[p].pc = IF requests[p].op = "update" THEN "commit" ELSE "flag"
    <2>1. requests[p].op = "update" /\ requests'[p].removed = requests[p].removed
        BY <1>1, <1>4, <1>9, Went DEF Retire
    <2> QED BY <1>3, <1>4, <1>9, <2>1 DEF HoldsRow, Does
<1>10. ASSUME Guard(p), Allows(p), requests'[p].pc \in {"header", "unlink", "mark"},
              requests'[p].pc = "unlink" => requests[p].op = "delete"
       PROVE  FALSE
    BY <1>1, <1>4, <1>10
<1> QED BY <1>1, <1>2, <1>5, <1>6, <1>7, <1>8, <1>9, <1>10, Revised

LinesInv == OneWriter /\ LinesSeen /\ LinesMatchHeader

LEMMA OneWriterStep ==
    ASSUME RegisterInv, LinesInv, NEW p \in Requests, Act(p)
    PROVE  OneWriter'
<1>1. \A q \in Requests : q # p => requests'[q] = requests[q]
    BY OthersStand
<1>2. ASSUME NEW q \in Requests, NEW n, q # p PROVE HoldsRow(q, n)' <=> HoldsRow(q, n)
    BY <1>1, <1>2 DEF HoldsRow, Does, At
<1>3. ASSUME NEW q \in Requests, q # p,
             HoldsRow(p, requests[p].n)', HoldsRow(q, requests[p].n)'
      PROVE  FALSE
    <2>1. requests'[p].n = requests[p].n
        BY <1>3, RowTaken
    <2>2. HoldsRow(q, requests[p].n)
        BY <1>2, <1>3, <2>1
    <2>3. HoldsRow(p, requests[p].n)
        BY <1>3, <2>2, RowTaken
    <2> QED BY <1>3, <2>2, <2>3 DEF LinesInv, OneWriter
<1>4. ASSUME NEW a \in Requests, NEW b \in Requests,
             HoldsRow(a, requests[a].n)', HoldsRow(b, requests[a].n)'
      PROVE  a = b
    <2>1. requests'[b].n = requests'[a].n
        BY <1>4 DEF HoldsRow
    <2>2. HoldsRow(b, requests[b].n)'
        BY <1>4, <2>1 DEF HoldsRow, Does, At
    <2>3. HoldsRow(a, requests[b].n)'
        BY <1>4, <2>1 DEF HoldsRow, Does, At
    <2>4. CASE a = p \/ b = p
        BY <1>3, <1>4, <2>2, <2>3, <2>4
    <2>5. CASE a # p /\ b # p
        BY <1>1, <1>2, <1>4, <2>5 DEF LinesInv, OneWriter
    <2> QED BY <2>4, <2>5
<1> QED BY <1>4 DEF OneWriter

(* While a correction holds its row, nobody changes the lines.               *)
LEMMA LinesSeenStep ==
    ASSUME RegisterInv, LinesInv, NEW p \in Requests, Act(p)
    PROVE  LinesSeen'
<1> SUFFICES ASSUME NEW q \in Requests, HoldsRow(q, requests[q].n)', Does(q, "update")'
             PROVE  requests'[q].removed = register'[requests'[q].n].lines
    BY DEF LinesSeen
<1>1. CASE q = p
    <2>1. /\ requests'[p].n = requests[p].n /\ register' = register /\ Does(p, "update")
        BY <1>1, RowTaken DEF Does
    <2>2. CASE HoldsRow(p, requests[p].n) /\ requests'[p].removed = requests[p].removed
        BY <1>1, <2>1, <2>2 DEF LinesInv, LinesSeen
    <2> QED BY <1>1, <2>1, <2>2, RowTaken
<1>2. CASE q # p
    <2>1. requests'[q] = requests[q]
        BY <1>2, OthersStand
    <2>2. HoldsRow(q, requests[q].n) /\ Does(q, "update")
        BY <2>1 DEF HoldsRow, Does, At
    <2>3. requests[q].removed = register[requests[q].n].lines
        BY <2>2 DEF LinesInv, LinesSeen
    <2>4. requests[q].n \in DOMAIN register
        BY <2>2 DEF RegisterInv, TypeInv, Sound, Does
    <2>5. register'[requests[q].n].lines = register[requests[q].n].lines
        <3>1. CASE register' = register
            BY <3>1
        <3>2. CASE register' # register /\ requests[p].n # requests[q].n
            BY <2>4, <3>2, RowWritten, OneRow
        <3>3. CASE register' # register /\ requests[p].n = requests[q].n
            <4>1. ~CommitNew(p)
                BY <2>4, <3>3, RowWritten, OneRow
            <4>2. ~CommitUpdate(p)
                <5> SUFFICES ASSUME CommitUpdate(p) PROVE FALSE
                    OBVIOUS
                <5>1. HoldsRow(p, requests[q].n)
                    BY <3>3, RowWritten, OneRow DEF HoldsRow, Does
                <5> QED BY <1>2, <2>2, <5>1 DEF LinesInv, OneWriter
            <4> QED BY ZenonT(30), <3>3, <4>1, <4>2, RowWritten, OneRow DEF Writes
        <3> QED BY <3>1, <3>2, <3>3
    <2> QED BY <2>1, <2>3, <2>5
<1> QED BY <1>1, <1>2

LEMMA LinesMatchStep ==
    ASSUME RegisterInv, LinesInv, NEW p \in Requests, Act(p)
    PROVE  LinesMatchHeader'
<1> DEFINE i == requests[p].n
<1>1. CASE register' = register
    BY <1>1 DEF LinesInv, LinesMatchHeader
<1>2. CASE register' # register
    <2>1. ASSUME NEW n \in DOMAIN register', n # i PROVE register'[n].lines = {register'[n].figures}
        <3>1. n \in DOMAIN register
            BY <1>2, <2>1, RowWritten, OneRow
        <3>2. register'[n] = register[n]
            BY <1>2, <2>1, <3>1, RowWritten, OneRow
        <3> QED BY <3>1, <3>2 DEF LinesInv, LinesMatchHeader
    <2>2. CASE CommitNew(p)
        BY <1>2, <2>1, <2>2, RowWritten, OneRow DEF LinesMatchHeader
    <2>3. CASE CommitUpdate(p)
        <3>1. HoldsRow(p, i) /\ Does(p, "update")
            BY <1>2, <2>3, RowWritten, OneRow DEF HoldsRow, Does
        <3>2. requests[p].removed = register[i].lines
            BY <3>1 DEF LinesInv, LinesSeen
        <3>3. register'[i].lines = {register'[i].figures}
            BY <1>2, <2>3, <3>2, RowWritten, OneRow
        <3> QED BY <2>1, <3>3 DEF LinesMatchHeader
    <2>4. CASE ~CommitNew(p) /\ (CommitDelete(p) \/ Mark(p))
        <3>1. i \in DOMAIN register
            BY <1>2, <2>4, RowWritten, OneRow
        <3>2. register'[i].lines = {register'[i].figures}
            BY <1>2, <2>4, <3>1, RowWritten, OneRow DEF LinesInv, LinesMatchHeader
        <3> QED BY <2>1, <3>2 DEF LinesMatchHeader
    <2> QED BY <1>2, <2>2, <2>3, <2>4, RowWritten DEF Writes
<1> QED BY <1>1, <1>2

LEMMA LinesInvariant == Spec => []LinesInv
<1>1. Init => LinesInv
    BY DEF Init, LinesInv, OneWriter, LinesSeen, LinesMatchHeader, HoldsRow, Does, At, Idle
<1>2. RegisterInv /\ LinesInv /\ [Next]_vars => LinesInv'
    <2> SUFFICES ASSUME RegisterInv, LinesInv, [Next]_vars PROVE LinesInv'
        OBVIOUS
    <2>1. ASSUME NEW p \in Requests, Act(p) PROVE LinesInv'
        BY <2>1, OneWriterStep, LinesSeenStep, LinesMatchStep DEF LinesInv
    <2>2. CASE UNCHANGED <<counter, register, files, bytes, requests>>
        BY <2>2 DEF LinesInv, OneWriter, LinesSeen, LinesMatchHeader, HoldsRow, Does, At
    <2> QED BY <2>1, <2>2, StepsOfOne
<1> QED BY <1>1, <1>2, Reachable, PTL DEF Spec

(* The lines of every bill are those of the request that wrote its totals:   *)
(* saving the header first takes the row, so that of two corrections the     *)
(* second sees, and removes, the lines the first one left.                   *)
THEOREM LinesAgree == Spec => []LinesMatchHeader
<1>1. LinesInv => LinesMatchHeader
    BY DEF LinesInv
<1> QED BY <1>1, LinesInvariant, PTL

-----------------------------------------------------------------------------
(* The documents: DocumentsKept.                                             *)

(* The files a commit touches.                                               *)
LEMMA FilesWritten ==
    ASSUME RegisterInv, NEW p \in Requests, Writes(p),
           requests[p].file \notin DOMAIN files \/ CommitDelete(p) \/ Mark(p),
           requests[p].copy.file \in DOMAIN files \/ CommitNew(p) \/ Mark(p)
    PROVE  /\ bytes' = bytes /\ DOMAIN files \subseteq DOMAIN files'
           /\ DOMAIN files' \subseteq DOMAIN files \cup {requests[p].file}
           /\ CommitDelete(p) \/ Mark(p) => DOMAIN files' = DOMAIN files
           /\ \A k \in DOMAIN files :
                 CommitNew(p) \/ Mark(p) \/ k # requests[p].copy.file => files'[k] = files[k]
           /\ CommitNew(p) \/ CommitUpdate(p) =>
                 requests[p].file \in DOMAIN files' /\ files'[requests[p].file] = "live"
<1>1. CASE CommitNew(p)
    <2>1. files' = Put(files, requests[p].file, "live") /\ bytes' = bytes
        BY <1>1 DEF CommitNew
    <2>2. ~CommitDelete(p) /\ ~Mark(p)
        BY <1>1 DEF CommitNew, CommitDelete, Mark, Does, Runs, At
    <2> QED BY <1>1, <2>1, <2>2 DEF Put
<1>2. CASE CommitUpdate(p)
    <2>1. files' = Put(Put(files, requests[p].file, "live"), requests[p].copy.file, "deleted") /\ bytes' = bytes
        BY <1>2 DEF CommitUpdate, Superseded
    <2>2. ~CommitDelete(p) /\ ~Mark(p) /\ ~CommitNew(p)
        BY <1>2 DEF CommitUpdate, CommitNew, CommitDelete, Mark, Does, Runs, At
    <2> QED BY <1>2, <2>1, <2>2 DEF Put
<1>3. CASE CommitDelete(p)
    <2>1. files' = Put(files, requests[p].copy.file, "deleted") /\ bytes' = bytes
        BY <1>3 DEF CommitDelete, Superseded
    <2>2. ~CommitUpdate(p) /\ ~Mark(p) /\ ~CommitNew(p)
        BY <1>3 DEF CommitUpdate, CommitNew, CommitDelete, Mark, Does, Runs, At
    <2> QED BY <1>3, <2>1, <2>2 DEF Put
<1>4. CASE Mark(p)
    <2>1. ~CommitUpdate(p) /\ ~CommitDelete(p) /\ ~CommitNew(p)
        BY <1>4 DEF CommitUpdate, CommitNew, CommitDelete, Mark, Does, Runs, At
    <2> QED BY <1>4, <2>1 DEF Mark
<1> QED BY <1>1, <1>2, <1>3, <1>4 DEF Writes

(* Two documents on their way never go by the same key.                      *)
LEMMA OneAttaches ==
    ASSUME RegisterInv, LinesInv, NEW p \in Requests, NEW q \in Requests,
           Attaching(requests[p]), Attaching(requests[q]), requests[p].n = requests[q].n
    PROVE  p = q
<1>1. ASSUME NEW r \in Requests, Attaching(requests[r])
      PROVE  \/ HoldsNumber(r, requests[r].n) /\ requests[r].n \notin DOMAIN register
             \/ HoldsRow(r, requests[r].n) /\ requests[r].n \in DOMAIN register
    <2>1. requests[r] \in Request /\ Sound(requests[r])
        BY DEF RegisterInv, TypeInv, TypeOK
    <2>2. requests[r].op \in {"generate", "import", "update"}
        BY <1>1, <2>1 DEF Attaching, Request, Ops, Sound, Points
    <2>3. CASE requests[r].op = "update"
        BY <1>1, <2>1, <2>3 DEF Attaching, Sound, Points, HoldsRow, Does
    <2>4. CASE requests[r].op \in {"generate", "import"}
        <3>1. HoldsNumber(r, requests[r].n)
            BY <1>1, <2>1, <2>4 DEF Attaching, Sound, Points, HoldsNumber
        <3> QED BY <3>1 DEF RegisterInv, UniqueInv
    <2> QED BY <2>2, <2>3, <2>4
<1>2. CASE HoldsNumber(p, requests[p].n)
    BY <1>1, <1>2 DEF RegisterInv, UniqueInv
<1>3. CASE HoldsRow(p, requests[p].n) /\ requests[p].n \in DOMAIN register
    BY <1>1, <1>3 DEF LinesInv, OneWriter
<1> QED BY <1>1, <1>2, <1>3

(* What a writer has: the document it puts on record is its own.             *)
LEMMA WriterFiles ==
    ASSUME RegisterInv, FilesInv, NEW p \in Requests, Writes(p)
    PROVE  /\ CommitNew(p) \/ CommitUpdate(p) =>
                 Attaching(requests[p]) /\ requests[p].file.n = requests[p].n
                 /\ requests[p].file \in bytes /\ requests[p].file \notin DOMAIN files
           /\ ~CommitNew(p) =>
                 requests[p].copy.file \in DOMAIN files /\ requests[p].copy.file.n = requests[p].n
           /\ requests[p].file \notin DOMAIN files \/ CommitDelete(p) \/ Mark(p)
           /\ requests[p].copy.file \in DOMAIN files \/ CommitNew(p) \/ Mark(p)
<1>1. CommitNew(p) \/ CommitUpdate(p) => Attaching(requests[p])
    BY DEF CommitNew, CommitUpdate, At, Does, Attaching
<1>2. ~CommitNew(p) => requests[p].op \notin {"generate", "import"}
    BY OneRow
<1> QED BY <1>1, <1>2 DEF FilesInv, Writes

(* What became of the files, whatever the step.                              *)
LEMMA FilesOnlyGrow ==
    ASSUME RegisterInv, FilesInv, NEW p \in Requests, Act(p)
    PROVE  /\ DOMAIN files \subseteq DOMAIN files'
           /\ ~Writes(p) => files' = files /\ register' = register
<1>1. CASE Writes(p)
    BY <1>1, FilesWritten, WriterFiles
<1>2. CASE ~Writes(p)
    BY <1>2 DEF Writes, Act, Start, Touch, Step, StartGenerate, StartImport, Fetch, Guard, Reserve,
           Create, SaveHeader, Store, Reconcile, Unlink, Retire, Flag, DeadlockVictim, Fail
<1> QED BY <1>1, <1>2

(* Bytes are only taken by Unlink.                                           *)
LEMMA BytesTaken ==
    ASSUME RegisterInv, NEW p \in Requests, Act(p), NEW k \in bytes, k \notin bytes'
    PROVE  /\ Unlink(p) /\ k = requests[p].copy.file /\ ~Writes(p)
           /\ requests[p].op \notin {"generate", "import"}
           /\ requests'[p].pc = "retire" /\ SameBill(p)
<1>1. Unlink(p)
    BY DEF Act, Start, Touch, Step, StartGenerate, StartImport, Fetch, Guard, Reserve,
           Create, SaveHeader, Store, Reconcile, Retire, Flag, DeadlockVictim, Fail,
           CommitNew, CommitUpdate, CommitDelete, Mark
<1>2. k = requests[p].copy.file
    BY <1>1 DEF Unlink, Superseded
<1>3. requests[p].op \notin {"generate", "import"} /\ ~Writes(p)
    BY <1>1 DEF RegisterInv, TypeInv, Sound, Points, Unlink, At, Writes, CommitNew, CommitUpdate,
           CommitDelete, Mark, Runs
<1> QED BY <1>1, <1>2, <1>3, Went DEF Unlink

LEMMA FilesInvStep ==
    ASSUME RegisterInv, LinesInv, FilesInv, NEW p \in Requests, Act(p)
    PROVE  FilesInv'
<1>0. RegisterInv' /\ DOMAIN files \subseteq DOMAIN files'
    BY StepPreserves, FilesOnlyGrow
<1>1. ASSUME NEW n \in DOMAIN register' PROVE register'[n].file.n = n
    <2>1. CASE ~Writes(p)
        BY <2>1, FilesOnlyGrow DEF FilesInv
    <2>2. CASE Writes(p) /\ n # requests[p].n
        <3>1. n \in DOMAIN register
            BY <2>2, OneRow
        <3> QED BY ZenonT(30), <2>2, <3>1, OneRow DEF FilesInv
    <2>3. CASE (CommitNew(p) \/ CommitUpdate(p)) /\ n = requests[p].n
        <3>1. requests[p].file.n = n
            BY <2>3, WriterFiles DEF Writes
        <3> QED BY <2>3, <3>1, OneRow DEF Writes
    <2>4. CASE ~CommitNew(p) /\ (CommitDelete(p) \/ Mark(p)) /\ n = requests[p].n
        <3>1. n \in DOMAIN register /\ register'[n].file = register[n].file
            BY <2>4, OneRow DEF Writes
        <3> QED BY <3>1 DEF FilesInv
    <2> QED BY <2>1, <2>2, <2>3, <2>4 DEF Writes
<1>2. ASSUME NEW q \in Requests, requests'[q].op \notin {"generate", "import"}
      PROVE  requests'[q].copy.file.n = requests'[q].n /\ requests'[q].copy.file \in DOMAIN files'
    <2>1. CASE q # p
        <3>1. requests'[q] = requests[q]
            BY <2>1, OthersStand
        <3> QED BY <1>0, <1>2, <3>1 DEF FilesInv
    <2>2. CASE q = p /\ (Start(p) \/ Touch(p))
        <3>1. requests'[p].n \in DOMAIN register /\ requests'[p].copy = register[requests'[p].n]
            BY <1>2, <2>2, Begun
        <3>2. register[requests'[p].n].file \in DOMAIN files
            BY <3>1 DEF RegisterInv, TypeInv, TypeOK
        <3> QED BY <1>0, <2>2, <3>1, <3>2 DEF FilesInv
    <2>3. CASE q = p /\ (Step(p) \/ Fail(p))
        <3>1. SameBill(p)
            BY <1>2, <2>3, Revised
        <3> QED BY <1>0, <1>2, <2>3, <3>1 DEF FilesInv, SameBill
    <2> QED BY <2>1, <2>2, <2>3 DEF Act
<1>3. ASSUME NEW q \in Requests, Attaching(requests'[q])
      PROVE  /\ requests'[q].file.n = requests'[q].n
             /\ requests'[q].file \in bytes' /\ requests'[q].file \notin DOMAIN files'
    <2>1. CASE q # p
        <3>1. requests'[q] = requests[q]
            BY <2>1, OthersStand
        <3>2. Attaching(requests[q])
            BY <1>3, <3>1
        <3>3. /\ requests[q].file.n = requests[q].n
              /\ requests[q].file \in bytes /\ requests[q].file \notin DOMAIN files
            BY <3>2 DEF FilesInv
        <3>4. requests[q].file \in bytes'
            <4>1. ASSUME requests[q].file \notin bytes' PROVE FALSE
                <5>1. requests[q].file = requests[p].copy.file /\ requests[p].op \notin {"generate", "import"}
                    BY <3>3, <4>1, BytesTaken
                <5> QED BY <3>3, <5>1 DEF FilesInv
            <4> QED BY <4>1
        <3>5. requests[q].file \notin DOMAIN files'
            <4>1. CASE ~Writes(p)
                BY <3>3, <4>1, FilesOnlyGrow
            <4>2. CASE CommitNew(p) \/ CommitUpdate(p)
                <5>1. Attaching(requests[p]) /\ requests[p].file.n = requests[p].n
                    BY <4>2, WriterFiles DEF Writes
                <5>2. requests[p].n # requests[q].n
                    BY <2>1, <3>2, <5>1, OneAttaches
                <5>3. requests[q].file # requests[p].file
                    BY <3>3, <5>1, <5>2
                <5>4. DOMAIN files' \subseteq DOMAIN files \cup {requests[p].file}
                    BY <4>2, WriterFiles, FilesWritten DEF Writes
                <5> QED BY <3>3, <5>3, <5>4
            <4>3. CASE CommitDelete(p) \/ Mark(p)
                <5>1. DOMAIN files' = DOMAIN files
                    BY <4>3, WriterFiles, FilesWritten DEF Writes
                <5> QED BY <3>3, <5>1
            <4> QED BY <4>1, <4>2, <4>3 DEF Writes
        <3> QED BY <3>1, <3>3, <3>4, <3>5
    <2>2. CASE q = p
        <3>0. ~(Start(p) \/ Touch(p))
            BY <1>3, <2>2, Begun DEF Attaching
        <3>1. Step(p) \/ Fail(p)
            BY <3>0 DEF Act
        <3>2. CASE requests'[p].op \in {"generate", "import"}
            <4>1. requests'[p].pc \in {"reconcile", "commit"}
                BY <1>0, <1>3, <2>2, <3>2 DEF Attaching, RegisterInv, TypeInv, Sound, Points
            <4>2. CASE Store(p) /\ requests'[p] # Idle
                BY <2>2, <3>1, <3>2, <4>1, <4>2, DocumentStored, Raised DEF SameBill
            <4>3. CASE /\ Reconcile(p) /\ requests[p].pc = "reconcile" /\ requests[p].op = "import"
                       /\ requests'[p].file = requests[p].file /\ bytes' = bytes
                <5>1. Attaching(requests[p]) /\ requests'[p].n = requests[p].n /\ files' = files
                    BY <3>1, <3>2, <4>1, <4>3, Raised DEF Attaching
                <5> QED BY <2>2, <4>3, <5>1 DEF FilesInv
            <4> QED BY <3>1, <3>2, <4>1, <4>2, <4>3, Raised
        <3>3. CASE requests'[p].op \notin {"generate", "import"}
            <4>1. SameBill(p) /\ files' = files
                BY <3>1, <3>3, Revised
            <4>2. CASE Store(p) /\ requests'[p] # Idle
                BY <2>2, <4>1, <4>2, DocumentStored DEF SameBill
            <4>3. CASE Unlink(p) /\ requests[p].pc = "unlink"
                <5>1. Attaching(requests[p]) /\ requests'[p].file = requests[p].file
                    BY <1>3, <2>2, <4>1, <4>3, Went DEF Unlink, Attaching, SameBill
                <5>2. requests[p].copy.file \in DOMAIN files
                    BY <3>3, <4>1 DEF FilesInv, SameBill
                <5>3. requests[p].file \in bytes'
                    BY <4>3, <5>1, <5>2 DEF FilesInv, Unlink, Superseded
                <5> QED BY <2>2, <4>1, <5>1, <5>3 DEF FilesInv, SameBill
            <4>4. CASE Retire(p) /\ requests[p].pc = "retire" /\ bytes' = bytes
                <5>1. Attaching(requests[p]) /\ requests'[p].file = requests[p].file
                    BY <1>3, <2>2, <4>1, <4>4, Went DEF Retire, Attaching, SameBill
                <5> QED BY <2>2, <4>1, <4>4, <5>1 DEF FilesInv, SameBill
            <4>5. CASE Flag(p) /\ requests[p].op = "delete"
                BY <1>3, <2>2, <4>1, <4>5 DEF Attaching, SameBill
            <4>6. CASE SaveHeader(p)
                BY <1>3, <2>2, <4>6, HeaderSaved DEF Attaching
            <4>7. CASE /\ requests'[p].pc \in {"header", "unlink", "mark"}
                       /\ requests'[p].pc = "unlink" => requests[p].op = "delete"
                BY <1>3, <2>2, <4>1, <4>7 DEF Attaching, SameBill
            <4> QED BY <3>1, <3>3, <4>2, <4>3, <4>4, <4>5, <4>6, <4>7, Revised
        <3> QED BY <3>2, <3>3
    <2> QED BY <2>1, <2>2
<1> QED BY <1>1, <1>2, <1>3 DEF FilesInv

(* The side a deadlock costs its transaction leaves the other one, which is  *)
(* about to discard the same document.                                       *)
LEMMA VictimLeavesOne ==
    ASSUME RegisterInv, NEW p \in Requests, DeadlockVictim(p), requests[p].pc \in {"retire", "flag", "commit"}
    PROVE  \E q \in Requests : /\ q # p /\ requests[q].n = requests[p].n
                                /\ requests[q].pc \in {"retire", "flag", "commit"}
                                /\ requests[q].copy.file = requests[p].copy.file
<1>1. PICK q \in Requests : WaitsFor(p, q) /\ WaitsFor(q, p)
    BY DEF DeadlockVictim
<1>2. q # p
    BY <1>1 DEF WaitsFor
<1>3. CASE requests[p].pc = "retire"
    <2>1. HoldsFile(q, requests[p].copy.file)
        BY <1>1, <1>3 DEF WaitsFor, At
    <2>2. requests[q].pc = "flag"
        BY <1>1, <2>1 DEF HoldsFile, WaitsFor, At
    <2>3. HoldsRow(p, requests[q].n)
        BY <1>1, <2>2 DEF WaitsFor, At
    <2> QED BY <1>2, <2>1, <2>2, <2>3 DEF HoldsFile, HoldsRow
<1>4. CASE requests[p].pc = "flag"
    <2>1. HoldsRow(q, requests[p].n)
        BY <1>1, <1>4 DEF WaitsFor, At
    <2>2. requests[q].op \in {"update", "delete"} /\ requests[q].n = requests[p].n
          /\ requests[q].pc \in {"store", "unlink", "retire", "commit"}
        BY <2>1 DEF HoldsRow, Does, At
    <2>3. requests[q].pc = "retire" /\ HoldsFile(p, requests[q].copy.file)
        BY <1>1, <2>2 DEF WaitsFor, At
    <2> QED BY <1>2, <2>2, <2>3 DEF HoldsFile
<1>5. requests[p].pc # "commit"
    BY <1>1 DEF WaitsFor, At
<1> QED BY <1>3, <1>4, <1>5

(* The bytes of a bill's document go only to a correction or deletion that   *)
(* is about to commit.                                                       *)
InPlace(n) == files[register[n].file] = "live" /\ register[n].file \in bytes

LEMMA DocumentsStep ==
    ASSUME RegisterInv, LinesInv, FilesInv, DocumentsKept, NEW p \in Requests, Act(p),
           FailPoints \cap {"retire", "flag", "commit"} = {},
           NEW n \in DOMAIN register', ~register'[n].deleted
    PROVE  InPlace(n)' \/ Discarding(n)'
<1>1. \A q \in Requests : q # p => requests'[q] = requests[q]
    BY OthersStand
<1>2. ASSUME NEW q \in Requests, q # p, requests[q].n = n, requests[q].pc \in {"retire", "flag", "commit"},
             requests[q].copy.file = register[n].file, register'[n].file = register[n].file
      PROVE  Discarding(n)'
    BY <1>1, <1>2 DEF Discarding
<1>3. ASSUME n \in DOMAIN register, ~register[n].deleted
      PROVE  /\ register[n].file.n = n /\ register[n].file \in DOMAIN files
             /\ InPlace(n) \/ Discarding(n)
    BY <1>3 DEF FilesInv, DocumentsKept, InPlace, RegisterInv, TypeInv, TypeOK
<1>4. CASE (CommitNew(p) \/ CommitUpdate(p)) /\ n = requests[p].n
    <2>1. register'[n].file = requests[p].file
        BY <1>4, OneRow DEF Writes
    <2>2. requests[p].file \in bytes /\ bytes' = bytes /\ files'[requests[p].file] = "live"
        BY <1>4, WriterFiles, FilesWritten DEF Writes
    <2> QED BY <2>1, <2>2 DEF InPlace
<1>5. CASE (CommitNew(p) \/ CommitUpdate(p) \/ CommitDelete(p)) /\ n # requests[p].n
    <2>1. n \in DOMAIN register /\ register'[n] = register[n]
        BY ZenonT(30), <1>5, OneRow DEF Writes
    <2>2. /\ register[n].file.n = n /\ register[n].file \in DOMAIN files
          /\ InPlace(n) \/ Discarding(n)
        BY <1>3, <2>1
    <2>3. CASE InPlace(n)
        <3>1. CommitNew(p) \/ register[n].file # requests[p].copy.file
            BY <1>5, <2>2, WriterFiles DEF Writes
        <3>2. files'[register[n].file] = files[register[n].file] /\ bytes' = bytes
            BY <1>5, <2>2, <3>1, WriterFiles, FilesWritten DEF Writes
        <3> QED BY <2>1, <2>3, <3>2 DEF InPlace
    <2>4. CASE Discarding(n)
        BY <1>2, <1>5, <2>1, <2>4 DEF Discarding
    <2> QED BY <2>2, <2>3, <2>4
<1>6. CASE CommitDelete(p) /\ n = requests[p].n
    BY <1>6, OneRow DEF Writes
<1>7. CASE Mark(p)
    <2>1. requests[p].pc = "mark" /\ files' = files /\ bytes' = bytes
        BY <1>7 DEF Mark, Runs, At
    <2>2. n \in DOMAIN register /\ register'[n].file = register[n].file /\ ~register[n].deleted
        <3>1. ~CommitNew(p) /\ Writes(p)
            BY <1>7, <2>1 DEF CommitNew, At, Writes
        <3>2. n \in DOMAIN register
            BY <3>1, OneRow
        <3>3. CASE n = requests[p].n
            BY <1>7, <3>1, <3>2, <3>3, OneRow
        <3>4. CASE n # requests[p].n
            BY <3>1, <3>2, <3>4, OneRow
        <3> QED BY <3>2, <3>3, <3>4
    <2>3. InPlace(n) \/ Discarding(n)
        BY <1>3, <2>2
    <2>4. CASE InPlace(n)
        BY <2>1, <2>2, <2>4 DEF InPlace
    <2>5. CASE Discarding(n)
        BY <1>2, <2>1, <2>2, <2>5 DEF Discarding
    <2> QED BY <2>3, <2>4, <2>5
<1>8. CASE ~Writes(p)
    <2>1. register' = register /\ files' = files
        BY <1>8, FilesOnlyGrow
    <2>2. InPlace(n) \/ Discarding(n)
        BY <1>3, <2>1
    <2>3. CASE InPlace(n) /\ register[n].file \in bytes'
        BY <2>1, <2>3 DEF InPlace
    <2>4. CASE InPlace(n) /\ register[n].file \notin bytes'
        <3>1. /\ register[n].file = requests[p].copy.file /\ requests[p].op \notin {"generate", "import"}
              /\ requests'[p].pc = "retire" /\ SameBill(p)
            BY <2>4, BytesTaken DEF InPlace
        <3>2. requests'[p].n = n /\ requests'[p].copy.file = register[n].file
            BY <1>3, <2>1, <3>1 DEF FilesInv, SameBill
        <3> QED BY <2>1, <3>1, <3>2 DEF Discarding
    <2>5. CASE Discarding(n)
        <3>1. PICK q \in Requests : /\ requests[q].n = n /\ requests[q].pc \in {"retire", "flag", "commit"}
                                    /\ requests[q].copy.file = register[n].file
            BY <2>5 DEF Discarding
        <3>2. CASE q # p
            BY <1>2, <2>1, <3>1, <3>2
        <3>3. CASE q = p
            <4>1. requests[p].op \in {"update", "delete"} /\ requests[p] \in Request
                <5>1. requests[p] \in Request /\ Sound(requests[p])
                    BY DEF RegisterInv, TypeInv, TypeOK
                <5>2. requests[p].op \notin {"generate", "import"}
                    <6> SUFFICES ASSUME requests[p].op \in {"generate", "import"} PROVE FALSE
                        OBVIOUS
                    <6>1. requests[p].pc = "commit"
                        BY <3>1, <3>3, <5>1 DEF Sound, Points
                    <6>2. HoldsNumber(p, requests[p].n)
                        BY <6>1 DEF HoldsNumber
                    <6> QED BY <2>1, <3>1, <3>3, <6>2 DEF RegisterInv, UniqueInv
                <5> QED BY <3>1, <3>3, <5>1, <5>2 DEF Sound, Points, Request, Ops
            <4>2. CASE DeadlockVictim(p)
                <5>1. PICK o \in Requests : /\ o # p /\ requests[o].n = requests[p].n
                                            /\ requests[o].pc \in {"retire", "flag", "commit"}
                                            /\ requests[o].copy.file = requests[p].copy.file
                    BY <3>1, <3>3, <4>2, VictimLeavesOne
                <5> QED BY <1>2, <2>1, <3>1, <3>3, <5>1
            <4>3. ~Fail(p)
                BY <3>1, <3>3 DEF Fail
            <4>4. CASE Retire(p)
                <5>1. SameBill(p) /\ requests'[p].pc \in {"commit", "flag"}
                    BY <4>4, Went DEF Retire
                <5> QED BY <2>1, <3>1, <3>3, <5>1 DEF Discarding, SameBill
            <4>5. CASE Flag(p)
                <5>1. SameBill(p) /\ requests'[p].pc = "commit"
                    BY <4>5, Went DEF Flag
                <5> QED BY <2>1, <3>1, <3>3, <5>1 DEF Discarding, SameBill
            <4>6. Step(p)
                BY <3>1, <3>3, <4>3, Begun DEF Act
            <4>7. Retire(p) \/ Flag(p) \/ DeadlockVictim(p)
                BY <1>8, <3>1, <3>3, <4>6 DEF Step, Writes, Guard, Reserve, Create, SaveHeader, Store,
                   Reconcile, Unlink, Runs, At
            <4> QED BY <4>2, <4>4, <4>5, <4>7
        <3> QED BY <3>2, <3>3
    <2> QED BY <2>2, <2>3, <2>4, <2>5
<1> QED BY <1>4, <1>5, <1>6, <1>7, <1>8 DEF Writes

(* A bill on the register has its documents, whichever requests overlapped,  *)
(* failed before discarding anything, or lost a deadlock: every document has *)
(* a key of its bill's number that no other request can be storing, and what *)
(* takes its bytes goes on to replace it or to delete the bill.  A request   *)
(* that fails in between (the excluded points) takes the document with it.   *)
THEOREM DocumentsStay ==
    ASSUME FailPoints \cap {"retire", "flag", "commit"} = {}
    PROVE  Spec => []DocumentsKept
<1>1. Init => FilesInv /\ DocumentsKept
    BY DEF Init, FilesInv, DocumentsKept, Idle, Attaching
<1>2. RegisterInv /\ LinesInv /\ FilesInv /\ DocumentsKept /\ [Next]_vars => FilesInv' /\ DocumentsKept'
    <2> SUFFICES ASSUME RegisterInv, LinesInv, FilesInv, DocumentsKept, [Next]_vars
                 PROVE  FilesInv' /\ DocumentsKept'
        OBVIOUS
    <2>1. ASSUME NEW p \in Requests, Act(p) PROVE FilesInv' /\ DocumentsKept'
        <3>1. FilesInv'
            BY <2>1, FilesInvStep
        <3>2. ASSUME NEW n \in DOMAIN register', ~register'[n].deleted PROVE InPlace(n)' \/ Discarding(n)'
            BY <2>1, <3>2, DocumentsStep
        <3> QED BY <3>1, <3>2 DEF DocumentsKept, InPlace
    <2>2. CASE UNCHANGED <<counter, register, files, bytes, requests>>
        BY <2>2 DEF FilesInv, DocumentsKept, Discarding
    <2> QED BY <2>1, <2>2, StepsOfOne
<1> QED BY <1>1, <1>2, Reachable, LinesInvariant, PTL DEF Spec
=============================================================================
