------------------------- MODULE PromoServiceProofs -------------------------
(***************************************************************************)
(* Proofs about PromoService, for any number of workers, codes, requests    *)
(* and users and for any set of faults: its types, why the audit file is a  *)
(* write-ahead log of the database (the inductive invariant behind          *)
(* CommittedIsSaved and AuditOrder), that PromoService implements           *)
(* AuditedChanges, and what the rows, the history and the answers promise.  *)
(***************************************************************************)
EXTENDS PromoService, FiniteSetTheorems, SequenceTheorems, TLAPS

(* What a transaction at some label knows about its request and its reads.  *)
StepsOK ==
    \A w \in Workers :
        /\ pc[w] = "insert" => req[w].action = "create"
        /\ pc[w] \in {"select", "update", "updating"} => req[w].action = "update"
        /\ pc[w] \in {"delete", "deleting"} => req[w].action = "delete"
        /\ pc[w] \in {"update", "updating"} => tx[w].seen \in Row
        /\ (pc[w] \in {"save", "commit"} /\ req[w].action = "update") =>
               tx[w].seen \in Row /\ tx[w].draft \in Row

-----------------------------------------------------------------------------
(* A request has the fields its handler gave it. *)
LEMMA RequestFields ==
    ASSUME NEW r \in Request
    PROVE  /\ r.id \in OpIds
           /\ r.action \in {"create", "update", "delete"}
           /\ r.code \in Codes
           /\ r.spelling \in {"bare", "padded"}
           /\ r.action # "delete" => r.offer \in Offer
<1>1. PICK id \in OpIds : r \in Requests(id)
  BY DEF Request
<1>2. CASE r \in CreateRequest(id)
  BY <1>2, VocabularyAssumption DEF CreateRequest
<1>3. CASE r \in UpdateRequest(id)
  BY <1>3 DEF UpdateRequest
<1>4. CASE r \in DeleteRequest(id)
  BY <1>4 DEF DeleteRequest
<1> QED BY <1>1, <1>2, <1>3, <1>4 DEF Requests

(* The placeholder for "nothing" is none of the things it stands in for. *)
LEMMA NoneIsNothing == None \notin Row /\ None \notin Request /\ None \notin Workers
BY NoneAssumption

(* promoChanges maps some of the fields to their two values. *)
LEMMA ChangedFieldsType ==
    ASSUME NEW old \in Row, NEW new \in Row
    PROVE  ChangedFields(old, new) \in
               UNION {[S -> (Terms \cup 0..MaxCapacity) \X (Terms \cup 0..MaxCapacity)] :
                      S \in SUBSET Fields}
<1> DEFINE S == {g \in Fields : old[g] # new[g]}
           V == Terms \cup 0..MaxCapacity
<1>1. \A f \in Fields : old[f] \in V /\ new[f] \in V
  BY DEF Fields, Row
<1>2. ChangedFields(old, new) \in [S -> V \X V]
  BY <1>1 DEF ChangedFields
<1>3. S \in SUBSET Fields
  OBVIOUS
<1> QED BY <1>2, <1>3

(* Counting the activations of a code gives a number. *)
LEMMA CountIsNat ==
    ASSUME NEW S \in SUBSET Users
    PROVE  Cardinality(S) \in Nat
BY UsersAssumption, FS_Subset, FS_CardinalityType

-----------------------------------------------------------------------------
TypeInv == TypeOK /\ StepsOK

LEMMA InitTypeInv == Init => TypeInv
BY BoundsAssumption
   DEF Init, TypeInv, TypeOK, StepsOK, NewTx, TxState, OpIds, Labels, Answers

(* The request of a worker that is not idle. *)
LEMMA InFlight ==
    ASSUME TypeOK, NEW w \in Workers, pc[w] # "idle"
    PROVE  /\ req[w] \in Request /\ req[w] # None
           /\ req[w].id \in OpIds
           /\ req[w].action \in {"create", "update", "delete"}
           /\ Code(w) \in Codes
           /\ req[w].spelling \in {"bare", "padded"}
           /\ req[w].action # "delete" => req[w].offer \in Offer
<1>1. req[w] \in Request
  BY DEF TypeOK
<1> QED BY <1>1, RequestFields, NoneIsNothing DEF Code

LEMMA SubmitTypeInv ==
    ASSUME TypeInv, NEW w \in Workers, Submit(w)
    PROVE  TypeInv'
<1> USE DEF TypeInv, Submit, Goto
<1>1. PICK r \in Requests(nextOp) : req' = [req EXCEPT ![w] = r]
  OBVIOUS
<1>2. nextOp \in OpIds
  BY BoundsAssumption DEF TypeOK, OpIds
<1>3. r \in Request
  BY <1>1, <1>2 DEF Request
<1>4. TypeOK'
  BY <1>1, <1>2, <1>3, BoundsAssumption DEF TypeOK, Labels, Answers, OpIds
<1>5. StepsOK'
  BY <1>1 DEF StepsOK, TypeOK
<1> QED BY <1>4, <1>5

LEMMA BeginTypeInv ==
    ASSUME TypeInv, NEW w \in Workers, Begin(w)
    PROVE  TypeInv'
<1> USE DEF TypeInv, Begin, Goto
<1>1. req[w].action \in {"create", "update", "delete"}
  BY InFlight
<1>2. FirstStatement(req[w].action) \in {"insert", "select", "delete"}
  BY <1>1 DEF FirstStatement
<1>3. TypeOK'
  BY <1>2 DEF TypeOK, Labels
<1>4. StepsOK'
  BY <1>1 DEF StepsOK, TypeOK, FirstStatement
<1> QED BY <1>3, <1>4

(* A statement that fails, alone. *)
LEMMA AbandonTypeInv ==
    ASSUME TypeInv, NEW w \in Workers, pc[w] # "idle", Abandon(w),
           UNCHANGED <<rows, activated, log, req, nextOp, outcome, history>>
    PROVE  TypeInv'
<1> USE DEF TypeInv, Abandon, Goto
<1>1. TypeOK'
  BY DEF TypeOK, Labels
<1>2. StepsOK'
  BY DEF StepsOK, TypeOK
<1> QED BY <1>1, <1>2

(* A statement that writes a new version of the row. *)
LEMMA WriteTypeInv ==
    ASSUME TypeInv, NEW w \in Workers, pc[w] # "idle",
           NEW version \in Row \cup {None}, Write(w, version),
           req[w].action = "update" => tx[w].seen \in Row /\ version \in Row,
           UNCHANGED <<rows, activated, log, req, nextOp, outcome, history>>
    PROVE  TypeInv'
<1> USE DEF TypeInv, Write, Goto, AfterStatement
<1>1. Code(w) \in Codes
  BY InFlight
<1>2. tx' \in [Workers -> TxState]
  BY DEF TypeOK, TxState
<1>3. lock' \in [Codes -> Workers \cup {None}]
  BY <1>1 DEF TypeOK
<1>4. TypeOK'
  BY <1>2, <1>3 DEF TypeOK, Labels
<1>5. StepsOK'
  BY DEF StepsOK, TypeOK, TxState
<1> QED BY <1>4, <1>5

LEMMA InsertTypeInv ==
    ASSUME TypeInv, NEW w \in Workers, Insert(w)
    PROVE  TypeInv'
<1> USE DEF Insert
<1>1. CASE Abandon(w)
  BY <1>1, AbandonTypeInv
<1>2. CASE Write(w, [born |-> req[w].id, terms |-> req[w].offer.terms,
                     capacity |-> req[w].offer.capacity])
  <2>1. req[w].action = "create" /\ pc[w] # "idle"
    BY DEF TypeInv, StepsOK
  <2>2. req[w].id \in OpIds /\ req[w].offer \in Offer
    BY <2>1, InFlight DEF TypeInv
  <2>3. [born |-> req[w].id, terms |-> req[w].offer.terms,
         capacity |-> req[w].offer.capacity] \in Row
    BY <2>2, BoundsAssumption DEF Row, Offer
  <2> QED BY <1>2, <2>1, <2>3, WriteTypeInv
<1> QED BY <1>1, <1>2

LEMMA SelectTypeInv ==
    ASSUME TypeInv, NEW w \in Workers, Select(w)
    PROVE  TypeInv'
<1> USE DEF Select
<1>1. CASE Abandon(w)
  BY <1>1, AbandonTypeInv
<1>2. CASE ~Abandon(w)
  <2> USE DEF TypeInv, Goto
  <2>1. Code(w) \in Codes
    BY InFlight
  <2>2. rows[Code(w)] \in Row
    BY <1>2, <2>1 DEF TypeOK
  <2>3. [tx[w] EXCEPT !.seen = rows[Code(w)]] \in TxState
    BY <2>2 DEF TypeOK, TxState
  <2>4. tx' = [tx EXCEPT ![w] = [tx[w] EXCEPT !.seen = rows[Code(w)]]]
    BY <1>2 DEF TypeOK
  <2>5. tx' \in [Workers -> TxState] /\ tx'[w].seen \in Row
    BY <2>2, <2>3, <2>4 DEF TypeOK, TxState
  <2>6. TypeOK'
    BY <1>2, <2>5 DEF TypeOK, Labels
  <2>7. StepsOK'
    BY <1>2, <2>5 DEF StepsOK, TypeOK
  <2> QED BY <2>6, <2>7
<1> QED BY <1>1, <1>2

LEMMA SnapshotTypeInv ==
    ASSUME TypeInv, NEW w \in Workers,
           NEW label \in {"updating", "deleting"},
           pc[w] = IF label = "updating" THEN "update" ELSE "delete",
           TakeSnapshot(w, label)
    PROVE  TypeInv'
<1> USE DEF TakeSnapshot
<1>1. CASE Abandon(w)
  BY <1>1, AbandonTypeInv
<1>2. CASE ~Abandon(w)
  <2> USE DEF TypeInv, Goto
  <2>1. Code(w) \in Codes
    BY InFlight
  <2>2. rows[Code(w)].born \in 0..MaxOps
    BY <1>2, <2>1, BoundsAssumption DEF TypeOK, Row, OpIds
  <2>3. Cardinality(activated[Code(w)]) \in Nat
    BY <2>1, CountIsNat DEF TypeOK
  <2> DEFINE t == [tx[w] EXCEPT !.target = rows[Code(w)].born,
                                !.counted = Cardinality(activated[Code(w)])]
  <2>4. tx[w] \in TxState /\ t.seen = tx[w].seen
    BY DEF TypeOK, TxState
  <2>5. t \in TxState
    BY <2>2, <2>3, <2>4 DEF TxState
  <2>6. tx' = [tx EXCEPT ![w] = t]
    BY <1>2 DEF TypeOK
  <2>7. tx' \in [Workers -> TxState] /\ tx'[w].seen = tx[w].seen
    BY <2>4, <2>5, <2>6 DEF TypeOK
  <2>8. TypeOK'
    BY <1>2, <2>7 DEF TypeOK, Labels
  <2>9. StepsOK'
    BY <1>2, <2>7 DEF StepsOK, TypeOK
  <2> QED BY <2>8, <2>9
<1> QED BY <1>1, <1>2

LEMMA UpdateApplyTypeInv ==
    ASSUME TypeInv, NEW w \in Workers, UpdateApply(w)
    PROVE  TypeInv'
<1> USE DEF UpdateApply
<1>1. CASE Abandon(w)
  BY <1>1, AbandonTypeInv
<1>2. CASE SameRow(w) /\ Write(w, [rows[Code(w)] EXCEPT !.terms = req[w].offer.terms,
                                             !.capacity = req[w].offer.capacity])
  <2>1. req[w].action = "update" /\ tx[w].seen \in Row /\ pc[w] # "idle"
    BY DEF TypeInv, StepsOK
  <2>2. req[w].offer \in Offer /\ Code(w) \in Codes
    BY <2>1, InFlight DEF TypeInv
  <2>3. rows[Code(w)] \in Row
    BY <1>2, <2>2 DEF TypeInv, TypeOK, SameRow
  <2>4. req[w].offer.terms \in Terms /\ req[w].offer.capacity \in 0..MaxCapacity
    BY <2>2, BoundsAssumption DEF Offer
  <2>5. [rows[Code(w)] EXCEPT !.terms = req[w].offer.terms,
                              !.capacity = req[w].offer.capacity] \in Row
    BY <2>3, <2>4 DEF Row
  <2> QED BY <1>2, <2>1, <2>5, WriteTypeInv
<1> QED BY <1>1, <1>2

LEMMA DeleteApplyTypeInv ==
    ASSUME TypeInv, NEW w \in Workers, DeleteApply(w)
    PROVE  TypeInv'
<1> USE DEF DeleteApply
<1>1. req[w].action = "delete" /\ pc[w] # "idle" /\ Code(w) \in Codes
  BY InFlight DEF TypeInv, StepsOK
<1>2. CASE Abandon(w)
  BY <1>1, <1>2, AbandonTypeInv
<1>3. CASE Write(w, None)
  BY <1>1, <1>3, WriteTypeInv
<1>4. CASE SameRow(w) /\ Write(w, Disabled(w))
  <2>1. rows[Code(w)] \in Row
    BY <1>1, <1>4 DEF TypeInv, TypeOK, SameRow
  <2>2. Disabled(w) \in Row
    BY <2>1, BoundsAssumption DEF Disabled, Row
  <2> QED BY <1>1, <1>4, <2>2, WriteTypeInv
<1> QED BY <1>2, <1>3, <1>4

LEMMA RecordType ==
    ASSUME TypeInv, NEW w \in Workers, pc[w] = "save"
    PROVE  /\ AuditRecord(w) \in AuditEntry
           /\ \A whole \in BOOLEAN : Cut(AuditRecord(w), whole) \in AuditEntry
<1> DEFINE NoChanges == <<>>
           V == Terms \cup 0..MaxCapacity
<1>1. req[w].id \in OpIds /\ req[w].action \in {"create", "update", "delete"}
      /\ Code(w) \in Codes /\ req[w].spelling \in {"bare", "padded"}
  BY InFlight DEF TypeInv
<1>2. <<>> \in UNION {[S -> V \X V] : S \in SUBSET Fields}
  <2>1. <<>> \in [{} -> V \X V]
    OBVIOUS
  <2> QED BY <2>1
<1>3. req[w].action = "update" => tx[w].seen \in Row /\ tx[w].draft \in Row
  BY DEF TypeInv, StepsOK
<1>4. ReportedChanges(w) \in UNION {[S -> V \X V] : S \in SUBSET Fields}
  BY <1>2, <1>3, ChangedFieldsType DEF ReportedChanges
<1>5. AuditRecord(w) \in AuditEntry
  BY <1>1, <1>4 DEF AuditRecord, AuditEntry, Code
<1> QED BY <1>5 DEF Cut, AuditEntry

LEMMA SaveTypeInv ==
    ASSUME TypeInv, NEW w \in Workers, Save(w) \/ SaveFails(w)
    PROVE  TypeInv'
<1>1. pc[w] = "save"
  BY DEF Save, SaveFails
<1>2. log' \in Seq(AuditEntry)
  <2>1. log' = log \/ \E entry \in AuditEntry : log' = Append(log, entry)
    BY <1>1, RecordType DEF Save, SaveFails
  <2>2. log \in Seq(AuditEntry)
    BY DEF TypeInv, TypeOK
  <2> QED BY <2>1, <2>2
<1>3. \E label \in {"commit", "rollback"} :
          /\ pc' = [pc EXCEPT ![w] = label]
          /\ UNCHANGED <<rows, activated, lock, req, tx, nextOp, outcome, history>>
  BY DEF Save, SaveFails, Goto, AfterFailedSave
<1>4. TypeOK'
  BY <1>1, <1>2, <1>3 DEF TypeInv, TypeOK, Labels
<1>5. StepsOK'
  BY <1>1, <1>3 DEF TypeInv, StepsOK, TypeOK
<1> QED BY <1>4, <1>5 DEF TypeInv

(* A request that ends, with whatever answer. *)
LEMMA FinishTypeInv ==
    ASSUME TypeInv, NEW w \in Workers, pc[w] # "idle",
           NEW answer \in Answers, Finish(w, answer),
           lock' \in [Codes -> Workers \cup {None}],
           UNCHANGED <<rows, activated, log, nextOp, history>>
    PROVE  TypeInv'
<1> USE DEF TypeInv, Finish, Goto
<1>1. NewTx \in TxState
  BY BoundsAssumption DEF NewTx, TxState
<1>2. req[w].id \in OpIds
  BY InFlight
<1>3. TypeOK'
  BY <1>1, <1>2 DEF TypeOK, Labels
<1>4. StepsOK'
  BY DEF StepsOK, TypeOK
<1> QED BY <1>3, <1>4

LEMMA ReleasedType ==
    ASSUME TypeOK, NEW w \in Workers
    PROVE  Released(w) \in [Codes -> Workers \cup {None}]
BY DEF Released, TypeOK

LEMMA EndTypeInv ==
    ASSUME TypeInv, NEW w \in Workers,
           BeginFails(w) \/ CommitFails(w) \/ Reply(w) \/ ReplyLost(w) \/ Rollback(w)
    PROVE  TypeInv'
<1>1. pc[w] # "idle"
  BY DEF BeginFails, CommitFails, Reply, ReplyLost, Rollback
<1>2. \E answer \in Answers : Finish(w, answer)
  BY DEF BeginFails, CommitFails, Reply, ReplyLost, Rollback, Answers,
         CommitErrorAnswer, SuccessAnswer
<1>3. lock' = lock \/ lock' = Released(w)
  BY DEF BeginFails, CommitFails, Reply, ReplyLost, Rollback
<1>4. lock' \in [Codes -> Workers \cup {None}]
  BY <1>3, ReleasedType DEF TypeInv, TypeOK
<1>5. UNCHANGED <<rows, activated, log, nextOp, history>>
  BY DEF BeginFails, CommitFails, Reply, ReplyLost, Rollback
<1> QED BY <1>1, <1>2, <1>4, <1>5, FinishTypeInv

LEMMA CommitTypeInv ==
    ASSUME TypeInv, NEW w \in Workers, Commit(w)
    PROVE  TypeInv'
<1> USE DEF TypeInv, Commit, Goto
<1>1. Code(w) \in Codes /\ req[w].id \in OpIds
      /\ req[w].action \in {"create", "update", "delete"}
  BY InFlight
<1>2. tx[w].draft \in Row \cup {None} /\ rows[Code(w)] \in Row \cup {None}
  BY <1>1 DEF TypeOK, TxState
<1>3. rows' \in [Codes -> Row \cup {None}]
  BY <1>2 DEF TypeOK
<1>4. history' \in Seq(Change)
  BY <1>1, <1>2 DEF TypeOK, Change
<1>5. TypeOK'
  BY <1>3, <1>4, ReleasedType DEF TypeOK, Labels
<1>6. StepsOK'
  BY DEF StepsOK, TypeOK
<1> QED BY <1>5, <1>6

LEMMA ActivateTypeInv ==
    ASSUME TypeInv, NEW u \in Users, NEW c \in Codes, Activate(u, c)
    PROVE  TypeInv'
<1> USE DEF TypeInv, Activate
<1>1. rows[c] \in Row
  BY DEF TypeOK
<1>2. [rows[c] EXCEPT !.capacity = @ - 1] \in Row
  BY <1>1, BoundsAssumption DEF Row
<1>3. rows' \in [Codes -> Row \cup {None}]
  BY <1>2 DEF TypeOK
<1>4. TypeOK'
  BY <1>3 DEF TypeOK
<1>5. StepsOK'
  BY DEF StepsOK
<1> QED BY <1>4, <1>5

LEMMA CrashTypeInv ==
    ASSUME TypeInv, Crash
    PROVE  TypeInv'
<1>1. NewTx \in TxState
  BY BoundsAssumption DEF NewTx, TxState
<1>2. TypeOK'
  BY <1>1 DEF TypeInv, TypeOK, Crash, Labels, Answers
<1>3. StepsOK'
  BY DEF Crash, StepsOK
<1> QED BY <1>2, <1>3 DEF TypeInv

LEMMA NextTypeInv == TypeInv /\ [Next]_vars => TypeInv'
<1> SUFFICES ASSUME TypeInv, [Next]_vars PROVE TypeInv'
  OBVIOUS
<1>1. CASE UNCHANGED vars
  BY <1>1 DEF vars, TypeInv, TypeOK, StepsOK
<1>2. ASSUME NEW w \in Workers, Submit(w) PROVE TypeInv'
  BY <1>2, SubmitTypeInv
<1>3. ASSUME NEW w \in Workers, Progress(w) PROVE TypeInv'
  <2>1. CASE UpdateStart(w) \/ DeleteStart(w)
    BY <2>1, SnapshotTypeInv DEF UpdateStart, DeleteStart
  <2> QED BY <1>3, <2>1, BeginTypeInv, SelectTypeInv, SaveTypeInv, CommitTypeInv,
             EndTypeInv DEF Progress
<1>4. ASSUME NEW w \in Workers, Locking(w) PROVE TypeInv'
  BY <1>4, InsertTypeInv, UpdateApplyTypeInv, DeleteApplyTypeInv DEF Locking
<1>5. ASSUME NEW w \in Workers, Fault(w) PROVE TypeInv'
  <2>1. CASE StatementFails(w)
    BY <2>1, AbandonTypeInv DEF StatementFails
  <2> QED BY <1>5, <2>1, SaveTypeInv, EndTypeInv DEF Fault
<1>6. ASSUME NEW u \in Users, NEW c \in Codes, Activate(u, c) PROVE TypeInv'
  BY <1>6, ActivateTypeInv
<1>7. CASE Crash
  BY <1>7, CrashTypeInv
<1>8. CASE Terminating
  BY <1>1, <1>8 DEF Terminating
<1> QED BY <1>1, <1>2, <1>3, <1>4, <1>5, <1>6, <1>7, <1>8 DEF Next

LEMMA TypeInvariant == Spec => []TypeInv
<1>1. Init => TypeInv
  BY InitTypeInv
<1>2. TypeInv /\ [Next]_vars => TypeInv'
  BY NextTypeInv
<1> QED BY <1>1, <1>2, PTL DEF Spec

(* Every variable keeps its type, however many workers, requests and faults. *)
THEOREM TypeCorrect == Spec => []TypeOK
<1>1. TypeInv => TypeOK
  BY DEF TypeInv
<1> QED BY <1>1, TypeInvariant, PTL

-----------------------------------------------------------------------------
(* The audit file is a write-ahead log. *)

(* A row lock belongs to a transaction that has written the row, ... *)
LocksOwned ==
    \A c \in Codes : lock[c] # None =>
        pc[lock[c]] \in {"save", "commit", "rollback"} /\ Code(lock[c]) = c

(* ... and every transaction that has written a row holds its lock. *)
LocksHeld == \A w \in Workers : pc[w] \in {"save", "commit"} => lock[Code(w)] = w

(* Requests have identities of their own, all of them below nextOp. *)
IdsFresh ==
    /\ \A w \in Workers : pc[w] # "idle" => req[w].id < nextOp
    /\ \A v, w \in Workers :
          (v # w /\ pc[v] # "idle" /\ pc[w] # "idle") => req[v].id # req[w].id
    /\ \A i \in DOMAIN log : log[i].id < nextOp
    /\ \A h \in DOMAIN history : history[h].id < nextOp

(* Before its commit a request has no change, before its Save no record. *)
NothingTooEarly ==
    /\ \A w \in Workers : pc[w] \notin {"idle", "reply"} =>
          \A h \in DOMAIN history : history[h].id # req[w].id
    /\ \A w \in Workers : pc[w] \notin {"idle", "commit", "reply", "rollback"} =>
          \A i \in DOMAIN log : log[i].id # req[w].id

OneEntryEach == \A i, j \in DOMAIN log : log[i].id = log[j].id => i = j

(* Entry i is the record of w's request, and the latest entry of its code. *)
Recorded(w, i) ==
    /\ log[i].whole /\ log[i].nl
    /\ log[i].id = req[w].id /\ log[i].action = req[w].action /\ log[i].code = Code(w)
    /\ \A j \in DOMAIN log : log[j].code = Code(w) => j <= i

(* A transaction about to commit has its record in the file. *)
RecordedFirst ==
    \A w \in Workers : pc[w] = "commit" => \E i \in DOMAIN log : Recorded(w, i)

WAInv ==
    /\ LocksOwned /\ LocksHeld /\ IdsFresh /\ NothingTooEarly
    /\ OneEntryEach /\ RecordedFirst /\ CommittedIsSaved /\ AuditOrder

-----------------------------------------------------------------------------
LEMMA InitWAInv == Init => WAInv
BY DEF Init, WAInv, LocksOwned, LocksHeld, IdsFresh, NothingTooEarly, OneEntryEach,
       RecordedFirst, CommittedIsSaved, AuditOrder

(* What is said about the two stores only depends on the two stores. *)
LEMMA StoresUnchanged ==
    ASSUME CommittedIsSaved, AuditOrder, OneEntryEach, UNCHANGED <<log, history>>
    PROVE  CommittedIsSaved' /\ AuditOrder' /\ OneEntryEach'
BY DEF CommittedIsSaved, AuditOrder, OneEntryEach, Records

(* The identities and codes in the two stores are those of requests. *)
LEMMA StoreTypes ==
    ASSUME TypeOK
    PROVE  /\ \A i \in DOMAIN log : log[i].id \in OpIds /\ log[i].code \in Codes
           /\ \A h \in DOMAIN history : history[h].id \in OpIds /\ history[h].code \in Codes
<1>1. \A i \in DOMAIN log : log[i] \in AuditEntry
  BY DEF TypeOK
<1>2. \A h \in DOMAIN history : history[h] \in Change
  BY DEF TypeOK
<1> QED BY <1>1, <1>2 DEF AuditEntry, Change

LEMMA SubmitWAInv ==
    ASSUME TypeInv, WAInv, NEW w \in Workers, Submit(w)
    PROVE  WAInv'
<1> USE DEF WAInv, Submit, Goto
<1>1. PICK r \in Requests(nextOp) : req' = [req EXCEPT ![w] = r]
  OBVIOUS
<1>2. r.id = nextOp /\ nextOp \in Nat
  BY <1>1, BoundsAssumption
     DEF Requests, CreateRequest, UpdateRequest, DeleteRequest, TypeInv, TypeOK
<1>3. \A v \in Workers : v # w => req'[v] = req[v] /\ pc'[v] = pc[v] /\ Code(v)' = Code(v)
  BY <1>1 DEF TypeInv, TypeOK, Code
<1>4. req'[w].id = nextOp /\ pc'[w] = "begin"
  BY <1>1, <1>2 DEF TypeInv, TypeOK
<1>5. LocksOwned'
  <2>1. \A c \in Codes : lock[c] # None => lock[c] \in Workers /\ lock[c] # w
    BY DEF LocksOwned, TypeInv, TypeOK
  <2>2. lock' = lock
    OBVIOUS
  <2> QED BY <1>3, <2>1, <2>2 DEF LocksOwned
<1>6. LocksHeld'
  <2>1. \A v \in Workers : pc'[v] \in {"save", "commit"} => v # w
    BY <1>4
  <2>2. lock' = lock
    OBVIOUS
  <2> QED BY <1>3, <2>1, <2>2 DEF LocksHeld
<1>7. \A i \in DOMAIN log : log[i].id \in OpIds
  BY StoreTypes DEF TypeInv
<1>8. \A h \in DOMAIN history : history[h].id \in OpIds
  BY StoreTypes DEF TypeInv
<1>9. \A v \in Workers : pc[v] # "idle" => req[v].id \in OpIds
  BY InFlight DEF TypeInv
<1>10. IdsFresh'
  BY <1>2, <1>3, <1>4, <1>7, <1>8, <1>9 DEF IdsFresh, OpIds
<1>11. NothingTooEarly'
  BY <1>2, <1>3, <1>4, <1>7, <1>8 DEF NothingTooEarly, IdsFresh, OpIds
<1>12. RecordedFirst'
  BY <1>3, <1>4 DEF RecordedFirst, Recorded
<1> QED BY <1>5, <1>6, <1>10, <1>11, <1>12, StoresUnchanged

(* A step of a transaction that neither locks, writes a record nor commits. *)
LEMMA QuietWAInv ==
    ASSUME TypeInv, WAInv, NEW w \in Workers,
           pc[w] \notin {"idle", "commit", "reply", "rollback"},
           NEW label \in Labels \ {"idle", "save", "commit", "reply"},
           pc[w] = "save" => label = "rollback",
           Goto(w, label), UNCHANGED <<lock, log, req, nextOp, history>>
    PROVE  WAInv'
<1> USE DEF WAInv, Goto
<1>1. \A v \in Workers : v # w => pc'[v] = pc[v]
  BY DEF TypeInv, TypeOK
<1>2. pc'[w] = label /\ \A v \in Workers : Code(v)' = Code(v)
  BY DEF TypeInv, TypeOK, Code
<1>3. LocksOwned'
  BY <1>1, <1>2 DEF LocksOwned, TypeInv, TypeOK
<1>4. LocksHeld'
  BY <1>1, <1>2 DEF LocksHeld
<1>5. IdsFresh'
  BY <1>1, <1>2 DEF IdsFresh
<1>6. NothingTooEarly'
  BY <1>1, <1>2 DEF NothingTooEarly
<1>7. RecordedFirst'
  BY <1>1, <1>2 DEF RecordedFirst, Recorded
<1> QED BY <1>3, <1>4, <1>5, <1>6, <1>7, StoresUnchanged

(* A statement that writes the row takes a lock that was free. *)
LEMMA WriteWAInv ==
    ASSUME TypeInv, WAInv, NEW w \in Workers,
           pc[w] \in {"insert", "updating", "deleting"}, LockFree(w),
           NEW version, Write(w, version), UNCHANGED <<log, req, nextOp, history>>
    PROVE  WAInv'
<1> USE DEF WAInv, Write, Goto, AfterStatement
<1>1. \A v \in Workers : v # w => pc'[v] = pc[v]
  BY DEF TypeInv, TypeOK
<1>2. pc'[w] = "save" /\ \A v \in Workers : Code(v)' = Code(v)
  BY DEF TypeInv, TypeOK, Code
<1>3. Code(w) \in Codes
  BY InFlight DEF TypeInv
<1>4. lock'[Code(w)] = w /\ \A c \in Codes : c # Code(w) => lock'[c] = lock[c]
  BY <1>3 DEF TypeInv, TypeOK
<1>5. LocksOwned'
  BY <1>1, <1>2, <1>3, <1>4 DEF LocksOwned, TypeInv, TypeOK
<1>6. LocksHeld'
  <2>1. \A v \in Workers : pc[v] \in {"save", "commit"} => Code(v) # Code(w)
    BY NoneIsNothing DEF LocksHeld, LockFree
  <2>2. \A v \in Workers : pc[v] # "idle" => Code(v) \in Codes
    BY InFlight DEF TypeInv
  <2> QED BY <1>1, <1>2, <1>4, <2>1, <2>2 DEF LocksHeld
<1>7. IdsFresh'
  BY <1>1, <1>2 DEF IdsFresh
<1>8. NothingTooEarly'
  BY <1>1, <1>2 DEF NothingTooEarly
<1>9. RecordedFirst'
  BY <1>1, <1>2 DEF RecordedFirst, Recorded
<1> QED BY <1>5, <1>6, <1>7, <1>8, <1>9, StoresUnchanged

(* What one Write left in the file, in full or in part: a full record leads to *)
(* the commit, a partial one to the rollback.                                  *)
LEMMA AppendWAInv ==
    ASSUME TypeInv, WAInv, NEW w \in Workers, pc[w] = "save",
           NEW entry, log' = Append(log, entry),
           entry.id = req[w].id, entry.code = Code(w),
           NEW label \in {"commit", "rollback"}, Goto(w, label),
           label = "commit" => entry.whole /\ entry.nl /\ entry.action = req[w].action,
           UNCHANGED <<lock, req, nextOp, history>>
    PROVE  WAInv'
<1> USE DEF WAInv, Goto
<1>1. /\ DOMAIN log = 1..Len(log) /\ DOMAIN log' = 1..(Len(log) + 1) /\ Len(log) \in Nat
      /\ log'[Len(log) + 1] = entry
      /\ \A i \in DOMAIN log : log'[i] = log[i]
  BY DEF TypeInv, TypeOK
<1>2. \A v \in Workers : v # w => pc'[v] = pc[v]
  BY DEF TypeInv, TypeOK
<1>3. pc'[w] = label /\ \A v \in Workers : Code(v)' = Code(v)
  BY DEF TypeInv, TypeOK, Code
<1>4. LocksOwned'
  BY <1>2, <1>3 DEF LocksOwned, TypeInv, TypeOK
<1>5. LocksHeld'
  BY <1>2, <1>3 DEF LocksHeld
<1>6. IdsFresh'
  BY <1>1, <1>2, <1>3 DEF IdsFresh
<1>7. NothingTooEarly'
  BY <1>1, <1>2, <1>3 DEF NothingTooEarly, IdsFresh
<1>8. \A i \in DOMAIN log : log[i].id # entry.id
  BY DEF NothingTooEarly
<1>9. OneEntryEach'
  BY <1>1, <1>8 DEF OneEntryEach
<1>10. \A v \in Workers : (v # w /\ pc[v] = "commit") => Code(v) # Code(w)
  BY DEF LocksHeld
<1>11. RecordedFirst'
  <2>1. ASSUME label = "commit", NEW k, k = Len(log) + 1
        PROVE  k \in DOMAIN log' /\ Recorded(w, k)'
    BY <1>1, <1>3, <2>1 DEF Recorded
  <2>2. ASSUME NEW v \in Workers, v # w, pc[v] = "commit"
        PROVE  \E i \in DOMAIN log' : Recorded(v, i)'
    <3>1. PICK i \in DOMAIN log : Recorded(v, i)
      BY <2>2 DEF RecordedFirst
    <3> QED BY <1>1, <1>3, <1>10, <2>2, <3>1 DEF Recorded
  <2> QED BY <1>1, <1>2, <1>3, <2>1, <2>2 DEF RecordedFirst
<1>12. CommittedIsSaved'
  BY <1>1 DEF CommittedIsSaved, Records
<1>13. AuditOrder'
  <2>1. \A h \in DOMAIN history : history[h].id # entry.id
    BY DEF NothingTooEarly
  <2>2. \A h \in DOMAIN history : \A i \in DOMAIN log' :
            Records(i, h)' => i \in DOMAIN log /\ Records(i, h)
    BY <1>1, <2>1 DEF Records
  <2> QED BY <2>2 DEF AuditOrder
<1> QED BY <1>4, <1>5, <1>6, <1>7, <1>9, <1>11, <1>12, <1>13

(* The locks of the others survive when a transaction releases its own. *)
LEMMA ReleasedLocks ==
    ASSUME TypeInv, LocksOwned, LocksHeld, NEW w \in Workers, lock' = Released(w)
    PROVE  /\ \A c \in Codes : lock'[c] # None => lock'[c] = lock[c] /\ lock[c] # w
           /\ \A v \in Workers : (v # w /\ pc[v] \in {"save", "commit"}) =>
                 lock'[Code(v)] = v
<1>1. \A v \in Workers : pc[v] # "idle" => Code(v) \in Codes
  BY InFlight DEF TypeInv
<1> QED BY <1>1 DEF Released, LocksHeld

LEMMA CommitWAInv ==
    ASSUME TypeInv, WAInv, NEW w \in Workers, Commit(w)
    PROVE  WAInv'
<1> USE DEF WAInv, Commit, Goto
<1> DEFINE n == Len(history)
<1>1. /\ DOMAIN history = 1..n /\ DOMAIN history' = 1..(n + 1) /\ n \in Nat
      /\ history'[n + 1].id = req[w].id /\ history'[n + 1].code = Code(w)
      /\ history'[n + 1].action = req[w].action
      /\ \A h \in DOMAIN history : history'[h] = history[h]
  BY DEF TypeInv, TypeOK
<1>2. \A v \in Workers : v # w => pc'[v] = pc[v]
  BY DEF TypeInv, TypeOK
<1>3. pc'[w] = "reply" /\ \A v \in Workers : Code(v)' = Code(v)
  BY DEF TypeInv, TypeOK, Code
<1>4. LocksOwned'
  BY <1>2, <1>3, ReleasedLocks DEF LocksOwned, TypeInv, TypeOK
<1>5. LocksHeld'
  BY <1>2, <1>3, ReleasedLocks DEF LocksHeld
<1>6. IdsFresh'
  BY <1>1, <1>2, <1>3 DEF IdsFresh
<1>7. NothingTooEarly'
  BY <1>1, <1>2, <1>3 DEF NothingTooEarly, IdsFresh
<1>8. RecordedFirst'
  BY <1>2, <1>3 DEF RecordedFirst, Recorded
<1>9. PICK i0 \in DOMAIN log : Recorded(w, i0)
  BY DEF RecordedFirst
<1>10. CommittedIsSaved'
  BY <1>1, <1>9 DEF CommittedIsSaved, Records, Recorded
<1>11. AuditOrder'
  <2>1. \A h \in DOMAIN history : history[h].id # req[w].id
    BY DEF NothingTooEarly
  <2>2. \A h \in DOMAIN history' : \A j \in DOMAIN log :
            (h \notin DOMAIN history /\ Records(j, h)') => h = n + 1 /\ j = i0
    BY <1>1, <1>9 DEF Records, Recorded, OneEntryEach
  <2>3. \A g \in DOMAIN history : \A i \in DOMAIN log :
            (history[g].code = Code(w) /\ Records(i, g)) => i < i0
    <3>1. DOMAIN log \subseteq Int
      BY DEF TypeInv, TypeOK
    <3> QED BY <1>9, <2>1, <3>1 DEF Records, Recorded
  <2>4. \A h \in DOMAIN history : \A i \in DOMAIN log : Records(i, h)' <=> Records(i, h)
    BY <1>1 DEF Records
  <2> QED BY <1>1, <2>2, <2>3, <2>4 DEF AuditOrder
<1>12. OneEntryEach'
  BY DEF OneEntryEach
<1> QED BY <1>4, <1>5, <1>6, <1>7, <1>8, <1>10, <1>11, <1>12

(* The end of a request, committed or not. *)
LEMMA FinishWAInv ==
    ASSUME TypeInv, WAInv, NEW w \in Workers, NEW answer, Finish(w, answer),
           \/ lock' = Released(w)
           \/ lock' = lock /\ pc[w] \in {"begin", "reply"},
           UNCHANGED <<log, nextOp, history>>
    PROVE  WAInv'
<1> USE DEF WAInv, Finish, Goto
<1>1. \A v \in Workers : v # w => pc'[v] = pc[v] /\ req'[v] = req[v] /\ Code(v)' = Code(v)
  BY DEF TypeInv, TypeOK, Code
<1>2. pc'[w] = "idle"
  BY DEF TypeInv, TypeOK
<1>3. \A c \in Codes : lock'[c] # None => lock'[c] = lock[c] /\ lock[c] # w
  BY ReleasedLocks DEF LocksOwned
<1>4. LocksOwned'
  BY <1>1, <1>2, <1>3 DEF LocksOwned, TypeInv, TypeOK
<1>5. LocksHeld'
  BY <1>1, <1>2, ReleasedLocks DEF LocksHeld
<1>6. IdsFresh'
  BY <1>1, <1>2 DEF IdsFresh
<1>7. NothingTooEarly'
  BY <1>1, <1>2 DEF NothingTooEarly
<1>8. RecordedFirst'
  BY <1>1, <1>2 DEF RecordedFirst, Recorded
<1> QED BY <1>4, <1>5, <1>6, <1>7, <1>8, StoresUnchanged

(* A restart finds the two stores as they were, and no transaction. *)
LEMMA CrashWAInv ==
    ASSUME TypeInv, WAInv, Crash
    PROVE  WAInv'
<1> USE DEF WAInv, Crash
<1>1. LocksOwned' /\ LocksHeld' /\ IdsFresh' /\ NothingTooEarly' /\ RecordedFirst'
  BY DEF LocksOwned, LocksHeld, IdsFresh, NothingTooEarly, RecordedFirst
<1> QED BY <1>1, StoresUnchanged

(* The external bot touches none of this, nor does a step that only stutters. *)
LEMMA ElsewhereWAInv ==
    ASSUME WAInv, UNCHANGED <<lock, log, pc, req, nextOp, history>>
    PROVE  WAInv'
<1> USE DEF WAInv
<1>1. LocksOwned' /\ LocksHeld' /\ IdsFresh' /\ NothingTooEarly' /\ RecordedFirst'
  BY DEF LocksOwned, LocksHeld, IdsFresh, NothingTooEarly, RecordedFirst, Recorded, Code
<1> QED BY <1>1, StoresUnchanged

LEMMA AbandonWAInv ==
    ASSUME TypeInv, WAInv, NEW w \in Workers, Abandon(w),
           pc[w] \notin {"idle", "save", "commit", "reply", "rollback"},
           UNCHANGED <<log, req, nextOp, history>>
    PROVE  WAInv'
<1>1. Goto(w, "rollback") /\ UNCHANGED lock /\ "rollback" \in Labels
  BY DEF Abandon, Labels
<1> QED BY <1>1, QuietWAInv

LEMMA StatementWAInv ==
    ASSUME TypeInv, WAInv, NEW w \in Workers,
           Begin(w) \/ Select(w) \/ UpdateStart(w) \/ DeleteStart(w) \/ Locking(w)
             \/ StatementFails(w)
    PROVE  WAInv'
<1>1. CASE Begin(w)
  <2>1. FirstStatement(req[w].action) \in {"insert", "select", "delete"}
    BY <1>1, InFlight DEF Begin, TypeInv, FirstStatement
  <2> QED BY <1>1, <2>1, QuietWAInv DEF Begin, Labels
<1>2. CASE Select(w)
  BY <1>2, AbandonWAInv, QuietWAInv DEF Select, Labels
<1>3. CASE UpdateStart(w) \/ DeleteStart(w)
  BY <1>3, AbandonWAInv, QuietWAInv DEF UpdateStart, DeleteStart, TakeSnapshot, Labels
<1>4. CASE Locking(w)
  BY <1>4, AbandonWAInv, WriteWAInv DEF Locking, Insert, UpdateApply, DeleteApply
<1>5. CASE StatementFails(w)
  BY <1>5, AbandonWAInv DEF StatementFails
<1> QED BY <1>1, <1>2, <1>3, <1>4, <1>5

LEMMA SaveWAInv ==
    ASSUME TypeInv, WAInv, NEW w \in Workers, Save(w) \/ SaveFails(w)
    PROVE  WAInv'
<1>1. pc[w] = "save" /\ AfterFailedSave = "rollback" /\ "rollback" \in Labels
  BY DEF Save, SaveFails, AfterFailedSave, Labels
<1>2. /\ AuditRecord(w).id = req[w].id /\ AuditRecord(w).action = req[w].action
      /\ AuditRecord(w).code = Code(w) /\ AuditRecord(w).whole /\ AuditRecord(w).nl
  BY DEF AuditRecord, Code
<1>3. CASE Save(w)
  BY <1>1, <1>2, <1>3, AppendWAInv DEF Save
<1>4. CASE SaveFails(w) /\ UNCHANGED log
  BY <1>1, <1>4, QuietWAInv DEF SaveFails
<1>5. CASE SaveFails(w) /\ ~UNCHANGED log
  <2>1. PICK whole \in BOOLEAN : log' = Append(log, Cut(AuditRecord(w), whole))
    BY <1>5 DEF SaveFails
  <2>2. /\ Cut(AuditRecord(w), whole).id = req[w].id
        /\ Cut(AuditRecord(w), whole).code = Code(w)
    BY DEF Cut, AuditRecord, Code
  <2> QED BY <1>1, <1>5, <2>1, <2>2, AppendWAInv DEF SaveFails
<1> QED BY <1>3, <1>4, <1>5

LEMMA EndWAInv ==
    ASSUME TypeInv, WAInv, NEW w \in Workers,
           BeginFails(w) \/ CommitFails(w) \/ Reply(w) \/ ReplyLost(w) \/ Rollback(w)
    PROVE  WAInv'
<1>1. \E answer : Finish(w, answer)
  BY DEF BeginFails, CommitFails, Reply, ReplyLost, Rollback
<1>2. \/ lock' = Released(w)
      \/ lock' = lock /\ pc[w] \in {"begin", "reply"}
  BY DEF BeginFails, CommitFails, Reply, ReplyLost, Rollback
<1>3. UNCHANGED <<log, nextOp, history>>
  BY DEF BeginFails, CommitFails, Reply, ReplyLost, Rollback
<1> QED BY <1>1, <1>2, <1>3, FinishWAInv

LEMMA NextWAInv == TypeInv /\ WAInv /\ [Next]_vars => WAInv'
<1> SUFFICES ASSUME TypeInv, WAInv, [Next]_vars PROVE WAInv'
  OBVIOUS
<1>1. CASE UNCHANGED vars
  BY <1>1, ElsewhereWAInv DEF vars
<1>2. ASSUME NEW w \in Workers, Submit(w) PROVE WAInv'
  BY <1>2, SubmitWAInv
<1>3. ASSUME NEW w \in Workers, Progress(w) PROVE WAInv'
  BY <1>3, StatementWAInv, SaveWAInv, CommitWAInv, EndWAInv DEF Progress
<1>4. ASSUME NEW w \in Workers, Locking(w) PROVE WAInv'
  BY <1>4, StatementWAInv
<1>5. ASSUME NEW w \in Workers, Fault(w) PROVE WAInv'
  BY <1>5, StatementWAInv, SaveWAInv, EndWAInv DEF Fault
<1>6. ASSUME NEW u \in Users, NEW c \in Codes, Activate(u, c) PROVE WAInv'
  BY <1>6, ElsewhereWAInv DEF Activate
<1>7. CASE Crash
  BY <1>7, CrashWAInv
<1>8. CASE Terminating
  BY <1>1, <1>8 DEF Terminating
<1> QED BY <1>1, <1>2, <1>3, <1>4, <1>5, <1>6, <1>7, <1>8 DEF Next

LEMMA WAInvariant == Spec => [](TypeInv /\ WAInv)
<1>1. Init => TypeInv /\ WAInv
  BY InitTypeInv, InitWAInv
<1>2. TypeInv /\ WAInv /\ [Next]_vars => TypeInv' /\ WAInv'
  BY NextTypeInv, NextWAInv
<1> QED BY <1>1, <1>2, PTL DEF Spec

(* WithinTransaction never commits a change whose record Save did not write  *)
(* in full before.                                                           *)
THEOREM NothingUnsaved == Spec => []CommittedIsSaved
<1>1. WAInv => CommittedIsSaved
  BY DEF WAInv
<1> QED BY <1>1, WAInvariant, PTL

(* The row lock keeps the records of a code in the order of its commits. *)
THEOREM RecordsInCommitOrder == Spec => []AuditOrder
<1>1. WAInv => AuditOrder
  BY DEF WAInv
<1> QED BY <1>1, WAInvariant, PTL

-----------------------------------------------------------------------------
(* PromoService implements AuditedChanges: a Save that succeeds records a     *)
(* change, one that fails may tear a line, a commit applies the change, and   *)
(* nothing else touches the two stores.                                      *)

AbstractEntry == [id: OpIds, code: Codes]

(* The abstract view of one entry of the file, and of one committed change. *)
Line(entry) == IF entry.whole /\ entry.nl THEN [id |-> entry.id, code |-> entry.code] ELSE None
Done(change) == [id |-> change.id, code |-> change.code]

Lines(s) == [i \in DOMAIN s |-> Line(s[i])]
AllDone(s) == [h \in DOMAIN s |-> Done(s[h])]

LEMMA TrailIsLines == Trail = Lines(log) /\ Applied = AllDone(history)
BY DEF Trail, Applied, Lines, Line, AllDone, Done

LEMMA LinesAreASeq ==
    ASSUME NEW s \in Seq(AuditEntry)
    PROVE  /\ Lines(s) \in Seq(AbstractEntry \cup {None})
           /\ Len(Lines(s)) = Len(s)
           /\ \A i \in 1..Len(s) : Lines(s)[i] = Line(s[i])
<1>1. Len(s) \in Nat /\ DOMAIN s = 1..Len(s) /\ \A i \in 1..Len(s) : s[i] \in AuditEntry
  BY LenProperties, ElementOfSeq
<1>2. \A i \in 1..Len(s) : Line(s[i]) \in AbstractEntry \cup {None}
  BY <1>1 DEF Line, AuditEntry, AbstractEntry
<1>3. Lines(s) \in [1..Len(s) -> AbstractEntry \cup {None}]
  BY <1>1, <1>2 DEF Lines
<1>4. Lines(s) \in Seq(AbstractEntry \cup {None})
  BY <1>1, <1>3, SeqDef
<1>5. Len(Lines(s)) = Len(s)
  BY <1>1, <1>3, <1>4, LenProperties
<1> QED BY <1>1, <1>4, <1>5 DEF Lines

LEMMA DoneIsASeq ==
    ASSUME NEW s \in Seq(Change)
    PROVE  /\ AllDone(s) \in Seq(AbstractEntry)
           /\ Len(AllDone(s)) = Len(s)
           /\ \A i \in 1..Len(s) : AllDone(s)[i] = Done(s[i])
<1>1. Len(s) \in Nat /\ DOMAIN s = 1..Len(s) /\ \A i \in 1..Len(s) : s[i] \in Change
  BY LenProperties, ElementOfSeq
<1>2. \A i \in 1..Len(s) : Done(s[i]) \in AbstractEntry
  BY <1>1 DEF Done, Change, AbstractEntry
<1>3. AllDone(s) \in [1..Len(s) -> AbstractEntry]
  BY <1>1, <1>2 DEF AllDone
<1>4. AllDone(s) \in Seq(AbstractEntry)
  BY <1>1, <1>3, SeqDef
<1>5. Len(AllDone(s)) = Len(s)
  BY <1>1, <1>3, <1>4, LenProperties
<1> QED BY <1>1, <1>4, <1>5 DEF AllDone

(* A sequence with one more element at its end. *)
LEMMA Longer ==
    ASSUME NEW S, NEW t \in Seq(S), NEW u \in Seq(S), NEW x \in S,
           Len(u) = Len(t) + 1, u[Len(u)] = x,
           \A i \in 1..Len(t) : u[i] = t[i]
    PROVE  u = Append(t, x)
<1> DEFINE a == Append(t, x)
<1>1. /\ a \in Seq(S) /\ Len(a) = Len(u) /\ Len(t) \in Nat /\ a[Len(u)] = x
      /\ \A i \in 1..Len(t) : a[i] = t[i]
  BY AppendProperties, LenProperties
<1>2. \A i \in 1..Len(u) : i \in 1..Len(t) \/ i = Len(u)
  BY <1>1
<1> HIDE DEF a
<1>3. \A i \in 1..Len(u) : u[i] = a[i]
  BY <1>1, <1>2
<1>4. u = a
  BY <1>1, <1>3, SeqEqual
<1> QED BY <1>4 DEF a

(* A Write that left something in the file adds a line to the trail, ... *)
LEMMA LinesAppend ==
    ASSUME NEW s \in Seq(AuditEntry), NEW e \in AuditEntry
    PROVE  Lines(Append(s, e)) = Append(Lines(s), Line(e))
<1> DEFINE long == Append(s, e)
<1>1. /\ long \in Seq(AuditEntry) /\ Len(long) = Len(s) + 1 /\ Len(s) \in Nat
      /\ \A i \in 1..Len(s) : long[i] = s[i]
      /\ long[Len(long)] = e
  BY AppendProperties, LenProperties
<1>2. Line(e) \in AbstractEntry \cup {None}
  BY DEF Line, AuditEntry, AbstractEntry
<1> HIDE DEF long
<1>3. Len(long) \in 1..Len(long) /\ \A i \in 1..Len(s) : i \in 1..Len(long)
  BY <1>1
<1>4. \A i \in 1..Len(s) : Lines(long)[i] = Lines(s)[i]
  BY <1>1, <1>3, LinesAreASeq
<1>5. Lines(long)[Len(long)] = Line(e)
  BY <1>1, <1>3, LinesAreASeq
<1>6. Len(Lines(s)) = Len(s) /\ Len(Lines(long)) = Len(s) + 1
  BY <1>1, LinesAreASeq
<1>7. Lines(s) \in Seq(AbstractEntry \cup {None}) /\ Lines(long) \in Seq(AbstractEntry \cup {None})
  BY <1>1, LinesAreASeq
<1>8. Lines(long) = Append(Lines(s), Line(e))
  BY <1>1, <1>2, <1>4, <1>5, <1>6, <1>7, Longer
<1> QED BY <1>8 DEF long

(* ... and a commit one to the applied changes. *)
LEMMA DoneAppend ==
    ASSUME NEW s \in Seq(Change), NEW e \in Change
    PROVE  AllDone(Append(s, e)) = Append(AllDone(s), Done(e))
<1> DEFINE long == Append(s, e)
<1>1. /\ long \in Seq(Change) /\ Len(long) = Len(s) + 1 /\ Len(s) \in Nat
      /\ \A i \in 1..Len(s) : long[i] = s[i]
      /\ long[Len(long)] = e
  BY AppendProperties, LenProperties
<1>2. Done(e) \in AbstractEntry
  BY DEF Done, Change, AbstractEntry
<1> HIDE DEF long
<1>3. Len(long) \in 1..Len(long) /\ \A i \in 1..Len(s) : i \in 1..Len(long)
  BY <1>1
<1>4. \A i \in 1..Len(s) : AllDone(long)[i] = AllDone(s)[i]
  BY <1>1, <1>3, DoneIsASeq
<1>5. AllDone(long)[Len(long)] = Done(e)
  BY <1>1, <1>3, DoneIsASeq
<1>6. Len(AllDone(s)) = Len(s) /\ Len(AllDone(long)) = Len(s) + 1
  BY <1>1, DoneIsASeq
<1>7. AllDone(s) \in Seq(AbstractEntry) /\ AllDone(long) \in Seq(AbstractEntry)
  BY <1>1, DoneIsASeq
<1>8. AllDone(long) = Append(AllDone(s), Done(e))
  BY <1>1, <1>2, <1>4, <1>5, <1>6, <1>7, Longer
<1> QED BY <1>8 DEF long

-----------------------------------------------------------------------------
(* What the abstract actions read, in terms of the two stores. *)
LEMMA AbstractReads ==
    ASSUME TypeOK
    PROVE  /\ DOMAIN Trail = DOMAIN log /\ DOMAIN Applied = DOMAIN history
           /\ \A i \in DOMAIN log : Trail[i] = Line(log[i])
           /\ \A h \in DOMAIN history : Applied[h] = Done(history[h])
BY DEF Trail, Applied, Line, Done

LEMMA EntryIsNotTorn == \A e \in AbstractEntry : e # None
BY NoneAssumption DEF AbstractEntry

(* A step that leaves the two stores alone is a stutter. *)
LEMMA Stutter ==
    ASSUME UNCHANGED <<log, history>>
    PROVE  [Abstract!Next]_<<Trail, Applied>>
BY DEF Trail, Applied

(* What one Write leaves in the file is a record or a torn line. *)
LEMMA AppendStep ==
    ASSUME TypeInv, WAInv, NEW w \in Workers, pc[w] = "save",
           NEW entry \in AuditEntry, log' = Append(log, entry), entry.id = req[w].id,
           UNCHANGED history
    PROVE  Abstract!Next
<1>1. Trail' = Append(Trail, Line(entry)) /\ Applied' = Applied
  <2>1. log \in Seq(AuditEntry)
    BY DEF TypeInv, TypeOK
  <2>2. Trail = Lines(log) /\ Trail' = Lines(log')
    BY DEF Trail, Lines, Line
  <2>3. Lines(log') = Append(Lines(log), Line(entry))
    BY <2>1, LinesAppend
  <2> QED BY <2>2, <2>3 DEF Applied
<1>2. CASE entry.whole /\ entry.nl
  <2> DEFINE e == [id |-> entry.id, code |-> entry.code]
  <2>1. e \in AbstractEntry /\ Line(entry) = e
    BY <1>2 DEF AuditEntry, AbstractEntry, Line
  <2>2. \A i \in DOMAIN Trail : Trail[i] # None => Trail[i].id # e.id
    BY AbstractReads DEF TypeInv, WAInv, NothingTooEarly, Line
  <2>3. \A h \in DOMAIN Applied : Applied[h].id # e.id
    BY AbstractReads DEF TypeInv, WAInv, NothingTooEarly, Done
  <2>4. Abstract!Record(e)
    BY <1>1, <2>1, <2>2, <2>3 DEF Abstract!Record
  <2> QED BY <2>1, <2>4 DEF Abstract!Next, Abstract!Entry, AbstractEntry
<1>3. CASE ~(entry.whole /\ entry.nl)
  BY <1>1, <1>3 DEF Abstract!Next, Abstract!Tear, Line
<1> QED BY <1>2, <1>3

(* A commit applies the change whose record is the latest of its code. *)
LEMMA CommitStep ==
    ASSUME TypeInv, WAInv, NEW w \in Workers, Commit(w)
    PROVE  Abstract!Next
<1> DEFINE change == [id |-> req[w].id, action |-> req[w].action, code |-> Code(w),
                      old |-> rows[Code(w)], new |-> tx[w].draft]
<1>1. PICK i \in DOMAIN log : Recorded(w, i)
  BY DEF Commit, WAInv, RecordedFirst
<1>2. Trail[i] = [id |-> req[w].id, code |-> Code(w)] /\ Trail[i] \in AbstractEntry
  BY <1>1, AbstractReads, StoreTypes DEF TypeInv, Recorded, Line, AbstractEntry
<1>3. Abstract!LatestOfItsCode(i)
  <2>1. ASSUME NEW j \in DOMAIN Trail, Trail[j] # None, Trail[j].code = Trail[i].code
        PROVE  j <= i
    <3>1. j \in DOMAIN log /\ log[j].code = Code(w)
      BY <1>2, <2>1, AbstractReads DEF TypeInv, Line
    <3> QED BY <1>1, <3>1 DEF Recorded
  <2> QED BY <2>1 DEF Abstract!LatestOfItsCode
<1>4. \A h \in DOMAIN Applied : Applied[h].id # Trail[i].id
  BY <1>2, AbstractReads DEF TypeInv, WAInv, NothingTooEarly, Done, Commit
<1>5. Applied' = Append(Applied, Trail[i]) /\ UNCHANGED Trail
  <2>1. history \in Seq(Change) /\ history' = Append(history, change)
    BY DEF TypeInv, TypeOK, Commit
  <2>2. change \in Change
    <3>1. pc[w] # "idle" /\ tx[w] \in TxState
      BY DEF TypeInv, TypeOK, Commit
    <3>2. Code(w) \in Codes /\ req[w].id \in OpIds
          /\ req[w].action \in {"create", "update", "delete"}
      BY <3>1, InFlight DEF TypeInv
    <3>3. rows[Code(w)] \in Row \cup {None} /\ tx[w].draft \in Row \cup {None}
      BY <3>1, <3>2 DEF TypeInv, TypeOK, TxState
    <3> QED BY <3>2, <3>3 DEF Change
  <2>3. Applied = AllDone(history) /\ Applied' = AllDone(history')
    BY TrailIsLines DEF Applied, AllDone, Done
  <2>4. Done(change) = Trail[i]
    BY <1>2 DEF Done
  <2>5. UNCHANGED log
    BY DEF Commit
  <2> HIDE DEF change
  <2>6. AllDone(history') = Append(AllDone(history), Done(change))
    BY <2>1, <2>2, DoneAppend
  <2> QED BY <2>3, <2>4, <2>5, <2>6 DEF Trail
<1>6. Trail[i] # None /\ i \in DOMAIN Trail
  BY <1>2, EntryIsNotTorn, AbstractReads DEF TypeInv
<1>7. Abstract!Apply(i)
  BY <1>3, <1>4, <1>5, <1>6
     DEF Abstract!Apply, Abstract!IsRecord, Abstract!NotAppliedYet
<1> QED BY <1>6, <1>7 DEF Abstract!Next

LEMMA RefinedStep == TypeInv /\ WAInv /\ [Next]_vars => [Abstract!Next]_<<Trail, Applied>>
<1> SUFFICES ASSUME TypeInv, WAInv, [Next]_vars
             PROVE  [Abstract!Next]_<<Trail, Applied>>
  OBVIOUS
<1>1. CASE UNCHANGED vars
  BY <1>1, Stutter DEF vars
<1>2. ASSUME NEW w \in Workers, Save(w) PROVE Abstract!Next
  BY <1>2, AppendStep, RecordType DEF Save, AuditRecord
<1>3. ASSUME NEW w \in Workers, SaveFails(w) PROVE [Abstract!Next]_<<Trail, Applied>>
  <2>1. CASE UNCHANGED log
    BY <1>3, <2>1, Stutter DEF SaveFails
  <2>2. CASE \E whole \in BOOLEAN : log' = Append(log, Cut(AuditRecord(w), whole))
    <3>1. PICK whole \in BOOLEAN : log' = Append(log, Cut(AuditRecord(w), whole))
      BY <2>2
    <3>2. Cut(AuditRecord(w), whole).id = req[w].id
      BY DEF Cut, AuditRecord
    <3>3. pc[w] = "save" /\ UNCHANGED history
      BY <1>3 DEF SaveFails
    <3>4. Cut(AuditRecord(w), whole) \in AuditEntry
      BY <3>3, RecordType
    <3> QED BY <3>1, <3>2, <3>3, <3>4, AppendStep
  <2> QED BY <1>3, <2>1, <2>2 DEF SaveFails
<1>4. ASSUME NEW w \in Workers, Submit(w) PROVE UNCHANGED <<log, history>>
  BY <1>4 DEF Submit
<1>5. ASSUME NEW w \in Workers, Progress(w)
      PROVE  UNCHANGED <<log, history>> \/ Save(w) \/ Commit(w)
  BY <1>5 DEF Progress, Begin, Select, UpdateStart, DeleteStart, TakeSnapshot, Reply, Rollback
<1>6. ASSUME NEW w \in Workers, Locking(w) PROVE UNCHANGED <<log, history>>
  BY <1>6 DEF Locking, Insert, UpdateApply, DeleteApply
<1>7. ASSUME NEW w \in Workers, Fault(w) PROVE UNCHANGED <<log, history>> \/ SaveFails(w)
  BY <1>7 DEF Fault, BeginFails, StatementFails, CommitFails, ReplyLost
<1>8. CASE Crash \/ Terminating \/ \E u \in Users, c \in Codes : Activate(u, c)
  BY <1>8, Stutter DEF Crash, Terminating, vars, Activate
<1> QED BY <1>1, <1>2, <1>3, <1>4, <1>5, <1>6, <1>7, <1>8, CommitStep, Stutter DEF Next

(* The two stores of the service, seen as lines and committed changes, are a *)
(* write-ahead trail: whatever AuditedChanges promises, the service keeps.   *)
THEOREM Implements == Spec => WriteAhead
<1>1. Init => Abstract!Init
  BY DEF Init, Abstract!Init, Trail, Applied
<1>2. TypeInv /\ WAInv /\ [Next]_vars => [Abstract!Next]_<<Trail, Applied>>
  BY RefinedStep
<1> QED BY <1>1, <1>2, WAInvariant, PTL DEF Spec, WriteAhead, Abstract!Spec

-----------------------------------------------------------------------------
(* What the rows, the committed changes and the answers tell of each other.  *)
(* The argument is the row lock again: from its statement to its commit a    *)
(* transaction's new version stays related to the committed row (DraftsFit), *)
(* because neither another transaction nor an activation can touch the row;  *)
(* so a commit relates the new row to the change it replaces (RowsFollow).   *)
(* A version that may replace the row of w's code. *)
Fits(w, version) ==
    /\ req[w].action = "create" <=> rows[Code(w)] = None
    /\ version = None => req[w].action = "delete" /\ activated[Code(w)] = {}
    /\ (req[w].action # "create" /\ version # None) => version.born = rows[Code(w)].born
    /\ (req[w].action = "delete" /\ version # None) => version.capacity = 0

DraftsFit == \A w \in Workers : pc[w] \in {"save", "commit"} => Fits(w, tx[w].draft)

(* What w will tell its client is in the history. *)
CommitIsKnown(w) ==
    /\ tx[w].draft = None => req[w].action = "delete"
    /\ \E h \in DOMAIN history :
          /\ history[h].id = req[w].id /\ history[h].action = req[w].action
          /\ history[h].new = tx[w].draft

CommitsAreKnown == \A w \in Workers : pc[w] = "reply" => CommitIsKnown(w)

(* A code has a row if its last change left one, and it is that one. *)
RowsFollow ==
    \A c \in Codes :
        /\ rows[c] = None => \A h \in LastChange(c) : history[h].new = None
        /\ rows[c] # None => \E h \in LastChange(c) :
               history[h].new # None /\ history[h].new.born = rows[c].born

RowInv ==
    /\ DraftsFit /\ CommitsAreKnown /\ RowsFollow
    /\ AnsweredIsCommitted /\ ActivatedHasRow /\ DisabledIsSpent
    /\ RowsLiveOnce /\ UneditedCapacityAddsUp

-----------------------------------------------------------------------------
LEMMA InitRowInv == Init => RowInv
BY DEF Init, RowInv, DraftsFit, CommitsAreKnown, RowsFollow, AnsweredIsCommitted, Success,
       ActivatedHasRow, DisabledIsSpent, RowsLiveOnce, UneditedCapacityAddsUp, LastChange

(* What is said about rows and changes only depends on rows and changes. *)
LEMMA RowsUnchanged ==
    ASSUME RowInv, UNCHANGED <<rows, activated, history>>
    PROVE  /\ RowsFollow' /\ ActivatedHasRow' /\ DisabledIsSpent'
           /\ RowsLiveOnce' /\ UneditedCapacityAddsUp'
<1> USE DEF RowInv
<1>1. \A c : LastChange(c)' = LastChange(c) /\ InitialCapacity(c)' = InitialCapacity(c)
  BY DEF LastChange, InitialCapacity
<1>2. RowsFollow' /\ ActivatedHasRow' /\ DisabledIsSpent' /\ UneditedCapacityAddsUp'
  BY <1>1 DEF RowsFollow, ActivatedHasRow, DisabledIsSpent, UneditedCapacityAddsUp
<1>3. RowsLiveOnce'
  BY DEF RowsLiveOnce
<1> QED BY <1>2, <1>3

(* A step of a transaction that writes no row, commits nothing and answers   *)
(* nobody.                                                                   *)
LEMMA QuietRowInv ==
    ASSUME TypeInv, RowInv, NEW w \in Workers, NEW label \in Labels, Goto(w, label),
           UNCHANGED <<rows, activated, req, outcome, history>>,
           \A v \in Workers : v # w => tx'[v] = tx[v],
           \/ label \notin {"save", "commit", "reply"}
           \/ pc[w] = "save" /\ label = "commit" /\ UNCHANGED tx
    PROVE  RowInv'
<1> USE DEF RowInv, Goto
<1>1. \A v \in Workers : v # w => pc'[v] = pc[v]
  BY DEF TypeInv, TypeOK
<1>2. pc'[w] = label /\ \A v \in Workers : Code(v)' = Code(v)
  BY DEF TypeInv, TypeOK, Code
<1>3. DraftsFit'
  BY <1>1, <1>2 DEF DraftsFit, Fits
<1>4. CommitsAreKnown'
  BY <1>1, <1>2 DEF CommitsAreKnown, CommitIsKnown
<1>5. AnsweredIsCommitted'
  BY DEF AnsweredIsCommitted
<1> QED BY <1>3, <1>4, <1>5, RowsUnchanged

LEMMA SubmitRowInv ==
    ASSUME TypeInv, RowInv, NEW w \in Workers, Submit(w)
    PROVE  RowInv'
<1> USE DEF RowInv, Submit, Goto
<1>1. \A v \in Workers : v # w => /\ pc'[v] = pc[v] /\ req'[v] = req[v]
                                  /\ Code(v)' = Code(v)
  BY DEF TypeInv, TypeOK, Code
<1>2. pc'[w] = "begin"
  BY DEF TypeInv, TypeOK
<1>3. DraftsFit'
  BY <1>1, <1>2 DEF DraftsFit, Fits
<1>4. CommitsAreKnown'
  BY <1>1, <1>2 DEF CommitsAreKnown, CommitIsKnown
<1>5. AnsweredIsCommitted'
  BY DEF AnsweredIsCommitted, TypeInv, TypeOK, Success
<1> QED BY <1>3, <1>4, <1>5, RowsUnchanged

(* A statement leaves a version that fits the row it has locked. *)
LEMMA WriteRowInv ==
    ASSUME TypeInv, RowInv, NEW w \in Workers, pc[w] # "idle",
           NEW version \in Row \cup {None}, Write(w, version), Fits(w, version),
           UNCHANGED <<rows, activated, req, outcome, history>>
    PROVE  RowInv'
<1> USE DEF RowInv, Write, Goto, AfterStatement
<1>1. /\ tx' = [tx EXCEPT ![w] = [tx[w] EXCEPT !.draft = version]]
      /\ [tx[w] EXCEPT !.draft = version].draft = version
  BY DEF TypeInv, TypeOK, TxState
<1>2. tx'[w].draft = version /\ \A v \in Workers : v # w => tx'[v] = tx[v]
  BY <1>1 DEF TypeInv, TypeOK
<1>3. /\ pc'[w] = "save" /\ \A v \in Workers : v # w => pc'[v] = pc[v]
      /\ \A v \in Workers : Code(v)' = Code(v)
  BY DEF TypeInv, TypeOK, Code
<1>4. DraftsFit'
  BY <1>2, <1>3 DEF DraftsFit, Fits
<1>5. CommitsAreKnown'
  BY <1>2, <1>3 DEF CommitsAreKnown, CommitIsKnown
<1>6. AnsweredIsCommitted'
  BY DEF AnsweredIsCommitted
<1> QED BY <1>4, <1>5, <1>6, RowsUnchanged

LEMMA LockingRowInv ==
    ASSUME TypeInv, RowInv, NEW w \in Workers, Locking(w)
    PROVE  RowInv'
<1> DEFINE row == rows[Code(w)]
<1>1. UNCHANGED <<rows, activated, req, outcome, history>> /\ pc[w] # "idle"
  BY DEF Locking, Insert, UpdateApply, DeleteApply
<1>2. /\ req[w].id \in OpIds /\ Code(w) \in Codes
      /\ req[w].action # "delete" => req[w].offer \in Offer
      /\ row # None => row \in Row
  BY <1>1, InFlight DEF TypeInv, TypeOK
<1>3. CASE Abandon(w)
  BY <1>1, <1>3, QuietRowInv DEF Abandon, Labels
<1>4. CASE Insert(w) /\ ~Abandon(w)
  <2> DEFINE version == [born |-> req[w].id, terms |-> req[w].offer.terms,
                         capacity |-> req[w].offer.capacity]
  <2>1. row = None /\ Write(w, version) /\ req[w].action = "create"
    BY <1>4 DEF Insert, TypeInv, StepsOK
  <2>2. version \in Row
    BY <1>2, <2>1, BoundsAssumption DEF Row, Offer
  <2>3. Fits(w, version)
    BY <2>1, <2>2, NoneIsNothing DEF Fits
  <2> QED BY <1>1, <2>1, <2>2, <2>3, WriteRowInv
<1>5. CASE UpdateApply(w) /\ ~Abandon(w)
  <2> DEFINE version == [row EXCEPT !.terms = req[w].offer.terms,
                                    !.capacity = req[w].offer.capacity]
  <2>1. row # None /\ Write(w, version) /\ req[w].action = "update"
    BY <1>5 DEF UpdateApply, SameRow, TypeInv, StepsOK
  <2>2. version \in Row /\ version.born = row.born
    <3>1. row \in Row /\ req[w].offer \in Offer
      BY <1>2, <2>1
    <3>2. req[w].offer.terms \in Terms /\ req[w].offer.capacity \in 0..MaxCapacity
      BY <3>1, BoundsAssumption DEF Offer
    <3> QED BY <3>1, <3>2 DEF Row
  <2>3. Fits(w, version)
    BY <2>1, <2>2, NoneIsNothing DEF Fits
  <2> QED BY <1>1, <2>1, <2>2, <2>3, WriteRowInv
<1>6. CASE DeleteApply(w) /\ ~Abandon(w)
  <2>1. /\ row # None /\ req[w].action = "delete"
        /\ Write(w, Disabled(w)) \/ (activated[Code(w)] = {} /\ Write(w, None))
    BY <1>6 DEF DeleteApply, SameRow, ForeignKeyHolds, TypeInv, StepsOK
  <2>2. /\ Disabled(w) \in Row /\ Disabled(w).born = row.born
        /\ Disabled(w).capacity = 0
    BY <1>2, <2>1, BoundsAssumption DEF Row, Disabled
  <2>3. Fits(w, Disabled(w)) /\ (activated[Code(w)] = {} => Fits(w, None))
    BY <2>1, <2>2, NoneIsNothing DEF Fits
  <2> QED BY <1>1, <2>1, <2>2, <2>3, WriteRowInv
<1> QED BY <1>3, <1>4, <1>5, <1>6 DEF Locking

(* The statements that do not lock a row, and Save. *)
LEMMA StatementRowInv ==
    ASSUME TypeInv, RowInv, NEW w \in Workers,
           Begin(w) \/ Select(w) \/ UpdateStart(w) \/ DeleteStart(w)
             \/ StatementFails(w) \/ Save(w) \/ SaveFails(w)
    PROVE  RowInv'
<1>1. UNCHANGED <<rows, activated, req, outcome, history>> /\ pc[w] # "idle"
  BY DEF Begin, Select, UpdateStart, DeleteStart, TakeSnapshot, StatementFails, Save, SaveFails
<1>2. \A v \in Workers : v # w => tx'[v] = tx[v]
  BY DEF Begin, Select, UpdateStart, DeleteStart, TakeSnapshot, StatementFails, Save,
         SaveFails, Abandon, TypeInv, TypeOK
<1>3. \E label \in Labels :
        /\ Goto(w, label)
        /\ \/ label \notin {"save", "commit", "reply"}
           \/ pc[w] = "save" /\ label = "commit" /\ UNCHANGED tx
  <2>1. CASE Begin(w)
    <3>1. req[w].action \in {"create", "update", "delete"}
      BY <1>1, InFlight DEF TypeInv
    <3> QED BY <2>1, <3>1 DEF Begin, FirstStatement, Labels
  <2>2. CASE Select(w) \/ UpdateStart(w) \/ DeleteStart(w) \/ StatementFails(w)
    BY <2>2 DEF Select, UpdateStart, DeleteStart, TakeSnapshot, StatementFails, Abandon, Labels
  <2>3. CASE Save(w) \/ SaveFails(w)
    BY <2>3 DEF Save, SaveFails, AfterFailedSave, Labels
  <2> QED BY <2>1, <2>2, <2>3
<1> QED BY <1>1, <1>2, <1>3, QuietRowInv

(* The end of a request; a success is only reported for what was committed. *)
LEMMA FinishRowInv ==
    ASSUME TypeInv, RowInv, NEW w \in Workers, pc[w] # "idle",
           NEW answer, Finish(w, answer),
           answer = "failed" \/ (pc[w] = "reply" /\ answer = SuccessAnswer(w)),
           UNCHANGED <<rows, activated, history>>
    PROVE  RowInv'
<1> USE DEF RowInv, Finish, Goto
<1>1. \A v \in Workers : v # w => /\ pc'[v] = pc[v] /\ req'[v] = req[v]
                                  /\ tx'[v] = tx[v] /\ Code(v)' = Code(v)
  BY DEF TypeInv, TypeOK, Code
<1>2. pc'[w] = "idle"
  BY DEF TypeInv, TypeOK
<1>3. DraftsFit'
  BY <1>1, <1>2 DEF DraftsFit, Fits
<1>4. CommitsAreKnown'
  BY <1>1, <1>2 DEF CommitsAreKnown, CommitIsKnown
<1>5. /\ outcome'[req[w].id] = answer
      /\ \A id \in OpIds : id # req[w].id => outcome'[id] = outcome[id]
  BY InFlight DEF TypeInv, TypeOK
<1>6. AnsweredIsCommitted'
  <2>1. ASSUME pc[w] = "reply", answer = SuccessAnswer(w)
        PROVE  \E h \in DOMAIN history :
                  /\ history[h].id = req[w].id
                  /\ answer = "deleted" <=> history[h].new = None
                  /\ answer = "disabled" <=>
                         history[h].action = "delete" /\ history[h].new # None
    BY <2>1 DEF CommitsAreKnown, CommitIsKnown, SuccessAnswer
  <2> QED BY <1>5, <2>1 DEF AnsweredIsCommitted, Success
<1> QED BY <1>3, <1>4, <1>6, RowsUnchanged

LEMMA EndRowInv ==
    ASSUME TypeInv, RowInv, NEW w \in Workers,
           BeginFails(w) \/ CommitFails(w) \/ Reply(w) \/ ReplyLost(w) \/ Rollback(w)
    PROVE  RowInv'
BY FinishRowInv
   DEF BeginFails, CommitFails, Reply, ReplyLost, Rollback, CommitErrorAnswer

LEMMA CrashRowInv ==
    ASSUME TypeInv, RowInv, Crash
    PROVE  RowInv'
<1> USE DEF RowInv, Crash
<1>1. DraftsFit' /\ CommitsAreKnown'
  BY DEF DraftsFit, CommitsAreKnown
<1>2. AnsweredIsCommitted'
  BY DEF AnsweredIsCommitted, Success
<1> QED BY <1>1, <1>2, RowsUnchanged

(* An activation waits for the row lock, so it meets no version in the       *)
(* making; it takes from the row what it adds to the activations.            *)
LEMMA ActivateRowInv ==
    ASSUME TypeInv, WAInv, RowInv, NEW u \in Users, NEW c \in Codes, Activate(u, c)
    PROVE  RowInv'
<1> USE DEF RowInv, Activate
<1>1. rows[c] \in Row
  BY DEF TypeInv, TypeOK
<1>2. /\ rows'[c] \in Row /\ rows'[c].born = rows[c].born
      /\ rows'[c].capacity = rows[c].capacity - 1
      /\ \A d \in Codes : d # c => rows'[d] = rows[d] /\ activated'[d] = activated[d]
      /\ activated'[c] = activated[c] \cup {u}
  <2>1. rows' = [rows EXCEPT ![c] = [rows[c] EXCEPT !.capacity = rows[c].capacity - 1]]
    OBVIOUS
  <2>2. [rows[c] EXCEPT !.capacity = rows[c].capacity - 1] \in Row
    BY <1>1, BoundsAssumption DEF Row
  <2>3. /\ [rows[c] EXCEPT !.capacity = rows[c].capacity - 1].born = rows[c].born
        /\ [rows[c] EXCEPT !.capacity = rows[c].capacity - 1].capacity = rows[c].capacity - 1
    BY <1>1 DEF Row
  <2> QED BY <2>1, <2>2, <2>3 DEF TypeInv, TypeOK
<1>3. rows'[c] # None
  BY <1>2, NoneIsNothing
<1>4. \A d : LastChange(d)' = LastChange(d)
  BY DEF LastChange
<1>5. DraftsFit'
  <2>1. \A w \in Workers : pc[w] \in {"save", "commit"} => Code(w) # c /\ Code(w) \in Codes
    BY InFlight, NoneIsNothing DEF WAInv, LocksHeld, TypeInv
  <2>2. \A w \in Workers : Code(w)' = Code(w)
    BY DEF Code
  <2> QED BY <1>2, <2>1, <2>2 DEF DraftsFit, Fits
<1>6. RowsFollow' /\ ActivatedHasRow'
  BY <1>2, <1>3, <1>4 DEF RowsFollow, ActivatedHasRow
<1>7. DisabledIsSpent'
  BY <1>2, <1>4 DEF DisabledIsSpent
<1>8. UneditedCapacityAddsUp'
  <2>1. Cardinality(activated'[c]) = Cardinality(activated[c]) + 1
    <3>1. IsFiniteSet(activated[c])
      BY UsersAssumption, FS_Subset DEF TypeInv, TypeOK
    <3> QED BY <1>2, <3>1, FS_AddElement
  <2>2. Cardinality(activated[c]) \in Nat
    BY CountIsNat DEF TypeInv, TypeOK
  <2>3. rows[c].capacity \in Nat
    BY <1>1, BoundsAssumption DEF Row
  <2>4. InitialCapacity(c)' = InitialCapacity(c)
    BY <1>2, <2>1, <2>2, <2>3 DEF InitialCapacity
  <2>5. \A d \in Codes : d # c => InitialCapacity(d)' = InitialCapacity(d)
    BY <1>2 DEF InitialCapacity
  <2> QED BY <1>2, <1>4, <2>4, <2>5 DEF UneditedCapacityAddsUp
<1>9. CommitsAreKnown' /\ AnsweredIsCommitted' /\ RowsLiveOnce'
  BY DEF CommitsAreKnown, CommitIsKnown, AnsweredIsCommitted, RowsLiveOnce
<1> QED BY <1>5, <1>6, <1>7, <1>8, <1>9

(* The change that a commit appends is the last of its code, and no other    *)
(* code notices.                                                             *)
LEMMA LastChangeIsNew ==
    ASSUME TypeInv, NEW w \in Workers, NEW change, change.code = Code(w),
           Code(w)' = Code(w), history' = Append(history, change)
    PROVE  /\ DOMAIN history = 1..Len(history) /\ Len(history) \in Nat
           /\ DOMAIN history' = 1..(Len(history) + 1)
           /\ history'[Len(history) + 1] = change
           /\ \A h \in DOMAIN history : history'[h] = history[h]
           /\ LastChange(Code(w))' = {Len(history) + 1}
           /\ \A c \in Codes : c # Code(w) => LastChange(c)' = LastChange(c)
<1> DEFINE n == Len(history)
<1>1. /\ DOMAIN history = 1..n /\ n \in Nat /\ DOMAIN history' = 1..(n + 1)
      /\ history'[n + 1] = change /\ \A h \in DOMAIN history : history'[h] = history[h]
  BY DEF TypeInv, TypeOK
<1>2. Code(w)' = Code(w) => LastChange(Code(w))' = {n + 1}
  BY <1>1 DEF LastChange
<1>3. ASSUME NEW c \in Codes, c # Code(w)
      PROVE  LastChange(c)' = LastChange(c)
  <2>1. \A h \in DOMAIN history' : history'[h].code = c => h \in DOMAIN history
    BY <1>1, <1>3
  <2>2. \A h \in DOMAIN history :
            (\A g \in DOMAIN history' : history'[g].code = c => g <= h) <=>
            (\A g \in DOMAIN history : history[g].code = c => g <= h)
    BY <1>1, <2>1
  <2> QED BY <1>1, <2>1, <2>2 DEF LastChange
<1> QED BY <1>1, <1>2, <1>3

(* The versions of a code's row that are alive when change h is committed. *)
Alive(h) ==
    LET before == {g \in 1..(h - 1) : history[g].code = history[h].code}
    IN  {g \in before : history[g].new # None /\ \A k \in before : k <= g}

(* Change h follows from the changes before it. *)
Follows(h) ==
    IF history[h].action = "create"
    THEN Alive(h) = {}
    ELSE \E g \in Alive(h) : /\ history[h].old # None
                             /\ history[h].old.born = history[g].new.born

LEMMA RowsLiveOnceIs ==
    /\ RowsLiveOnce => \A h \in DOMAIN history : Follows(h)
    /\ (\A h \in DOMAIN history' : Follows(h)') => RowsLiveOnce'
BY DEF RowsLiveOnce, Follows, Alive

LEMMA CommitRowInv ==
    ASSUME TypeInv, WAInv, RowInv, NEW w \in Workers, Commit(w)
    PROVE  RowInv'
<1> USE DEF RowInv, Commit, Goto
<1> DEFINE change == [id |-> req[w].id, action |-> req[w].action, code |-> Code(w),
                      old |-> rows[Code(w)], new |-> tx[w].draft]
<1> PICK n : n = Len(history)
  OBVIOUS
<1>1. /\ Code(w) \in Codes /\ \A v \in Workers : Code(v)' = Code(v)
      /\ pc'[w] = "reply" /\ \A v \in Workers : v # w => pc'[v] = pc[v]
  BY InFlight DEF TypeInv, TypeOK, Code
<1>2. /\ DOMAIN history = 1..n /\ n \in Nat /\ DOMAIN history' = 1..(n + 1)
      /\ history'[n + 1] = change
      /\ \A h \in DOMAIN history : history'[h] = history[h]
      /\ LastChange(Code(w))' = {n + 1}
      /\ \A c \in Codes : c # Code(w) => LastChange(c)' = LastChange(c)
  BY <1>1, LastChangeIsNew
<1>3. /\ rows'[Code(w)] = tx[w].draft
      /\ \A c \in Codes : c # Code(w) => rows'[c] = rows[c]
  BY <1>1 DEF TypeInv, TypeOK
<1>4. Fits(w, tx[w].draft)
  BY DEF DraftsFit
<1>5. \A c \in Codes : c # Code(w) => LastChange(c) \subseteq DOMAIN history
  BY DEF LastChange
<1>6. DraftsFit'
  <2>1. \A v \in Workers : (v # w /\ pc[v] \in {"save", "commit"}) =>
            Code(v) # Code(w) /\ Code(v) \in Codes
    BY InFlight DEF WAInv, LocksHeld, TypeInv
  <2> QED BY <1>1, <1>3, <2>1 DEF DraftsFit, Fits
<1>7. CommitsAreKnown'
  <2>1. CommitIsKnown(w)'
    <3>1. n + 1 \in DOMAIN history' /\ history'[n + 1] = change
      BY <1>2
    <3>2. tx[w].draft = None => req[w].action = "delete"
      BY <1>4 DEF Fits
    <3> QED BY <3>1, <3>2 DEF CommitIsKnown
  <2>2. ASSUME NEW v \in Workers, CommitIsKnown(v)
        PROVE  CommitIsKnown(v)'
    BY <1>2, <2>2 DEF CommitIsKnown
  <2> QED BY <1>1, <2>1, <2>2 DEF CommitsAreKnown
<1>8. RowsFollow'
  <2>1. ASSUME NEW c \in Codes, c # Code(w)
        PROVE  /\ rows'[c] = None => \A h \in LastChange(c)' : history'[h].new = None
               /\ rows'[c] # None => \E h \in LastChange(c)' :
                      history'[h].new # None /\ history'[h].new.born = rows'[c].born
    BY <1>2, <1>3, <1>5, <2>1 DEF RowsFollow
  <2>2. ASSUME NEW c \in Codes, c = Code(w)
        PROVE  /\ rows'[c] = None => \A h \in LastChange(c)' : history'[h].new = None
               /\ rows'[c] # None => \E h \in LastChange(c)' :
                      history'[h].new # None /\ history'[h].new.born = rows'[c].born
    BY <1>1, <1>2, <1>3, <2>2
  <2> QED BY <2>1, <2>2 DEF RowsFollow
<1>9. AnsweredIsCommitted'
  BY <1>2 DEF AnsweredIsCommitted
<1>10. ActivatedHasRow'
  BY <1>3, <1>4 DEF ActivatedHasRow, Fits
<1>11. DisabledIsSpent'
  <2>1. ASSUME NEW c \in Codes, NEW h \in LastChange(c)',
               history'[h].action = "delete", rows'[c] # None
        PROVE  rows'[c].capacity = 0
    <3>1. CASE c = Code(w)
      BY <1>1, <1>2, <1>3, <1>4, <2>1, <3>1 DEF Fits
    <3>2. CASE c # Code(w)
      BY <1>2, <1>3, <1>5, <2>1, <3>2 DEF DisabledIsSpent
    <3> QED BY <3>1, <3>2
  <2> QED BY <2>1 DEF DisabledIsSpent
<1>12. UneditedCapacityAddsUp'
  <2>1. ASSUME req[w].action = "create"
        PROVE  InitialCapacity(Code(w))' = tx[w].draft.capacity
    <3>1. activated[Code(w)] = {} /\ tx[w].draft # None
      BY <1>1, <1>4, <2>1 DEF Fits, ActivatedHasRow
    <3>2. tx[w].draft.capacity \in Nat
      BY <3>1, BoundsAssumption DEF TypeInv, TypeOK, TxState, Row
    <3>3. Cardinality(activated'[Code(w)']) = 0
      BY <1>1, <3>1, FS_EmptySet
    <3>4. rows'[Code(w)'] = tx[w].draft
      BY <1>1, <1>3
    <3> QED BY <3>2, <3>3, <3>4 DEF InitialCapacity
  <2>2. \A c \in Codes : c # Code(w) => InitialCapacity(c)' = InitialCapacity(c)
    BY <1>3 DEF InitialCapacity
  <2>3. ASSUME NEW c \in Codes, NEW h \in LastChange(c)',
               history'[h].action = "create", rows'[c] # None
        PROVE  InitialCapacity(c)' = history'[h].new.capacity
    <3>1. CASE c = Code(w)
      BY <1>1, <1>2, <2>1, <2>3, <3>1
    <3>2. CASE c # Code(w)
      BY <1>2, <1>3, <1>5, <2>2, <2>3, <3>2 DEF UneditedCapacityAddsUp
    <3> QED BY <3>1, <3>2
  <2> QED BY <2>3 DEF UneditedCapacityAddsUp
<1>13. RowsLiveOnce'
  <2>1. ASSUME NEW h \in DOMAIN history
        PROVE  Follows(h)'
    <3>1. Alive(h)' = Alive(h)
      BY <1>2, <2>1 DEF Alive
    <3>2. Alive(h) \subseteq DOMAIN history
      BY <1>2, <2>1 DEF Alive
    <3>3. Follows(h)
      BY <2>1, RowsLiveOnceIs
    <3> QED BY <1>2, <2>1, <3>1, <3>2, <3>3 DEF Follows
  <2>2. Alive(n + 1)' = {g \in LastChange(Code(w)) : history[g].new # None}
    BY <1>2 DEF Alive, LastChange
  <2>3. /\ history'[n + 1].action = req[w].action
        /\ history'[n + 1].old = rows[Code(w)]
    BY <1>2
  <2>4. Follows(n + 1)'
    <3>1. CASE req[w].action = "create"
      <4>1. Alive(n + 1)' = {}
        BY <1>1, <1>4, <2>2, <3>1 DEF Fits, RowsFollow
      <4> QED BY <2>3, <3>1, <4>1 DEF Follows
    <3>2. CASE req[w].action # "create"
      <4>1. rows[Code(w)] # None
        BY <1>4, <3>2 DEF Fits
      <4>2. PICK g \in LastChange(Code(w)) :
                history[g].new # None /\ history[g].new.born = rows[Code(w)].born
        BY <1>1, <4>1 DEF RowsFollow
      <4>3. g \in Alive(n + 1)' /\ history'[g] = history[g]
        BY <1>2, <2>2, <4>2 DEF LastChange
      <4> QED BY <2>3, <3>2, <4>1, <4>2, <4>3 DEF Follows
    <3> QED BY <3>1, <3>2
  <2> QED BY <1>2, <2>1, <2>4, RowsLiveOnceIs
<1> QED BY <1>6, <1>7, <1>8, <1>9, <1>10, <1>11, <1>12, <1>13

LEMMA NextRowInv == TypeInv /\ WAInv /\ RowInv /\ [Next]_vars => RowInv'
<1> SUFFICES ASSUME TypeInv, WAInv, RowInv, [Next]_vars PROVE RowInv'
  OBVIOUS
<1>1. CASE UNCHANGED vars
  <2>1. UNCHANGED <<rows, activated, history>>
    BY <1>1 DEF vars
  <2>2. DraftsFit' /\ CommitsAreKnown' /\ AnsweredIsCommitted'
    BY <1>1 DEF vars, RowInv, DraftsFit, Fits, CommitsAreKnown, CommitIsKnown,
                AnsweredIsCommitted, Code
  <2> QED BY <2>1, <2>2, RowsUnchanged DEF RowInv
<1>2. ASSUME NEW w \in Workers, Submit(w) PROVE RowInv'
  BY <1>2, SubmitRowInv
<1>3. ASSUME NEW w \in Workers, Progress(w) PROVE RowInv'
  BY <1>3, StatementRowInv, CommitRowInv, EndRowInv DEF Progress
<1>4. ASSUME NEW w \in Workers, Locking(w) PROVE RowInv'
  BY <1>4, LockingRowInv
<1>5. ASSUME NEW w \in Workers, Fault(w) PROVE RowInv'
  BY <1>5, StatementRowInv, EndRowInv DEF Fault
<1>6. ASSUME NEW u \in Users, NEW c \in Codes, Activate(u, c) PROVE RowInv'
  BY <1>6, ActivateRowInv
<1>7. CASE Crash
  BY <1>7, CrashRowInv
<1>8. CASE Terminating
  BY <1>1, <1>8 DEF Terminating
<1> QED BY <1>1, <1>2, <1>3, <1>4, <1>5, <1>6, <1>7, <1>8 DEF Next

LEMMA RowInvariant == Spec => []RowInv
<1>1. Init => TypeInv /\ WAInv /\ RowInv
  BY InitTypeInv, InitWAInv, InitRowInv
<1>2. TypeInv /\ WAInv /\ RowInv /\ [Next]_vars => TypeInv' /\ WAInv' /\ RowInv'
  BY NextTypeInv, NextWAInv, NextRowInv
<1> QED BY <1>1, <1>2, PTL DEF Spec

-----------------------------------------------------------------------------
(* The creation of a row is among the committed changes, and its record is   *)
(* the last creation of its code in the file: a later creation would have    *)
(* needed the code without a row when it was recorded, and held the lock     *)
(* until it was committed or given up.                                       *)
BornsAreCreations ==
    \A c \in Codes : rows[c] # None =>
        \E h \in DOMAIN history :
            history[h].id = rows[c].born /\ history[h].code = c /\ history[h].action = "create"

DraftsAreBorn ==
    \A w \in Workers : (pc[w] \in {"save", "commit"} /\ req[w].action = "create") =>
        tx[w].draft.born = req[w].id

LatestCreated ==
    \A c \in Codes : \A i, j \in DOMAIN log :
        (/\ rows[c] # None /\ log[i].id = rows[c].born
         /\ log[j].action = "create" /\ log[j].code = c) => j <= i

CreditInv == BornsAreCreations /\ DraftsAreBorn /\ LatestCreated

LEMMA InitCreditInv == Init => CreditInv
BY DEF Init, CreditInv, BornsAreCreations, DraftsAreBorn, LatestCreated

LEMMA CreditUnchanged ==
    ASSUME CreditInv, UNCHANGED <<rows, log, history>>
    PROVE  BornsAreCreations' /\ LatestCreated'
BY DEF CreditInv, BornsAreCreations, LatestCreated

(* A step that changes no store, of which no transaction comes out past its  *)
(* statement that was not there before.                                      *)
LEMMA QuietCreditInv ==
    ASSUME TypeInv, CreditInv, UNCHANGED <<rows, log, history>>,
           \A v \in Workers : pc'[v] \in {"save", "commit"} =>
               pc[v] \in {"save", "commit"} /\ req'[v] = req[v] /\ tx'[v] = tx[v]
    PROVE  CreditInv'
BY CreditUnchanged DEF CreditInv, DraftsAreBorn

LEMMA LockingCreditInv ==
    ASSUME TypeInv, CreditInv, NEW w \in Workers, Locking(w)
    PROVE  CreditInv'
<1>1. UNCHANGED <<rows, log, history, req>> /\ pc[w] # "idle"
  BY DEF Locking, Insert, UpdateApply, DeleteApply
<1>2. CASE Abandon(w)
  BY <1>1, <1>2, QuietCreditInv DEF Abandon, Goto, TypeInv, TypeOK
<1>3. CASE ~Abandon(w)
  <2>1. PICK version : /\ Write(w, version)
                       /\ req[w].action = "create" => version.born = req[w].id
    BY <1>3 DEF Locking, Insert, UpdateApply, DeleteApply, TypeInv, StepsOK
  <2>2. /\ tx' = [tx EXCEPT ![w] = [tx[w] EXCEPT !.draft = version]]
        /\ [tx[w] EXCEPT !.draft = version].draft = version
    BY <2>1 DEF Write, TypeInv, TypeOK, TxState
  <2>3. tx'[w].draft = version /\ \A v \in Workers : v # w => tx'[v] = tx[v]
    BY <2>2 DEF TypeInv, TypeOK
  <2>4. \A v \in Workers : v # w => pc'[v] = pc[v]
    BY <2>1 DEF Write, Goto, TypeInv, TypeOK
  <2>5. DraftsAreBorn'
    BY <1>1, <2>1, <2>3, <2>4 DEF CreditInv, DraftsAreBorn
  <2> QED BY <1>1, <2>5, CreditUnchanged DEF CreditInv
<1> QED BY <1>2, <1>3

(* What a Write leaves in the file is no creation of a code that has a row,  *)
(* nor the record of a row's creation.                                       *)
LEMMA AppendCreditInv ==
    ASSUME TypeInv, WAInv, RowInv, CreditInv, NEW w \in Workers, pc[w] = "save",
           NEW entry, log' = Append(log, entry), entry.id = req[w].id,
           entry.code = Code(w), entry.action = req[w].action,
           UNCHANGED <<rows, req, tx, history>>,
           \A v \in Workers : v # w => pc'[v] = pc[v]
    PROVE  CreditInv'
<1> USE DEF CreditInv
<1>1. /\ DOMAIN log = 1..Len(log) /\ DOMAIN log' = 1..(Len(log) + 1) /\ Len(log) \in Nat
      /\ log'[Len(log) + 1] = entry
      /\ \A i \in DOMAIN log : log'[i] = log[i]
  BY DEF TypeInv, TypeOK
<1>2. \A c \in Codes : rows[c] # None => entry.id # rows[c].born
  BY DEF WAInv, NothingTooEarly, BornsAreCreations
<1>3. entry.action = "create" => rows[Code(w)] = None
  BY DEF RowInv, DraftsFit, Fits
<1>4. LatestCreated'
  BY <1>1, <1>2, <1>3 DEF LatestCreated
<1>5. BornsAreCreations'
  BY DEF BornsAreCreations
<1>6. DraftsAreBorn'
  BY DEF DraftsAreBorn
<1> QED BY <1>4, <1>5, <1>6

LEMMA SaveCreditInv ==
    ASSUME TypeInv, WAInv, RowInv, CreditInv, NEW w \in Workers, Save(w) \/ SaveFails(w)
    PROVE  CreditInv'
<1>1. /\ pc[w] = "save" /\ UNCHANGED <<rows, req, tx, history>>
      /\ \A v \in Workers : v # w => pc'[v] = pc[v]
  BY DEF Save, SaveFails, Goto, TypeInv, TypeOK
<1>2. CASE UNCHANGED log
  BY <1>1, <1>2, QuietCreditInv
<1>3. CASE ~UNCHANGED log
  <2>1. PICK entry : /\ log' = Append(log, entry)
                     /\ entry.id = req[w].id /\ entry.code = Code(w)
                     /\ entry.action = req[w].action
    <3>1. /\ AuditRecord(w).id = req[w].id /\ AuditRecord(w).code = Code(w)
          /\ AuditRecord(w).action = req[w].action
      BY DEF AuditRecord, Code
    <3>2. \A whole : /\ Cut(AuditRecord(w), whole).id = req[w].id
                     /\ Cut(AuditRecord(w), whole).code = Code(w)
                     /\ Cut(AuditRecord(w), whole).action = req[w].action
      BY DEF Cut, AuditRecord, Code
    <3>3. log' = Append(log, AuditRecord(w)) \/
          \E whole \in BOOLEAN : log' = Append(log, Cut(AuditRecord(w), whole))
      BY <1>3 DEF Save, SaveFails
    <3> QED BY <3>1, <3>2, <3>3
  <2> QED BY <1>1, <2>1, AppendCreditInv
<1> QED BY <1>2, <1>3

LEMMA CommitCreditInv ==
    ASSUME TypeInv, WAInv, RowInv, CreditInv, NEW w \in Workers, Commit(w)
    PROVE  CreditInv'
<1> USE DEF CreditInv, Commit, Goto
<1>1. Code(w) \in Codes /\ Code(w)' = Code(w)
  BY InFlight DEF TypeInv, Code
<1>2. /\ DOMAIN history \subseteq DOMAIN history'
      /\ \A h \in DOMAIN history : history'[h] = history[h]
      /\ \E h \in DOMAIN history' : /\ history'[h].id = req[w].id
                                    /\ history'[h].code = Code(w)
                                    /\ history'[h].action = req[w].action
  <2> DEFINE change == [id |-> req[w].id, action |-> req[w].action, code |-> Code(w),
                        old |-> rows[Code(w)], new |-> tx[w].draft]
  <2>1. /\ DOMAIN history = 1..Len(history) /\ Len(history) \in Nat
        /\ DOMAIN history' = 1..(Len(history) + 1)
        /\ history'[Len(history) + 1] = change
        /\ \A h \in DOMAIN history : history'[h] = history[h]
    BY <1>1, LastChangeIsNew
  <2>2. Len(history) + 1 \in DOMAIN history'
    BY <2>1
  <2> QED BY <2>1, <2>2
<1>3. /\ rows'[Code(w)] = tx[w].draft
      /\ \A c \in Codes : c # Code(w) => rows'[c] = rows[c]
  BY <1>1 DEF TypeInv, TypeOK
<1>4. tx[w].draft # None =>
          \/ req[w].action = "create" /\ tx[w].draft.born = req[w].id
          \/ rows[Code(w)] # None /\ tx[w].draft.born = rows[Code(w)].born
  BY DEF RowInv, DraftsFit, Fits, DraftsAreBorn
<1>5. BornsAreCreations'
  <2>1. ASSUME NEW c \in Codes, rows'[c] # None
        PROVE  \E h \in DOMAIN history' :
                  /\ history'[h].id = rows'[c].born /\ history'[h].code = c
                  /\ history'[h].action = "create"
    <3>1. CASE c = Code(w) /\ req[w].action = "create" /\ tx[w].draft.born = req[w].id
      BY <1>2, <1>3, <3>1
    <3>2. CASE rows[c] # None /\ rows'[c].born = rows[c].born
      BY <1>2, <3>2 DEF BornsAreCreations
    <3> QED BY <1>3, <1>4, <2>1, <3>1, <3>2
  <2> QED BY <2>1 DEF BornsAreCreations
<1>6. LatestCreated'
  <2>1. PICK i0 \in DOMAIN log : Recorded(w, i0)
    BY DEF WAInv, RecordedFirst
  <2>2. \A i \in DOMAIN log : log[i].id = req[w].id => i = i0
    BY <2>1 DEF Recorded, WAInv, OneEntryEach
  <2>3. ASSUME NEW c \in Codes, NEW i \in DOMAIN log, NEW j \in DOMAIN log,
               rows'[c] # None, log[i].id = rows'[c].born,
               log[j].action = "create", log[j].code = c
        PROVE  j <= i
    <3>1. CASE c = Code(w) /\ tx[w].draft.born = req[w].id
      BY <1>3, <2>1, <2>2, <2>3, <3>1 DEF Recorded
    <3>2. CASE rows[c] # None /\ rows'[c].born = rows[c].born
      BY <2>3, <3>2 DEF LatestCreated
    <3> QED BY <1>3, <1>4, <2>3, <3>1, <3>2
  <2> QED BY <2>3 DEF LatestCreated
<1>7. DraftsAreBorn'
  BY DEF DraftsAreBorn, TypeInv, TypeOK
<1> QED BY <1>5, <1>6, <1>7

LEMMA ActivateCreditInv ==
    ASSUME TypeInv, CreditInv, NEW u \in Users, NEW c \in Codes, Activate(u, c)
    PROVE  CreditInv'
<1> USE DEF CreditInv, Activate
<1>1. rows[c] \in Row
  BY DEF TypeInv, TypeOK
<1>2. [rows[c] EXCEPT !.capacity = rows[c].capacity - 1].born = rows[c].born
  BY <1>1 DEF Row
<1>3. rows' = [rows EXCEPT ![c] = [rows[c] EXCEPT !.capacity = rows[c].capacity - 1]]
  OBVIOUS
<1>4. \A d \in Codes : rows'[d] # None => rows[d] # None /\ rows'[d].born = rows[d].born
  BY <1>2, <1>3 DEF TypeInv, TypeOK
<1> QED BY <1>4 DEF BornsAreCreations, DraftsAreBorn, LatestCreated

LEMMA NextCreditInv == TypeInv /\ WAInv /\ RowInv /\ CreditInv /\ [Next]_vars => CreditInv'
<1> SUFFICES ASSUME TypeInv, WAInv, RowInv, CreditInv, [Next]_vars PROVE CreditInv'
  OBVIOUS
<1>1. ASSUME NEW w \in Workers,
             \/ Submit(w) \/ Begin(w) \/ Select(w) \/ UpdateStart(w) \/ DeleteStart(w)
             \/ StatementFails(w) \/ BeginFails(w) \/ CommitFails(w)
             \/ Reply(w) \/ ReplyLost(w) \/ Rollback(w)
      PROVE  CreditInv'
  <2>1. UNCHANGED <<rows, log, history>>
    BY <1>1 DEF Submit, Begin, Select, UpdateStart, DeleteStart, TakeSnapshot, StatementFails,
                BeginFails, CommitFails, Reply, ReplyLost, Rollback
  <2>2. \A v \in Workers : v # w => pc'[v] = pc[v] /\ req'[v] = req[v] /\ tx'[v] = tx[v]
    BY <1>1 DEF Submit, Begin, Select, UpdateStart, DeleteStart, TakeSnapshot, StatementFails,
                BeginFails, CommitFails, Reply, ReplyLost, Rollback, Abandon, Finish, Goto,
                TypeInv, TypeOK
  <2>3. pc'[w] \notin {"save", "commit"}
    <3>1. CASE Begin(w)
      BY <3>1, InFlight DEF Begin, FirstStatement, Goto, TypeInv, TypeOK
    <3> QED BY <1>1, <3>1
            DEF Submit, Select, UpdateStart, DeleteStart, TakeSnapshot, StatementFails,
                BeginFails, CommitFails, Reply, ReplyLost, Rollback, Abandon, Finish, Goto,
                TypeInv, TypeOK
  <2> QED BY <2>1, <2>2, <2>3, QuietCreditInv
<1>2. ASSUME NEW w \in Workers, Locking(w) PROVE CreditInv'
  BY <1>2, LockingCreditInv
<1>3. ASSUME NEW w \in Workers, Save(w) \/ SaveFails(w) PROVE CreditInv'
  BY <1>3, SaveCreditInv
<1>4. ASSUME NEW w \in Workers, Commit(w) PROVE CreditInv'
  BY <1>4, CommitCreditInv
<1>5. ASSUME NEW u \in Users, NEW c \in Codes, Activate(u, c) PROVE CreditInv'
  BY <1>5, ActivateCreditInv
<1>6. CASE Crash \/ Terminating \/ UNCHANGED vars
  BY <1>6, QuietCreditInv DEF Crash, Terminating, vars
<1> QED BY <1>1, <1>2, <1>3, <1>4, <1>5, <1>6 DEF Next, Progress, Fault

(* While REST clients spell codes without blanks, so does the audit file. *)
BareSpelling ==
    /\ \A w \in Workers : pc[w] # "idle" => req[w].spelling = "bare"
    /\ \A i \in DOMAIN log : log[i].spelling = "bare"

LEMMA NextBareSpelling ==
    ASSUME Spellings = {"bare"}, TypeInv, BareSpelling, [Next]_vars
    PROVE  BareSpelling'
<1>1. \A id : \A r \in Requests(id) : r.spelling = "bare"
  BY DEF Requests, CreateRequest, UpdateRequest, DeleteRequest
<1>2. \A w \in Workers : pc'[w] # "idle" =>
          req'[w].spelling = "bare" \/ (pc[w] # "idle" /\ req'[w] = req[w])
  <2>1. ASSUME NEW v \in Workers, Submit(v)
        PROVE  \A w \in Workers : pc'[w] # "idle" =>
                  req'[w].spelling = "bare" \/ (pc[w] # "idle" /\ req'[w] = req[w])
    BY <1>1, <2>1 DEF Submit, Goto, TypeInv, TypeOK
  <2>2. ASSUME NEW v \in Workers, Progress(v) \/ Locking(v) \/ Fault(v)
        PROVE  \A w \in Workers : pc'[w] # "idle" => pc[w] # "idle" /\ req'[w] = req[w]
    <3>1. /\ pc[v] # "idle"
          /\ \/ req' = req
             \/ req' = [req EXCEPT ![v] = None] /\ pc' = [pc EXCEPT ![v] = "idle"]
      BY <2>2 DEF Progress, Locking, Fault, Begin, Select, UpdateStart, DeleteStart,
                  TakeSnapshot, Insert, UpdateApply, DeleteApply, Save, SaveFails, Commit,
                  StatementFails, BeginFails, CommitFails, Reply, ReplyLost, Rollback,
                  Finish, Goto
    <3>2. \E label : pc' = [pc EXCEPT ![v] = label]
      BY <2>2 DEF Progress, Locking, Fault, Begin, Select, UpdateStart, DeleteStart,
                  TakeSnapshot, Insert, UpdateApply, DeleteApply, Save, SaveFails, Commit,
                  StatementFails, BeginFails, CommitFails, Reply, ReplyLost, Rollback,
                  Write, Abandon, Finish, Goto
    <3> QED BY <3>1, <3>2 DEF TypeInv, TypeOK
  <2>3. CASE Crash
    BY <2>3 DEF Crash
  <2>4. CASE Terminating \/ UNCHANGED vars \/ \E u \in Users, c \in Codes : Activate(u, c)
    BY <2>4 DEF Terminating, vars, Activate
  <2> QED BY <2>1, <2>2, <2>3, <2>4 DEF Next
<1>3. ASSUME log' # log
      PROVE  \E entry : log' = Append(log, entry) /\ entry.spelling = "bare"
  <2>1. PICK w \in Workers : Save(w) \/ SaveFails(w)
    BY <1>3 DEF Next, vars, Submit, Progress, Locking, Fault, Begin, Select, UpdateStart,
                DeleteStart, TakeSnapshot, Insert, UpdateApply, DeleteApply, Commit,
                StatementFails, BeginFails, CommitFails, Reply, ReplyLost, Rollback,
                Activate, Crash, Terminating
  <2>2. AuditRecord(w).spelling = "bare"
    BY <2>1 DEF Save, SaveFails, BareSpelling, AuditRecord
  <2>3. \A whole : Cut(AuditRecord(w), whole).spelling = AuditRecord(w).spelling
    BY DEF Cut, AuditRecord
  <2>4. log' = Append(log, AuditRecord(w)) \/
        \E whole \in BOOLEAN : log' = Append(log, Cut(AuditRecord(w), whole))
    BY <1>3, <2>1 DEF Save, SaveFails
  <2> QED BY <2>2, <2>3, <2>4
<1>4. \A i \in DOMAIN log' : log'[i].spelling = "bare"
  <2>1. CASE log' = log
    BY <2>1 DEF BareSpelling
  <2>2. CASE log' # log
    <3>1. PICK entry : log' = Append(log, entry) /\ entry.spelling = "bare"
      BY <1>3, <2>2
    <3>2. /\ DOMAIN log = 1..Len(log) /\ DOMAIN log' = 1..(Len(log) + 1) /\ Len(log) \in Nat
          /\ log'[Len(log) + 1] = entry /\ \A i \in DOMAIN log : log'[i] = log[i]
      BY <3>1 DEF TypeInv, TypeOK
    <3> QED BY <3>1, <3>2 DEF BareSpelling
  <2> QED BY <2>1, <2>2
<1> QED BY <1>2, <1>4 DEF BareSpelling

(* The latest creation in the file is that of the row, if it can be read. *)
LEMMA CreditIsRight ==
    ASSUME TypeInv, WAInv, CreditInv, BareSpelling
    PROVE  Attribution
<1> SUFFICES ASSUME NEW c \in Codes, NEW i \in DOMAIN log,
                    rows[c] # None, log[i].action = "create", log[i].id = rows[c].born,
                    Readable(i)
             PROVE  LatestCreation(c, rows[c].born)
  BY DEF Attribution
<1>1. log[i].code = c
  <2>1. PICK h \in DOMAIN history : history[h].id = rows[c].born /\ history[h].code = c
    BY DEF CreditInv, BornsAreCreations
  <2>2. PICK k \in DOMAIN log : Records(k, h)
    BY DEF WAInv, CommittedIsSaved
  <2>3. k = i
    BY <2>1, <2>2 DEF Records, WAInv, OneEntryEach
  <2> QED BY <2>1, <2>2, <2>3 DEF Records
<1>2. i \in Creations(c)
  BY <1>1 DEF Creations, BareSpelling
<1>3. \A j \in Creations(c) : j <= i
  BY DEF Creations, CreditInv, LatestCreated
<1> QED BY <1>2, <1>3 DEF LatestCreation

-----------------------------------------------------------------------------
(* No request is told of a success that was not committed, and a deletion is *)
(* told apart from a disabling, whatever failed or was lost on the way.      *)
THEOREM AnswersAreTrue == Spec => []AnsweredIsCommitted
<1>1. RowInv => AnsweredIsCommitted
  BY DEF RowInv
<1> QED BY <1>1, RowInvariant, PTL

(* DeletePromo never takes the row from a code that was activated, also if   *)
(* the activation came in after its count.                                   *)
THEOREM ActivationsKeepTheirRow == Spec => []ActivatedHasRow
<1>1. RowInv => ActivatedHasRow
  BY DEF RowInv
<1> QED BY <1>1, RowInvariant, PTL

(* A code that DeletePromo disabled has no capacity until it is edited. *)
THEOREM DisabledStaysSpent == Spec => []DisabledIsSpent
<1>1. RowInv => DisabledIsSpent
  BY DEF RowInv
<1> QED BY <1>1, RowInvariant, PTL

(* Every committed change of a code follows from those before it, whoever    *)
(* waited for the row's lock meanwhile.                                      *)
THEOREM ChangesFollow == Spec => []RowsLiveOnce
<1>1. RowInv => RowsLiveOnce
  BY DEF RowInv
<1> QED BY <1>1, RowInvariant, PTL

(* The initial capacity of the reports is that of the creation while nobody  *)
(* edits the code, for any number of players who activate it.                *)
THEOREM CapacityAddsUp == Spec => []UneditedCapacityAddsUp
<1>1. RowInv => UneditedCapacityAddsUp
  BY DEF RowInv
<1> QED BY <1>1, RowInvariant, PTL

(* With codes spelled as they are stored, the creation that an activation    *)
(* report credits a code with is the one of its row, however often the code  *)
(* was created, deleted, or created in vain.                                 *)
THEOREM CreationsAreCredited ==
    ASSUME Spellings = {"bare"}
    PROVE  Spec => []Attribution
<1>1. Init => TypeInv /\ WAInv /\ RowInv /\ CreditInv /\ BareSpelling
  BY InitTypeInv, InitWAInv, InitRowInv, InitCreditInv DEF Init, BareSpelling
<1>2. TypeInv /\ WAInv /\ RowInv /\ CreditInv /\ BareSpelling /\ [Next]_vars =>
          TypeInv' /\ WAInv' /\ RowInv' /\ CreditInv' /\ BareSpelling'
  BY NextTypeInv, NextWAInv, NextRowInv, NextCreditInv, NextBareSpelling
<1>3. TypeInv /\ WAInv /\ CreditInv /\ BareSpelling => Attribution
  BY CreditIsRight
<1> QED BY <1>1, <1>2, <1>3, PTL DEF Spec

(* A committed record that cannot be read follows an unended line, and no    *)
(* two follow the same.                                                      *)
LEMMA TornLinesBound ==
    ASSUME TypeInv, WAInv
    PROVE  TornWriteCostsOneRecord
<1> USE DEF WAInv
<1>1. DOMAIN log = 1..Len(log) /\ Len(log) \in Nat /\ DOMAIN history \subseteq Int
  BY DEF TypeInv, TypeOK
<1>2. \A h \in Unreadable : \E i \in DOMAIN log : Records(i, h) /\ i - 1 \in Unended
  <2>1. ASSUME NEW h \in Unreadable
        PROVE  \E i \in DOMAIN log : Records(i, h) /\ i - 1 \in Unended
    <3>1. PICK i \in DOMAIN log : Records(i, h)
      BY DEF Unreadable, CommittedIsSaved
    <3>2. ~Readable(i) /\ log[i].whole /\ log[i].nl
      BY <3>1 DEF Unreadable, Records
    <3>3. i > 1 /\ ~log[i - 1].nl
      BY <3>2 DEF Readable
    <3> QED BY <1>1, <3>1, <3>3 DEF Unended
  <2> QED BY <2>1
<1> DEFINE f == [h \in Unreadable |->
                    CHOOSE k \in Unended : \E i \in DOMAIN log : Records(i, h) /\ k = i - 1]
<1>3. /\ f \in [Unreadable -> Unended]
      /\ \A h \in Unreadable : \E i \in DOMAIN log : Records(i, h) /\ f[h] = i - 1
  BY <1>2
<1> HIDE DEF f
<1>4. \A g, h \in Unreadable : f[g] = f[h] => g = h
  <2>1. ASSUME NEW g \in Unreadable, NEW h \in Unreadable, f[g] = f[h]
        PROVE  g = h
    <3>1. PICK i \in DOMAIN log : Records(i, g) /\ Records(i, h)
      <4>1. PICK i \in DOMAIN log : Records(i, g) /\ f[g] = i - 1
        BY <1>3
      <4>2. PICK j \in DOMAIN log : Records(j, h) /\ f[h] = j - 1
        BY <1>3
      <4>3. i - 1 = j - 1
        BY <2>1, <4>1, <4>2
      <4>4. i \in Int /\ j \in Int
        BY <1>1
      <4>5. i = j
        BY <4>3, <4>4
      <4> QED BY <4>1, <4>2, <4>5
    <3>2. g \in DOMAIN history /\ h \in DOMAIN history
      BY DEF Unreadable
    <3>3. history[g].code = history[h].code
      BY <3>1 DEF Records
    <3>4. ~(g < h) /\ ~(h < g)
      BY <1>1, <3>1, <3>2, <3>3 DEF AuditOrder
    <3> QED BY <1>1, <3>2, <3>4
  <2> QED BY <2>1
<1>5. f \in Injection(Unreadable, Unended)
  BY <1>3, <1>4 DEF Injection, IsInjective
<1>6. IsFiniteSet(Unended)
  <2>1. IsFiniteSet(1..Len(log)) /\ Unended \in SUBSET (1..Len(log))
    BY <1>1, FS_Interval DEF Unended
  <2> QED BY <2>1, FS_Subset
<1> QED BY <1>5, <1>6, FS_Injection DEF TornWriteCostsOneRecord

(* Of the committed changes, torn writes cost at most one each their record. *)
THEOREM TornWritesAreBounded == Spec => []TornWriteCostsOneRecord
<1> QED BY TornLinesBound, WAInvariant, PTL
=============================================================================
