---------------------------- MODULE PromoService ----------------------------
(***************************************************************************)
(* The audited changes of promo codes: every create, update and delete runs *)
(* as one PostgreSQL transaction that locks the row, appends a record to    *)
(* the audit file, and only then commits.  The database and the file are    *)
(* two stores without a common commit, several requests run at once (bot    *)
(* handlers and REST handlers), and Dick Grower Bot itself (external)       *)
(* activates the codes in the same database.                                *)
(*                                                                          *)
(* Abstractions.  Terms stands for bonus_length, since and until together;  *)
(* a version of a row carries in "born" the request that inserted it, which *)
(* tells a row from a later one with the same code.  An audit record keeps  *)
(* how the code was spelled: "padded" is a code with blanks around it,      *)
(* which the row does not have.  Isolation is READ COMMITTED: a statement   *)
(* takes its snapshot, waits for the row lock, and is re-evaluated on the   *)
(* newest version of the row it found.                                      *)
(***************************************************************************)
EXTENDS Integers, Sequences, FiniteSets

CONSTANTS
    Workers,      \* goroutines that serve requests
    Codes,        \* promo codes, trimmed
    Terms,        \* values of (bonus_length, since, until)
    Users,        \* players of the external bot who activate codes
    Spellings,    \* how REST clients may write a code: "bare", "padded"
    Faults,       \* what may go wrong in this instance
    MaxCapacity,  \* largest capacity a request asks for
    MaxOps,       \* bound: number of requests in a behaviour
    None          \* no row, no worker, no request, no offer

OpIds == 1..MaxOps
Fields == {"terms", "capacity"}
Row == [born: OpIds, terms: Terms, capacity: 0..MaxCapacity]
Offer == [terms: Terms, capacity: 1..MaxCapacity]

CreateRequest(id) == [id: {id}, action: {"create"}, code: Codes,
                      spelling: Spellings, offer: Offer]
UpdateRequest(id) == [id: {id}, action: {"update"}, code: Codes,
                      spelling: {"bare"}, offer: Offer]
DeleteRequest(id) == [id: {id}, action: {"delete"}, code: Codes,
                      spelling: {"bare"}, offer: {None}]
Requests(id) == CreateRequest(id) \cup UpdateRequest(id) \cup DeleteRequest(id)
Request == UNION {Requests(id) : id \in OpIds}

ASSUME BoundsAssumption == MaxCapacity \in Nat \ {0} /\ MaxOps \in Nat
ASSUME UsersAssumption == IsFiniteSet(Users)
ASSUME VocabularyAssumption ==
    /\ Spellings \subseteq {"bare", "padded"}
    /\ Faults \subseteq {"statement", "write", "commit", "crash"}
ASSUME NoneAssumption ==
    None \notin Workers \cup Row \cup Offer \cup Request \cup [id: OpIds, code: Codes]

VARIABLES
    rows,       \* committed Promo_Codes: Codes -> Row or None
    activated,  \* committed Promo_Code_Activations: Codes -> set of Users
    lock,       \* row lock: Codes -> the worker whose transaction holds it
    log,        \* audit.json: what each Write left in the file, in file order
    pc,         \* where each worker is in its transaction
    req,        \* the request each worker serves
    tx,         \* what each transaction has read and written so far
    nextOp,     \* identity of the next request
    outcome,    \* what the client of each request was told
    history     \* the committed changes, in commit order

vars == <<rows, activated, lock, log, pc, req, tx, nextOp, outcome, history>>

Labels == {"idle", "begin", "insert", "select", "update", "updating",
           "delete", "deleting", "save", "commit", "reply", "rollback"}
Answers == {"none", "pending", "ok", "deleted", "disabled", "failed", "lost"}
Success == {"ok", "deleted", "disabled"}

(* What a transaction keeps: the row GetPromo returned, the identity of the *)
(* row in the snapshot of the current statement, the activations counted in *)
(* that snapshot, and the version of the row it wrote (None: deleted).      *)
NewTx == [seen |-> None, target |-> 0, counted |-> 0, draft |-> None]

Init ==
    /\ rows = [c \in Codes |-> None]
    /\ activated = [c \in Codes |-> {}]
    /\ lock = [c \in Codes |-> None]
    /\ log = <<>>
    /\ pc = [w \in Workers |-> "idle"]
    /\ req = [w \in Workers |-> None]
    /\ tx = [w \in Workers |-> NewTx]
    /\ nextOp = 1
    /\ outcome = [id \in OpIds |-> "none"]
    /\ history = <<>>

-----------------------------------------------------------------------------
(* The audit file as FindLogs parses it: one JSON object per line.  An entry *)
(* is what one Write left: "whole" is FALSE for a cut object, "nl" tells     *)
(* whether its line was ended.  What follows an unended line is on it too,   *)
(* and a line that is not exactly one object is skipped.                     *)

Readable(i) ==
    /\ log[i].whole
    /\ i > 1 => log[i - 1].nl
    /\ i < Len(log) => log[i].nl

(* ActivationReport joins the creation records with the rows on the code as  *)
(* it is spelled, and the latest record of a code wins.                      *)
Creations(c) ==
    {i \in DOMAIN log : /\ Readable(i)
                        /\ log[i].action = "create"
                        /\ log[i].code = c
                        /\ log[i].spelling = "bare"}

LatestCreation(c, id) ==
    \E i \in Creations(c) : /\ log[i].id = id
                            /\ \A j \in Creations(c) : j <= i

(* promoChanges: the fields whose values differ, with both values. *)
ChangedFields(old, new) ==
    [f \in {g \in Fields : old[g] # new[g]} |-> <<old[f], new[f]>>]

Code(w) == req[w].code

(* Postgres makes a statement wait while another transaction holds the row. *)
NoLock(w) == TRUE
LockFree(w) == lock[Code(w)] = None

Goto(w, label) == pc' = [pc EXCEPT ![w] = label]

SkipAudit == "commit"
AfterStatement == "save"

(* The statement succeeded: the transaction holds the row and its new version. *)
Write(w, version) ==
    /\ lock' = [lock EXCEPT ![Code(w)] = w]
    /\ tx' = [tx EXCEPT ![w].draft = version]
    /\ Goto(w, AfterStatement)

(* The statement, or Save, failed: fn returns the error. *)
Abandon(w) ==
    /\ Goto(w, "rollback")
    /\ UNCHANGED <<lock, tx>>

ReleasedNothing(w) == lock
Released(w) == [c \in Codes |-> IF lock[c] = w THEN None ELSE lock[c]]

(* The request is over, and its client has this answer. *)
Finish(w, answer) ==
    /\ outcome' = [outcome EXCEPT ![req[w].id] = answer]
    /\ Goto(w, "idle")
    /\ req' = [req EXCEPT ![w] = None]
    /\ tx' = [tx EXCEPT ![w] = NewTx]

-----------------------------------------------------------------------------
(* A handler has validated its input, built the audit record, and calls one  *)
(* of CreatePromoWithAudit, UpdatePromoWithAudit, DeletePromoWithAudit.      *)
Submit(w) ==
    /\ pc[w] = "idle"
    /\ nextOp <= MaxOps
    /\ \E r \in Requests(nextOp) : req' = [req EXCEPT ![w] = r]
    /\ nextOp' = nextOp + 1
    /\ outcome' = [outcome EXCEPT ![nextOp] = "pending"]
    /\ Goto(w, "begin")
    /\ UNCHANGED <<rows, activated, lock, log, tx, history>>

FirstStatement(action) ==
    CASE action = "create" -> "insert"
      [] action = "update" -> "select"
      [] action = "delete" -> "delete"

Begin(w) ==
    /\ pc[w] = "begin"
    /\ Goto(w, FirstStatement(req[w].action))
    /\ UNCHANGED <<rows, activated, lock, log, req, tx, nextOp, outcome, history>>

(* pool.Begin failed: there is no transaction to roll back. *)
BeginFails(w) ==
    /\ "statement" \in Faults
    /\ pc[w] = "begin"
    /\ Finish(w, "failed")
    /\ UNCHANGED <<rows, activated, lock, log, nextOp, history>>

(* CreatePromo.  The primary key refuses a code that has a row, and makes    *)
(* the INSERT wait for a transaction that is deleting or inserting it.       *)
Insert(w) ==
    /\ pc[w] = "insert"
    /\ LockFree(w)
    /\ \/ /\ rows[Code(w)] = None
          /\ Write(w, [born |-> req[w].id, terms |-> req[w].offer.terms,
                       capacity |-> req[w].offer.capacity])
       \/ /\ rows[Code(w)] # None
          /\ Abandon(w)
    /\ UNCHANGED <<rows, activated, log, req, nextOp, outcome, history>>

(* GetPromo: a plain SELECT, which locks nothing. *)
Select(w) ==
    /\ pc[w] = "select"
    /\ \/ /\ rows[Code(w)] # None
          /\ tx' = [tx EXCEPT ![w].seen = rows[Code(w)]]
          /\ Goto(w, "update")
          /\ UNCHANGED lock
       \/ /\ rows[Code(w)] = None
          /\ Abandon(w)
    /\ UNCHANGED <<rows, activated, log, req, nextOp, outcome, history>>

(* UpdatePromo and DeletePromo take their snapshot, ... *)
TakeSnapshot(w, label) ==
    /\ \/ /\ rows[Code(w)] # None
          /\ tx' = [tx EXCEPT ![w].target = rows[Code(w)].born,
                              ![w].counted = Cardinality(activated[Code(w)])]
          /\ Goto(w, label)
          /\ UNCHANGED lock
       \/ /\ rows[Code(w)] = None
          /\ Abandon(w)
    /\ UNCHANGED <<rows, activated, log, req, nextOp, outcome, history>>

UpdateStart(w) == pc[w] = "update" /\ TakeSnapshot(w, "updating")
DeleteStart(w) == pc[w] = "delete" /\ TakeSnapshot(w, "deleting")

(* ... and act on the row once its lock is free, if it still exists then. *)
SameRow(w) == rows[Code(w)] # None /\ rows[Code(w)].born = tx[w].target

UpdateApply(w) ==
    /\ pc[w] = "updating"
    /\ LockFree(w)
    /\ \/ /\ SameRow(w)
          /\ Write(w, [rows[Code(w)] EXCEPT !.terms = req[w].offer.terms,
                                            !.capacity = req[w].offer.capacity])
       \/ /\ ~SameRow(w)
          /\ Abandon(w)
    /\ UNCHANGED <<rows, activated, log, req, nextOp, outcome, history>>

(* The REFERENCES constraint of the activations. *)
NoForeignKey(w) == TRUE
ForeignKeyHolds(w) == activated[Code(w)] = {}

(* A code that was activated keeps its row and loses its capacity; the count  *)
(* is the snapshot's, so an activation that came in between leads to the      *)
(* DELETE branch and there to a foreign key error.                            *)
KeptCapacity(w) == rows[Code(w)]
OneCapacityLess(w) == [rows[Code(w)] EXCEPT !.capacity = @ - 1]
Disabled(w) == [rows[Code(w)] EXCEPT !.capacity = 0]

DeleteApply(w) ==
    /\ pc[w] = "deleting"
    /\ LockFree(w)
    /\ \/ /\ SameRow(w)
          /\ tx[w].counted > 0
          /\ Write(w, Disabled(w))
       \/ /\ SameRow(w)
          /\ tx[w].counted = 0
          /\ ForeignKeyHolds(w)
          /\ Write(w, None)
       \/ /\ \/ ~SameRow(w)
             \/ tx[w].counted = 0 /\ ~ForeignKeyHolds(w)
          /\ Abandon(w)
    /\ UNCHANGED <<rows, activated, log, req, nextOp, outcome, history>>

(* The connection broke or the context ended during a statement. *)
StatementFails(w) ==
    /\ "statement" \in Faults
    /\ pc[w] \in {"insert", "select", "update", "updating", "delete", "deleting"}
    /\ Abandon(w)
    /\ UNCHANGED <<rows, activated, log, req, nextOp, outcome, history>>

(* What the service hands to Save: only an update reports changed fields,    *)
(* from the row GetPromo read to the row UPDATE ... RETURNING returned.      *)
ReportedChanges(w) ==
    IF req[w].action = "update" THEN ChangedFields(tx[w].seen, tx[w].draft) ELSE <<>>

AuditRecord(w) ==
    [id |-> req[w].id, action |-> req[w].action, code |-> req[w].code,
     spelling |-> req[w].spelling, changes |-> ReportedChanges(w),
     whole |-> TRUE, nl |-> TRUE]

Cut(record, whole) == [record EXCEPT !.whole = whole, !.nl = FALSE]

Save(w) ==
    /\ pc[w] = "save"
    /\ log' = Append(log, AuditRecord(w))
    /\ Goto(w, "commit")
    /\ UNCHANGED <<rows, activated, lock, req, tx, nextOp, outcome, history>>

AfterFailedSaveProceed == "commit"
AfterFailedSave == "rollback"

(* Write returned an error: nothing, a part of the object, or all of it but  *)
(* the newline is in the file, and stays there.                              *)
SaveFails(w) ==
    /\ "write" \in Faults
    /\ pc[w] = "save"
    /\ \/ UNCHANGED log
       \/ \E whole \in BOOLEAN : log' = Append(log, Cut(AuditRecord(w), whole))
    /\ Goto(w, AfterFailedSave)
    /\ UNCHANGED <<rows, activated, lock, req, tx, nextOp, outcome, history>>

(* tx.Commit reaches the server. *)
Commit(w) ==
    /\ pc[w] = "commit"
    /\ rows' = [rows EXCEPT ![Code(w)] = tx[w].draft]
    /\ history' = Append(history, [id |-> req[w].id, action |-> req[w].action,
                                   code |-> Code(w), old |-> rows[Code(w)],
                                   new |-> tx[w].draft])
    /\ lock' = Released(w)
    /\ Goto(w, "reply")
    /\ UNCHANGED <<activated, log, req, tx, nextOp, outcome>>

(* It does not: the context was cancelled (shutdown, REST timeout) or the    *)
(* connection broke.  The server rolls the transaction back; the audit       *)
(* record stays.                                                             *)
CommitErrorIgnored == "ok"
CommitErrorAnswer == "failed"
CommitFails(w) ==
    /\ "commit" \in Faults
    /\ pc[w] = "commit"
    /\ Finish(w, CommitErrorAnswer)
    /\ lock' = Released(w)
    /\ UNCHANGED <<rows, activated, log, nextOp, history>>

(* The answer tells what DeletePromo did. *)
AnyAnswer(w) == "ok"
SuccessAnswer(w) ==
    IF req[w].action # "delete" THEN "ok"
    ELSE IF tx[w].draft = None THEN "deleted" ELSE "disabled"

Reply(w) ==
    /\ pc[w] = "reply"
    /\ Finish(w, SuccessAnswer(w))
    /\ UNCHANGED <<rows, activated, lock, log, nextOp, history>>

(* The server committed and its acknowledgement was lost. *)
ReplyLost(w) ==
    /\ "commit" \in Faults
    /\ pc[w] = "reply"
    /\ Finish(w, "failed")
    /\ UNCHANGED <<rows, activated, lock, log, nextOp, history>>

Rollback(w) ==
    /\ pc[w] = "rollback"
    /\ Finish(w, "failed")
    /\ lock' = Released(w)
    /\ UNCHANGED <<rows, activated, log, nextOp, history>>

-----------------------------------------------------------------------------
(* The external bot: a player activates a code that has capacity left.  Its  *)
(* transaction takes the row lock, so it too waits for the lock.             *)
Activate(u, c) ==
    /\ lock[c] = None
    /\ rows[c] # None
    /\ u \notin activated[c]
    /\ rows[c].capacity > 0
    /\ activated' = [activated EXCEPT ![c] = @ \cup {u}]
    /\ rows' = [rows EXCEPT ![c].capacity = @ - 1]
    /\ UNCHANGED <<lock, log, pc, req, tx, nextOp, outcome, history>>

(* The process is killed and started again.  The database drops the          *)
(* transactions in flight; nobody answers their clients.  What a worker at   *)
(* "reply" did is committed.  The file keeps what was written.               *)
Crash ==
    /\ "crash" \in Faults
    /\ \E w \in Workers : pc[w] # "idle"
    /\ outcome' = [id \in OpIds |-> IF outcome[id] = "pending" THEN "lost" ELSE outcome[id]]
    /\ lock' = [c \in Codes |-> None]
    /\ pc' = [w \in Workers |-> "idle"]
    /\ req' = [w \in Workers |-> None]
    /\ tx' = [w \in Workers |-> NewTx]
    /\ UNCHANGED <<rows, activated, log, nextOp, history>>

(* All MaxOps requests are over. *)
Terminating ==
    /\ nextOp > MaxOps
    /\ \A w \in Workers : pc[w] = "idle"
    /\ UNCHANGED vars

Progress(w) ==
    \/ Begin(w) \/ Select(w) \/ UpdateStart(w) \/ DeleteStart(w)
    \/ Save(w) \/ Commit(w) \/ Reply(w) \/ Rollback(w)

Locking(w) == Insert(w) \/ UpdateApply(w) \/ DeleteApply(w)

Fault(w) ==
    \/ BeginFails(w) \/ StatementFails(w) \/ SaveFails(w)
    \/ CommitFails(w) \/ ReplyLost(w)

Next ==
    \/ \E w \in Workers : Submit(w) \/ Progress(w) \/ Locking(w) \/ Fault(w)
    \/ \E u \in Users, c \in Codes : Activate(u, c)
    \/ Crash
    \/ Terminating

Spec == Init /\ [][Next]_vars

(* The goroutines run; PostgreSQL grants a row lock to its waiters in turn.  *)
Fairness == \A w \in Workers : WF_vars(Progress(w)) /\ SF_vars(Locking(w))
FairSpec == Spec /\ Fairness

-----------------------------------------------------------------------------
AuditEntry ==
    [id: OpIds, action: {"create", "update", "delete"}, code: Codes,
     spelling: {"bare", "padded"}, whole: BOOLEAN, nl: BOOLEAN,
     changes: UNION {[S -> (Terms \cup 0..MaxCapacity) \X (Terms \cup 0..MaxCapacity)] :
                     S \in SUBSET Fields}]

Change == [id: OpIds, action: {"create", "update", "delete"}, code: Codes,
           old: Row \cup {None}, new: Row \cup {None}]

TxState == [seen: Row \cup {None}, target: 0..MaxOps, counted: Nat,
            draft: Row \cup {None}]

(* Types, and which request each worker, lock and transaction belongs to. *)
TypeOK ==
    /\ rows \in [Codes -> Row \cup {None}]
    /\ activated \in [Codes -> SUBSET Users]
    /\ lock \in [Codes -> Workers \cup {None}]
    /\ log \in Seq(AuditEntry)
    /\ pc \in [Workers -> Labels]
    /\ req \in [Workers -> Request \cup {None}]
    /\ \A w \in Workers : pc[w] # "idle" => req[w] \in Request
    /\ tx \in [Workers -> TxState]
    /\ nextOp \in 1..(MaxOps + 1)
    /\ outcome \in [OpIds -> Answers]
    /\ history \in Seq(Change)

(* Entry i of the file is the whole, terminated record of change h. *)
Records(i, h) ==
    /\ log[i].whole /\ log[i].nl
    /\ log[i].id = history[h].id
    /\ log[i].action = history[h].action
    /\ log[i].code = history[h].code

(* No change of a promo code is committed without its audit record having    *)
(* been written in full before: the log is a write-ahead log of the database *)
(* (Save runs inside the transaction, and its error rolls it back).          *)
CommittedIsSaved == \A h \in DOMAIN history : \E i \in DOMAIN log : Records(i, h)

(* The records of one code are in the file in the order their changes were   *)
(* committed, although the workers write them independently: the row lock is *)
(* held from the statement to the commit.                                    *)
AuditOrder ==
    \A g, h \in DOMAIN history : \A i, j \in DOMAIN log :
        (/\ g < h /\ history[g].code = history[h].code
         /\ Records(i, g) /\ Records(j, h)) => i < j

(* What a client was told is what happened: a success answer is only given   *)
(* for a committed change, and "deleted" and "disabled" tell which of its    *)
(* two ways DeletePromo took.                                                *)
AnsweredIsCommitted ==
    \A id \in OpIds : outcome[id] \in Success =>
        \E h \in DOMAIN history :
            /\ history[h].id = id
            /\ outcome[id] = "deleted" <=> history[h].new = None
            /\ outcome[id] = "disabled" <=>
                   history[h].action = "delete" /\ history[h].new # None

(* An activated code always keeps its row, so GetActivationStats finds it:   *)
(* DeletePromo disables it, and an activation that slips in after the count  *)
(* makes the delete fail.                                                    *)
ActivatedHasRow == \A c \in Codes : activated[c] # {} => rows[c] # None

LastChange(c) ==
    {h \in DOMAIN history : /\ history[h].code = c
                            /\ \A g \in DOMAIN history : history[g].code = c => g <= h}

(* Until somebody edits it, a code that DeletePromo disabled cannot be       *)
(* activated again.                                                          *)
DisabledIsSpent ==
    \A c \in Codes : \A h \in LastChange(c) :
        (history[h].action = "delete" /\ rows[c] # None) => rows[c].capacity = 0

(* The committed changes of a code make sense one after the other, whoever   *)
(* waited for whose lock: creations and deletions alternate, and each update *)
(* and disabling is of the row of the latest creation.                       *)
RowsLiveOnce ==
    \A h \in DOMAIN history :
        LET before == {g \in 1..(h - 1) : history[g].code = history[h].code}
            alive == {g \in before : /\ history[g].new # None
                                     /\ \A k \in before : k <= g}
        IN  IF history[h].action = "create"
            THEN alive = {}
            ELSE \E g \in alive : /\ history[h].old # None
                                  /\ history[h].old.born = history[g].new.born

(* The creation an activation report credits a code with, the latest record  *)
(* of the code in the file, is the one of the row in the database, as long   *)
(* as that record can be read: neither a deleted and recreated code nor one  *)
(* whose creation failed leads the report astray.                            *)
Attribution ==
    \A c \in Codes : \A i \in DOMAIN log :
        (/\ rows[c] # None
         /\ log[i].action = "create" /\ log[i].id = rows[c].born
         /\ Readable(i)) => LatestCreation(c, rows[c].born)

(* The committed changes whose record FindLogs does not return. *)
Unreadable == {h \in DOMAIN history :
                  ~ \E i \in DOMAIN log : Records(i, h) /\ Readable(i)}
Unended == {i \in DOMAIN log : ~log[i].nl}

(* A failed write costs at most one committed change its record, the one     *)
(* whose object lands on the same line; without failed writes FindLogs can   *)
(* read the record of every committed change.                                *)
TornWriteCostsOneRecord == Cardinality(Unreadable) <= Cardinality(Unended)

(* The changed fields in a record are those the committed update changed,    *)
(* with the values it replaced and wrote.                                    *)
ChangesAreTrue ==
    \A h \in DOMAIN history : \A i \in DOMAIN log :
        (history[h].action = "update" /\ Records(i, h)) =>
            log[i].changes = ChangedFields(history[h].old, history[h].new)

(* PromoActivationStat.InitialCapacity *)
InitialCapacity(c) == rows[c].capacity + Cardinality(activated[c])

(* It restores the capacity the code was created with, as long as nobody has *)
(* edited or disabled the code: no activation is lost or counted twice, and  *)
(* a code that is created again starts without those of its predecessor.     *)
UneditedCapacityAddsUp ==
    \A c \in Codes : \A h \in LastChange(c) :
        (history[h].action = "create" /\ rows[c] # None) =>
            InitialCapacity(c) = history[h].new.capacity

(* Every request is answered: no transaction keeps a row lock for ever, and  *)
(* the waiters of a lock get it.                                             *)
EveryRequestEnds ==
    \A id \in OpIds : outcome[id] = "pending" ~> outcome[id] # "pending"

-----------------------------------------------------------------------------
(* The abstract view: the lines of the file and the committed changes. *)
Trail ==
    [i \in DOMAIN log |->
        IF log[i].whole /\ log[i].nl THEN [id |-> log[i].id, code |-> log[i].code] ELSE None]

Applied ==
    [h \in DOMAIN history |-> [id |-> history[h].id, code |-> history[h].code]]

Abstract == INSTANCE AuditedChanges
    WITH Changes <- OpIds, Torn <- None, trail <- Trail, applied <- Applied

(* The service implements the write-ahead trail: every step of a worker, of  *)
(* the external bot or of a crash is a step of AuditedChanges or a stutter.  *)
WriteAhead == Abstract!Spec
=============================================================================
