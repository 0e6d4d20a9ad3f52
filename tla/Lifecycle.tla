----------------------------- MODULE Lifecycle ------------------------------
(***************************************************************************)
(* The process from its start to its exit: main receives updates (from a    *)
(* webhook, or in debug mode from a polling loop), every update is handled  *)
(* by a goroutine in the WaitGroup, REST requests are served beside it, the *)
(* report scheduler runs its jobs, and a signal cancels the one context     *)
(* they share.  The pieces must then stop in an order in which nobody is    *)
(* cut off: shutdown closes the database pool, the state storage and the    *)
(* audit file.                                                              *)
(*                                                                          *)
(* Of a request only its transaction matters here (PromoService has the     *)
(* rest): whether it holds a connection, needs the audit file, and has been *)
(* answered.                                                                *)
(***************************************************************************)
EXTENDS Integers, FiniteSets, Sequences

CONSTANTS
    Updates,    \* messages and button presses, each with its goroutine
    Rests,      \* requests to /promo/generate, each with its goroutine
    Jobs,       \* runs of the report schedule
    MaxPages    \* bound: messages of one report

Requests == Updates \cup Rests
Reports == {1, 2}    \* the activation report, the events report

ASSUME LifecycleAssumption ==
    /\ IsFiniteSet(Updates) /\ IsFiniteSet(Rests) /\ IsFiniteSet(Jobs)
    /\ Updates \cap Rests = {}
    /\ MaxPages \in Nat \ {0}

VARIABLES
    mode,        \* "webhook" or "debug"
    cancelled,   \* the signal came: ctx is cancelled
    main,        \* where main is
    receiving,   \* updates: "open", "stopping" (StopReceivingUpdates), "closed"
    wg,          \* the WaitGroup's counter
    stage,       \* how far each request is
    scheduler,   \* its goroutine: "off", "running", "stopping", "done"
    job,         \* per job: the report it is at and what it does
    outcome,     \* what became of each report of each job
    pool,        \* the database pool: "open", "closing", "closed"
    stateOpen,   \* the state storage (Redis) is open
    auditOpen    \* the audit file is open

vars == <<mode, cancelled, main, receiving, wg, stage, scheduler, job, outcome,
          pool, stateOpen, auditOpen>>

reporting == <<scheduler, job, outcome>>
resources == <<pool, stateOpen, auditOpen>>

(* startReportScheduler registers the goroutine before it starts. *)
ForgottenGoroutine(enabled) == 0
SchedulerJoins(enabled) == IF enabled THEN 1 ELSE 0

Waiting == [report |-> 1, step |-> "none", left |-> 0]

Init ==
    /\ mode \in {"webhook", "debug"}
    /\ cancelled = FALSE
    /\ main = "serving"
    /\ receiving = "open"
    /\ stage = [q \in Requests |-> "none"]
    /\ \E enabled \in BOOLEAN :
           /\ scheduler = IF enabled THEN "running" ELSE "off"
           /\ wg = SchedulerJoins(enabled)
    /\ job = [j \in Jobs |-> Waiting]
    /\ outcome = [j \in Jobs |-> [r \in Reports |-> "none"]]
    /\ pool = "open" /\ stateOpen = TRUE /\ auditOpen = TRUE

Alive == main # "exited"

Signal ==
    /\ ~cancelled
    /\ cancelled' = TRUE
    /\ UNCHANGED <<mode, main, receiving, wg, stage, reporting, resources>>

-----------------------------------------------------------------------------
(* Updates and requests come in.  The HTTP server accepts requests until it  *)
(* is told to stop, which debug mode never does.                             *)
Accepting == mode = "debug" \/ main = "serving"

MoveTo(q, next) == stage' = [stage EXCEPT ![q] = next]

UpdateArrives(u) ==
    /\ stage[u] = "none"
    /\ IF mode = "webhook" THEN Accepting ELSE receiving # "closed"
    /\ MoveTo(u, "arrived")
    /\ UNCHANGED <<mode, cancelled, main, receiving, wg, reporting, resources>>

RestArrives(q) ==
    /\ stage[q] = "none"
    /\ Accepting
    /\ MoveTo(q, "running")
    /\ UNCHANGED <<mode, cancelled, main, receiving, wg, reporting, resources>>

(* HandleUpdate: wg.Add(1), and a goroutine with the handler. *)
HandleUpdate(u) ==
    /\ stage[u] = "arrived"
    /\ wg' = wg + 1
    /\ MoveTo(u, "running")

WebhookHandles(u) ==
    /\ mode = "webhook"
    /\ HandleUpdate(u)
    /\ UNCHANGED <<mode, cancelled, main, receiving, reporting, resources>>

(* The polling loop looks at the context only when it has an update. *)
KeepReceiving == receiving
StopReceiving == IF cancelled /\ receiving = "open" THEN "stopping" ELSE receiving

LoopHandles(u) ==
    /\ mode = "debug"
    /\ main = "serving"
    /\ receiving' = StopReceiving
    /\ HandleUpdate(u)
    /\ UNCHANGED <<mode, cancelled, main, reporting, resources>>

(* A poll without an update: the loop keeps waiting, signal or not. *)
EmptyPoll ==
    /\ mode = "debug"
    /\ receiving = "open"
    /\ UNCHANGED vars

(* The library ends its polling and closes the channel. *)
ChannelCloses ==
    /\ receiving = "stopping"
    /\ receiving' = "closed"
    /\ UNCHANGED <<mode, cancelled, main, wg, stage, reporting, resources>>

-----------------------------------------------------------------------------
(* A request's context: handlers use the application's, REST its client's. *)
ContextOf(q) == IF q \in Updates /\ cancelled THEN "cancelled" ELSE "live"

Begin(q) ==
    /\ stage[q] = "running"
    /\ \/ /\ pool = "open" /\ ContextOf(q) = "live"
          /\ MoveTo(q, "transaction")
       \/ /\ pool # "open" \/ ContextOf(q) = "cancelled"
          /\ MoveTo(q, "failed")
    /\ UNCHANGED <<mode, cancelled, main, receiving, wg, reporting, resources>>

(* A request that needs no transaction, or is refused before one. *)
NoTransaction(q) ==
    /\ stage[q] = "running"
    /\ MoveTo(q, "failed")
    /\ UNCHANGED <<mode, cancelled, main, receiving, wg, reporting, resources>>

(* The end of the transaction gives the connection back.  A cancelled        *)
(* context, a REST timeout or a closed audit file rolls it back.             *)
EndTransaction(q) ==
    /\ stage[q] = "transaction"
    /\ \/ /\ auditOpen /\ ContextOf(q) = "live"
          /\ MoveTo(q, "committed")
       \/ MoveTo(q, "failed")
    /\ UNCHANGED <<mode, cancelled, main, receiving, wg, reporting, resources>>

Answer(q) ==
    /\ stage[q] \in {"committed", "failed"}
    /\ MoveTo(q, "answered")
    /\ wg' = IF q \in Updates THEN wg - 1 ELSE wg
    /\ UNCHANGED <<mode, cancelled, main, receiving, reporting, resources>>

-----------------------------------------------------------------------------
(* cron starts a job in a goroutine of its own. *)
Fire(j) ==
    /\ scheduler = "running"
    /\ job[j].step = "none"
    /\ job' = [job EXCEPT ![j].step = "logs"]
    /\ UNCHANGED <<mode, cancelled, main, receiving, wg, stage, scheduler, outcome, resources>>

Report(j) == job[j].report

(* The report is over, and the loop of send goes on with the next one. *)
ReturnOnError(j) ==
    IF Report(j) = 2 \/ outcome'[j][1] # "sent" THEN "done" ELSE "logs"
AfterReport(j) == IF Report(j) = 2 THEN "done" ELSE "logs"

Conclude(j, result) ==
    /\ outcome' = [outcome EXCEPT ![j][Report(j)] = result]
    /\ job' = [job EXCEPT ![j] = [report |-> 2, step |-> AfterReport(j), left |-> 0]]

JobStep(j, step) ==
    /\ job[j].step = step
    /\ UNCHANGED <<mode, cancelled, main, receiving, wg, stage, scheduler, resources>>

(* Build has its pages: at least one, also for a window without events. *)
HasPages(j) ==
    /\ \E n \in 1..MaxPages :
           job' = [job EXCEPT ![j] = [report |-> @.report, step |-> "send", left |-> n]]
    /\ UNCHANGED outcome

(* FindLogs.  Only the activation report asks the database too, and only if  *)
(* there were creations.                                                     *)
FindLogs(j) ==
    /\ JobStep(j, "logs")
    /\ \/ /\ auditOpen
          /\ \/ HasPages(j)
             \/ /\ Report(j) = 1
                /\ job' = [job EXCEPT ![j].step = "stats"]
                /\ UNCHANGED outcome
       \/ Conclude(j, "failed")

(* GetActivationStats, with the context of the application. *)
GetActivationStats(j) ==
    /\ JobStep(j, "stats")
    /\ \/ ~cancelled /\ pool = "open" /\ HasPages(j)
       \/ ~cancelled /\ Conclude(j, "failed")
       \/ cancelled /\ Conclude(j, "cancelled")

SendPage(j) ==
    /\ JobStep(j, "send")
    /\ \/ /\ job[j].left > 1
          /\ job' = [job EXCEPT ![j].left = @ - 1]
          /\ UNCHANGED outcome
       \/ /\ job[j].left = 1
          /\ Conclude(j, "sent")
       \/ Conclude(j, "failed")

Idle == {"none", "done"}

(* Run: no job starts any more, ... *)
StopSchedule ==
    /\ scheduler = "running"
    /\ cancelled
    /\ scheduler' = "stopping"
    /\ UNCHANGED <<mode, cancelled, main, receiving, wg, stage, job, outcome, resources>>

(* ... and the one that runs is waited for. *)
JobsAbandoned == TRUE
JobsOver == \A j \in Jobs : job[j].step \in Idle

SchedulerReturns ==
    /\ scheduler = "stopping"
    /\ JobsOver
    /\ scheduler' = "done"
    /\ wg' = wg - 1
    /\ UNCHANGED <<mode, cancelled, main, receiving, stage, job, outcome, resources>>

-----------------------------------------------------------------------------
(* main, from the end of the loop on: it waits, and calls shutdown. *)
FileFirst == <<"closeAudit", "closeDatabase", "closeState", "exited">>
Shutdown == <<"closeDatabase", "closeState", "closeAudit", "exited">>
After(step) ==
    LET i == CHOOSE k \in DOMAIN Shutdown : Shutdown[k] = step
    IN  Shutdown[i + 1]

MainStep(from, to) ==
    /\ main = from
    /\ main' = to
    /\ UNCHANGED <<mode, cancelled, receiving, wg, stage, reporting>>

LoopEnds ==
    /\ mode = "debug"
    /\ receiving = "closed"
    /\ \A u \in Updates : stage[u] # "arrived"
    /\ MainStep("serving", "waiting")
    /\ UNCHANGED resources

StopListening ==
    /\ mode = "webhook"
    /\ cancelled
    /\ MainStep("serving", "stopping")
    /\ UNCHANGED resources

(* The server returns when the requests it has accepted are over: a webhook  *)
(* call once its update is handed to a goroutine, a REST call once answered. *)
ListeningStopped ==
    /\ \A u \in Updates : stage[u] # "arrived"
    /\ \A q \in Rests : stage[q] \in {"none", "answered"}
    /\ MainStep("stopping", "waiting")
    /\ UNCHANGED resources

NoWait == TRUE
GroupEmpty == wg = 0

Wait ==
    /\ GroupEmpty
    /\ MainStep("waiting", Shutdown[1])
    /\ UNCHANGED resources

(* Pool.Close refuses new transactions and returns when every     *)
(* connection is back.                                                       *)
ClosePool ==
    /\ pool = "open"
    /\ MainStep("closeDatabase", "closeDatabase")
    /\ pool' = "closing"
    /\ UNCHANGED <<stateOpen, auditOpen>>

ConnectionsBack == \A q \in Requests : stage[q] # "transaction"

PoolClosed ==
    /\ pool = "closing"
    /\ ConnectionsBack
    /\ MainStep("closeDatabase", After("closeDatabase"))
    /\ pool' = "closed"
    /\ UNCHANGED <<stateOpen, auditOpen>>

CloseState ==
    /\ MainStep("closeState", After("closeState"))
    /\ stateOpen' = FALSE
    /\ UNCHANGED <<pool, auditOpen>>

CloseAudit ==
    /\ MainStep("closeAudit", After("closeAudit"))
    /\ auditOpen' = FALSE
    /\ UNCHANGED <<pool, stateOpen>>

Terminating == ~Alive /\ UNCHANGED vars

(* The exit of main takes every goroutine with it. *)
Serve(q) == Begin(q) \/ NoTransaction(q) \/ EndTransaction(q) \/ Answer(q)
Work(j) == FindLogs(j) \/ GetActivationStats(j) \/ SendPage(j)
Main ==
    \/ LoopEnds \/ StopListening \/ ListeningStopped \/ Wait
    \/ ClosePool \/ PoolClosed \/ CloseState \/ CloseAudit

Background == ChannelCloses \/ StopSchedule \/ SchedulerReturns

Next ==
    \/ /\ Alive
       /\ \/ Signal
          \/ \E u \in Updates : UpdateArrives(u) \/ WebhookHandles(u) \/ LoopHandles(u)
          \/ \E q \in Rests : RestArrives(q)
          \/ \E q \in Requests : Serve(q)
          \/ \E j \in Jobs : Fire(j) \/ Work(j)
          \/ EmptyPoll
          \/ Background
          \/ Main
    \/ Terminating

Spec == Init /\ [][Next]_vars

(* Goroutines run, and every query, transaction and message ends: the first  *)
(* two by their contexts, the last by the HTTP client.  Signals, updates,    *)
(* requests and jobs may never come.                                         *)
Fairness ==
    /\ \A u \in Updates : WF_vars(Alive /\ (WebhookHandles(u) \/ LoopHandles(u)))
    /\ \A q \in Requests : WF_vars(Alive /\ Serve(q))
    /\ \A j \in Jobs : WF_vars(Alive /\ Work(j))
    /\ WF_vars(Alive /\ ChannelCloses)
    /\ WF_vars(Alive /\ (StopSchedule \/ SchedulerReturns))
    /\ WF_vars(Main)
FairSpec == Spec /\ Fairness

-----------------------------------------------------------------------------
TypeOK ==
    /\ mode \in {"webhook", "debug"} /\ cancelled \in BOOLEAN
    /\ main \in {"serving", "stopping", "waiting", "closeDatabase", "closeState",
                 "closeAudit", "exited"}
    /\ receiving \in {"open", "stopping", "closed"}
    /\ wg \in 0..(Cardinality(Updates) + 1)
    /\ stage \in [Requests -> {"none", "arrived", "running", "transaction",
                               "committed", "failed", "answered"}]
    /\ scheduler \in {"off", "running", "stopping", "done"}
    /\ job \in [Jobs -> [report: Reports, left: 0..MaxPages,
                         step: {"none", "logs", "stats", "send", "done"}]]
    /\ outcome \in [Jobs -> [Reports -> {"none", "sent", "failed", "cancelled"}]]
    /\ pool \in {"open", "closing", "closed"}
    /\ stateOpen \in BOOLEAN /\ auditOpen \in BOOLEAN

(* shutdown does not close anything under a handler of an update: each that  *)
(* was received has been answered, so no dialogue ends in an error of a      *)
(* closed pool, and no late wg.Add meets a Wait that has returned.           *)
HandlersEndFirst ==
    main \in {"closeDatabase", "closeState", "closeAudit", "exited"} =>
        \A u \in Updates : stage[u] \in {"none", "answered"}

(* shutdown does not close the database pool or the audit file from under a  *)
(* report that is still being built or sent.                                 *)
ReportsEndFirst ==
    (\E j \in Jobs : job[j].step \notin Idle) =>
        pool = "open" /\ auditOpen /\ Alive

(* A transaction never finds the audit file closed, also that of a REST      *)
(* request, which nobody waits for in debug mode: Pool.Close waits for its   *)
(* connection, and the file is closed after the pool.                        *)
TransactionsCanBeAudited ==
    (\E q \in Requests : stage[q] = "transaction") => auditOpen

(* A job whose first report fails goes on to the second, and the second,     *)
(* which does not query the database, is not lost to the signal.  (Lost, not *)
(* late: how long the pages of the first take is left out.)                  *)
LaterReportsSurvive ==
    \A j \in Jobs : job[j].step = "done" => outcome[j][2] \in {"sent", "failed"}

(* After the signal the process exits, behind a webhook always, in debug     *)
(* mode once one more update has come: nobody waits for ever for the         *)
(* WaitGroup, the scheduler, the server or the pool.                         *)
ShutdownEnds ==
    (cancelled /\ (mode = "webhook" \/ \E u \in Updates : stage[u] = "arrived"))
        ~> main = "exited"
=============================================================================
