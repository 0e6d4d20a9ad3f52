--------------------------- MODULE LifecycleProofs ---------------------------
(***************************************************************************)
(* Nobody is cut off by the shutdown, for any number of updates, REST       *)
(* requests and report jobs.  The argument rests on what the WaitGroup's    *)
(* counter counts: the updates that are handled and the scheduler.  Once    *)
(* main has seen it at zero nothing can make it grow again, and what is not *)
(* counted, REST requests, is held back by the pool.                        *)
(***************************************************************************)
EXTENDS Lifecycle, FiniteSetTheorems, TLAPS

Stages == {"none", "arrived", "running", "transaction", "committed", "failed", "answered"}
Handled == {u \in Updates : stage[u] \notin {"none", "arrived", "answered"}}
SchedulerAlive == scheduler \in {"running", "stopping"}
Closing == {"closeDatabase", "closeState", "closeAudit", "exited"}

-----------------------------------------------------------------------------
(* TypeOK without the bound of the counter, which GroupCounts implies. *)
ControlTypes ==
    /\ mode \in {"webhook", "debug"}
    /\ main \in {"serving", "stopping", "waiting"} \cup Closing
    /\ receiving \in {"open", "stopping", "closed"}
    /\ scheduler \in {"off", "running", "stopping", "done"}
    /\ pool \in {"open", "closing", "closed"}
FlagTypes == cancelled \in BOOLEAN /\ stateOpen \in BOOLEAN /\ auditOpen \in BOOLEAN
StageTypes == stage \in [Requests -> Stages]

JobSteps == {"none", "logs", "stats", "send", "done"}
Outcomes == [Reports -> {"none", "sent", "failed", "cancelled"}]
ReportTypes ==
    /\ job \in [Jobs -> [report: Reports, left: 0..MaxPages, step: JobSteps]]
    /\ outcome \in [Jobs -> Outcomes]

Types == ControlTypes /\ FlagTypes /\ StageTypes /\ ReportTypes

(* Every handler and the scheduler have added one, and not yet taken it back. *)
GroupCounts == wg = Cardinality(Handled) + (IF SchedulerAlive THEN 1 ELSE 0)

(* Past its loop main is given no update any more. *)
NothingMoreComes ==
    /\ mode = "debug" => main # "stopping" /\ (main # "serving" => receiving = "closed")
    /\ main \in {"waiting"} \cup Closing => \A u \in Updates : stage[u] # "arrived"

(* Past its wait main is alone but for REST requests. *)
EverybodyIsDone ==
    main \in Closing => Handled = {} /\ ~SchedulerAlive

JobsHaveAScheduler == ~SchedulerAlive => JobsOver

(* What shutdown has closed so far. *)
ClosedInOrder ==
    /\ main \notin Closing => pool = "open"
    /\ main \in {"closeState", "closeAudit", "exited"} => pool = "closed"
    /\ pool = "closed" => ConnectionsBack
    /\ main # "exited" => auditOpen

(* Only the first report asks the database, and so heeds the signal. *)
ReportsInOrder ==
    \A j \in Jobs : /\ job[j].step = "stats" => Report(j) = 1
                    /\ job[j].step = "done" => outcome[j][2] \in {"sent", "failed"}

LifeInv ==
    /\ Types /\ GroupCounts /\ NothingMoreComes /\ EverybodyIsDone
    /\ JobsHaveAScheduler /\ ClosedInOrder /\ ReportsInOrder

-----------------------------------------------------------------------------
LEMMA HandledIsFinite == IsFiniteSet(Handled) /\ Cardinality(Handled) \in Nat
                         /\ Cardinality(Handled) <= Cardinality(Updates)
                         /\ Cardinality(Updates) \in Nat
BY LifecycleAssumption, FS_Subset, FS_CardinalityType DEF Handled

LEMMA StepsOfShutdown ==
    /\ Shutdown[1] = "closeDatabase"
    /\ After("closeDatabase") = "closeState"
    /\ After("closeState") = "closeAudit"
    /\ After("closeAudit") = "exited"
<1>1. \A i \in 1..4 : /\ (Shutdown[i] = "closeDatabase") <=> (i = 1)
                      /\ (Shutdown[i] = "closeState") <=> (i = 2)
                      /\ (Shutdown[i] = "closeAudit") <=> (i = 3)
    BY DEF Shutdown
<1>2. DOMAIN Shutdown = 1..4
    BY DEF Shutdown
<1>3. /\ (CHOOSE k \in DOMAIN Shutdown : Shutdown[k] = "closeDatabase") = 1
      /\ (CHOOSE k \in DOMAIN Shutdown : Shutdown[k] = "closeState") = 2
      /\ (CHOOSE k \in DOMAIN Shutdown : Shutdown[k] = "closeAudit") = 3
    BY <1>1, <1>2
<1>4. /\ Shutdown[1] = "closeDatabase" /\ Shutdown[2] = "closeState"
      /\ Shutdown[3] = "closeAudit" /\ Shutdown[4] = "exited"
    BY DEF Shutdown
<1>5. /\ After("closeDatabase") = Shutdown[1 + 1]
      /\ After("closeState") = Shutdown[2 + 1]
      /\ After("closeAudit") = Shutdown[3 + 1]
    <2> HIDE DEF Shutdown
    <2> QED BY <1>3, Zenon DEF After
<1> QED BY <1>4, <1>5

LEMMA InitLife == Init => LifeInv
<1> SUFFICES ASSUME Init PROVE LifeInv
    OBVIOUS
<1>1. Handled = {}
    BY DEF Init, Handled, Requests
<1>2. Types
    <2>1. ControlTypes
        BY DEF Init, ControlTypes
    <2>2. FlagTypes
        BY Zenon DEF Init, FlagTypes
    <2>3. StageTypes
        BY DEF Init, StageTypes, Stages
    <2>4. Waiting \in [report: Reports, left: 0..MaxPages, step: JobSteps]
        BY LifecycleAssumption DEF Waiting, Reports, JobSteps
    <2>5. [r \in Reports |-> "none"] \in Outcomes
        BY DEF Outcomes
    <2>6. ReportTypes
        BY <2>4, <2>5, Zenon DEF Init, ReportTypes
    <2> QED BY <2>1, <2>2, <2>3, <2>6 DEF Types
<1>3. GroupCounts
    <2>1. Cardinality(Handled) = 0
        BY <1>1, FS_EmptySet
    <2> HIDE DEF Handled
    <2> QED BY <2>1 DEF Init, GroupCounts, SchedulerAlive, SchedulerJoins
<1> QED BY <1>1, <1>2, <1>3 DEF Init, LifeInv, NothingMoreComes, EverybodyIsDone,
            JobsHaveAScheduler, JobsOver, ClosedInOrder, ReportsInOrder, Closing,
            ConnectionsBack, Idle, Waiting

-----------------------------------------------------------------------------
(* One update more, or one less, in the hands of a goroutine. *)
LEMMA OneMoreHandled ==
    ASSUME Types, NEW u \in Updates, stage[u] = "arrived", MoveTo(u, "running")
    PROVE  Cardinality(Handled') = Cardinality(Handled) + 1
<1>1. Handled' = Handled \cup {u} /\ u \notin Handled
    BY DEF Types, StageTypes, MoveTo, Handled, Requests
<1> QED BY <1>1, HandledIsFinite, FS_AddElement

LEMMA OneLessHandled ==
    ASSUME Types, NEW u \in Updates, stage[u] \in {"committed", "failed"}, MoveTo(u, "answered")
    PROVE  Cardinality(Handled') = Cardinality(Handled) - 1
<1>1. Handled' = Handled \ {u} /\ u \in Handled
    BY DEF Types, StageTypes, MoveTo, Handled, Requests
<1> QED BY <1>1, HandledIsFinite, FS_RemoveElement

(* A counter at zero: nobody handles an update, and the scheduler is over. *)
LEMMA GroupEmptyMeansAlone ==
    ASSUME GroupCounts, GroupEmpty
    PROVE  Handled = {} /\ ~SchedulerAlive
<1>1. Cardinality(Handled) = 0 /\ ~SchedulerAlive
    <2> HIDE DEF Handled
    <2> QED BY HandledIsFinite DEF GroupCounts, GroupEmpty
<1> QED BY <1>1, HandledIsFinite, FS_EmptySet

-----------------------------------------------------------------------------
(* A step of a report keeps the types of jobs and outcomes. *)
LEMMA WorkTypes ==
    ASSUME ReportTypes, NEW j \in Jobs, Work(j)
    PROVE  ReportTypes'
<1> USE DEF ReportTypes
<1>0. 1 \in Reports /\ 2 \in Reports /\ 0 \in 0..MaxPages /\ Report(j) \in Reports
    BY LifecycleAssumption DEF Reports, Report
<1>1. ASSUME NEW result \in {"sent", "failed", "cancelled"}, Conclude(j, result)
      PROVE  ReportTypes'
    <2>1. AfterReport(j) \in JobSteps
        BY DEF AfterReport, JobSteps
    <2>2. [report |-> 2, step |-> AfterReport(j), left |-> 0]
              \in [report: Reports, left: 0..MaxPages, step: JobSteps]
        BY <1>0, <2>1
    <2>3. [outcome[j] EXCEPT ![Report(j)] = result] \in Outcomes
        BY <1>0 DEF Outcomes
    <2>4. outcome' = [outcome EXCEPT ![j] = [outcome[j] EXCEPT ![Report(j)] = result]]
        BY <1>1, Zenon DEF Conclude
    <2> HIDE DEF Outcomes, Reports, JobSteps
    <2> QED BY <1>1, <2>2, <2>3, <2>4, Zenon DEF Conclude
<1>2. HasPages(j) => ReportTypes'
    <2> SUFFICES ASSUME HasPages(j) PROVE ReportTypes'
        OBVIOUS
    <2>1. PICK n \in 1..MaxPages :
              job' = [job EXCEPT ![j] = [report |-> @.report, step |-> "send", left |-> n]]
        BY DEF HasPages
    <2>2. [report |-> job[j].report, step |-> "send", left |-> n]
              \in [report: Reports, left: 0..MaxPages, step: JobSteps]
        BY LifecycleAssumption DEF JobSteps
    <2> QED BY <2>1, <2>2 DEF HasPages
<1>3. CASE FindLogs(j)
    <2>1. ASSUME job' = [job EXCEPT ![j].step = "stats"], UNCHANGED outcome
          PROVE  ReportTypes'
        BY <2>1 DEF JobSteps
    <2> QED BY <1>1, <1>2, <1>3, <2>1 DEF FindLogs
<1>4. CASE GetActivationStats(j)
    BY <1>1, <1>2, <1>4 DEF GetActivationStats
<1>5. CASE SendPage(j)
    <2>1. ASSUME job[j].left > 1, job' = [job EXCEPT ![j].left = @ - 1], UNCHANGED outcome
          PROVE  ReportTypes'
        <3>1. job[j].left - 1 \in 0..MaxPages
            BY <2>1, LifecycleAssumption
        <3> QED BY <2>1, <3>1
    <2> QED BY <1>1, <1>5, <2>1 DEF SendPage
<1> QED BY <1>3, <1>4, <1>5 DEF Work

LEMMA TypesPreserved == Types /\ [Next]_vars => Types'
<1> SUFFICES ASSUME Types, [Next]_vars PROVE Types'
    OBVIOUS
<1> USE DEF reporting, resources, Types
<1>1. CASE Signal
    BY <1>1 DEF Signal, ControlTypes, FlagTypes, StageTypes, ReportTypes
<1>2. ASSUME NEW u \in Updates, UpdateArrives(u) \/ WebhookHandles(u) \/ LoopHandles(u)
      PROVE  Types'
    BY <1>2 DEF UpdateArrives, WebhookHandles, LoopHandles, HandleUpdate, MoveTo,
                StopReceiving, Requests, Stages, ControlTypes, FlagTypes, StageTypes, ReportTypes
<1>3. ASSUME NEW q \in Rests, RestArrives(q)
      PROVE  Types'
    BY <1>3 DEF RestArrives, MoveTo, Requests, Stages,
                ControlTypes, FlagTypes, StageTypes, ReportTypes
<1>4. ASSUME NEW q \in Requests, Serve(q)
      PROVE  Types'
    BY <1>4 DEF Serve, Begin, NoTransaction, EndTransaction, Answer, MoveTo, Stages,
                ControlTypes, FlagTypes, StageTypes, ReportTypes
<1>5. ASSUME NEW j \in Jobs, Fire(j)
      PROVE  Types'
    BY <1>5 DEF Fire, JobSteps, ControlTypes, FlagTypes, StageTypes, ReportTypes
<1>6. ASSUME NEW j \in Jobs, Work(j)
      PROVE  Types'
    <2>1. ReportTypes'
        BY <1>6, WorkTypes
    <2>2. UNCHANGED <<mode, cancelled, main, receiving, wg, stage, scheduler, resources>>
        BY <1>6, Zenon DEF Work, FindLogs, GetActivationStats, SendPage, JobStep
    <2> QED BY <2>1, <2>2 DEF ControlTypes, FlagTypes, StageTypes
<1>7. CASE Background
    BY <1>7 DEF Background, ChannelCloses, StopSchedule, SchedulerReturns,
                ControlTypes, FlagTypes, StageTypes, ReportTypes
<1>8. CASE Main
    <2>1. UNCHANGED <<mode, cancelled, receiving, wg, stage, reporting>>
        BY <1>8, Zenon DEF Main, MainStep, LoopEnds, StopListening, ListeningStopped, Wait,
                    ClosePool, PoolClosed, CloseState, CloseAudit
    <2>2. ControlTypes'
        BY <1>8, <2>1, StepsOfShutdown DEF Main, MainStep, LoopEnds, StopListening,
                    ListeningStopped, Wait, ClosePool, PoolClosed, CloseState, CloseAudit,
                    ControlTypes, Closing
    <2>3. FlagTypes'
        BY <1>8, <2>1, Zenon DEF Main, LoopEnds, StopListening, ListeningStopped, Wait,
                    ClosePool, PoolClosed, CloseState, CloseAudit, FlagTypes
    <2> QED BY <2>1, <2>2, <2>3 DEF StageTypes, ReportTypes
<1>9. CASE UNCHANGED vars
    BY <1>9 DEF vars, ControlTypes, FlagTypes, StageTypes, ReportTypes
<1> QED BY <1>1, <1>2, <1>3, <1>4, <1>5, <1>6, <1>7, <1>8, <1>9 DEF Next, EmptyPoll, Terminating

-----------------------------------------------------------------------------
(* Reports and main do not touch the requests, nor who is handled. *)
LEMMA NobodyElseHandles ==
    /\ \A j \in Jobs : Fire(j) \/ Work(j) =>
           UNCHANGED <<mode, cancelled, main, receiving, wg, stage, scheduler, resources>>
    /\ Main => UNCHANGED <<mode, cancelled, receiving, wg, stage, reporting>>
BY Zenon DEF Fire, Work, FindLogs, GetActivationStats, SendPage, JobStep, Main, MainStep,
    LoopEnds, StopListening, ListeningStopped, Wait, ClosePool, PoolClosed, CloseState, CloseAudit

LEMMA CountsPreserved == LifeInv /\ [Next]_vars => GroupCounts'
<1> SUFFICES ASSUME LifeInv, [Next]_vars PROVE GroupCounts'
    OBVIOUS
<1> USE DEF reporting, resources
<1>t. Types /\ GroupCounts /\ Types'
    BY TypesPreserved DEF LifeInv
<1>k. Cardinality(Handled) \in Nat
    BY HandledIsFinite
<1>s. ASSUME UNCHANGED <<wg, scheduler>>, Handled' = Handled
      PROVE  GroupCounts'
    <2> HIDE DEF Handled
    <2> QED BY <1>s, <1>t DEF GroupCounts, SchedulerAlive
<1>1. CASE Signal
    BY <1>1, <1>s DEF Signal, Handled
<1>2. ASSUME NEW u \in Updates, UpdateArrives(u)
      PROVE  GroupCounts'
    <2>1. Handled' = Handled
        BY <1>2, <1>t DEF UpdateArrives, MoveTo, Handled, Types, StageTypes, Requests
    <2> QED BY <1>2, <1>s, <2>1 DEF UpdateArrives
<1>3. ASSUME NEW u \in Updates, WebhookHandles(u) \/ LoopHandles(u)
      PROVE  GroupCounts'
    <2>1. /\ stage[u] = "arrived" /\ MoveTo(u, "running")
          /\ wg' = wg + 1 /\ scheduler' = scheduler
        BY <1>3 DEF WebhookHandles, LoopHandles, HandleUpdate
    <2>2. Cardinality(Handled') = Cardinality(Handled) + 1
        BY <1>t, <2>1, OneMoreHandled
    <2> HIDE DEF Handled
    <2> QED BY <1>t, <1>k, <2>1, <2>2 DEF GroupCounts, SchedulerAlive
<1>4. ASSUME NEW q \in Rests, RestArrives(q)
      PROVE  GroupCounts'
    <2>1. Handled' = Handled
        BY <1>4, <1>t, LifecycleAssumption
           DEF RestArrives, MoveTo, Handled, Types, StageTypes, Requests
    <2> QED BY <1>4, <1>s, <2>1 DEF RestArrives
<1>5. ASSUME NEW q \in Requests, Begin(q) \/ NoTransaction(q) \/ EndTransaction(q)
      PROVE  GroupCounts'
    <2>1. Handled' = Handled
        BY <1>5, <1>t DEF Begin, NoTransaction, EndTransaction, MoveTo, Handled,
                          Types, StageTypes, Requests
    <2> QED BY <1>5, <1>s, <2>1 DEF Begin, NoTransaction, EndTransaction
<1>6. ASSUME NEW q \in Requests, Answer(q)
      PROVE  GroupCounts'
    <2>1. CASE q \in Updates
        <3>1. /\ stage[q] \in {"committed", "failed"} /\ MoveTo(q, "answered")
              /\ wg' = wg - 1 /\ scheduler' = scheduler
            BY <1>6, <2>1 DEF Answer
        <3>2. Cardinality(Handled') = Cardinality(Handled) - 1
            BY <1>t, <2>1, <3>1, OneLessHandled
        <3> HIDE DEF Handled
        <3> QED BY <1>t, <1>k, <3>1, <3>2 DEF GroupCounts, SchedulerAlive
    <2>2. CASE q \notin Updates
        <3>1. Handled' = Handled
            BY <1>6, <1>t, <2>2 DEF Answer, MoveTo, Handled, Types, StageTypes, Requests
        <3> QED BY <1>6, <1>s, <2>2, <3>1 DEF Answer
    <2> QED BY <2>1, <2>2
<1>7. ASSUME NEW j \in Jobs, Fire(j) \/ Work(j)
      PROVE  GroupCounts'
    BY <1>7, <1>s, NobodyElseHandles DEF Handled
<1>8. CASE ChannelCloses \/ StopSchedule
    <2>1. Handled' = Handled /\ wg' = wg /\ SchedulerAlive' = SchedulerAlive
        BY <1>8 DEF ChannelCloses, StopSchedule, Handled, SchedulerAlive
    <2> HIDE DEF Handled
    <2> QED BY <1>t, <2>1 DEF GroupCounts
<1>9. CASE SchedulerReturns
    <2>1. Handled' = Handled /\ wg' = wg - 1 /\ SchedulerAlive /\ ~SchedulerAlive'
        BY <1>9 DEF SchedulerReturns, Handled, SchedulerAlive
    <2> HIDE DEF Handled
    <2> QED BY <1>t, <1>k, <2>1 DEF GroupCounts
<1>10. CASE Main
    BY <1>10, <1>s, NobodyElseHandles DEF Handled
<1>11. CASE UNCHANGED vars
    BY <1>11, <1>s DEF vars, Handled
<1> QED BY <1>1, <1>2, <1>3, <1>4, <1>5, <1>6, <1>7, <1>8, <1>9, <1>10, <1>11
        DEF Next, Serve, Background, EmptyPoll, Terminating

LEMMA ComesPreserved == LifeInv /\ [Next]_vars => NothingMoreComes' /\ EverybodyIsDone'
<1> SUFFICES ASSUME LifeInv, [Next]_vars PROVE NothingMoreComes' /\ EverybodyIsDone'
    OBVIOUS
<1> USE DEF reporting, resources, NothingMoreComes, EverybodyIsDone
<1>t. /\ ControlTypes /\ StageTypes /\ GroupCounts
      /\ NothingMoreComes /\ EverybodyIsDone
    BY DEF LifeInv, Types
<1>1. CASE Signal
    BY <1>1, <1>t DEF Signal, Handled, SchedulerAlive
<1>2. ASSUME NEW u \in Updates, UpdateArrives(u)
      PROVE  NothingMoreComes' /\ EverybodyIsDone'
    <2>1. main \in {"serving", "stopping"} /\ main' = main
        BY <1>2, <1>t DEF UpdateArrives, Accepting, ControlTypes, Closing
    <2> QED BY <1>2, <1>t, <2>1 DEF UpdateArrives, Closing
<1>3. ASSUME NEW u \in Updates, WebhookHandles(u) \/ LoopHandles(u)
      PROVE  NothingMoreComes' /\ EverybodyIsDone'
    <2>1. main \in {"serving", "stopping"} /\ main' = main /\ mode' = mode
        BY <1>3, <1>t DEF WebhookHandles, LoopHandles, HandleUpdate, ControlTypes, Closing
    <2>2. mode = "debug" => main = "serving"
        BY <1>3, <1>t DEF WebhookHandles, LoopHandles
    <2> QED BY <2>1, <2>2 DEF Closing
<1>4. ASSUME NEW q \in Rests, RestArrives(q)
      PROVE  NothingMoreComes' /\ EverybodyIsDone'
    BY <1>4, <1>t, LifecycleAssumption
       DEF RestArrives, MoveTo, Handled, SchedulerAlive, StageTypes, Requests
<1>5. ASSUME NEW q \in Requests, Serve(q)
      PROVE  NothingMoreComes' /\ EverybodyIsDone'
    <2>1. /\ UNCHANGED <<mode, main, receiving, scheduler>>
          /\ stage[q] \notin {"none", "arrived", "answered"}
          /\ \E next \in Stages \ {"arrived"} : MoveTo(q, next)
        BY <1>5 DEF Serve, Begin, NoTransaction, EndTransaction, Answer, Stages
    <2> QED BY <1>t, <2>1 DEF MoveTo, Handled, SchedulerAlive, StageTypes, Requests
<1>6. ASSUME NEW j \in Jobs, Fire(j) \/ Work(j)
      PROVE  NothingMoreComes' /\ EverybodyIsDone'
    BY <1>6, <1>t, NobodyElseHandles DEF Handled, SchedulerAlive
<1>7. CASE Background
    BY <1>7, <1>t DEF Background, ChannelCloses, StopSchedule, SchedulerReturns, Handled,
        SchedulerAlive, ControlTypes
<1>8. CASE Wait
    BY <1>8, <1>t, GroupEmptyMeansAlone, StepsOfShutdown
       DEF Wait, MainStep, Handled, SchedulerAlive, Closing
<1>9. CASE LoopEnds \/ StopListening \/ ListeningStopped
    BY <1>9, <1>t DEF LoopEnds, StopListening, ListeningStopped, MainStep, Closing
<1>10. CASE ClosePool \/ PoolClosed \/ CloseState \/ CloseAudit
    BY <1>10, <1>t, StepsOfShutdown
       DEF ClosePool, PoolClosed, CloseState, CloseAudit, MainStep, Handled, SchedulerAlive, Closing
<1>11. CASE UNCHANGED vars
    BY <1>11, <1>t DEF vars, Handled, SchedulerAlive
<1> QED BY <1>1, <1>2, <1>3, <1>4, <1>5, <1>6, <1>7, <1>8, <1>9, <1>10, <1>11
        DEF Next, Main, EmptyPoll, Terminating

-----------------------------------------------------------------------------
LEMMA ClosingPreserved == LifeInv /\ [Next]_vars => ClosedInOrder'
<1> SUFFICES ASSUME LifeInv, [Next]_vars PROVE ClosedInOrder'
    OBVIOUS
<1> USE DEF reporting, resources, ClosedInOrder, ConnectionsBack
<1>t. ControlTypes /\ StageTypes /\ ClosedInOrder
    BY DEF LifeInv, Types
<1>1. CASE Signal
    BY <1>1, <1>t DEF Signal
<1>2. ASSUME NEW u \in Updates, UpdateArrives(u) \/ WebhookHandles(u) \/ LoopHandles(u)
      PROVE  ClosedInOrder'
    BY <1>2, <1>t DEF UpdateArrives, WebhookHandles, LoopHandles, HandleUpdate, MoveTo,
                      StageTypes, Requests
<1>3. ASSUME NEW q \in Rests, RestArrives(q)
      PROVE  ClosedInOrder'
    BY <1>3, <1>t DEF RestArrives, MoveTo, StageTypes, Requests
<1>4. ASSUME NEW q \in Requests, Serve(q)
      PROVE  ClosedInOrder'
    BY <1>4, <1>t DEF Serve, Begin, NoTransaction, EndTransaction, Answer, MoveTo, StageTypes
<1>5. ASSUME NEW j \in Jobs, Fire(j) \/ Work(j)
      PROVE  ClosedInOrder'
    BY <1>5, <1>t, NobodyElseHandles
<1>6. CASE Background
    BY <1>6, <1>t DEF Background, ChannelCloses, StopSchedule, SchedulerReturns
<1>7. CASE LoopEnds \/ StopListening \/ ListeningStopped \/ Wait
    BY <1>7, <1>t, StepsOfShutdown
       DEF LoopEnds, StopListening, ListeningStopped, Wait, MainStep, Closing
<1>8. CASE ClosePool \/ PoolClosed
    BY <1>8, <1>t, StepsOfShutdown DEF ClosePool, PoolClosed, MainStep, Closing
<1>9. CASE CloseState \/ CloseAudit
    BY <1>9, <1>t, StepsOfShutdown DEF CloseState, CloseAudit, MainStep, Closing
<1>10. CASE UNCHANGED vars
    BY <1>10, <1>t DEF vars
<1> QED BY <1>1, <1>2, <1>3, <1>4, <1>5, <1>6, <1>7, <1>8, <1>9, <1>10
        DEF Next, Main, EmptyPoll, Terminating

(* What a step of one job does to it, and that it leaves the others alone. *)
LEMMA WorkInOrder ==
    ASSUME ReportTypes, ReportsInOrder, NEW j \in Jobs, Work(j)
    PROVE  ReportsInOrder' /\ job[j].step \notin Idle
<1> USE DEF ReportTypes, JobSteps
<1>1. job[j].step \notin Idle
    BY Zenon DEF Work, FindLogs, GetActivationStats, SendPage, JobStep, Idle
<1>2. ASSUME NEW result \in {"sent", "failed", "cancelled"}, Conclude(j, result),
             result = "cancelled" => Report(j) = 1
      PROVE  ReportsInOrder'
    <2>1. \A k \in Jobs : k # j => job'[k] = job[k] /\ outcome'[k] = outcome[k]
        BY <1>2 DEF Conclude
    <2>2. job'[j] = [report |-> 2, step |-> AfterReport(j), left |-> 0]
        BY <1>2 DEF Conclude
    <2>3. Report(j) = 2 => outcome'[j][2] = result
        BY <1>2 DEF Conclude, Outcomes, Reports
    <2>4. Report(j) = 2 \/ AfterReport(j) = "logs"
        BY DEF AfterReport
    <2>5. AfterReport(j) # "stats"
        BY DEF AfterReport
    <2>6. Report(j) = 2 => result \in {"sent", "failed"}
        BY <1>2
    <2> QED BY <2>1, <2>2, <2>3, <2>4, <2>5, <2>6 DEF ReportsInOrder, Report
<1>3. ASSUME HasPages(j)
      PROVE  ReportsInOrder'
    <2>1. PICK n \in 1..MaxPages :
              job' = [job EXCEPT ![j] = [report |-> @.report, step |-> "send", left |-> n]]
        BY <1>3 DEF HasPages
    <2> QED BY <1>3, <2>1 DEF HasPages, ReportsInOrder, Report
<1>4. CASE FindLogs(j)
    <2>1. ASSUME Report(j) = 1, job' = [job EXCEPT ![j].step = "stats"], UNCHANGED outcome
          PROVE  ReportsInOrder'
        BY <2>1 DEF ReportsInOrder, Report
    <2> QED BY <1>1, <1>2, <1>3, <1>4, <2>1 DEF FindLogs
<1>5. CASE GetActivationStats(j)
    <2>1. Report(j) = 1
        BY <1>5 DEF GetActivationStats, JobStep, ReportsInOrder
    <2> QED BY <1>1, <1>2, <1>3, <1>5, <2>1 DEF GetActivationStats
<1>6. CASE SendPage(j)
    <2>1. ASSUME job' = [job EXCEPT ![j].left = @ - 1], UNCHANGED outcome
          PROVE  ReportsInOrder'
        BY <2>1 DEF ReportsInOrder, Report
    <2> QED BY <1>1, <1>2, <1>6, <2>1 DEF SendPage
<1> QED BY <1>1, <1>4, <1>5, <1>6 DEF Work

LEMMA ReportsPreserved == LifeInv /\ [Next]_vars => JobsHaveAScheduler' /\ ReportsInOrder'
<1> SUFFICES ASSUME LifeInv, [Next]_vars PROVE JobsHaveAScheduler' /\ ReportsInOrder'
    OBVIOUS
<1> USE DEF JobsHaveAScheduler, JobsOver, SchedulerAlive
<1>t. /\ ControlTypes /\ ReportTypes
      /\ JobsHaveAScheduler /\ ReportsInOrder
    BY DEF LifeInv, Types
<1>1. ASSUME NEW j \in Jobs, Fire(j)
      PROVE  JobsHaveAScheduler' /\ ReportsInOrder'
    BY <1>1, <1>t DEF Fire, ReportsInOrder, Report, ReportTypes, JobSteps
<1>2. ASSUME NEW j \in Jobs, Work(j)
      PROVE  JobsHaveAScheduler' /\ ReportsInOrder'
    <2>1. scheduler' = scheduler
        BY <1>2, NobodyElseHandles
    <2>2. ReportsInOrder' /\ job[j].step \notin Idle
        BY <1>2, <1>t, WorkInOrder
    <2> QED BY <1>t, <2>1, <2>2
<1>3. CASE StopSchedule \/ SchedulerReturns
    BY <1>3, <1>t DEF StopSchedule, SchedulerReturns, ReportsInOrder, Report
<1>4. CASE UNCHANGED reporting
    BY <1>4, <1>t DEF reporting, ReportsInOrder, Report
<1>5. CASE ChannelCloses \/ Signal \/ UNCHANGED vars
    BY <1>4, <1>5 DEF ChannelCloses, Signal, reporting, vars
<1>6. ASSUME NEW u \in Updates, UpdateArrives(u) \/ WebhookHandles(u) \/ LoopHandles(u)
      PROVE  UNCHANGED reporting
    BY <1>6 DEF UpdateArrives, WebhookHandles, LoopHandles, reporting
<1>7. ASSUME NEW q \in Rests, RestArrives(q)
      PROVE  UNCHANGED reporting
    BY <1>7 DEF RestArrives
<1>8. ASSUME NEW q \in Requests, Serve(q)
      PROVE  UNCHANGED reporting
    BY <1>8 DEF Serve, Begin, NoTransaction, EndTransaction, Answer
<1>9. Main => UNCHANGED reporting
    BY NobodyElseHandles
<1> QED BY <1>1, <1>2, <1>3, <1>4, <1>5, <1>6, <1>7, <1>8, <1>9
        DEF Next, Background, EmptyPoll, Terminating

LEMMA LifePreserved == Spec => []LifeInv
<1>1. LifeInv /\ [Next]_vars => LifeInv'
    BY TypesPreserved, CountsPreserved, ComesPreserved, ClosingPreserved, ReportsPreserved
       DEF LifeInv
<1> QED BY InitLife, <1>1, PTL DEF Spec

-----------------------------------------------------------------------------
(* The state of the process has its type; in particular the WaitGroup's      *)
(* counter is never negative, at which wg.Done would panic, and never counts *)
(* more than the updates and the scheduler.                                  *)
THEOREM TypeCorrect == Spec => []TypeOK
<1>1. LifeInv => TypeOK
    <2> SUFFICES ASSUME LifeInv PROVE TypeOK
        OBVIOUS
    <2>1. wg \in 0..(Cardinality(Updates) + 1)
        <3> HIDE DEF Handled
        <3> QED BY HandledIsFinite DEF LifeInv, GroupCounts
    <2> QED BY <2>1 DEF LifeInv, Types, ControlTypes, FlagTypes, StageTypes, ReportTypes,
                Stages, Closing, JobSteps, Outcomes, TypeOK
<1> QED BY LifePreserved, <1>1, PTL

(* shutdown waits for every handler of an update that main has received. *)
THEOREM HandlersFinishFirst == Spec => []HandlersEndFirst
<1>1. LifeInv => HandlersEndFirst
    BY DEF LifeInv, NothingMoreComes, EverybodyIsDone, Types, StageTypes, Handled, Stages,
           Requests, Closing, HandlersEndFirst
<1> QED BY LifePreserved, <1>1, PTL

(* shutdown waits for the report that a job builds or sends. *)
THEOREM ReportsFinishFirst == Spec => []ReportsEndFirst
<1>1. LifeInv => ReportsEndFirst
    BY DEF LifeInv, EverybodyIsDone, JobsHaveAScheduler, JobsOver, ClosedInOrder, Types,
           ControlTypes, Closing, ReportsEndFirst, Alive
<1> QED BY LifePreserved, <1>1, PTL

(* Whoever has a transaction, a REST request that nobody waits for included, *)
(* finds the audit file open.                                                *)
THEOREM FileOutlivesTransactions == Spec => []TransactionsCanBeAudited
<1>1. LifeInv => TransactionsCanBeAudited
    BY DEF LifeInv, ClosedInOrder, ConnectionsBack, TransactionsCanBeAudited
<1> QED BY LifePreserved, <1>1, PTL

(* A failure of the first report, or the signal, never takes the second one  *)
(* with it.                                                                  *)
THEOREM SecondReportSurvives == Spec => []LaterReportsSurvive
<1>1. LifeInv => LaterReportsSurvive
    BY DEF LifeInv, ReportsInOrder, LaterReportsSurvive
<1> QED BY LifePreserved, <1>1, PTL
=============================================================================
