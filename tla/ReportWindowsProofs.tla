------------------------- MODULE ReportWindowsProofs -------------------------
(***************************************************************************)
(* What the scheduled reports say is right, for every environment the       *)
(* process accepts and every interleaving of the reports with changes,      *)
(* activations, stops and starts.                                           *)
(*                                                                          *)
(* Three invariants carry the argument, each proved with the help of the    *)
(* ones before it.  StoreInv is about file, changes in flight and rows: a   *)
(* row was created by the last creation of its code in the file, and the    *)
(* records of a code are in the order of their stamps.  ScheduleInv is      *)
(* about time: moments of the schedule lie an interval apart and a job ends *)
(* within MaxLag of its own.  ReportInv is about what was read: a job       *)
(* knows, per code, the last creation its first reading could see, and a    *)
(* record it did not see is too young to be missed.  WindowInv, which needs *)
(* none of them, is about the windows themselves.                           *)
(***************************************************************************)
EXTENDS ReportWindows, FiniteSetTheorems, TLAPS

-----------------------------------------------------------------------------
(* A duration within the range of an int64 is what it says. *)
LEMMA SmallDurationsKeep ==
    ASSUME NEW n \in Nat, n < DurationRange
    PROVE  Wrapped(n) = n
<1>1. DurationRange \in Nat \ {0}
    BY WeekAssumption
<1>2. n + DurationRange \in 0..(2 * DurationRange - 1)
    BY <1>1
<1>3. \A x, y \in Int : (0 <= x /\ x < y) => x % y = x
    OBVIOUS
<1>4. (n + DurationRange) % (2 * DurationRange) = n + DurationRange
    BY <1>1, <1>2, <1>3
<1> QED BY <1>1, <1>4 DEF Wrapped

(* periodWeeks: an accepted number of weeks is a positive duration. *)
LEMMA AcceptedPeriodsArePositive ==
    ASSUME NEW weeks \in 1..MaxReportPeriodWeeks
    PROVE  Duration(weeks) \in Int /\ Duration(weeks) > 0
<1>1. Week \in Nat \ {0} /\ MaxReportPeriodWeeks \in Nat
    BY WeekAssumption
<1>2. weeks * Week \in Nat /\ weeks * Week > 0
    BY <1>1
<1>3. weeks * Week <= MaxReportPeriodWeeks * Week
    BY <1>1
<1>4. weeks * Week < DurationRange
    BY <1>1, <1>2, <1>3, WeekAssumption
<1>5. Duration(weeks) = weeks * Week
    BY <1>2, <1>4, SmallDurationsKeep DEF Duration
<1> QED BY <1>2, <1>5

(* A setting that is usable, or absent, chooses a number within the bounds. *)
LEMMA ChosenInRange ==
    ASSUME NEW raw, NEW default \in 1..MaxReportPeriodWeeks,
           raw \in Seq(Int), Len(raw) <= 1, InRange(raw, MaxReportPeriodWeeks)
    PROVE  Chosen(raw, default) \in 1..MaxReportPeriodWeeks
BY DEF Chosen, InRange

-----------------------------------------------------------------------------
(* What holds between the steps: the process has started with usable         *)
(* settings, a job runs in a process that has a schedule, and a job that     *)
(* has asked the audit file remembers a beginning before its moment.         *)
SettingsAccepted ==
    /\ settings \in Settings
    /\ process = "up" => Usable(settings)

JobIsScheduled ==
    job.step # "idle" => process = "up" /\ settings.chat = "valid"

JobKeepsItsMoment ==
    /\ now \in Nat
    /\ job.at \in Nat
    /\ job.step = "stats" => job.since < job.at

WindowInv ==
    SettingsAccepted /\ JobIsScheduled /\ JobKeepsItsMoment /\ WindowsLieInThePast

(* Both windows of a job that runs begin before its moment. *)
LEMMA WindowsBeginEarlier ==
    ASSUME WindowInv, job.step # "idle"
    PROVE  /\ Since \in Int /\ Since < job.at
           /\ EventsSince \in Int /\ EventsSince < job.at
<1>1. /\ settings \in Settings /\ Usable(settings) /\ settings.chat = "valid"
      /\ job.at \in Nat
    BY DEF WindowInv, SettingsAccepted, JobIsScheduled, JobKeepsItsMoment
<1>2. /\ InRange(settings.weeks, MaxReportPeriodWeeks)
      /\ InRange(settings.eventsWeeks, MaxReportPeriodWeeks)
    BY <1>1 DEF Usable
<1>3. /\ settings.weeks \in Seq(Int) /\ Len(settings.weeks) <= 1
      /\ settings.eventsWeeks \in Seq(Int) /\ Len(settings.eventsWeeks) <= 1
    BY <1>1, SettingsAssumption
<1>4. /\ Chosen(settings.weeks, DefaultReportPeriodWeeks) \in 1..MaxReportPeriodWeeks
      /\ Chosen(settings.eventsWeeks, DefaultReportEventsPeriodWeeks) \in 1..MaxReportPeriodWeeks
    BY <1>2, <1>3, ChosenInRange, DefaultsAssumption
<1>5. /\ Period \in Int /\ Period > 0
      /\ EventsPeriod \in Int /\ EventsPeriod > 0
    BY <1>4, AcceptedPeriodsArePositive DEF Period, EventsPeriod
<1> QED BY <1>1, <1>5 DEF Since, EventsSince

LEMMA InitWindows == Init => WindowInv
BY DEF Init, WindowInv, SettingsAccepted, JobIsScheduled, JobKeepsItsMoment,
       WindowsLieInThePast, Idle

(* Changes, activations and the clock leave reports, job and settings alone. *)
LEMMA StoresDoNotMatter ==
    ASSUME WindowInv, now' \in Nat,
           UNCHANGED <<settings, process, job, activationReports, eventsReports>>
    PROVE  WindowInv'
BY DEF WindowInv, SettingsAccepted, JobIsScheduled, JobKeepsItsMoment, WindowsLieInThePast,
       Usable, InRange

LEMMA NextWindows == WindowInv /\ [Next]_vars => WindowInv'
<1> SUFFICES ASSUME WindowInv, [Next]_vars
             PROVE  WindowInv'
    OBVIOUS
<1> USE DEF chat, stores
<1>n. now \in Nat
    BY DEF WindowInv, JobKeepsItsMoment
<1>1. CASE Start
    BY <1>1 DEF Start, WindowInv, SettingsAccepted, JobIsScheduled, JobKeepsItsMoment,
                WindowsLieInThePast
<1>2. CASE Stop
    BY <1>2 DEF Stop, WindowInv, SettingsAccepted, JobIsScheduled, JobKeepsItsMoment,
                WindowsLieInThePast, Idle
<1>3. CASE Tick
    BY <1>3, <1>n, StoresDoNotMatter DEF Tick
<1>4. ASSUME NEW c \in Codes, Stamp(c) \/ Save(c) \/ Commit(c) \/ Rollback(c) \/ Activate(c)
      PROVE  WindowInv'
    BY <1>4, <1>n, StoresDoNotMatter DEF Stamp, Save, Commit, Rollback, Activate
<1>5. CASE Fire
    <2>1. job'.step = "creations" /\ job'.at = now
        BY <1>5 DEF Fire, Idle
    <2> QED BY <1>5, <1>n, <2>1 DEF Fire, Scheduled, WindowInv, SettingsAccepted,
                JobIsScheduled, JobKeepsItsMoment, WindowsLieInThePast
<1>6. CASE FindCreations
    <2>1. Since \in Int /\ Since < job.at
        BY <1>6, WindowsBeginEarlier DEF FindCreations
    <2> DEFINE run == [step |-> "stats", scheduled |-> job.scheduled, at |-> job.at,
                       since |-> Since, found |-> Credited(CreationsSince(Since)),
                       reach |-> Len(file)]
    <2>3. Sent(run, {}).since < Sent(run, {}).at
        BY <2>1 DEF Sent
    <2>4. CASE job' = run /\ UNCHANGED activationReports
        BY <1>6, <2>1, <2>4 DEF FindCreations, WindowInv, SettingsAccepted,
            JobIsScheduled, JobKeepsItsMoment, WindowsLieInThePast
    <2>5. CASE activationReports' = activationReports \cup {Sent(run, {})} /\ job' = OnTo("events")
        BY <1>6, <2>3, <2>5 DEF FindCreations, WindowInv, SettingsAccepted, OnTo, Idle,
            JobIsScheduled, JobKeepsItsMoment, WindowsLieInThePast
    <2> QED BY <1>6, <2>4, <2>5 DEF FindCreations
<1>7. CASE ReportActivations
    <2>1. PICK entries : activationReports' = activationReports \cup {Sent(job, entries)}
        BY <1>7 DEF ReportActivations
    <2>2. Sent(job, entries).since < Sent(job, entries).at
        BY <1>7 DEF ReportActivations, Sent, WindowInv, JobKeepsItsMoment
    <2> QED BY <1>7, <2>1, <2>2 DEF ReportActivations, WindowInv, SettingsAccepted, OnTo, Idle,
            JobIsScheduled, JobKeepsItsMoment, WindowsLieInThePast
<1>8. CASE ReportEvents
    <2>1. EventsSince < job.at
        BY <1>8, WindowsBeginEarlier DEF ReportEvents
    <2>2. PICK shows : eventsReports' = eventsReports \cup
              {[scheduled |-> job.scheduled, at |-> job.at, since |-> EventsSince, shows |-> shows]}
        BY <1>8 DEF ReportEvents
    <2> QED BY <1>8, <1>n, <2>1, <2>2 DEF ReportEvents, WindowInv, SettingsAccepted, Idle,
            JobIsScheduled, JobKeepsItsMoment, WindowsLieInThePast
<1>9. CASE ReportFails
    BY <1>9 DEF ReportFails, WindowInv, SettingsAccepted, OnTo, Idle,
            JobIsScheduled, JobKeepsItsMoment, WindowsLieInThePast
<1>10. CASE UNCHANGED vars
    BY <1>10, <1>n, StoresDoNotMatter DEF vars
<1> QED BY <1>1, <1>2, <1>3, <1>4, <1>5, <1>6, <1>7, <1>8, <1>9, <1>10 DEF Next, Terminating

(* No scheduled report looks back from a moment to a later one, whatever     *)
(* numbers the environment sets the periods of NewReportConfig to.           *)
THEOREM WindowsAreSane == Spec => []WindowsLieInThePast
<1>1. WindowInv => WindowsLieInThePast
    BY DEF WindowInv
<1> QED BY InitWindows, NextWindows, <1>1, PTL DEF Spec

-----------------------------------------------------------------------------
(* The stores: the records of the audit file, the changes in flight and the  *)
(* rows, before any report looks at them.                                    *)
Action == {"create", "update", "delete"}
Record == [id: Nat, code: Codes, action: Action, at: Nat]
Change == [id: Nat, action: Action, at: Nat, step: {"stamped", "saved"}]
Row == [born: Nat, left: Nat, used: Seq(Nat)]

StoresTyped ==
    /\ now \in Nat /\ changes \in Nat
    /\ file \in Seq(Record)
    /\ op \in [Codes -> Change \cup {None}]
    /\ rows \in [Codes -> Row \cup {None}]

(* A change has an id of its own. *)
IdsAreOwn ==
    /\ \A i \in DOMAIN file : file[i].id \in 1..changes
    /\ \A i, j \in DOMAIN file : file[i].id = file[j].id => i = j
    /\ \A c \in Codes : op[c] # None => op[c].id \in 1..changes
    /\ \A c, d \in Codes : (op[c] # None /\ op[d] # None /\ op[c].id = op[d].id) => c = d
    /\ \A c \in Codes : (op[c] # None /\ op[c].step = "stamped") =>
           \A i \in DOMAIN file : file[i].id # op[c].id

(* Nothing is stamped in the future, a change takes at most MaxLag, and the  *)
(* changes of one code are saved in the order in which they were stamped.    *)
StampsAreInOrder ==
    /\ \A i \in DOMAIN file : file[i].at <= now
    /\ \A c \in Codes : op[c] # None => op[c].at <= now /\ now <= op[c].at + MaxLag
    /\ \A i, j \in DOMAIN file :
           (i < j /\ file[i].code = file[j].code) => file[i].at <= file[j].at
    /\ \A c \in Codes : op[c] # None =>
           \A i \in DOMAIN file : file[i].code = c => file[i].at <= op[c].at

IsCreation(i, c) == file[i].action = "create" /\ file[i].code = c
IsLastCreation(i, c) ==
    /\ IsCreation(i, c)
    /\ \A j \in DOMAIN file : IsCreation(j, c) => j <= i

(* A row, and a creation about to become one, was created by the last        *)
(* creation of its code in the file.                                         *)
SavedChangesAreLast ==
    \A c \in Codes : op[c] # None =>
        /\ op[c].action = "create" <=> rows[c] = None
        /\ (op[c].action = "create" /\ op[c].step = "saved") =>
               \E b \in DOMAIN file :
                   IsLastCreation(b, c) /\ file[b].id = op[c].id /\ file[b].at = op[c].at

RowsAreLastCreations ==
    \A c \in Codes : rows[c] # None =>
        \E b \in DOMAIN file :
            /\ IsLastCreation(b, c) /\ file[b].id = rows[c].born
            /\ \A u \in DOMAIN rows[c].used : rows[c].used[u] >= file[b].at

StoreInv ==
    /\ StoresTyped /\ IdsAreOwn /\ StampsAreInOrder
    /\ SavedChangesAreLast /\ RowsAreLastCreations

-----------------------------------------------------------------------------
(* The job that runs, between its steps. *)
Moments == {Interval * k : k \in Nat}

ScheduleInv ==
    /\ job.step \in {"idle", "creations", "stats", "events"}
    /\ next \in Moments
    /\ Scheduled => now <= next + MaxLag
    /\ job.step # "idle" =>
           /\ job.scheduled \in Moments /\ job.scheduled < next
           /\ job.at \in job.scheduled..now
           /\ now <= job.scheduled + MaxLag
    /\ \A r \in activationReports \cup eventsReports :
           /\ r.scheduled \in Moments
           /\ r.at \in r.scheduled..now /\ r.at <= r.scheduled + MaxLag
           /\ process = "up" => r.scheduled < next
    /\ job.step # "idle" => \A r \in eventsReports : r.scheduled < job.scheduled
    /\ job.step \in {"creations", "stats"} =>
           \A r \in activationReports : r.scheduled < job.scheduled
    /\ \A r, s \in eventsReports : r.scheduled = s.scheduled => r = s

(* What a reading of the first reach records found. *)
CreditsLast(found, since, reach) ==
    \A f \in found : \E k \in 1..reach :
        /\ IsCreation(k, f.code) /\ file[k].id = f.credits /\ file[k].at >= since
        /\ \A j \in 1..reach : IsCreation(j, f.code) => j <= k
CreditsAll(found, since, reach) ==
    \A k \in 1..reach : \A c \in Codes :
        (/\ IsCreation(k, c) /\ file[k].at >= since
         /\ \A j \in 1..reach : IsCreation(j, c) => j <= k)
        => [code |-> c, credits |-> file[k].id] \in found

JobReadTheFile ==
    job.step = "stats" =>
        /\ job.since = job.at - Period
        /\ job.reach \in 0..Len(file)
        /\ CreditsLast(job.found, job.since, job.reach)
        /\ CreditsAll(job.found, job.since, job.reach)
        /\ \A i \in DOMAIN file : i > job.reach => file[i].at + MaxLag >= job.scheduled
        /\ \A c \in Codes : \A i \in DOMAIN file :
               (i > job.reach /\ rows[c] # None /\ rows[c].born = file[i].id) =>
                   \A u \in DOMAIN rows[c].used : rows[c].used[u] >= job.at

(* What the reports say. *)
ReportsAreOfTheirTime ==
    \A r \in activationReports :
        /\ r.since = r.at - Period
        /\ r.reach \in 0..Len(file)
        /\ \A i \in DOMAIN file : i > r.reach => file[i].at + MaxLag >= r.scheduled
        /\ \A i \in DOMAIN file :
               (/\ i <= r.reach /\ file[i].at >= r.since
                /\ r.alive[file[i].code] = file[i].id)
               => \E e \in r.entries : e.credits = file[i].id

(* A row that lives was there for every report since its creation was over. *)
RowsWereAlive ==
    \A c \in Codes : rows[c] # None =>
        \A r \in activationReports : \A i \in DOMAIN file :
            (file[i].id = rows[c].born /\ file[i].at + MaxLag < r.scheduled) =>
                r.alive[c] = rows[c].born

AliveIsAlive ==
    \A r, s \in activationReports : \A i \in DOMAIN file :
        (/\ r.scheduled <= s.scheduled
         /\ s.alive[file[i].code] = file[i].id
         /\ file[i].at + MaxLag < r.scheduled)
        => r.alive[file[i].code] = file[i].id

EventsShown ==
    \A r \in eventsReports :
        /\ r.since = r.at - EventsPeriod
        /\ \A id \in r.shows : \E i \in DOMAIN file :
               file[i].id = id /\ file[i].at >= r.since /\ file[i].at <= r.scheduled + MaxLag
        /\ \A i \in DOMAIN file :
               (file[i].at >= r.since /\ file[i].at + MaxLag < r.scheduled) =>
                   file[i].id \in r.shows

ReportInv ==
    /\ JobReadTheFile /\ ReportsAreOfTheirTime /\ RowsWereAlive /\ AliveIsAlive
    /\ EventsShown /\ NeverActivatedIsTrue /\ CreditsItsCreation

-----------------------------------------------------------------------------
LEMMA RecordsTyped ==
    ASSUME StoreInv, NEW i \in DOMAIN file
    PROVE  /\ file[i] \in Record /\ file[i].at \in Nat /\ file[i].at <= now
           /\ now \in Nat /\ i \in Nat
<1>1. file[i] \in Record /\ now \in Nat /\ i \in Nat
    BY DEF StoreInv, StoresTyped
<1>2. file[i].at <= now
    BY DEF StoreInv, StampsAreInOrder
<1> QED BY <1>1, <1>2 DEF Record

LEMMA InitStores == Init => StoreInv
BY DEF Init, StoreInv, StoresTyped, IdsAreOwn, StampsAreInOrder, SavedChangesAreLast,
       RowsAreLastCreations

(* Changes end, with or without effect, and nothing else happens. *)
LEMMA EndingChangesKeepsStores ==
    ASSUME StoreInv, UNCHANGED <<now, changes, file, rows>>,
           op' \in [Codes -> Change \cup {None}],
           \A c \in Codes : op'[c] = op[c] \/ op'[c] = None
    PROVE  StoreInv'
<1>1. StoresTyped'
    BY DEF StoreInv, StoresTyped
<1>2. IdsAreOwn'
    BY DEF StoreInv, IdsAreOwn
<1>3. StampsAreInOrder'
    BY DEF StoreInv, StampsAreInOrder
<1>4. SavedChangesAreLast' /\ RowsAreLastCreations'
    BY DEF StoreInv, SavedChangesAreLast, RowsAreLastCreations, IsLastCreation, IsCreation
<1> QED BY <1>1, <1>2, <1>3, <1>4 DEF StoreInv

LEMMA TickKeepsStores == StoreInv /\ Tick => StoreInv'
<1> SUFFICES ASSUME StoreInv, Tick PROVE StoreInv'
    OBVIOUS
<1> USE DEF Tick, stores
<1>1. StoresTyped'
    BY DEF StoreInv, StoresTyped
<1>2. IdsAreOwn'
    BY DEF StoreInv, IdsAreOwn
<1>3. StampsAreInOrder'
    <2>1. ASSUME NEW c \in Codes, op[c] # None
          PROVE  op[c].at <= now' /\ now' <= op[c].at + MaxLag
        <3>1. now < op[c].at + MaxLag /\ op[c].at <= now
            BY <2>1 DEF StoreInv, StampsAreInOrder, InTime
        <3>2. op[c].at \in Nat /\ now \in Nat /\ MaxLag \in Nat
            BY <2>1, LagAssumption DEF StoreInv, StoresTyped, Change
        <3> QED BY <3>1, <3>2
    <2>2. ASSUME NEW i \in DOMAIN file PROVE file[i].at <= now'
        <3>1. file[i].at \in Nat /\ now \in Nat /\ file[i].at <= now
            BY RecordsTyped
        <3> QED BY <3>1
    <2> QED BY <2>1, <2>2 DEF StoreInv, StampsAreInOrder
<1>4. SavedChangesAreLast' /\ RowsAreLastCreations'
    BY DEF StoreInv, SavedChangesAreLast, RowsAreLastCreations, IsLastCreation, IsCreation
<1> QED BY <1>1, <1>2, <1>3, <1>4 DEF StoreInv

LEMMA StampKeepsStores ==
    ASSUME StoreInv, NEW c \in Codes, Stamp(c)
    PROVE  StoreInv'
<1>1. PICK action \in Action :
          /\ (action = "create") <=> (rows[c] = None)
          /\ op' = [op EXCEPT ![c] = [id |-> changes + 1, action |-> action, at |-> now,
                                      step |-> "stamped"]]
    BY DEF Stamp, Action
<1>2. UNCHANGED <<now, file, rows>> /\ changes' = changes + 1
    BY DEF Stamp
<1> DEFINE new == [id |-> changes + 1, action |-> action, at |-> now, step |-> "stamped"]
<1>3. now \in Nat /\ changes \in Nat /\ MaxLag \in Nat
    BY LagAssumption DEF StoreInv, StoresTyped
<1>4. op'[c] = new /\ \A d \in Codes \ {c} : op'[d] = op[d]
    BY <1>1 DEF StoreInv, StoresTyped
<1>5. StoresTyped'
    <2>1. new \in Change
        BY <1>3 DEF Change
    <2> QED BY <1>1, <1>2, <1>3, <2>1 DEF StoreInv, StoresTyped
<1>6. IdsAreOwn'
    <2>1. \A i \in DOMAIN file : file[i].id \in 1..changes /\ file[i].id # changes + 1
        BY <1>3 DEF StoreInv, IdsAreOwn
    <2>2. \A d \in Codes : op[d] # None => op[d].id \in 1..changes /\ op[d].id # changes + 1
        BY <1>3 DEF StoreInv, IdsAreOwn
    <2> QED BY <1>2, <1>3, <1>4, <2>1, <2>2 DEF StoreInv, IdsAreOwn
<1>7. StampsAreInOrder'
    BY <1>2, <1>3, <1>4 DEF StoreInv, StampsAreInOrder
<1>8. SavedChangesAreLast' /\ RowsAreLastCreations'
    BY <1>1, <1>2, <1>4 DEF StoreInv, SavedChangesAreLast, RowsAreLastCreations,
        IsLastCreation, IsCreation
<1> QED BY <1>5, <1>6, <1>7, <1>8 DEF StoreInv

(* What Save does to the file. *)
LEMMA SaveAppends ==
    ASSUME StoreInv, NEW c \in Codes, Save(c)
    PROVE  /\ op[c] # None /\ op[c] \in Change /\ op[c].step = "stamped"
           /\ op' = [op EXCEPT ![c] = [op[c] EXCEPT !.step = "saved"]]
           /\ file' \in Seq(Record) /\ Len(file) \in Nat /\ Len(file') = Len(file) + 1
           /\ DOMAIN file = 1..Len(file) /\ DOMAIN file' = 1..(Len(file) + 1)
           /\ file'[Len(file) + 1] = [id |-> op[c].id, code |-> c, action |-> op[c].action,
                                      at |-> op[c].at]
           /\ \A i \in DOMAIN file : file'[i] = file[i]
           /\ UNCHANGED <<now, rows, changes>>
<1>1. op[c] # None /\ op[c] \in Change /\ op[c].step = "stamped"
    BY DEF Save, StoreInv, StoresTyped
<1>2. op' = [op EXCEPT ![c] = [op[c] EXCEPT !.step = "saved"]]
    BY DEF Save
<1> DEFINE new == [id |-> op[c].id, code |-> c, action |-> op[c].action, at |-> op[c].at]
<1>3. new \in Record
    BY <1>1 DEF Change, Record
<1>4. file \in Seq(Record) /\ file' = Append(file, new)
    BY DEF Save, StoreInv, StoresTyped
<1> QED BY <1>1, <1>2, <1>3, <1>4 DEF Save

LEMMA SaveKeepsStores ==
    ASSUME StoreInv, NEW c \in Codes, Save(c)
    PROVE  StoreInv'
<1>0. PICK last : last = Len(file) + 1
    OBVIOUS
<1>1. /\ op[c] # None /\ op[c] \in Change /\ op[c].step = "stamped"
      /\ op' = [op EXCEPT ![c] = [op[c] EXCEPT !.step = "saved"]]
      /\ file' \in Seq(Record) /\ Len(file) \in Nat
      /\ DOMAIN file = 1..Len(file) /\ DOMAIN file' = 1..last
      /\ file'[last] = [id |-> op[c].id, code |-> c, action |-> op[c].action, at |-> op[c].at]
      /\ \A i \in DOMAIN file : file'[i] = file[i]
      /\ UNCHANGED <<now, rows, changes>>
    BY <1>0, SaveAppends
<1>2. op'[c] = [op[c] EXCEPT !.step = "saved"] /\ \A d \in Codes \ {c} : op'[d] = op[d]
    BY <1>1 DEF StoreInv, StoresTyped
<1>3. /\ op'[c].id = op[c].id /\ op'[c].action = op[c].action /\ op'[c].at = op[c].at
      /\ op'[c].step = "saved" /\ op'[c] \in Change
    BY <1>1, <1>2 DEF Change
<1>4. /\ file'[last].id = op[c].id /\ file'[last].code = c
      /\ file'[last].action = op[c].action /\ file'[last].at = op[c].at
    BY <1>1
<1>n. now \in Nat /\ changes \in Nat
    BY DEF StoreInv, StoresTyped
<1>d. \A i \in DOMAIN file' : i \in DOMAIN file \/ i = last
    BY <1>0, <1>1
<1>5. StoresTyped'
    BY <1>1, <1>2, <1>3 DEF StoreInv, StoresTyped
<1>6. IdsAreOwn'
    <2>1. \A i \in DOMAIN file' : file'[i].id \in 1..changes'
        BY <1>1, <1>4, <1>d DEF StoreInv, IdsAreOwn
    <2>2. \A i, j \in DOMAIN file' : file'[i].id = file'[j].id => i = j
        BY <1>1, <1>4, <1>d DEF StoreInv, IdsAreOwn
    <2>3. \A d, e \in Codes : (op'[d] # None /\ op'[e] # None /\ op'[d].id = op'[e].id) => d = e
        BY <1>1, <1>2, <1>3 DEF StoreInv, IdsAreOwn
    <2>4. \A d \in Codes : op'[d] # None => op'[d].id \in 1..changes'
        BY <1>1, <1>2, <1>3 DEF StoreInv, IdsAreOwn
    <2>5. ASSUME NEW d \in Codes, op'[d] # None, op'[d].step = "stamped", NEW i \in DOMAIN file'
          PROVE  file'[i].id # op'[d].id
        <3>1. d # c /\ op'[d] = op[d]
            BY <1>2, <1>3, <2>5
        <3> QED BY <1>1, <1>4, <1>d, <2>5, <3>1 DEF StoreInv, IdsAreOwn
    <2> QED BY <2>1, <2>2, <2>3, <2>4, <2>5 DEF IdsAreOwn
<1>7. StampsAreInOrder'
    <2>1. \A i \in DOMAIN file' : file'[i].at <= now'
        BY <1>1, <1>4, <1>d DEF StoreInv, StampsAreInOrder
    <2>2. \A d \in Codes : op'[d] # None => op'[d].at <= now' /\ now' <= op'[d].at + MaxLag
        BY <1>1, <1>2, <1>3 DEF StoreInv, StampsAreInOrder
    <2>3. ASSUME NEW i \in DOMAIN file', NEW j \in DOMAIN file', i < j, file'[i].code = file'[j].code
          PROVE  file'[i].at <= file'[j].at
        <3>1. i \in DOMAIN file
            BY <1>0, <1>1, <2>3
        <3>2. CASE j \in DOMAIN file
            BY <1>1, <2>3, <3>1, <3>2 DEF StoreInv, StampsAreInOrder
        <3>3. CASE j = last
            BY <1>1, <1>4, <2>3, <3>1, <3>3 DEF StoreInv, StampsAreInOrder
        <3> QED BY <1>d, <3>2, <3>3
    <2>4. ASSUME NEW d \in Codes, op'[d] # None, NEW i \in DOMAIN file', file'[i].code = d
          PROVE  file'[i].at <= op'[d].at
        <3>1. CASE i \in DOMAIN file
            BY <1>1, <1>2, <1>3, <2>4, <3>1 DEF StoreInv, StampsAreInOrder
        <3>2. CASE i = last
            BY <1>1, <1>3, <1>4, <2>4, <3>2 DEF Change
        <3> QED BY <1>d, <3>1, <3>2
    <2> QED BY <2>1, <2>2, <2>3, <2>4 DEF StampsAreInOrder
<1>8. ASSUME NEW d \in Codes, d # c, NEW b \in DOMAIN file, IsLastCreation(b, d)
      PROVE  b \in DOMAIN file' /\ IsLastCreation(b, d)' /\ file'[b] = file[b]
    BY <1>0, <1>1, <1>4, <1>8, <1>d DEF IsLastCreation, IsCreation
<1>9. op[c].action # "create" =>
          \A b \in DOMAIN file : IsLastCreation(b, c) =>
              b \in DOMAIN file' /\ IsLastCreation(b, c)' /\ file'[b] = file[b]
    BY <1>0, <1>1, <1>4, <1>d DEF IsLastCreation, IsCreation
<1>10. op[c].action = "create" => last \in DOMAIN file' /\ IsLastCreation(last, c)'
    BY <1>0, <1>1, <1>4, <1>d DEF IsLastCreation, IsCreation
<1>11. SavedChangesAreLast'
    <2> SUFFICES ASSUME NEW d \in Codes, op'[d] # None
                 PROVE  /\ op'[d].action = "create" <=> rows'[d] = None
                        /\ (op'[d].action = "create" /\ op'[d].step = "saved") =>
                               \E b \in DOMAIN file' :
                                   /\ IsLastCreation(b, d)' /\ file'[b].id = op'[d].id
                                   /\ file'[b].at = op'[d].at
        BY DEF SavedChangesAreLast
    <2>1. CASE d = c
        BY <1>1, <1>3, <1>4, <1>10, <2>1 DEF StoreInv, SavedChangesAreLast
    <2>2. CASE d # c
        BY <1>1, <1>2, <1>8, <2>2 DEF StoreInv, SavedChangesAreLast
    <2> QED BY <2>1, <2>2
<1>12. RowsAreLastCreations'
    <2> SUFFICES ASSUME NEW d \in Codes, rows[d] # None
                 PROVE  \E b \in DOMAIN file' :
                            /\ IsLastCreation(b, d)' /\ file'[b].id = rows[d].born
                            /\ \A u \in DOMAIN rows[d].used : rows[d].used[u] >= file'[b].at
        BY <1>1 DEF RowsAreLastCreations
    <2>1. PICK b \in DOMAIN file :
              /\ IsLastCreation(b, d) /\ file[b].id = rows[d].born
              /\ \A u \in DOMAIN rows[d].used : rows[d].used[u] >= file[b].at
        BY DEF StoreInv, RowsAreLastCreations
    <2>2. d = c => op[c].action # "create"
        BY <1>1 DEF StoreInv, SavedChangesAreLast
    <2>3. b \in DOMAIN file' /\ IsLastCreation(b, d)' /\ file'[b] = file[b]
        BY <1>8, <1>9, <2>1, <2>2
    <2> QED BY <2>1, <2>3
<1> QED BY <1>5, <1>6, <1>7, <1>11, <1>12 DEF StoreInv

(* Commit and Activate change one row, if any, and the change of its code.   *)
LEMMA RowStepKeepsStores ==
    ASSUME StoreInv, NEW c \in Codes, UNCHANGED <<now, changes, file>>,
           op' \in [Codes -> Change \cup {None}], op'[c] = None,
           rows' \in [Codes -> Row \cup {None}],
           \A d \in Codes \ {c} : op'[d] = op[d] /\ rows'[d] = rows[d],
           rows'[c] # None =>
               \E b \in DOMAIN file :
                   /\ IsLastCreation(b, c) /\ file[b].id = rows'[c].born
                   /\ \A u \in DOMAIN rows'[c].used : rows'[c].used[u] >= file[b].at
    PROVE  StoreInv'
<1>1. StoresTyped'
    BY DEF StoreInv, StoresTyped
<1>2. IdsAreOwn'
    BY DEF StoreInv, IdsAreOwn
<1>3. StampsAreInOrder'
    BY DEF StoreInv, StampsAreInOrder
<1>4. SavedChangesAreLast'
    BY DEF StoreInv, SavedChangesAreLast, IsLastCreation, IsCreation
<1>5. RowsAreLastCreations'
    BY DEF StoreInv, RowsAreLastCreations, IsLastCreation, IsCreation
<1> QED BY <1>1, <1>2, <1>3, <1>4, <1>5 DEF StoreInv

(* A committed change leaves no row, the row's creation and uses, or a new   *)
(* row of the last creation, without uses.                                   *)
LEMMA CommitChanges ==
    ASSUME StoreInv, NEW c \in Codes, Commit(c)
    PROVE  /\ op[c] # None /\ op[c] \in Change /\ op[c].step = "saved"
           /\ op' = [op EXCEPT ![c] = None]
           /\ rows' \in [Codes -> Row \cup {None}]
           /\ \A d \in Codes \ {c} : op'[d] = op[d] /\ rows'[d] = rows[d]
           /\ rows'[c] # None =>
                  \/ /\ op[c].action = "create"
                     /\ rows'[c].born = op[c].id /\ rows'[c].used = <<>>
                  \/ /\ op[c].action # "create" /\ rows[c] # None
                     /\ rows'[c].born = rows[c].born /\ rows'[c].used = rows[c].used
<1>1. op[c] # None /\ op[c] \in Change /\ op[c].step = "saved" /\ op' = [op EXCEPT ![c] = None]
    BY DEF Commit, StoreInv, StoresTyped
<1>2. rows' = [rows EXCEPT ![c] = Changed(rows[c], op[c])] /\ op \in [Codes -> Change \cup {None}]
      /\ rows \in [Codes -> Row \cup {None}]
    BY DEF Commit, StoreInv, StoresTyped
<1>3. (op[c].action = "create") <=> (rows[c] = None)
    BY <1>1 DEF StoreInv, SavedChangesAreLast
<1>4. op[c].action \in {"create", "update", "delete"}
    BY <1>1 DEF Change, Action
<1>5. CASE op[c].action = "create"
    <2>1. Changed(rows[c], op[c]) = [born |-> op[c].id, left |-> Capacity, used |-> <<>>]
        BY <1>5 DEF Changed
    <2>2. Changed(rows[c], op[c]) \in Row
        BY <1>1, <2>1, CapacityAssumption DEF Row, Change
    <2> QED BY <1>1, <1>2, <1>5, <2>1, <2>2
<1>6. CASE op[c].action = "update"
    <2>1. Changed(rows[c], op[c]) = rows[c]
        BY <1>6 DEF Changed
    <2> QED BY <1>1, <1>2, <1>3, <1>6, <2>1
<1>7. CASE op[c].action = "delete"
    <2>1. rows[c] \in Row
        BY <1>2, <1>3, <1>7
    <2>2. Changed(rows[c], op[c]) = IF rows[c].used = <<>> THEN None ELSE [rows[c] EXCEPT !.left = 0]
        BY <1>7 DEF Changed
    <2>3. /\ [rows[c] EXCEPT !.left = 0] \in Row
          /\ [rows[c] EXCEPT !.left = 0].born = rows[c].born
          /\ [rows[c] EXCEPT !.left = 0].used = rows[c].used
        BY <2>1 DEF Row
    <2> QED BY <1>1, <1>2, <1>3, <1>7, <2>2, <2>3
<1> QED BY <1>4, <1>5, <1>6, <1>7

LEMMA CommitKeepsStores ==
    ASSUME StoreInv, NEW c \in Codes, Commit(c)
    PROVE  StoreInv'
<1>1. /\ op[c] # None /\ op[c].step = "saved" /\ op' = [op EXCEPT ![c] = None]
      /\ rows' \in [Codes -> Row \cup {None}]
      /\ \A d \in Codes \ {c} : op'[d] = op[d] /\ rows'[d] = rows[d]
      /\ rows'[c] # None =>
             \/ /\ op[c].action = "create"
                /\ rows'[c].born = op[c].id /\ rows'[c].used = <<>>
             \/ /\ op[c].action # "create" /\ rows[c] # None
                /\ rows'[c].born = rows[c].born /\ rows'[c].used = rows[c].used
    BY CommitChanges
<1>2. op' \in [Codes -> Change \cup {None}] /\ op'[c] = None
    BY <1>1 DEF StoreInv, StoresTyped
<1>3. UNCHANGED <<now, changes, file>>
    BY DEF Commit
<1>4. ASSUME rows'[c] # None
      PROVE  \E b \in DOMAIN file :
                 /\ IsLastCreation(b, c) /\ file[b].id = rows'[c].born
                 /\ \A u \in DOMAIN rows'[c].used : rows'[c].used[u] >= file[b].at
    <2>1. CASE op[c].action = "create" /\ rows'[c].born = op[c].id /\ rows'[c].used = <<>>
        <3>1. DOMAIN rows'[c].used = {}
            BY <2>1
        <3> QED BY <1>1, <2>1, <3>1 DEF StoreInv, SavedChangesAreLast
    <2>2. CASE rows[c] # None /\ rows'[c].born = rows[c].born /\ rows'[c].used = rows[c].used
        BY <2>2 DEF StoreInv, RowsAreLastCreations
    <2> QED BY <1>1, <1>4, <2>1, <2>2
<1> QED BY <1>1, <1>2, <1>3, <1>4, RowStepKeepsStores

(* An activation is added to the row's uses. *)
LEMMA ActivateAdds ==
    ASSUME StoreInv, NEW c \in Codes, Activate(c)
    PROVE  /\ op[c] = None /\ rows[c] # None
           /\ rows' \in [Codes -> Row \cup {None}]
           /\ \A d \in Codes \ {c} : rows'[d] = rows[d]
           /\ rows'[c].born = rows[c].born /\ rows'[c].used = Append(rows[c].used, now)
           /\ rows[c].used \in Seq(Nat)
<1>1. rows[c] \in Row /\ rows[c] # None /\ op[c] = None /\ rows \in [Codes -> Row \cup {None}]
      /\ now \in Nat
    BY DEF Activate, StoreInv, StoresTyped
<1> DEFINE new == [rows[c] EXCEPT !.left = rows[c].left - 1, !.used = Append(rows[c].used, now)]
<1>2. rows' = [rows EXCEPT ![c] = new]
    BY DEF Activate
<1>3. rows[c].left - 1 \in Nat /\ Append(rows[c].used, now) \in Seq(Nat)
    BY <1>1 DEF Activate, Row
<1>4. new \in Row /\ new.born = rows[c].born /\ new.used = Append(rows[c].used, now)
    BY <1>1, <1>3 DEF Row
<1>5. rows'[c] = new /\ rows' \in [Codes -> Row \cup {None}]
      /\ \A d \in Codes \ {c} : rows'[d] = rows[d]
    BY <1>1, <1>2, <1>4
<1> QED BY <1>1, <1>4, <1>5 DEF Row

LEMMA ActivateKeepsStores ==
    ASSUME StoreInv, NEW c \in Codes, Activate(c)
    PROVE  StoreInv'
<1>1. /\ op[c] = None /\ rows[c] # None /\ rows' \in [Codes -> Row \cup {None}]
      /\ \A d \in Codes \ {c} : rows'[d] = rows[d]
      /\ rows'[c].born = rows[c].born /\ rows'[c].used = Append(rows[c].used, now)
      /\ rows[c].used \in Seq(Nat)
    BY ActivateAdds
<1>2. UNCHANGED <<now, changes, file, op>> /\ op \in [Codes -> Change \cup {None}] /\ now \in Nat
    BY DEF Activate, StoreInv, StoresTyped
<1>3. PICK b \in DOMAIN file :
          /\ IsLastCreation(b, c) /\ file[b].id = rows[c].born
          /\ \A u \in DOMAIN rows[c].used : rows[c].used[u] >= file[b].at
    BY <1>1 DEF StoreInv, RowsAreLastCreations
<1>4. file[b].at \in Nat /\ file[b].at <= now
    BY RecordsTyped
<1>5. \A u \in DOMAIN rows'[c].used : rows'[c].used[u] >= file[b].at
    BY <1>1, <1>2, <1>3, <1>4
<1> QED BY <1>1, <1>2, <1>3, <1>5, RowStepKeepsStores

LEMMA NextStores == StoreInv /\ [Next]_vars => StoreInv'
<1> SUFFICES ASSUME StoreInv, [Next]_vars PROVE StoreInv'
    OBVIOUS
<1>t. op \in [Codes -> Change \cup {None}]
    BY DEF StoreInv, StoresTyped
<1>1. CASE Stop
    BY <1>1, <1>t, EndingChangesKeepsStores DEF Stop
<1>2. CASE Tick
    BY <1>2, TickKeepsStores
<1>3. ASSUME NEW c \in Codes, Rollback(c) PROVE StoreInv'
    BY <1>3, <1>t, EndingChangesKeepsStores DEF Rollback
<1>4. ASSUME NEW c \in Codes, Stamp(c) \/ Save(c) \/ Commit(c) \/ Activate(c) PROVE StoreInv'
    BY <1>4, StampKeepsStores, SaveKeepsStores, CommitKeepsStores, ActivateKeepsStores
<1>5. CASE UNCHANGED <<now, stores>>
    BY <1>5, <1>t, EndingChangesKeepsStores DEF stores
<1>6. CASE Start \/ Fire \/ FindCreations \/ ReportActivations \/ ReportEvents \/ ReportFails
    BY <1>5, <1>6 DEF Start, Fire, FindCreations, ReportActivations, ReportEvents, ReportFails
<1>7. CASE UNCHANGED vars
    BY <1>5, <1>7 DEF vars, stores
<1> QED BY <1>1, <1>2, <1>3, <1>4, <1>6, <1>7 DEF Next, Terminating

-----------------------------------------------------------------------------
(* Moments of the schedule. *)
LEMMA IntervalIsPositive == Interval \in Nat /\ Interval > 0 /\ MaxLag \in Nat
BY LagAssumption

LEMMA MomentsAreNaturals == \A m \in Moments : m \in Nat
BY IntervalIsPositive DEF Moments

LEMMA MomentsLieApart ==
    ASSUME NEW m \in Moments, NEW n \in Moments, m < n
    PROVE  m + Interval <= n
<1>1. PICK k \in Nat : m = Interval * k
    BY DEF Moments
<1>2. PICK l \in Nat : n = Interval * l
    BY DEF Moments
<1>3. k < l
    <2>1. CASE l <= k
        <3>1. Interval * l <= Interval * k
            BY <2>1, IntervalIsPositive
        <3> QED BY <1>1, <1>2, <3>1, IntervalIsPositive
    <2> QED BY <2>1
<1>4. Interval * (k + 1) <= Interval * l
    BY <1>3, IntervalIsPositive
<1>5. Interval * (k + 1) = Interval * k + Interval
    BY IntervalIsPositive
<1> QED BY <1>1, <1>2, <1>4, <1>5

LEMMA NextMomentIsLater ==
    ASSUME NEW t \in Nat
    PROVE  NextMoment(t) \in Moments /\ NextMoment(t) > t
<1>1. \A n \in Nat : n > 0 => t \div n \in Nat /\ t < n * (t \div n + 1)
    OBVIOUS
<1>2. t \div Interval + 1 \in Nat /\ t < Interval * (t \div Interval + 1)
    BY <1>1, IntervalIsPositive
<1> QED BY <1>2 DEF NextMoment, Moments

-----------------------------------------------------------------------------
Timed == StoresTyped /\ WindowInv /\ ScheduleInv

LEMMA InitSchedule == Init => ScheduleInv
<1> SUFFICES ASSUME Init PROVE ScheduleInv
    OBVIOUS
<1>1. next = Interval * 0 /\ 0 \in Nat
    BY IntervalIsPositive DEF Init
<1> QED BY <1>1 DEF Init, ScheduleInv, Moments, Idle, Scheduled

(* The stores, settings and a stop do not matter to the schedule. *)
LEMMA QuietStepKeepsSchedule ==
    ASSUME ScheduleInv, UNCHANGED <<now, settings, next, activationReports, eventsReports>>,
           job' = job \/ job' = Idle, process' = process \/ process' = "down"
    PROVE  ScheduleInv'
BY DEF ScheduleInv, Idle, Scheduled

LEMMA StartKeepsSchedule == Timed /\ Start => ScheduleInv'
<1> SUFFICES ASSUME Timed, Start PROVE ScheduleInv'
    OBVIOUS
<1>1. job.step = "idle" /\ now \in Nat
    BY DEF Timed, WindowInv, JobIsScheduled, StoresTyped, Start
<1>2. UNCHANGED <<now, settings, job, activationReports, eventsReports>>
    BY DEF Start, chat
<1>3. CASE process' = "up" /\ next' = NextMoment(now)
    <2>1. next' \in Moments /\ next' > now /\ next' \in Nat
        BY <1>1, <1>3, NextMomentIsLater, MomentsAreNaturals
    <2>2. now <= next' + MaxLag
        <3>1. now \in Nat /\ next' \in Nat /\ MaxLag \in Nat /\ next' > now
            BY <1>1, <2>1, IntervalIsPositive
        <3>2. \A m, n, l \in Nat : m < n => m <= n + l
            OBVIOUS
        <3> QED BY <3>1, <3>2
    <2>3. \A r \in activationReports \cup eventsReports : r.scheduled < next'
        <3> SUFFICES ASSUME NEW r \in activationReports \cup eventsReports
                     PROVE  r.scheduled < next'
            OBVIOUS
        <3>1. r.at \in r.scheduled..now /\ r.scheduled \in Nat
            BY MomentsAreNaturals DEF Timed, ScheduleInv
        <3> QED BY <1>1, <2>1, <3>1
    <2> QED BY <1>1, <1>2, <2>1, <2>2, <2>3 DEF Timed, ScheduleInv
<1>4. CASE process' = "exited" /\ UNCHANGED next
    BY <1>1, <1>2, <1>4 DEF Timed, ScheduleInv, Scheduled
<1> QED BY <1>3, <1>4 DEF Start

LEMMA TickKeepsSchedule == Timed /\ Tick => ScheduleInv'
<1> SUFFICES ASSUME Timed, Tick PROVE ScheduleInv'
    OBVIOUS
<1>1. /\ now \in Nat /\ now' = now + 1 /\ MaxLag \in Nat /\ next \in Nat
      /\ UNCHANGED <<next, process, settings, job, activationReports, eventsReports>>
    BY IntervalIsPositive, MomentsAreNaturals DEF Timed, StoresTyped, Tick, chat, ScheduleInv
<1>2. Scheduled' => now' <= next' + MaxLag
    BY <1>1 DEF Tick, Scheduled, InTime
<1>3. ASSUME job.step # "idle"
      PROVE  /\ job.scheduled \in Moments /\ job.scheduled < next
             /\ job.at \in job.scheduled..now'
             /\ now' <= job.scheduled + MaxLag
    <2>1. /\ job.scheduled \in Moments /\ job.scheduled < next
          /\ job.at \in job.scheduled..now
        BY <1>3 DEF Timed, ScheduleInv
    <2>2. job.scheduled \in Nat /\ now < job.scheduled + MaxLag
        BY <1>3, <2>1, MomentsAreNaturals DEF Tick, InTime
    <2> QED BY <1>1, <2>1, <2>2
<1>4. ASSUME NEW r \in activationReports \cup eventsReports
      PROVE  r.at \in r.scheduled..now'
    <2>1. r.at \in r.scheduled..now /\ r.scheduled \in Nat
        BY MomentsAreNaturals DEF Timed, ScheduleInv
    <2> QED BY <1>1, <2>1
<1> QED BY <1>1, <1>2, <1>3, <1>4 DEF Timed, ScheduleInv

LEMMA FireKeepsSchedule == Timed /\ Fire => ScheduleInv'
<1> SUFFICES ASSUME Timed, Fire PROVE ScheduleInv'
    OBVIOUS
<1>1. /\ now \in Nat /\ next \in Moments /\ next \in Nat /\ MaxLag \in Nat
      /\ next <= now /\ now <= next + MaxLag /\ process = "up"
    BY IntervalIsPositive, MomentsAreNaturals DEF Timed, StoresTyped, ScheduleInv, Fire, Scheduled
<1>2. /\ next' = NextMoment(now) /\ next' \in Moments /\ next' \in Nat /\ next' > now
    BY <1>1, NextMomentIsLater, MomentsAreNaturals DEF Fire
<1>3. /\ job'.step = "creations" /\ job'.scheduled = next /\ job'.at = now
      /\ UNCHANGED <<now, process, settings, activationReports, eventsReports>>
    BY DEF Fire, Idle, chat
<1>4. ASSUME NEW r \in activationReports \cup eventsReports
      PROVE  r.scheduled < next /\ r.scheduled < next'
    <2>1. r.scheduled \in Nat /\ r.scheduled < next
        BY <1>1, MomentsAreNaturals DEF Timed, ScheduleInv
    <2> QED BY <1>1, <1>2, <2>1
<1>5. job'.at \in job'.scheduled..now' /\ now' <= job'.scheduled + MaxLag /\ job'.scheduled < next'
    BY <1>1, <1>2, <1>3
<1>6. Scheduled' => now' <= next' + MaxLag
    BY <1>1, <1>2, <1>3
<1> QED BY <1>1, <1>2, <1>3, <1>4, <1>5, <1>6 DEF Timed, ScheduleInv

(* A job goes on with or without a report of its moment. *)
LEMMA JobStepKeepsSchedule ==
    ASSUME Timed, job.step # "idle", UNCHANGED <<now, settings, process, next>>,
           job'.step # "idle" => job'.scheduled = job.scheduled /\ job'.at = job.at,
           \/ /\ job.step \in {"creations", "stats"}
              /\ job'.step \in {"stats", "events"}
              /\ UNCHANGED eventsReports
              /\ \/ UNCHANGED activationReports
                 \/ /\ job'.step = "events"
                    /\ \E r : r.scheduled = job.scheduled /\ r.at = job.at
                              /\ activationReports' = activationReports \cup {r}
           \/ /\ job.step = "events" /\ job'.step = "idle"
              /\ UNCHANGED activationReports
              /\ \/ UNCHANGED eventsReports
                 \/ \E r : r.scheduled = job.scheduled /\ r.at = job.at
                           /\ eventsReports' = eventsReports \cup {r}
    PROVE  ScheduleInv'
<1>1. /\ job.scheduled \in Moments /\ job.scheduled \in Nat /\ job.scheduled < next
      /\ job.at \in job.scheduled..now /\ now <= job.scheduled + MaxLag
      /\ now \in Nat /\ MaxLag \in Nat
    BY IntervalIsPositive, MomentsAreNaturals DEF Timed, StoresTyped, ScheduleInv
<1>2. job.at <= job.scheduled + MaxLag
    BY <1>1
<1>3. \A r \in eventsReports : r.scheduled \in Nat /\ r.scheduled < job.scheduled
    BY MomentsAreNaturals DEF Timed, ScheduleInv
<1>4. \A r \in (activationReports \cup eventsReports)' :
          /\ r.scheduled \in Moments
          /\ r.at \in r.scheduled..now /\ r.at <= r.scheduled + MaxLag
          /\ r.scheduled < next \/ process # "up"
    BY <1>1, <1>2 DEF Timed, ScheduleInv
<1>5. next \in Moments /\ (Scheduled => now <= next + MaxLag)
    BY DEF Timed, ScheduleInv
<1>6. \A r, s \in eventsReports' : r.scheduled = s.scheduled => r = s
    BY <1>1, <1>3 DEF Timed, ScheduleInv
<1>7. job'.step # "idle" => \A r \in eventsReports' : r.scheduled < job'.scheduled
    BY <1>3
<1>8. job'.step \in {"creations", "stats"} => \A r \in activationReports' : r.scheduled < job'.scheduled
    BY DEF Timed, ScheduleInv
<1> QED BY <1>1, <1>4, <1>5, <1>6, <1>7, <1>8 DEF ScheduleInv, Scheduled

(* Looked at from the schedule, the readings are job steps. *)
LEMMA NextSchedule == Timed /\ [Next]_vars => ScheduleInv'
<1> SUFFICES ASSUME Timed, [Next]_vars PROVE ScheduleInv'
    OBVIOUS
<1>s. ScheduleInv
    BY DEF Timed
<1>o. OnTo("events").step = "events" /\ OnTo("events").scheduled = job.scheduled
      /\ OnTo("events").at = job.at
    BY DEF OnTo, Idle
<1>1. CASE Start
    BY <1>1, StartKeepsSchedule
<1>2. CASE Stop
    BY <1>2, <1>s, QuietStepKeepsSchedule DEF Stop, chat
<1>3. CASE Tick
    BY <1>3, TickKeepsSchedule
<1>4. ASSUME NEW c \in Codes, Stamp(c) \/ Save(c) \/ Commit(c) \/ Rollback(c) \/ Activate(c)
      PROVE  ScheduleInv'
    BY <1>4, <1>s, QuietStepKeepsSchedule DEF Stamp, Save, Commit, Rollback, Activate, chat
<1>5. CASE Fire
    BY <1>5, FireKeepsSchedule
<1>6. CASE FindCreations
    <2> DEFINE run == [step |-> "stats", scheduled |-> job.scheduled, at |-> job.at,
                       since |-> Since, found |-> Credited(CreationsSince(Since)),
                       reach |-> Len(file)]
    <2>1. /\ Sent(run, {}).scheduled = job.scheduled /\ Sent(run, {}).at = job.at
          /\ run.step = "stats" /\ run.scheduled = job.scheduled /\ run.at = job.at
        BY DEF Sent
    <2> HIDE DEF run
    <2>2. /\ job.step = "creations"
          /\ UNCHANGED <<now, settings, process, next, eventsReports>>
          /\ \/ job' = run /\ UNCHANGED activationReports
             \/ /\ activationReports' = activationReports \cup {Sent(run, {})}
                /\ job' = OnTo("events")
        BY <1>6 DEF FindCreations, run
    <2> QED BY <1>o, <2>1, <2>2, JobStepKeepsSchedule
<1>7. CASE ReportActivations
    <2>1. PICK entries : activationReports' = activationReports \cup {Sent(job, entries)}
        BY <1>7 DEF ReportActivations
    <2>2. Sent(job, entries).scheduled = job.scheduled /\ Sent(job, entries).at = job.at
        BY DEF Sent
    <2>3. job.step = "stats" /\ job' = OnTo("events")
          /\ UNCHANGED <<now, settings, process, next, eventsReports>>
        BY <1>7 DEF ReportActivations
    <2> QED BY <1>o, <2>1, <2>2, <2>3, JobStepKeepsSchedule
<1>8. CASE ReportEvents
    <2>1. PICK shows : eventsReports' = eventsReports \cup
              {[scheduled |-> job.scheduled, at |-> job.at, since |-> EventsSince, shows |-> shows]}
        BY <1>8 DEF ReportEvents
    <2>2. PICK r : r.scheduled = job.scheduled /\ r.at = job.at
                   /\ eventsReports' = eventsReports \cup {r}
        BY <2>1
    <2>3. job.step = "events" /\ job'.step = "idle"
          /\ UNCHANGED <<now, settings, process, next, activationReports>>
        BY <1>8 DEF ReportEvents, Idle
    <2> QED BY <2>2, <2>3, JobStepKeepsSchedule
<1>9. CASE ReportFails
    <2>1. CASE job.step = "events"
        BY <1>9, <1>s, <2>1, QuietStepKeepsSchedule DEF ReportFails, chat
    <2>2. CASE job.step \in {"creations", "stats"}
        BY <1>9, <1>o, <2>2, JobStepKeepsSchedule DEF ReportFails, chat
    <2> QED BY <1>9, <2>1, <2>2 DEF ReportFails, Timed, ScheduleInv
<1>10. CASE UNCHANGED vars
    BY <1>10, <1>s, QuietStepKeepsSchedule DEF vars
<1> QED BY <1>1, <1>2, <1>3, <1>4, <1>5, <1>6, <1>7, <1>8, <1>9, <1>10 DEF Next, Terminating

-----------------------------------------------------------------------------
Inv == StoreInv /\ WindowInv /\ ScheduleInv /\ ReportInv

LEMMA PeriodsAreIntegers ==
    ASSUME settings \in Settings
    PROVE  Period \in Int /\ EventsPeriod \in Int
<1>1. /\ settings.weeks \in Seq(Int) /\ Len(settings.weeks) <= 1
      /\ settings.eventsWeeks \in Seq(Int) /\ Len(settings.eventsWeeks) <= 1
    BY SettingsAssumption
<1>2. DefaultReportPeriodWeeks \in Int /\ DefaultReportEventsPeriodWeeks \in Int
    BY DefaultsAssumption, WeekAssumption
<1>3. \A raw \in Seq(Int) : \A n \in Int : Len(raw) <= 1 => Chosen(raw, n) \in Int
    BY DEF Chosen
<1>4. \A n \in Int : Duration(n) \in Int
    <2> SUFFICES ASSUME NEW n \in Int PROVE Duration(n) \in Int
        OBVIOUS
    <2>1. n * Week \in Int /\ DurationRange \in Nat /\ DurationRange > 0
        BY WeekAssumption
    <2>2. \A m, r \in Int : r > 0 => (m + r) % (2 * r) \in Int
        OBVIOUS
    <2>3. (n * Week + DurationRange) % (2 * DurationRange) \in Int
        BY <2>1, <2>2
    <2> QED BY <2>1, <2>3 DEF Duration, Wrapped
<1> QED BY <1>1, <1>2, <1>3, <1>4 DEF Period, EventsPeriod

LEMMA PeriodsKeep ==
    ASSUME UNCHANGED settings
    PROVE  UNCHANGED <<Period, EventsPeriod>>
BY DEF Period, EventsPeriod

(* collect credits a code with its last creation of the window, and every    *)
(* code that was created in the window.                                      *)
LEMMA CreditedAreLast ==
    ASSUME StoreInv, NEW since \in Int
    PROVE  /\ CreditsLast(Credited(CreationsSince(since)), since, Len(file))
           /\ CreditsAll(Credited(CreationsSince(since)), since, Len(file))
<1> DEFINE found == Credited(CreationsSince(since))
<1>1. Len(file) \in Nat /\ DOMAIN file = 1..Len(file)
    BY DEF StoreInv, StoresTyped
<1>2. \A i \in DOMAIN file : file[i].at \in Nat /\ file[i].code \in Codes
    BY RecordsTyped DEF Record
<1>3. \A i, j \in DOMAIN file : (i < j /\ file[i].code = file[j].code) => file[i].at <= file[j].at
    BY DEF StoreInv, StampsAreInOrder
<1>4. ASSUME NEW f \in found
      PROVE  \E k \in 1..Len(file) :
                 /\ IsCreation(k, f.code) /\ file[k].id = f.credits /\ file[k].at >= since
                 /\ \A j \in 1..Len(file) : IsCreation(j, f.code) => j <= k
    <2>1. PICK k \in CreationsSince(since) :
              /\ \A j \in CreationsSince(since) \ {k} : file[j].code = file[k].code => After(k, j)
              /\ f = [code |-> file[k].code, credits |-> file[k].id]
        BY DEF Credited
    <2>2. /\ k \in DOMAIN file /\ IsCreation(k, f.code) /\ file[k].id = f.credits
          /\ file[k].at >= since
        BY <2>1 DEF CreationsSince, IsCreation
    <2>3. ASSUME NEW j \in 1..Len(file), IsCreation(j, f.code), j > k
          PROVE  FALSE
        <3>1. file[k].at <= file[j].at
            BY <1>1, <1>3, <2>2, <2>3 DEF IsCreation
        <3>2. file[j].at >= since
            BY <1>1, <1>2, <2>2, <3>1
        <3>3. After(k, j)
            BY <1>1, <2>1, <2>2, <2>3, <3>2 DEF CreationsSince, IsCreation
        <3>4. file[k].at \in Nat /\ file[j].at \in Nat /\ k \in Nat /\ j \in Nat
            BY <1>1, <1>2, <2>2
        <3> QED BY <2>3, <3>1, <3>3, <3>4 DEF After
    <2>4. \A j \in 1..Len(file) : IsCreation(j, f.code) => j <= k
        BY <1>1, <2>2, <2>3
    <2> QED BY <1>1, <2>2, <2>4
<1>5. ASSUME NEW k \in 1..Len(file), NEW c \in Codes, IsCreation(k, c), file[k].at >= since,
             \A j \in 1..Len(file) : IsCreation(j, c) => j <= k
      PROVE  [code |-> c, credits |-> file[k].id] \in found
    <2>1. k \in CreationsSince(since) /\ file[k].code = c
        BY <1>1, <1>5 DEF CreationsSince, IsCreation
    <2>2. ASSUME NEW j \in CreationsSince(since) \ {k}, file[j].code = file[k].code
          PROVE  After(k, j)
        <3>1. j \in 1..Len(file) /\ IsCreation(j, c) /\ j # k
            BY <1>1, <2>1, <2>2 DEF CreationsSince, IsCreation
        <3>2. j < k
            BY <1>1, <1>5, <3>1
        <3>3. file[j].at <= file[k].at
            BY <1>1, <1>3, <2>2, <3>1, <3>2
        <3>4. file[k].at \in Nat /\ file[j].at \in Nat
            BY <1>1, <1>2, <3>1
        <3> QED BY <3>2, <3>3, <3>4, <3>1 DEF After
    <2> QED BY <2>1, <2>2 DEF Credited
<1>6. CreditsLast(found, since, Len(file))
    BY <1>4 DEF CreditsLast
<1>7. CreditsAll(found, since, Len(file))
    BY <1>5 DEF CreditsAll
<1> QED BY <1>6, <1>7

-----------------------------------------------------------------------------
LEMMA InitReports == Init => ReportInv
BY DEF Init, ReportInv, JobReadTheFile, ReportsAreOfTheirTime, RowsWereAlive, AliveIsAlive,
       EventsShown, NeverActivatedIsTrue, CreditsItsCreation, Idle

(* Without changes of the stores, a job may also end or begin. *)
LEMMA QuietStepKeepsReports ==
    ASSUME ReportInv, UNCHANGED <<settings, file, rows, activationReports, eventsReports>>,
           job' = job \/ job'.step # "stats"
    PROVE  ReportInv'
<1>1. Period' = Period /\ EventsPeriod' = EventsPeriod
    BY PeriodsKeep
<1>2. JobReadTheFile'
    BY <1>1 DEF ReportInv, JobReadTheFile, CreditsLast, CreditsAll, IsCreation
<1>3. ReportsAreOfTheirTime' /\ EventsShown'
    BY <1>1 DEF ReportInv, ReportsAreOfTheirTime, EventsShown
<1>4. RowsWereAlive' /\ AliveIsAlive' /\ NeverActivatedIsTrue' /\ CreditsItsCreation'
    BY DEF ReportInv, RowsWereAlive, AliveIsAlive, NeverActivatedIsTrue, CreditsItsCreation
<1> QED BY <1>2, <1>3, <1>4 DEF ReportInv

(* What is saved after a reading was stamped, at the earliest, MaxLag before *)
(* that reading's moment: no report needs to have seen it.                   *)
LEMMA SaveKeepsReports ==
    ASSUME Inv, NEW c \in Codes, Save(c)
    PROVE  ReportInv'
<1>0. PICK last : last = Len(file) + 1
    OBVIOUS
<1>i. StoreInv /\ ScheduleInv /\ ReportInv
    BY DEF Inv
<1>1. /\ op[c] # None /\ op[c] \in Change /\ op[c].step = "stamped"
      /\ Len(file) \in Nat /\ Len(file') = last
      /\ DOMAIN file = 1..Len(file) /\ DOMAIN file' = 1..last
      /\ file'[last].id = op[c].id /\ file'[last].code = c /\ file'[last].at = op[c].at
      /\ \A i \in DOMAIN file : file'[i] = file[i]
      /\ UNCHANGED <<now, rows, changes>>
    <2>1. /\ op[c] # None /\ op[c] \in Change /\ op[c].step = "stamped"
          /\ Len(file) \in Nat /\ Len(file') = Len(file) + 1
          /\ DOMAIN file = 1..Len(file) /\ DOMAIN file' = 1..(Len(file) + 1)
          /\ file'[Len(file) + 1] = [id |-> op[c].id, code |-> c, action |-> op[c].action,
                                     at |-> op[c].at]
          /\ \A i \in DOMAIN file : file'[i] = file[i]
          /\ UNCHANGED <<now, rows, changes>>
        BY <1>i, SaveAppends
    <2> QED BY <1>0, <2>1
<1>2. UNCHANGED <<settings, job, activationReports, eventsReports>>
    BY DEF Save, chat
<1>3. Period' = Period /\ EventsPeriod' = EventsPeriod
    BY <1>2, PeriodsKeep
<1>d. \A i \in DOMAIN file' : i \in DOMAIN file \/ (i = last /\ i \notin DOMAIN file)
    BY <1>0, <1>1
<1>4. /\ op[c].at \in Nat /\ now \in Nat /\ MaxLag \in Nat /\ now <= op[c].at + MaxLag
    BY <1>1, <1>i, IntervalIsPositive DEF StoreInv, StoresTyped, StampsAreInOrder, Change
<1>5. \A r \in activationReports \cup eventsReports :
          r.scheduled \in Nat /\ file'[last].at + MaxLag >= r.scheduled
    <2> SUFFICES ASSUME NEW r \in activationReports \cup eventsReports
                 PROVE  r.scheduled \in Nat /\ file'[last].at + MaxLag >= r.scheduled
        OBVIOUS
    <2>1. r.scheduled \in Nat /\ r.at \in r.scheduled..now
        BY <1>i, MomentsAreNaturals DEF ScheduleInv
    <2> QED BY <1>1, <1>4, <2>1
<1>6. job.step = "stats" => file'[last].at + MaxLag >= job.scheduled
    <2> SUFFICES ASSUME job.step = "stats" PROVE file'[last].at + MaxLag >= job.scheduled
        OBVIOUS
    <2>1. job.scheduled \in Nat /\ job.at \in job.scheduled..now
        BY <1>i, MomentsAreNaturals DEF ScheduleInv
    <2> QED BY <1>1, <1>4, <2>1
<1>7. \A d \in Codes : rows[d] # None => rows[d].born # file'[last].id
    <2> SUFFICES ASSUME NEW d \in Codes, rows[d] # None PROVE rows[d].born # file'[last].id
        OBVIOUS
    <2>1. PICK b \in DOMAIN file : file[b].id = rows[d].born
        BY <1>i DEF StoreInv, RowsAreLastCreations
    <2> QED BY <1>1, <1>i, <2>1 DEF StoreInv, IdsAreOwn
<1>8. JobReadTheFile'
    <2> SUFFICES ASSUME job.step = "stats" PROVE JobReadTheFile'
        BY <1>2 DEF JobReadTheFile
    <2>1. /\ job.since = job.at - Period /\ job.reach \in 0..Len(file)
          /\ CreditsLast(job.found, job.since, job.reach)
          /\ CreditsAll(job.found, job.since, job.reach)
          /\ \A i \in DOMAIN file : i > job.reach => file[i].at + MaxLag >= job.scheduled
          /\ \A e \in Codes : \A i \in DOMAIN file :
                 (i > job.reach /\ rows[e] # None /\ rows[e].born = file[i].id) =>
                     \A u \in DOMAIN rows[e].used : rows[e].used[u] >= job.at
        BY <1>i DEF ReportInv, JobReadTheFile
    <2>2. job.reach \in 0..Len(file') /\ 1..job.reach \subseteq DOMAIN file
        BY <1>0, <1>1, <2>1
    <2>3. \A k \in 1..job.reach : file'[k] = file[k]
        BY <1>1, <2>2
    <2>4. CreditsLast(job.found, job.since, job.reach)'
        BY <1>2, <2>1, <2>3 DEF CreditsLast, IsCreation
    <2>5. CreditsAll(job.found, job.since, job.reach)'
        BY <1>2, <2>1, <2>3 DEF CreditsAll, IsCreation
    <2>6. \A i \in DOMAIN file' : i > job.reach => file'[i].at + MaxLag >= job.scheduled
        BY <1>1, <1>6, <1>d, <2>1
    <2>7. \A e \in Codes : \A i \in DOMAIN file' :
                 (i > job.reach /\ rows[e] # None /\ rows[e].born = file'[i].id) =>
                     \A u \in DOMAIN rows[e].used : rows[e].used[u] >= job.at
        BY <1>1, <1>7, <1>d, <2>1
    <2> QED BY <1>1, <1>2, <1>3, <2>1, <2>2, <2>4, <2>5, <2>6, <2>7 DEF JobReadTheFile
<1>9. ReportsAreOfTheirTime'
    <2> SUFFICES ASSUME NEW r \in activationReports
                 PROVE  /\ r.since = r.at - Period
                        /\ r.reach \in 0..Len(file')
                        /\ \A i \in DOMAIN file' : i > r.reach => file'[i].at + MaxLag >= r.scheduled
                        /\ \A i \in DOMAIN file' :
                               (/\ i <= r.reach /\ file'[i].at >= r.since
                                /\ r.alive[file'[i].code] = file'[i].id)
                               => \E e \in r.entries : e.credits = file'[i].id
        BY <1>2, <1>3 DEF ReportsAreOfTheirTime
    <2>1. /\ r.since = r.at - Period /\ r.reach \in 0..Len(file)
          /\ \A i \in DOMAIN file : i > r.reach => file[i].at + MaxLag >= r.scheduled
          /\ \A i \in DOMAIN file :
                 (/\ i <= r.reach /\ file[i].at >= r.since
                  /\ r.alive[file[i].code] = file[i].id)
                 => \E e \in r.entries : e.credits = file[i].id
        BY <1>i DEF ReportInv, ReportsAreOfTheirTime
    <2>2. r.reach \in 0..Len(file') /\ ~(last <= r.reach)
        BY <1>0, <1>1, <2>1
    <2> QED BY <1>1, <1>5, <1>d, <2>1, <2>2
<1>10. RowsWereAlive'
    BY <1>1, <1>2, <1>7, <1>d, <1>i DEF ReportInv, RowsWereAlive
<1>11. AliveIsAlive'
    <2> SUFFICES ASSUME NEW r \in activationReports, NEW s \in activationReports,
                        NEW i \in DOMAIN file', r.scheduled <= s.scheduled,
                        s.alive[file'[i].code] = file'[i].id,
                        file'[i].at + MaxLag < r.scheduled
                 PROVE  r.alive[file'[i].code] = file'[i].id
        BY <1>2 DEF AliveIsAlive
    <2>1. i # last
        BY <1>1, <1>4, <1>5
    <2> QED BY <1>1, <1>d, <1>i, <2>1 DEF ReportInv, AliveIsAlive
<1>12. EventsShown'
    <2> SUFFICES ASSUME NEW r \in eventsReports
                 PROVE  /\ r.since = r.at - EventsPeriod
                        /\ \A id \in r.shows : \E i \in DOMAIN file' :
                               file'[i].id = id /\ file'[i].at >= r.since
                               /\ file'[i].at <= r.scheduled + MaxLag
                        /\ \A i \in DOMAIN file' :
                               (file'[i].at >= r.since /\ file'[i].at + MaxLag < r.scheduled) =>
                                   file'[i].id \in r.shows
        BY <1>2, <1>3 DEF EventsShown
    <2>1. DOMAIN file \subseteq DOMAIN file'
        BY <1>0, <1>1
    <2>2. \A i \in DOMAIN file' : file'[i].at + MaxLag < r.scheduled => i \in DOMAIN file
        BY <1>1, <1>4, <1>5, <1>d
    <2> QED BY <1>1, <1>i, <2>1, <2>2 DEF ReportInv, EventsShown
<1>13. NeverActivatedIsTrue'
    BY <1>2, <1>i DEF ReportInv, NeverActivatedIsTrue
<1>14. CreditsItsCreation'
    <2>1. DOMAIN file \subseteq DOMAIN file'
        BY <1>0, <1>1
    <2> QED BY <1>1, <1>2, <1>i, <2>1 DEF ReportInv, CreditsItsCreation
<1> QED BY <1>8, <1>9, <1>10, <1>11, <1>12, <1>13, <1>14 DEF ReportInv

(* A row that changes keeps its creation and uses, gets one more use now, or *)
(* is new and of a change that is at most MaxLag old.                        *)
LEMMA RowStepKeepsReports ==
    ASSUME Inv, NEW c \in Codes,
           UNCHANGED <<settings, file, job, activationReports, eventsReports>>,
           \A d \in Codes \ {c} : rows'[d] = rows[d],
           rows'[c] # None =>
               \/ /\ rows'[c].used = <<>>
                  /\ \A i \in DOMAIN file : file[i].id = rows'[c].born =>
                         file[i].at + MaxLag >= now
               \/ /\ rows[c] # None /\ rows'[c].born = rows[c].born
                  /\ \A u \in DOMAIN rows'[c].used :
                         \/ u \in DOMAIN rows[c].used /\ rows'[c].used[u] = rows[c].used[u]
                         \/ rows'[c].used[u] = now
    PROVE  ReportInv'
<1>i. StoreInv /\ ScheduleInv /\ ReportInv
    BY DEF Inv
<1>1. Period' = Period /\ EventsPeriod' = EventsPeriod
    BY PeriodsKeep
<1>2. JobReadTheFile'
    <2> SUFFICES ASSUME job.step = "stats" PROVE JobReadTheFile'
        BY DEF JobReadTheFile
    <2>1. /\ job.since = job.at - Period /\ job.reach \in 0..Len(file)
          /\ CreditsLast(job.found, job.since, job.reach)
          /\ CreditsAll(job.found, job.since, job.reach)
          /\ \A i \in DOMAIN file : i > job.reach => file[i].at + MaxLag >= job.scheduled
        BY <1>i DEF ReportInv, JobReadTheFile
    <2>2. CreditsLast(job.found, job.since, job.reach)' /\ CreditsAll(job.found, job.since, job.reach)'
        BY <2>1 DEF CreditsLast, CreditsAll, IsCreation
    <2>3. ASSUME NEW d \in Codes, NEW i \in DOMAIN file, i > job.reach,
                 rows'[d] # None, rows'[d].born = file[i].id, NEW u \in DOMAIN rows'[d].used
          PROVE  rows'[d].used[u] >= job.at
        <3>1. now >= job.at
            <4>1. job.at \in job.scheduled..now /\ job.scheduled \in Nat /\ now \in Nat
                BY <1>i, MomentsAreNaturals DEF ScheduleInv, StoreInv, StoresTyped
            <4> QED BY <4>1
        <3>2. CASE d # c
            BY <1>i, <2>3, <3>2 DEF ReportInv, JobReadTheFile
        <3>3. CASE d = c /\ rows'[c].used = <<>>
            BY <2>3, <3>3
        <3>4. CASE /\ d = c /\ rows[c] # None /\ rows'[c].born = rows[c].born
                   /\ \A v \in DOMAIN rows'[c].used :
                          \/ v \in DOMAIN rows[c].used /\ rows'[c].used[v] = rows[c].used[v]
                          \/ rows'[c].used[v] = now
            BY <1>i, <2>3, <3>1, <3>4 DEF ReportInv, JobReadTheFile
        <3> QED BY <2>3, <3>2, <3>3, <3>4
    <2> QED BY <1>1, <2>1, <2>2, <2>3 DEF JobReadTheFile
<1>3. ReportsAreOfTheirTime' /\ EventsShown'
    BY <1>1, <1>i DEF ReportInv, ReportsAreOfTheirTime, EventsShown
<1>4. RowsWereAlive'
    <2> SUFFICES ASSUME NEW d \in Codes, rows'[d] # None, NEW r \in activationReports,
                        NEW i \in DOMAIN file, file[i].id = rows'[d].born,
                        file[i].at + MaxLag < r.scheduled
                 PROVE  r.alive[d] = rows'[d].born
        BY DEF RowsWereAlive
    <2>1. file[i].at \in Nat /\ MaxLag \in Nat /\ now \in Nat /\ r.scheduled \in Nat
          /\ r.at \in r.scheduled..now
        BY <1>i, RecordsTyped, IntervalIsPositive, MomentsAreNaturals DEF ScheduleInv
    <2>2. file[i].at + MaxLag < now
        BY <2>1
    <2>3. ~(file[i].at + MaxLag >= now)
        BY <2>1, <2>2
    <2>4. rows[d] # None /\ rows'[d].born = rows[d].born
        BY <2>3
    <2> QED BY <1>i, <2>4 DEF ReportInv, RowsWereAlive
<1>5. AliveIsAlive' /\ NeverActivatedIsTrue' /\ CreditsItsCreation'
    BY <1>i DEF ReportInv, AliveIsAlive, NeverActivatedIsTrue, CreditsItsCreation
<1> QED BY <1>2, <1>3, <1>4, <1>5 DEF ReportInv

LEMMA CommitKeepsReports ==
    ASSUME Inv, NEW c \in Codes, Commit(c)
    PROVE  ReportInv'
<1>i. StoreInv
    BY DEF Inv
<1>1. /\ op[c] # None /\ op[c] \in Change /\ op[c].step = "saved"
      /\ \A d \in Codes \ {c} : rows'[d] = rows[d]
      /\ rows'[c] # None =>
             \/ /\ op[c].action = "create"
                /\ rows'[c].born = op[c].id /\ rows'[c].used = <<>>
             \/ /\ op[c].action # "create" /\ rows[c] # None
                /\ rows'[c].born = rows[c].born /\ rows'[c].used = rows[c].used
    BY <1>i, CommitChanges
<1>2. UNCHANGED <<settings, file, job, activationReports, eventsReports>>
    BY DEF Commit, chat
<1>3. op[c].action = "create" =>
          \A i \in DOMAIN file : file[i].id = op[c].id => file[i].at + MaxLag >= now
    <2> SUFFICES ASSUME op[c].action = "create", NEW i \in DOMAIN file, file[i].id = op[c].id
                 PROVE  file[i].at + MaxLag >= now
        OBVIOUS
    <2>1. PICK b \in DOMAIN file : file[b].id = op[c].id /\ file[b].at = op[c].at
        BY <1>1, <1>i DEF StoreInv, SavedChangesAreLast
    <2>2. i = b
        BY <1>i, <2>1 DEF StoreInv, IdsAreOwn
    <2>3. now <= op[c].at + MaxLag
        BY <1>1, <1>i DEF StoreInv, StampsAreInOrder
    <2>4. now \in Nat /\ op[c].at \in Nat /\ MaxLag \in Nat
        BY <1>1, <1>i, IntervalIsPositive DEF StoreInv, StoresTyped, Change
    <2> QED BY <2>1, <2>2, <2>3, <2>4
<1> QED BY <1>1, <1>2, <1>3, RowStepKeepsReports

LEMMA ActivateKeepsReports ==
    ASSUME Inv, NEW c \in Codes, Activate(c)
    PROVE  ReportInv'
<1>1. /\ rows[c] # None
      /\ \A d \in Codes \ {c} : rows'[d] = rows[d]
      /\ rows'[c].born = rows[c].born /\ rows'[c].used = Append(rows[c].used, now)
      /\ rows[c].used \in Seq(Nat)
    BY ActivateAdds DEF Inv
<1>2. UNCHANGED <<settings, file, job, activationReports, eventsReports>>
    BY DEF Activate, chat
<1>3. \A u \in DOMAIN rows'[c].used :
          \/ u \in DOMAIN rows[c].used /\ rows'[c].used[u] = rows[c].used[u]
          \/ rows'[c].used[u] = now
    BY <1>1
<1> QED BY <1>1, <1>2, <1>3, RowStepKeepsReports

-----------------------------------------------------------------------------
(* What a report was built from: at the end of its second reading, a row     *)
(* that lives, and whose creation the first reading has seen, is credited.   *)
LEMMA LivingIsCredited ==
    ASSUME Inv, NEW found, NEW since, NEW reach \in 0..Len(file), CreditsAll(found, since, reach),
           NEW i \in DOMAIN file, i <= reach, file[i].at >= since,
           Alive[file[i].code] = file[i].id
    PROVE  /\ file[i].code \in Codes /\ rows[file[i].code] # None
           /\ [code |-> file[i].code, credits |-> file[i].id] \in found
<1> DEFINE c == file[i].code
<1>i. StoreInv
    BY DEF Inv
<1>1. c \in Codes /\ Len(file) \in Nat /\ DOMAIN file = 1..Len(file) /\ i \in 1..reach
    BY <1>i, RecordsTyped DEF Record, StoreInv, StoresTyped
<1>2. file[i].id # 0
    BY <1>i DEF StoreInv, IdsAreOwn, StoresTyped
<1>3. rows[c] # None /\ rows[c].born = file[i].id
    BY <1>1, <1>2 DEF Alive
<1>4. PICK b \in DOMAIN file : IsLastCreation(b, c) /\ file[b].id = rows[c].born
    BY <1>1, <1>3, <1>i DEF StoreInv, RowsAreLastCreations
<1>5. b = i
    BY <1>3, <1>4, <1>i DEF StoreInv, IdsAreOwn
<1>6. IsCreation(i, c) /\ \A j \in 1..reach : IsCreation(j, c) => j <= i
    BY <1>1, <1>4, <1>5 DEF IsLastCreation
<1> QED BY <1>1, <1>3, <1>6 DEF CreditsAll

(* A new report is the latest, and what lives now lived for earlier ones.    *)
LEMMA NewReportKeepsAlive ==
    ASSUME Inv, job.step \in {"creations", "stats"}, UNCHANGED <<file, rows>>,
           NEW r, r.scheduled = job.scheduled, r.alive = Alive,
           activationReports' = activationReports \cup {r}
    PROVE  RowsWereAlive' /\ AliveIsAlive'
<1>i. StoreInv /\ ScheduleInv /\ ReportInv
    BY DEF Inv
<1>1. \A s \in activationReports : /\ s.scheduled \in Nat /\ job.scheduled \in Nat
                                   /\ s.scheduled < job.scheduled
    BY <1>i, MomentsAreNaturals DEF ScheduleInv
<1>2. RowsWereAlive'
    <2>1. \A d \in Codes : rows[d] # None => r.alive[d] = rows[d].born
        BY DEF Alive
    <2> QED BY <1>i, <2>1 DEF ReportInv, RowsWereAlive
<1>3. AliveIsAlive'
    <2> SUFFICES ASSUME NEW p \in activationReports \cup {r}, NEW s \in activationReports \cup {r},
                        NEW i \in DOMAIN file, p.scheduled <= s.scheduled,
                        s.alive[file[i].code] = file[i].id,
                        file[i].at + MaxLag < p.scheduled
                 PROVE  p.alive[file[i].code] = file[i].id
        BY DEF AliveIsAlive
    <2>1. CASE p \in activationReports /\ s \in activationReports
        BY <1>i, <2>1 DEF ReportInv, AliveIsAlive
    <2>2. CASE p = r /\ s = r
        BY <2>2
    <2>3. CASE p = r /\ s \in activationReports
        BY <1>1, <2>3
    <2>4. CASE p \in activationReports /\ s = r
        <3>1. file[i].code \in Codes /\ file[i].id # 0
            BY <1>i, RecordsTyped DEF Record, StoreInv, IdsAreOwn, StoresTyped
        <3>2. rows[file[i].code] # None /\ rows[file[i].code].born = file[i].id
            BY <2>4, <3>1 DEF Alive
        <3> QED BY <1>i, <2>4, <3>1, <3>2 DEF ReportInv, RowsWereAlive
    <2> QED BY <2>1, <2>2, <2>3, <2>4
<1> QED BY <1>2, <1>3

LEMMA FindCreationsKeepsReports == Inv /\ FindCreations => ReportInv'
<1> SUFFICES ASSUME Inv, FindCreations PROVE ReportInv'
    OBVIOUS
<1>i. StoreInv /\ ScheduleInv /\ ReportInv /\ WindowInv
    BY DEF Inv
<1>1. job.step = "creations" /\ UNCHANGED <<settings, file, rows, eventsReports>>
    BY DEF FindCreations, stores
<1>2. Since \in Int /\ Since = job.at - Period
    BY <1>1, <1>i, WindowsBeginEarlier DEF Since
<1>3. Period' = Period /\ EventsPeriod' = EventsPeriod
    BY <1>1, PeriodsKeep
<1>4. Len(file) \in Nat /\ DOMAIN file = 1..Len(file)
    BY <1>i DEF StoreInv, StoresTyped
<1>5. PICK run : /\ run.step = "stats" /\ run.scheduled = job.scheduled /\ run.at = job.at
                 /\ run.since = Since /\ run.found = Credited(CreationsSince(Since))
                 /\ run.reach = Len(file)
                 /\ \/ job' = run /\ UNCHANGED activationReports
                    \/ /\ run.found = {} /\ job' = OnTo("events")
                       /\ activationReports' = activationReports \cup {Sent(run, {})}
    BY DEF FindCreations
<1>6. CreditsLast(run.found, run.since, run.reach) /\ CreditsAll(run.found, run.since, run.reach)
    BY <1>2, <1>5, <1>i, CreditedAreLast
<1>7. EventsShown'
    BY <1>1, <1>3, <1>i DEF ReportInv, EventsShown
<1>8. CASE job' = run /\ UNCHANGED activationReports
    <2>1. CreditsLast(run.found, run.since, run.reach)' /\ CreditsAll(run.found, run.since, run.reach)'
        BY <1>1, <1>6 DEF CreditsLast, CreditsAll, IsCreation
    <2>2. JobReadTheFile'
        BY <1>1, <1>2, <1>3, <1>4, <1>5, <1>8, <2>1 DEF JobReadTheFile
    <2>3. ReportsAreOfTheirTime'
        BY <1>1, <1>3, <1>8, <1>i DEF ReportInv, ReportsAreOfTheirTime
    <2>4. RowsWereAlive' /\ AliveIsAlive' /\ NeverActivatedIsTrue' /\ CreditsItsCreation'
        BY <1>1, <1>8, <1>i DEF ReportInv, RowsWereAlive, AliveIsAlive, NeverActivatedIsTrue,
            CreditsItsCreation
    <2> QED BY <1>7, <2>2, <2>3, <2>4 DEF ReportInv
<1>9. CASE /\ run.found = {} /\ job' = OnTo("events")
           /\ activationReports' = activationReports \cup {Sent(run, {})}
    <2>1. PICK r : r = Sent(run, {})
        OBVIOUS
    <2>2. /\ r.scheduled = job.scheduled /\ r.at = job.at /\ r.since = job.at - Period
          /\ r.reach = Len(file) /\ r.entries = {} /\ r.alive = Alive
        BY <1>2, <1>5, <2>1 DEF Sent
    <2>3. activationReports' = activationReports \cup {r}
        BY <1>9, <2>1
    <2>4. RowsWereAlive' /\ AliveIsAlive'
        BY <1>1, <2>2, <2>3, NewReportKeepsAlive
    <2>5. JobReadTheFile'
        BY <1>9 DEF JobReadTheFile, OnTo, Idle
    <2>6. ReportsAreOfTheirTime'
        <3>1. /\ r.since = r.at - Period
              /\ r.reach \in 0..Len(file)
              /\ \A i \in DOMAIN file : i > r.reach => file[i].at + MaxLag >= r.scheduled
            BY <1>4, <2>2
        <3>2. ASSUME NEW i \in DOMAIN file, i <= r.reach, file[i].at >= r.since,
                     r.alive[file[i].code] = file[i].id
              PROVE  \E e \in r.entries : e.credits = file[i].id
            <4>1. CreditsAll({}, r.since, r.reach)
                BY <1>2, <1>5, <1>6, <1>9, <2>2
            <4> QED BY <2>2, <3>1, <3>2, <4>1, LivingIsCredited
        <3> QED BY <1>1, <1>3, <1>i, <2>3, <3>1, <3>2 DEF ReportInv, ReportsAreOfTheirTime
    <2>7. NeverActivatedIsTrue' /\ CreditsItsCreation'
        BY <1>1, <1>i, <2>2, <2>3 DEF ReportInv, NeverActivatedIsTrue, CreditsItsCreation
    <2> QED BY <1>7, <2>4, <2>5, <2>6, <2>7 DEF ReportInv
<1> QED BY <1>5, <1>8, <1>9

LEMMA ReportActivationsKeepsReports == Inv /\ ReportActivations => ReportInv'
<1> SUFFICES ASSUME Inv, ReportActivations PROVE ReportInv'
    OBVIOUS
<1>i. StoreInv /\ ScheduleInv /\ ReportInv /\ WindowInv
    BY DEF Inv
<1>1. /\ job.step = "stats" /\ UNCHANGED <<settings, file, rows, eventsReports>>
      /\ job' = OnTo("events")
    BY DEF ReportActivations, stores
<1>2. Period' = Period /\ EventsPeriod' = EventsPeriod
    BY <1>1, PeriodsKeep
<1>3. Len(file) \in Nat /\ DOMAIN file = 1..Len(file)
    BY <1>i DEF StoreInv, StoresTyped
<1> DEFINE fresh(c) == Cardinality({u \in DOMAIN rows[c].used : rows[c].used[u] >= StatsSince})
           entry(f) == [code |-> f.code, credits |-> f.credits, born |-> rows[f.code].born,
                        fresh |-> fresh(f.code), total |-> Len(rows[f.code].used)]
           entries == {entry(f) : f \in {g \in job.found : rows[g.code] # None}}
<1>4. PICK r : r = Sent(job, entries)
    OBVIOUS
<1>5. activationReports' = activationReports \cup {r}
    BY <1>4 DEF ReportActivations
<1>6. /\ r.scheduled = job.scheduled /\ r.at = job.at /\ r.since = job.since
      /\ r.reach = job.reach /\ r.entries = entries /\ r.alive = Alive
    BY <1>4 DEF Sent
<1>7. /\ job.since = job.at - Period /\ job.reach \in 0..Len(file)
      /\ CreditsLast(job.found, job.since, job.reach)
      /\ CreditsAll(job.found, job.since, job.reach)
      /\ \A i \in DOMAIN file : i > job.reach => file[i].at + MaxLag >= job.scheduled
    BY <1>1, <1>i DEF ReportInv, JobReadTheFile
<1>8. EventsShown'
    BY <1>1, <1>2, <1>i DEF ReportInv, EventsShown
<1>9. RowsWereAlive' /\ AliveIsAlive'
    BY <1>1, <1>5, <1>6, NewReportKeepsAlive
<1>10. JobReadTheFile'
    BY <1>1 DEF JobReadTheFile, OnTo, Idle
<1>11. ReportsAreOfTheirTime'
    <2>1. ASSUME NEW i \in DOMAIN file, i <= r.reach, file[i].at >= r.since,
                 r.alive[file[i].code] = file[i].id
          PROVE  \E e \in r.entries : e.credits = file[i].id
        <3>1. /\ rows[file[i].code] # None
              /\ [code |-> file[i].code, credits |-> file[i].id] \in job.found
            BY <1>6, <1>7, <2>1, LivingIsCredited
        <3>2. PICK f : f = [code |-> file[i].code, credits |-> file[i].id]
            OBVIOUS
        <3>3. f \in job.found /\ rows[f.code] # None /\ f.credits = file[i].id
            BY <3>1, <3>2
        <3>4. entry(f) \in entries /\ entry(f).credits = file[i].id
            BY <3>3
        <3> QED BY <1>6, <3>4
    <2>2. /\ r.since = r.at - Period /\ r.reach \in 0..Len(file)
          /\ \A i \in DOMAIN file : i > r.reach => file[i].at + MaxLag >= r.scheduled
        BY <1>6, <1>7
    <2> HIDE DEF entries
    <2> QED BY <1>1, <1>2, <1>5, <1>i, <2>1, <2>2 DEF ReportInv, ReportsAreOfTheirTime
<1>12. ASSUME NEW e \in entries
       PROVE  /\ e.credits = e.born \/ \E i \in DOMAIN file : i > r.reach /\ file[i].id = e.born
              /\ e.fresh = 0 => e.total = 0
    <2>1. PICK f \in job.found : rows[f.code] # None /\ e = entry(f)
        OBVIOUS
    <2>2. PICK k \in 1..job.reach :
              /\ IsCreation(k, f.code) /\ file[k].id = f.credits /\ file[k].at >= job.since
              /\ \A j \in 1..job.reach : IsCreation(j, f.code) => j <= k
        BY <1>7 DEF CreditsLast
    <2>3. PICK c \in Codes : c = f.code
        <3>1. k \in DOMAIN file
            BY <1>3, <1>7
        <3> QED BY <1>i, <2>2, <3>1, RecordsTyped DEF IsCreation, Record
    <2>4. PICK b \in DOMAIN file :
              /\ IsLastCreation(b, c) /\ file[b].id = rows[c].born
              /\ \A u \in DOMAIN rows[c].used : rows[c].used[u] >= file[b].at
        BY <1>i, <2>1, <2>3 DEF StoreInv, RowsAreLastCreations
    <2>5. b <= job.reach => b = k
        <3>1. k \in DOMAIN file /\ k \in Nat /\ b \in Nat /\ b >= 1 /\ k >= 1
            BY <1>3, <1>7
        <3>2. k <= b
            BY <2>2, <2>3, <2>4, <3>1 DEF IsLastCreation
        <3>3. b <= job.reach => b <= k
            BY <1>7, <2>2, <2>3, <2>4, <3>1 DEF IsLastCreation
        <3> QED BY <3>1, <3>2, <3>3
    <2>6. /\ e.credits = f.credits /\ e.born = rows[c].born /\ e.fresh = fresh(c)
          /\ e.total = Len(rows[c].used)
        BY <2>1, <2>3
    <2>7. e.credits = e.born \/ \E i \in DOMAIN file : i > r.reach /\ file[i].id = e.born
        BY <1>3, <1>6, <1>7, <2>2, <2>4, <2>5, <2>6
    <2>8. \A u \in DOMAIN rows[c].used : rows[c].used[u] >= job.since
        <3>1. CASE b <= job.reach
            <4> SUFFICES ASSUME NEW u \in DOMAIN rows[c].used PROVE rows[c].used[u] >= job.since
                OBVIOUS
            <4>1. rows[c].used[u] >= file[b].at /\ file[b].at >= job.since
                BY <2>2, <2>4, <2>5, <3>1
            <4>2. rows[c].used[u] \in Nat
                BY <1>i, <2>1, <2>3 DEF StoreInv, StoresTyped, Row
            <4>3. file[b].at \in Nat /\ job.since \in Int
                BY <1>1, <1>i, RecordsTyped, <1>7, WindowsBeginEarlier DEF Since
            <4> QED BY <4>1, <4>2, <4>3
        <3>2. CASE b > job.reach
            <4> SUFFICES ASSUME NEW u \in DOMAIN rows[c].used PROVE rows[c].used[u] >= job.since
                OBVIOUS
            <4>1. rows[c].used[u] >= job.at
                BY <1>1, <1>i, <2>1, <2>3, <2>4, <3>2 DEF ReportInv, JobReadTheFile
            <4>2. rows[c].used[u] \in Nat
                BY <1>i, <2>1, <2>3 DEF StoreInv, StoresTyped, Row
            <4>3. job.since \in Int /\ job.since < job.at /\ job.at \in Nat
                BY <1>1, <1>i, <1>7, WindowsBeginEarlier DEF Since, WindowInv, JobKeepsItsMoment
            <4> QED BY <4>1, <4>2, <4>3
        <3> QED BY <1>3, <1>7, <3>1, <3>2
    <2>9. e.fresh = 0 => e.total = 0
        <3>1. rows[c].used \in Seq(Nat)
            BY <1>i, <2>1, <2>3 DEF StoreInv, StoresTyped, Row
        <3>2. {u \in DOMAIN rows[c].used : rows[c].used[u] >= StatsSince} = DOMAIN rows[c].used
            BY <2>8 DEF StatsSince
        <3>3. Len(rows[c].used) \in Nat /\ DOMAIN rows[c].used = 1..Len(rows[c].used)
            BY <3>1
        <3>4. Cardinality(1..Len(rows[c].used)) = Len(rows[c].used)
            BY <3>3, FS_Interval
        <3> QED BY <2>6, <3>2, <3>3, <3>4
    <2> QED BY <2>7, <2>9
<1> HIDE DEF entries
<1>13. NeverActivatedIsTrue' /\ CreditsItsCreation'
    BY <1>1, <1>5, <1>6, <1>12, <1>i DEF ReportInv, NeverActivatedIsTrue, CreditsItsCreation
<1> QED BY <1>8, <1>9, <1>10, <1>11, <1>13 DEF ReportInv

LEMMA ReportEventsKeepsReports == Inv /\ ReportEvents => ReportInv'
<1> SUFFICES ASSUME Inv, ReportEvents PROVE ReportInv'
    OBVIOUS
<1>i. StoreInv /\ ScheduleInv /\ ReportInv /\ WindowInv
    BY DEF Inv
<1>1. /\ job.step = "events" /\ job'.step # "stats"
      /\ UNCHANGED <<settings, file, rows, activationReports>>
    BY DEF ReportEvents, stores, Idle
<1>2. Period' = Period /\ EventsPeriod' = EventsPeriod
    BY <1>1, PeriodsKeep
<1> DEFINE shows == {file[i].id : i \in {k \in DOMAIN file : file[k].at >= EventsSince}}
<1>3. PICK r : r = [scheduled |-> job.scheduled, at |-> job.at, since |-> EventsSince, shows |-> shows]
    OBVIOUS
<1>4. /\ r.scheduled = job.scheduled /\ r.since = job.at - EventsPeriod /\ r.at = job.at
      /\ r.since = EventsSince /\ r.shows = shows
    BY <1>3 DEF EventsSince
<1>5. eventsReports' = eventsReports \cup {r}
    BY <1>3 DEF ReportEvents
<1>6. \A i \in DOMAIN file : file[i].at <= job.scheduled + MaxLag
    <2> SUFFICES ASSUME NEW i \in DOMAIN file PROVE file[i].at <= job.scheduled + MaxLag
        OBVIOUS
    <2>1. file[i].at \in Nat /\ now \in Nat /\ file[i].at <= now
        BY <1>i, RecordsTyped
    <2>2. now <= job.scheduled + MaxLag /\ job.scheduled \in Nat /\ MaxLag \in Nat
        BY <1>1, <1>i, MomentsAreNaturals, IntervalIsPositive DEF ScheduleInv
    <2> QED BY <2>1, <2>2
<1>7. EventsShown'
    <2>1. \A id \in shows : \E i \in DOMAIN file :
              file[i].id = id /\ file[i].at >= r.since /\ file[i].at <= r.scheduled + MaxLag
        BY <1>4, <1>6
    <2>2. \A i \in DOMAIN file : file[i].at >= r.since => file[i].id \in shows
        BY <1>4
    <2> HIDE DEF shows
    <2> QED BY <1>1, <1>2, <1>4, <1>5, <1>i, <2>1, <2>2 DEF ReportInv, EventsShown
<1>8. JobReadTheFile'
    BY <1>1 DEF JobReadTheFile
<1>9. ReportsAreOfTheirTime'
    BY <1>1, <1>2, <1>i DEF ReportInv, ReportsAreOfTheirTime
<1>10. RowsWereAlive' /\ AliveIsAlive' /\ NeverActivatedIsTrue' /\ CreditsItsCreation'
    BY <1>1, <1>i DEF ReportInv, RowsWereAlive, AliveIsAlive, NeverActivatedIsTrue,
        CreditsItsCreation
<1> QED BY <1>7, <1>8, <1>9, <1>10 DEF ReportInv

LEMMA NextReports == Inv /\ [Next]_vars => ReportInv'
<1> SUFFICES ASSUME Inv, [Next]_vars PROVE ReportInv'
    OBVIOUS
<1>i. ReportInv
    BY DEF Inv
<1>1. CASE Start \/ Stop \/ Tick \/ Fire
    <2>1. CASE Start \/ Tick
        BY <1>i, <2>1, QuietStepKeepsReports DEF Start, Tick, stores, chat
    <2>2. CASE Stop
        BY <1>i, <2>2, QuietStepKeepsReports DEF Stop, chat, Idle
    <2>3. CASE Fire
        <3>1. job'.step = "creations"
            BY <2>3 DEF Fire, Idle
        <3> QED BY <1>i, <2>3, <3>1, QuietStepKeepsReports DEF Fire, stores, chat
    <2> QED BY <1>1, <2>1, <2>2, <2>3
<1>2. ASSUME NEW c \in Codes, Stamp(c) \/ Rollback(c)
      PROVE  ReportInv'
    BY <1>2, <1>i, QuietStepKeepsReports DEF Stamp, Rollback, chat
<1>3. ASSUME NEW c \in Codes, Save(c) \/ Commit(c) \/ Activate(c)
      PROVE  ReportInv'
    BY <1>3, SaveKeepsReports, CommitKeepsReports, ActivateKeepsReports
<1>4. CASE FindCreations \/ ReportActivations \/ ReportEvents
    BY <1>4, FindCreationsKeepsReports, ReportActivationsKeepsReports, ReportEventsKeepsReports
<1>5. CASE ReportFails
    <2>1. job'.step # "stats"
        BY <1>5 DEF ReportFails, OnTo, Idle
    <2> QED BY <1>5, <1>i, <2>1, QuietStepKeepsReports DEF ReportFails, stores, chat
<1>6. CASE UNCHANGED vars
    BY <1>6, <1>i, QuietStepKeepsReports DEF vars
<1> QED BY <1>1, <1>2, <1>3, <1>4, <1>5, <1>6 DEF Next, Terminating

LEMMA InvHolds == Spec => []Inv
<1>1. Init => Inv
    BY InitStores, InitWindows, InitSchedule, InitReports DEF Inv
<1>2. Inv /\ [Next]_vars => Inv'
    BY NextStores, NextWindows, NextSchedule, NextReports DEF Inv, Timed, StoreInv
<1> QED BY <1>1, <1>2, PTL DEF Spec

-----------------------------------------------------------------------------
(* An entry of the activation report credits the creation of the row whose   *)
(* counters it shows, unless the row was created after the file was read     *)
(* (collect joins two readings that are made one after the other).           *)
THEOREM CreditsAreRight == Spec => []CreditsItsCreation
<1>1. Inv => CreditsItsCreation
    BY DEF Inv, ReportInv
<1> QED BY <1>1, InvHolds, PTL

(* A code that a report lists as never activated within its window has never *)
(* been activated at all.                                                    *)
THEOREM NeverActivatedMeansNever == Spec => []NeverActivatedIsTrue
<1>1. Inv => NeverActivatedIsTrue
    BY DEF Inv, ReportInv
<1> QED BY <1>1, InvHolds, PTL

(* With the events report's period equal to the schedule's interval, and     *)
(* away from the seams of MaxLag, a change that was saved is shown by one    *)
(* report and no other.                                                      *)
THEOREM EventsAreReported == Spec => []EventsAreReportedOnce
<1>1. Inv => EventsAreReportedOnce
    <2> SUFFICES ASSUME Inv, EventsPeriod = Interval, NEW s \in eventsReports, NEW i \in DOMAIN file,
                        s.scheduled - Interval + MaxLag < file[i].at,
                        file[i].at + MaxLag < s.scheduled
                 PROVE  {r \in eventsReports : file[i].id \in r.shows} = {s}
        BY DEF EventsAreReportedOnce
    <2>i. StoreInv /\ ScheduleInv /\ ReportInv
        BY DEF Inv
    <2>1. file[i].at \in Nat /\ Interval \in Nat /\ MaxLag \in Nat
        BY <2>i, RecordsTyped, IntervalIsPositive
    <2>2. ASSUME NEW r \in eventsReports
          PROVE  /\ r.scheduled \in Nat /\ r.at \in Nat /\ r.since = r.at - Interval
                 /\ r.scheduled <= r.at /\ r.at <= r.scheduled + MaxLag
                 /\ r.scheduled \in Moments
        <3>1. /\ r.scheduled \in Moments /\ r.scheduled \in Nat /\ r.at \in r.scheduled..now
              /\ r.at <= r.scheduled + MaxLag /\ now \in Nat
            BY <2>i, MomentsAreNaturals DEF ScheduleInv, StoreInv, StoresTyped
        <3> QED BY <2>i, <3>1 DEF ReportInv, EventsShown
    <2>3. file[i].id \in s.shows
        <3>1. file[i].at >= s.since
            BY <2>1, <2>2
        <3> QED BY <2>i, <3>1 DEF ReportInv, EventsShown
    <2>4. ASSUME NEW r \in eventsReports, file[i].id \in r.shows
          PROVE  r = s
        <3>1. PICK j \in DOMAIN file :
                  file[j].id = file[i].id /\ file[j].at >= r.since /\ file[j].at <= r.scheduled + MaxLag
            BY <2>4, <2>i DEF ReportInv, EventsShown
        <3>2. j = i
            BY <2>i, <3>1 DEF StoreInv, IdsAreOwn
        <3>3. file[i].at >= r.scheduled - Interval /\ file[i].at <= r.scheduled + MaxLag
            BY <2>1, <2>2, <3>1, <3>2
        <3>4. ~(r.scheduled < s.scheduled)
            <4>1. r.scheduled < s.scheduled => r.scheduled + Interval <= s.scheduled
                BY <2>2, MomentsLieApart
            <4> QED BY <2>1, <2>2, <3>3, <4>1
        <3>5. ~(s.scheduled < r.scheduled)
            <4>1. s.scheduled < r.scheduled => s.scheduled + Interval <= r.scheduled
                BY <2>2, MomentsLieApart
            <4> QED BY <2>1, <2>2, <3>3, <4>1
        <3>6. r.scheduled = s.scheduled
            BY <2>2, <3>4, <3>5
        <3> QED BY <2>i, <3>6 DEF ScheduleInv
    <2> QED BY <2>3, <2>4
<1> QED BY <1>1, InvHolds, PTL

(* With a period of two intervals or more, a code created before a run of    *)
(* the schedule that still exists when the next run reads the database is    *)
(* credited by one of the two, whatever its creation raced with.             *)
THEOREM LivingCodesAreNotMissed == Spec => []LivingCodesAreReported
<1>1. Inv => LivingCodesAreReported
    <2> SUFFICES ASSUME Inv, Period >= 2 * Interval, NEW r \in activationReports,
                        NEW s \in activationReports, NEW i \in DOMAIN file,
                        s.scheduled = r.scheduled + Interval,
                        file[i].at \in (r.scheduled - Interval)..r.scheduled,
                        s.alive[file[i].code] = file[i].id
                 PROVE  \E e \in r.entries \cup s.entries : e.credits = file[i].id
        BY DEF LivingCodesAreReported
    <2>i. StoreInv /\ ScheduleInv /\ ReportInv /\ WindowInv
        BY DEF Inv
    <2>1. /\ file[i].at \in Nat /\ i \in Nat /\ Interval \in Nat /\ MaxLag \in Nat
          /\ 2 * MaxLag < Interval /\ Period \in Int
        BY <2>i, RecordsTyped, IntervalIsPositive, LagAssumption, PeriodsAreIntegers
            DEF WindowInv, SettingsAccepted
    <2>2. ASSUME NEW t \in {r, s}
          PROVE  /\ t.scheduled \in Nat /\ t.at \in Nat /\ t.since = t.at - Period
                 /\ t.scheduled <= t.at /\ t.at <= t.scheduled + MaxLag /\ t.reach \in Nat
                 /\ file[i].at + MaxLag < t.scheduled => i <= t.reach
        <3>1. /\ t.scheduled \in Nat /\ t.at \in t.scheduled..now
              /\ t.at <= t.scheduled + MaxLag /\ now \in Nat
            BY <2>i, MomentsAreNaturals DEF ScheduleInv, StoreInv, StoresTyped
        <3>2. /\ t.since = t.at - Period /\ t.reach \in 0..Len(file)
              /\ i > t.reach => file[i].at + MaxLag >= t.scheduled
            BY <2>i DEF ReportInv, ReportsAreOfTheirTime
        <3>3. Len(file) \in Nat
            BY <2>i DEF StoreInv, StoresTyped
        <3>4. t.reach \in Nat /\ t.at \in Nat /\ t.scheduled <= t.at
            BY <3>1, <3>2, <3>3
        <3>5. file[i].at + MaxLag < t.scheduled => i <= t.reach
            BY <2>1, <3>1, <3>2, <3>4
        <3> QED BY <3>1, <3>2, <3>4, <3>5
    <2>3. CASE file[i].at >= s.since
        <3>1. i <= s.reach
            BY <2>1, <2>2
        <3> QED BY <2>3, <2>i, <3>1 DEF ReportInv, ReportsAreOfTheirTime
    <2>4. CASE file[i].at < s.since
        <3>1. file[i].at + MaxLag < r.scheduled
            BY <2>1, <2>2, <2>4
        <3>2. i <= r.reach /\ file[i].at >= r.since
            BY <2>1, <2>2, <3>1
        <3>3. r.scheduled <= s.scheduled
            BY <2>1, <2>2
        <3>4. r.alive[file[i].code] = file[i].id
            BY <2>i, <3>1, <3>3 DEF ReportInv, AliveIsAlive
        <3> QED BY <2>i, <3>2, <3>4 DEF ReportInv, ReportsAreOfTheirTime
    <2> QED
        <3>1. s.since \in Int
            BY <2>1, <2>2
        <3> QED BY <2>1, <2>3, <2>4, <3>1
<1> QED BY <1>1, InvHolds, PTL
=============================================================================
