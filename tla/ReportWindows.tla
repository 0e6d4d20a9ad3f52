---------------------------- MODULE ReportWindows ----------------------------
(***************************************************************************)
(* What the scheduled reports say about the time between them.  A run of    *)
(* the schedule takes one moment and builds two reports that look back from *)
(* it: the activation report reads the creations from the audit file and    *)
(* then the counters from the database, the events report, once the first   *)
(* is sent, the file again.  Meanwhile changes are stamped, saved and       *)
(* committed, players activate codes, and the process may be stopped.       *)
(*                                                                          *)
(* Of a change (PromoService has the rest) only the moments at which its    *)
(* record is stamped and saved and its transaction ends matter here.  The   *)
(* clock is in ticks, far coarser than anything the process does; MaxLag    *)
(* bounds how long it may take over what it has begun.                      *)
(***************************************************************************)
EXTENDS Integers, Sequences, FiniteSets

CONSTANTS
    Codes,
    Settings,      \* environments the process may be started in
    Interval,      \* delay between two moments of REPORT_CRON
    Week,          \* length of a week
    DurationRange, \* a time.Duration is at least -DurationRange and less than it
    MaxReportPeriodWeeks, DefaultReportPeriodWeeks, DefaultReportEventsPeriodWeeks,
    MaxReportPagesAllowed, DefaultReportMaxPages,
    Capacity,      \* capacity of a new promo code
    MaxLag,        \* bound: ticks from a moment of the schedule to the end of its
                   \* run, and from the stamp of a change to the end of its transaction
    MaxChanges,    \* bound: number of changes
    MaxStops,      \* bound: how often the process is stopped
    MaxTime,       \* bound: last moment of the clock
    None           \* no row, no change in flight

ASSUME LagAssumption == MaxLag \in Nat /\ Interval \in Nat /\ 2 * MaxLag < Interval
ASSUME CapacityAssumption == Capacity \in Nat
ASSUME WeekAssumption ==
    /\ Week \in Nat \ {0} /\ DurationRange \in Nat \ {0}
    /\ MaxReportPeriodWeeks \in Nat /\ MaxReportPeriodWeeks * Week < DurationRange
ASSUME SettingsAssumption ==
    \A s \in Settings : \A raw \in {s.weeks, s.eventsWeeks, s.pages} :
        raw \in Seq(Int) /\ Len(raw) <= 1
ASSUME DefaultsAssumption ==
    /\ {DefaultReportPeriodWeeks, DefaultReportEventsPeriodWeeks} \subseteq 1..MaxReportPeriodWeeks
    /\ DefaultReportMaxPages \in 1..MaxReportPagesAllowed

VARIABLES
    now,        \* the clock
    settings,   \* the environment
    process,    \* "down", "up", "exited" (an unusable setting)
    next,       \* the schedule's next moment
    op,         \* the change of each code that is in flight
    file,       \* the audit file
    rows,       \* the promo codes in the database
    job,        \* the run of the schedule in progress
    activationReports, eventsReports,    \* what the admins chat was sent
    changes, stops

vars == <<now, settings, process, next, op, file, rows, job,
          activationReports, eventsReports, changes, stops>>
stores == <<op, file, rows, changes>>
chat == <<activationReports, eventsReports>>

Idle == [step |-> "idle", scheduled |-> 0, at |-> 0, since |-> 0, found |-> {}, reach |-> 0]

Init ==
    /\ now = 0
    /\ settings \in Settings
    /\ process = "down"
    /\ next = 0
    /\ op = [c \in Codes |-> None]
    /\ file = <<>>
    /\ rows = [c \in Codes |-> None]
    /\ job = Idle
    /\ activationReports = {} /\ eventsReports = {}
    /\ changes = 0 /\ stops = 0

-----------------------------------------------------------------------------
(* NewReportConfig.  A setting is absent, <<>>, or given, <<n>>; 0 stands     *)
(* for a text that is no number, which is refused like a number out of       *)
(* range.  Without a chat there are no reports, with an unusable setting no  *)
(* process.                                                                  *)
Chosen(raw, default) == IF raw = <<>> THEN default ELSE raw[1]

Positive(raw, max) == \A i \in DOMAIN raw : raw[i] > 0
InRange(raw, max) == \A i \in DOMAIN raw : raw[i] \in 1..max

Usable(s) ==
    \/ s.chat = "absent"
    \/ /\ s.chat = "valid"
       /\ InRange(s.weeks, MaxReportPeriodWeeks)
       /\ InRange(s.eventsWeeks, MaxReportPeriodWeeks)
       /\ InRange(s.pages, MaxReportPagesAllowed)

(* time.Duration(weeks) * week, in two's complement. *)
Wrapped(n) == ((n + DurationRange) % (2 * DurationRange)) - DurationRange
Duration(weeks) == Wrapped(weeks * Week)

Period == Duration(Chosen(settings.weeks, DefaultReportPeriodWeeks))
EventsPeriod == Duration(Chosen(settings.eventsWeeks, DefaultReportEventsPeriodWeeks))

(* The first moment of the schedule after t. *)
NextMoment(t) == Interval * (t \div Interval + 1)
Scheduled == process = "up" /\ settings.chat = "valid"

(* main up to the point where the schedule runs. *)
Start ==
    /\ process = "down"
    /\ \/ /\ Usable(settings)
          /\ process' = "up"
          /\ next' = NextMoment(now)
       \/ /\ ~Usable(settings)
          /\ process' = "exited"
          /\ UNCHANGED next
    /\ UNCHANGED <<now, settings, stores, job, chat, stops>>

(* The process ends, with what it was doing; open transactions roll back. *)
Stop ==
    /\ process = "up"
    /\ stops < MaxStops
    /\ stops' = stops + 1
    /\ process' = "down"
    /\ job' = Idle
    /\ op' = [c \in Codes |-> None]
    /\ UNCHANGED <<now, settings, next, file, rows, chat, changes>>

InTime(moment) == now < moment + MaxLag

Tick ==
    /\ now < MaxTime
    /\ Scheduled => InTime(next)
    /\ job.step # "idle" => InTime(job.scheduled)
    /\ \A c \in Codes : op[c] # None => InTime(op[c].at)
    /\ now' = now + 1
    /\ UNCHANGED <<settings, process, next, stores, job, chat, stops>>

-----------------------------------------------------------------------------
(* A transaction has made its change, and Save stamps the record. *)
Stamp(c) ==
    /\ process = "up"
    /\ op[c] = None
    /\ changes < MaxChanges
    /\ changes' = changes + 1
    /\ \E action \in {"create", "update", "delete"} :
          /\ (action = "create") <=> (rows[c] = None)
          /\ op' = [op EXCEPT ![c] = [id |-> changes', action |-> action, at |-> now, step |-> "stamped"]]
    /\ UNCHANGED <<now, settings, process, next, file, rows, job, chat, stops>>

(* The rest of Save: the record is appended to the file. *)
Save(c) ==
    /\ op[c] # None /\ op[c].step = "stamped"
    /\ file' = Append(file, [id |-> op[c].id, code |-> c, action |-> op[c].action, at |-> op[c].at])
    /\ op' = [op EXCEPT ![c].step = "saved"]
    /\ UNCHANGED <<now, settings, process, next, rows, changes, job, chat, stops>>

Changed(row, change) ==
    CASE change.action = "create" -> [born |-> change.id, left |-> Capacity, used |-> <<>>]
      [] change.action = "update" -> row
      [] change.action = "delete" -> IF row.used = <<>> THEN None ELSE [row EXCEPT !.left = 0]

Commit(c) ==
    /\ op[c] # None /\ op[c].step = "saved"
    /\ rows' = [rows EXCEPT ![c] = Changed(@, op[c])]
    /\ op' = [op EXCEPT ![c] = None]
    /\ UNCHANGED <<now, settings, process, next, file, changes, job, chat, stops>>

(* Save or the commit fails. *)
Rollback(c) ==
    /\ op[c] # None
    /\ op' = [op EXCEPT ![c] = None]
    /\ UNCHANGED <<now, settings, process, next, file, rows, changes, job, chat, stops>>

(* Dick Grower Bot, which waits for the row while a transaction has it. *)
Activate(c) ==
    /\ op[c] = None
    /\ rows[c] # None
    /\ rows[c].left > 0
    /\ rows' = [rows EXCEPT ![c].left = @ - 1, ![c].used = Append(@, now)]
    /\ UNCHANGED <<now, settings, process, next, op, file, changes, job, chat, stops>>

-----------------------------------------------------------------------------
(* cron starts send, which takes one moment for both reports. *)
Fire ==
    /\ Scheduled
    /\ now >= next
    /\ job' = [Idle EXCEPT !.step = "creations", !.scheduled = next, !.at = now]
    /\ next' = NextMoment(now)
    /\ UNCHANGED <<now, settings, process, stores, chat, stops>>

RecentSince == job.at - EventsPeriod
Since == job.at - Period
EventsSince == job.at - EventsPeriod

(* KeyBy keeps the last creation of a code, oldest first. *)
Before(i, j) == file[i].at < file[j].at \/ (file[i].at = file[j].at /\ i < j)
After(i, j) == file[i].at > file[j].at \/ (file[i].at = file[j].at /\ i > j)

CreationsSince(since) ==
    {i \in DOMAIN file : file[i].action = "create" /\ file[i].at >= since}

Credited(creations) ==
    {[code |-> file[i].code, credits |-> file[i].id] :
        i \in {k \in creations :
                  \A j \in creations \ {k} : file[j].code = file[k].code => After(k, j)}}

Alive == [c \in Codes |-> IF rows[c] = None THEN 0 ELSE rows[c].born]

Sent(run, entries) ==
    [scheduled |-> run.scheduled, at |-> run.at, since |-> run.since,
     reach |-> run.reach, entries |-> entries, alive |-> Alive]

OnTo(step) == [Idle EXCEPT !.step = step, !.scheduled = job.scheduled, !.at = job.at]

(* ActivationReport.Build reads the file; with no creations there is nothing *)
(* to ask the database, and the report says so.                              *)
FindCreations ==
    /\ job.step = "creations"
    /\ LET run == [step |-> "stats", scheduled |-> job.scheduled, at |-> job.at, since |-> Since,
                   found |-> Credited(CreationsSince(Since)), reach |-> Len(file)]
       IN  \/ /\ run.found # {}
              /\ job' = run
              /\ UNCHANGED activationReports
           \/ /\ run.found = {}
              /\ activationReports' = activationReports \cup {Sent(run, {})}
              /\ job' = OnTo("events")
    /\ UNCHANGED <<now, settings, process, next, stores, eventsReports, stops>>

StatsSince == job.since

(* GetActivationStats, the join in collect, which leaves out a code without  *)
(* a row, and the report is sent.                                            *)
ReportActivations ==
    /\ job.step = "stats"
    /\ LET fresh(c) == Cardinality({u \in DOMAIN rows[c].used : rows[c].used[u] >= StatsSince})
           entries == {[code |-> f.code, credits |-> f.credits, born |-> rows[f.code].born,
                        fresh |-> fresh(f.code), total |-> Len(rows[f.code].used)] :
                          f \in {g \in job.found : rows[g.code] # None}}
       IN  activationReports' = activationReports \cup {Sent(job, entries)}
    /\ job' = OnTo("events")
    /\ UNCHANGED <<now, settings, process, next, stores, eventsReports, stops>>

(* EventsReport.Build, and the report is sent. *)
ReportEvents ==
    /\ job.step = "events"
    /\ LET shows == {file[i].id : i \in {k \in DOMAIN file : file[k].at >= EventsSince}}
       IN  eventsReports' = eventsReports \cup
              {[scheduled |-> job.scheduled, at |-> job.at, since |-> EventsSince, shows |-> shows]}
    /\ job' = Idle
    /\ UNCHANGED <<now, settings, process, next, stores, activationReports, stops>>

(* A report that fails, at a query or at a page, is skipped. *)
ReportFails ==
    /\ job.step # "idle"
    /\ job' = IF job.step = "events" THEN Idle ELSE OnTo("events")
    /\ UNCHANGED <<now, settings, process, next, stores, chat, stops>>

Terminating == now = MaxTime /\ UNCHANGED vars

Next ==
    \/ Start \/ Stop \/ Tick
    \/ \E c \in Codes : Stamp(c) \/ Save(c) \/ Commit(c) \/ Rollback(c) \/ Activate(c)
    \/ Fire \/ FindCreations \/ ReportActivations \/ ReportEvents \/ ReportFails
    \/ Terminating

Spec == Init /\ [][Next]_vars

-----------------------------------------------------------------------------
(* No report's window ends before it begins, which is what the bound on the  *)
(* weeks is for: past it, the duration would wrap.                           *)
WindowsLieInThePast ==
    \A r \in activationReports \cup eventsReports : r.since < r.at

(* With a period of the events report that matches the schedule, an event is *)
(* shown once: not left out, not repeated.  This holds away from the seams:  *)
(* what is stamped within MaxLag of a moment of the schedule may be missing  *)
(* from both reports (stamped before the moment, saved after the reading) or *)
(* be in both (saved before the reading, and after the moment from which the *)
(* next report looks back).                                                  *)
EventsAreReportedOnce ==
    EventsPeriod = Interval =>
        \A s \in eventsReports : \A i \in DOMAIN file :
            (/\ s.scheduled - Interval + MaxLag < file[i].at
             /\ file[i].at + MaxLag < s.scheduled)
            => {r \in eventsReports : file[i].id \in r.shows} = {s}

(* With a period of two intervals or more no code falls through the seams: a *)
(* code that was created before a run, and still exists when the next one    *)
(* reads the database, is in one of their reports, whatever its creation     *)
(* raced with.                                                               *)
LivingCodesAreReported ==
    Period >= 2 * Interval =>
        \A r, s \in activationReports : \A i \in DOMAIN file :
            (/\ s.scheduled = r.scheduled + Interval
             /\ file[i].at \in (r.scheduled - Interval)..r.scheduled
             /\ s.alive[file[i].code] = file[i].id)
            => \E e \in r.entries \cup s.entries : e.credits = file[i].id

(* A code listed as never activated was not activated at all, not only not   *)
(* within the window.                                                        *)
NeverActivatedIsTrue ==
    \A r \in activationReports : \A e \in r.entries : e.fresh = 0 => e.total = 0

(* An entry credits the creation of the row whose counters it shows, unless  *)
(* that row was created after the report had read the audit file.            *)
CreditsItsCreation ==
    \A r \in activationReports : \A e \in r.entries :
        e.credits = e.born \/ \E i \in DOMAIN file : i > r.reach /\ file[i].id = e.born
=============================================================================
