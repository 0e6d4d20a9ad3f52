# TLA+ specifications of promoBot

promoBot is a Telegram bot with which administrators create, edit, delete and
list the promo codes of Dick Grower Bot. It shares a PostgreSQL database with
that bot, keeps an audit trail of its own changes in a file of JSON lines, and
sends weekly reports built from both. This directory holds TLA+ models of it,
configurations that check them with TLC on small instances, and theorems about
them that TLAPS proves for every instance. Paths below are relative to the
repository.

## 1. The system

| Component | State it keeps | Operations | Interacts with |
| --- | --- | --- | --- |
| **Audited changes**: `internal/service/promo`, `internal/db/repo` | rows of `Promo_Codes`, `Promo_Code_Activations`; row locks; open transactions | `CreatePromoWithAudit`, `UpdatePromoWithAudit`, `DeletePromoWithAudit` inside `TxManager.WithinTransaction` | called by handlers and REST, in goroutines; calls `FileStorage.Save` inside the transaction; Dick Grower Bot changes the same tables |
| **Audit file**: `internal/audit` | `audit.json`, an appending handle, one shared reading handle, a mutex | `Save`, `FindLogs`, `Close` | `Save` from every change, `FindLogs` from every report, `Close` from `main` |
| **Reports**: `internal/service/report` (`report.go`, `events.go`) | none between runs | `Build`: records of a window, joined with activation counters | reads the audit file, then the database |
| **Report scheduler**: `scheduler.go` | a cron schedule, the application's context | `Run`, `send`, `sendReport` | a goroutine in the WaitGroup; a goroutine per job |
| **Pagination**: `pagination.go` | page and block being filled | `paginate`, `splitBlock`, `withNotice`, `withTitles` | called by both reports |
| **Promo table**: `handlers/getPromo.go`, `Promo.GetTable` | what the buttons of the bot's message carry | `/get`, a press on a page or sort button | queries the table others change; edits one message from several goroutines |
| **Dialogues**: `/promo`, `/edit`, `/delete`, `/stats`, and REST `/promo/generate` | the form in Redis (library) | a form filled in from arguments and from answers, validation by `NewPromo`, hand-over to the service | service; wizard library |
| **Start-up and shutdown**: `main.go` | context, WaitGroup, open resources | receiving updates by webhook or polling, `shutdown` | everything above |
| **Dispatch, help and group guard** | none | first matching handler wins; in groups help or a refusal | library |
| **Configuration**: `internal/config` | read once | `NewReportConfig`: defaults, bounds, durations | scheduler and reports |
| **Texts** | none | wording, escaping | - |

What is hard to get right, and hard to test, is in the places where two of these
meet:

* **Two stores, no common commit.** A change is in the database, its record in a
  file. `Save` runs inside the transaction, before the commit. Either can fail
  after the other, and the process can die in between.
* **Concurrent requests on one row**, among them a program that is not ours:
  statements that wait for a lock and then meet a row that was changed, or
  deleted and created again.
* **One reading handle** for all readers of a file that others append to, read
  from a cut in the middle, with half-written lines in it.
* **Buttons that outlive the table** they were made for, and **forms that
  outlive the process** and the message that opened them.
* **Time**: windows that are measured from late moments, records that are stamped
  before they are saved, dates that are checked at one moment and stored at
  another, numbers of days and weeks that are multiplied into a fixed width.
* **Sizes at a boundary**: messages, pages, numbers of pages and their digits.
* **Stopping**: five kinds of goroutines, two ways of receiving updates, one
  context, and resources that must be closed after their last use.

For each component, what makes it correct:

* audited changes: nothing committed without a record; records in commit order;
  an answer that tells what happened; an activated code keeps its row; the
  committed changes of a code make sense one after the other; every request ends;
* audit file: a read returns exactly the records it was asked for, or says that
  it may not; what `Save` confirmed is there; the mutex is always released;
* reports: a row is credited with its own creation; a failure of one report does
  not silence the other; two successive reports together leave nothing out and say
  nothing twice, as far as their windows meet;
* pagination: every message fits, nothing disappears without a notice;
* promo table: numbers, pages and buttons describe one state of the table;
* dialogues: a request is what was said, in full and confirmed last; the validity
  it leaves in the table is not empty; groups are left alone;
* shutdown: nothing is closed under somebody who uses it, and it ends.

## 2. Modules

| Module | Models | Checked by |
| --- | --- | --- |
| `AuditedChanges` | abstract: a write-ahead trail of changes | proved; `WriteAhead` in `promo_faults` |
| `PromoService` | service, transaction manager, repository, PostgreSQL's locks as far as the statements meet them, the external bot | `MCPromoService` |
| `AuditLog` | `FileStorage` in the steps of its code | `MCAuditLog` |
| `Pagination` | the layout of a report on messages | `MCPagination` |
| `PromoTable` | `/get`, its buttons and `GetTable` | `MCPromoTable` |
| `ReportWindows` | `NewReportConfig`, the schedule, both reports' windows and readings | `MCReportWindows` |
| `Dialogues` | dispatch, group guard, the forms, `NewPromo`, REST, the stored dates | `MCDialogues` |
| `Lifecycle` | `main`, updates, REST requests, the scheduler and its jobs, `shutdown` | `MCLifecycle` |
| `AuditedChangesProofs`, `PromoServiceProofs`, `AuditLogProofs`, `PaginationProofs`, `PromoTableProofs`, `ReportWindowsProofs`, `DialoguesProofs`, `LifecycleProofs` | theorems about these modules | TLAPS |

The `MC` modules only give sets, fault sets and symmetries names for the
configurations.

### PromoService

A worker is a goroutine that serves one request at a time; `pc[w]` is where it
is in `WithinTransaction`. `rows` and `activated` are the committed tables,
`lock` the row locks, `tx[w]` what the transaction has read and written, `log`
the audit file, `history` the committed changes (a ghost), `outcome` what each
client was told. The steps are those between which another worker can be
scheduled: `Begin`; the `INSERT`; for an update the plain `SELECT` of `GetPromo`,
then the snapshot of the `UPDATE` and, once the lock is free, its effect; for a
delete the snapshot with its count of activations and then its effect; `Save`;
`Commit`; the answer. PostgreSQL runs with READ COMMITTED: a statement that
waited for a lock is re-evaluated on the newest version of the row it had found
(`SameRow`). Rows carry `born`, the request that inserted them, to tell a row
from a later one with the same code. `Terms` stands for bonus length and dates,
which no property tells apart. `Activate` is Dick Grower Bot, modelled from the
tables and the comments about it: it takes one unit of capacity and adds an
activation, under the row lock.

Faults are a constant, so that each run says which it allows: `statement` (the
connection breaks or the context ends), `write` (`Write` fails having written
nothing, a part of the object, or all but the newline), `commit` (it fails
before the server commits, or its acknowledgement is lost), `crash`.

### AuditLog

What is one step in `PromoService` is here the code of `Save`: stamp and
serialise without the lock (`Stamp`), then write (`Save`, `SaveFails`).
`FindLogs` is `Rewind` (lock, `Stat`, cut, `Seek` to one byte before it),
`Discard`, one `ScanLine` per line, `Finish` (sort, unlock), with `ScanFails` for
a line beyond the scanner's buffer and `RewindFails` for a closed file. The file
is a sequence of lines with lengths, so that every position of the cut relative
to a line occurs, and `Ends` says where each line ends; `Written` merges what follows an unended line into it.
`expected[r]` fixes, when a read begins, what it owes its caller.

### Pagination, PromoTable

`Pagination` takes one loop iteration of `paginate` or `splitBlock` as one step;
a text is its lines, of which the length and the origin count (`Lengths` adds
them up, `IsLine` tells a line of a block from a header, a blank or the notice).
`PromoTable` has one message of the bot, the buttons on
it, goroutines that serve presses (query, then edit), and a table that changes
at any moment. `Orderings` is the set of results that the `ORDER BY` clause
allows, so that an order it leaves open is really open.

### ReportWindows

A change is reduced to the moments at which its record is stamped (`Stamp`) and
saved (`Save`) and its transaction ends (`Commit`, `Rollback`); a row keeps the
change that created it and the moments of its activations. `Fire` takes the
moment of a run; `FindCreations` is the activation report's reading of the file,
`ReportActivations` its reading of the database and the join in `collect`,
`ReportEvents` the second report. Other steps come in between. `Start` applies
`NewReportConfig` to the environment; durations are in two's complement.
`Stop` ends the process with everything it was doing, and `Start` takes up the
schedule at its next moment: missed runs are not made up for. The clock is in
ticks of which the process takes at most `MaxLag` for anything it has begun.

### Dialogues

`Handler` is the dispatch: the first handler of `initHandlers` that can handle a
message. `form[u]` is the user's form in Redis. `BeginForm` fills it in from the
arguments (`Prefilled`), `Answer` puts the next message in the field that is
asked for (`Question`, with the skips of `promo_form.go`), and the last answer
runs `Act`, the form's action with `parseDate` and `NewPromo`. `Generate` is REST.
`inflight` is what the service has; `Store` and `Fail` are its two ends, with the
columns' rounding to dates and the default of the start. Forms expire (`Expire`)
and survive a `Restart`; requests do not. `said` is a ghost: what the user has
said in private since the command. The wizard library (one form per user, asks
for the first empty field that is not skipped, takes a text no handler wants) is
external. Dates are whole days of `Day` ticks, the clock shows odd moments
and never a midnight; the bot and the database are taken to be in one time zone.

### Lifecycle

`stage[q]` is how far an update or a REST request is; only its use of the
connection, the file and the WaitGroup matters. `main` goes from receiving
(polling loop or webhook) through `wg.Wait` to the steps of `shutdown`. The
polling loop looks at the context only when it has an update in hand
(`StopReceiving`), as the code does. A job goes through `FindLogs`,
`GetActivationStats` and its pages, report after report. External, and taken
from how the code uses it: `HandleUpdate` adds to the WaitGroup and starts a
goroutine; `StopListeningForIncomingRequests` returns when accepted requests are
over; `StopReceivingUpdates` closes the channel in the end; `Pool.Close` refuses
new transactions and waits for the connections in use; cron runs each job in a
goroutine and `Stop` waits for it.

### AuditedChanges

What the service promises about its two stores without transactions, locks or
requests: a change is applied once, after its record, and while its record is
the latest of its code. Records of changes that never happen, and torn lines,
are allowed. The refinement maps the lines of `log` (an incomplete one to `Torn`)
to `trail`, and `history` to `applied`.

## 3. Runs

Passing runs:

* **promo_faults** - two workers, one code, three requests, a player, every
  fault. Nothing is committed unrecorded; answers are true; a torn write costs at
  most one committed change its record; the service implements `AuditedChanges`;
  and, under fairness, every request is answered.
* **promo_concurrent** - four requests, so that a code can be deleted and created
  again under a request that waits for its lock; writes and commits may fail.
  Commit order, activations that keep their row, disabled codes that stay spent,
  changes of a code that make sense one after the other, the creation a report credits,
  and the initial capacity it shows for codes nobody edited.
* **audit_log** - two writers and two readers, records of two lengths against a
  tail of four bytes, torn writes, lines that outgrow the scanner, `Close`: the
  cut falls before, on and after every kind of boundary. Reads are exact or fail,
  what the cut leaves out is announced but for the two cases below, saved records
  are in the file, calls return.
* **pagination** - all reports of up to three small blocks on up to three
  messages, with page numbers to base three so that they get a second digit.
* **promo_table** - all tables of up to four codes with equal keys among them, two
  codes a page, two presses in flight, one change of the table.
* **report_windows** - two runs of the schedule, in six environments (default and
  other periods, an unusable one, no chat), with two changes, an activation, one
  stop. No window lies in the future; with matching periods an event is shown
  once, but for the seams; with overlapping periods no living code is left out;
  "never activated" is true; an entry credits the creation of the row it counts.
* **dialogues** - an admin and a REST client on the evening before and the day
  after a midnight: two forms or requests with every mixture of arguments and
  answers, also useless ones. Requests are as said, validities are not empty,
  groups are left alone.
* **lifecycle** - a signal at any moment of two updates, a REST request and a
  job of two reports, in both modes.

Violations; each run shows that a sentence of the repository does not hold of
the code:

* **promo_padded_code** - REST audits the code as it was spelled, `NewPromo`
  stores it trimmed; the activation report misses such codes.
* **promo_stale_changes** - `GetPromo` does not lock, so an update that waited
  for another records old values the row no longer had.
* **promo_table_shrinks** - a page past the end has no rows and hence no window
  count; the admin is told that there are no promo codes, and the branch for an
  expired page is not reached.
* **dialogues_many_days** - a number of days is multiplied by 24 hours without a
  bound. From 106752 days on, some 292 years, the duration wraps: a promo code that
  is to start and end 213505 days ahead starts and ends about tomorrow. Here a
  duration has 32 values and a day four ticks, so nine days become one.

Met on the way, and where a property is the weaker one that does hold:

* A commit that fails leaves the record of a change that never happened; its
  client was told so (`AnsweredIsCommitted`), readers of the file were not. The
  report joins with the rows and is not led astray (`Attribution`).
* The record after a torn write is unreadable (`TornWriteCostsOneRecord`,
  `SavedIsInFile`).
* After an edit `InitialCapacity` is no longer what the code was created with
  (`UneditedCapacityAddsUp`).
* A read does not always "say so" (`audit.go:190`) when the cut left out a record
  it was asked for. `NothingLeftOutQuietly` states the two cases. If no line of the
  tail is a record, say because it is the fragment of a torn write, there is no
  oldest stamp and `audit.go:192` keeps quiet. And `Save` stamps before it locks: a
  record that has overtaken a `Save` stamped before it (`Overtook`) may be left
  out quietly when the older stamp, in the tail, is not after the time asked for.
* The signal cancels the query of an activation report that is being built. `Run`
  waits for it, as its comment says, but only to see it fail; what holds is that
  the events report, which asks no database, still goes out
  (`LaterReportsSurvive`).
* `FindLogs` has no upper bound: what is saved between the moment of a run and
  its reading is in that report and in the next one. The windows of the reports
  of one run therefore begin together rather than "end together"
  (`scheduler.go`). `EventsAreReportedOnce` excludes the seams by `MaxLag`.
* After an answer to "would you like to set dates" that is none of its buttons the
  bot still asks for the end (`promo.go:104`) and then drops it: the switch of
  `promo.go:188` has no default, and the promo code gets no end. It is the one
  exception `RequestsAreAsSaid` states (`OffTheButtons`).
* An end date of today is refused as past, because a date is its midnight; an end
  equal to the start is accepted, although the text asks for a later one.
* Codes with blanks, commas or semicolons, which `/promo` and REST accept, cannot
  be named in `/delete` and `/stats`, which split their arguments there.

### Bounds

Every bound is a constant with `Max` in its name or the size of a set. One code
suffices because no statement touches two rows and no property of a code reads
another's; two workers because a row lock has one holder and what a waiter sees
depends on the holder alone; four requests are what the longest known hazard
takes (create, a request that waits, delete, create). The proofs need none of these
bounds. `Pagination` works with units of text instead of thousands of characters;
what matters is the order of sizes, and every arrangement of small blocks around
a page of nine units is generated. `ReportWindows` has four ticks between runs and a
lag of one, so that there are moments at a seam and away from it; two runs are
what its properties compare, and one code suffices because no report relates two.
In `Dialogues` one user suffices because forms and requests are per user; `Day`
has two odd moments, so a midnight falls between two of them, and two forms show
whatever one leaves behind for the next. In `Lifecycle` requests are independent except
for the counter and the connections, so two updates and one REST request show
each pair.

Deadlock is checked in every run. Where a bound is exhausted, `Terminating`
stutters; `EmptyPoll` is the poll that returns without updates. (`Dialogues` never
stops: groups and expired forms go on.)

### Fairness

* `PromoService`: weak fairness of each worker's own steps (the Go scheduler
  runs goroutines; the database answers or the connection fails) and strong
  fairness of the statements that wait for a row lock (PostgreSQL queues the
  waiters of a tuple lock). No fairness of submissions, faults, activations.
* `AuditLog`: weak fairness inside the critical section, strong fairness of
  taking the mutex: `sync.Mutex` hands over to a waiter that starved for a
  millisecond.
* `Lifecycle`: weak fairness of every goroutine's next step: transactions and
  queries end by their contexts, messages by the HTTP client. No fairness of the
  signal, of updates, requests or jobs; in debug mode the exit therefore waits
  for one more update, and `ShutdownEnds` says so.

`ReportWindows`, `Dialogues`, `PromoTable` and `Pagination` are checked for safety
only and state no fairness.

## 4. Proofs

Every safety property that a passing run checks is proved, and the refinement.
The theorems hold for every value of the constants under the assumptions the
modules name, which TLC evaluates in the runs: bounds are naturals, sets of goroutines, players or codes whose members are counted are
finite, the sets of faults and spellings are among those the actions mention,
and `None` is none of the values it is told from. Beyond such typing are only
these:

* `ReportWindows`: the settings have their documented shapes and bounds, and
  `LagAssumption` keeps a run from reaching into the next one;
* `Pagination`: the cap has at most three digits, and a block's header fits a page
  together with its longest line or with the notice (a line is one code or one
  change, far below the 4096 units of a message);
* `Dialogues`: a day has a midnight between two moments. `RequestsSayWhatWasSaid`
  has the hypothesis `DaysFit`, that the numbers of days fit a duration; the run
  `dialogues_many_days` shows what happens without it.

About `PromoService`:

* `TypeCorrect`: `Spec => []TypeOK`. `TypeOK` alone is not
  inductive: `Disabled` and the changes in a record need the row, or the draft,
  to be there. `TypeInv` adds `StepsOK`, what a transaction has at each label.
* `NothingUnsaved` and `!RecordsInCommitOrder`: `CommittedIsSaved`
  and `AuditOrder`. The invariant `WAInv` behind both says, beside the types:
  a worker past its statement holds the lock of its row, and a lock has a worker
  that does (`LocksOwned`, `LocksHeld`); identities in use are below `nextOp` and
  belong to one worker (`IdsFresh`); nothing is in the file or in the history
  before its step (`NothingTooEarly`); no request has two entries
  (`OneEntryEach`); and a worker at its commit has the latest record of its code
  in the file (`RecordedFirst`), because nobody else could write one while it
  held the lock. The last is what makes a commit preserve the order.
* `AnswersAreTrue`, `ActivationsKeepTheirRow`, `DisabledStaysSpent`,
  `ChangesFollow` and `CapacityAddsUp`. `RowInv` adds what the lock protects: from
  its statement to its commit a new version fits the row it replaces
  (`DraftsFit`: the row is still missing for a creation, still the same one for
  an update, still without activations for a deletion), and the committed row of
  a code is that of its last change (`RowsFollow`). `CreationsAreCredited` is
  `Attribution` for codes spelled as they are stored, the case in which it holds
  (compare `promo_padded_code`): the record of the creation of a row is the last
  creation of its code in the file (`LatestCreated`), because a later one would
  have found no row. `TornWritesAreBounded` maps each unreadable committed record
  to the unended line before it, one to one.
* `Implements`: `Spec => WriteAhead`. A save records, a torn
  write tears, a commit applies, everything else stutters, each under `WAInv`.
* `AuditedChangesProofs!TrailGuarantees`: what the abstract trail gives whoever
  implements it, and so, through `Implements`, the service: replay order, and
  every change recorded, once.

About the other modules:

* `AuditLogProofs`. `ConfirmedIsKept` is `SavedIsInFile`: `SaveInv` says that a
  line that is not one whole, ended record names a call that has failed
  (`DamageHasAName`), which no later step can confirm, since a call's record is in
  one goroutine's hands only (`RecordsAreFresh`). So a record that is spoilt by
  what is on its line already, or comes onto it later, is excused. `StateIsTyped`,
  `ReadsAreExact` and `QuietLossHasACause` are `TypeOK`, `ReadIsExact` and
  `NothingLeftOutQuietly`. `ReadInv` says where the reader in the critical section
  is: nothing is written meanwhile, so what it owes (`expected`) are the matching records from the cut
  on; its handle stands at the end of a line, and what it has found are the
  wanted records up to there (`Scanned`), which at the end of the file is what it
  owes. The oldest stamp it has met is that of a line after the cut
  (`OldestFound`), and no record it has passed is older (`NothingOlder`): without an
  oldest stamp there was no record. A record of the file is stamped no later than
  one behind it unless it has overtaken that one's `Save` (`StampedInOrder`): each
  `Save` that is still to come is younger than the records in the file, or they
  have overtaken it. So what the cut left out is older than the tail, and the read
  warns, or it has overtaken the line with the oldest stamp.
* `ReportWindowsProofs`. `WindowsAreSane` is `WindowsLieInThePast`, for any
  environment: a number of weeks that `NewReportConfig` accepts is a positive
  duration (`AcceptedPeriodsArePositive`), the process is up only with such
  numbers, and a job keeps its moment and its beginning between its readings.
  `CreditsAreRight` and `NeverActivatedMeansNever` relate a row to the file
  (`StoreInv`): a living row is the last creation of its code that was saved, its
  activations are younger, and a record that is saved but not committed is the
  last of its code. `EventsAreReported` and `LivingCodesAreNotMissed` compare two
  reports and so need `ScheduleInv`, that runs keep to their moments up to the
  lag and no two share one, and what a report of a given moment has seen of the
  stores as they were (`EventsShown`, `RowsWereAlive`, `AliveIsAlive`).
* `PromoTableProofs`. Each list, whether shown or still on its way, is a page of
  some table in some order its `ORDER BY` allows (`ViewInv`); that table need not
  exist any more. From one such page follow `PlacesCount` and `ButtonsLeadToPages`;
  `WordsAreKept` adds that buttons carry the command's filter. `PagesCoverTheList`
  follows from `WalkInv`: what a walk has seen is the beginning of one such order,
  up to its present page.
* `DialoguesProofs`. `GroupsAreQuiet` needs only the dispatch. `FormsAreKept` ties
  a form to what was said: every field is its argument or the answer to its
  question, never both, and an end is in a form only if the choice does not skip it
  (`FormOf`). With it `RequestsSayWhatWasSaid` reads the
  request off the words, date for date (`FieldsWereSaid`) but for the answer off
  the buttons, which only an answer can be (`ChoiceWasSaid`), and `StoredDatesAreInOrder` follows the dates from the
  check in `NewPromo` to the columns, where rounding must not reverse them
  (`RequestValid`, `RowValid`).
* `PaginationProofs`: `MessagesFit`, `LinesAreNotLost`, `LinesStandUnderHeaders`,
  `ShortBlocksStayWhole`, `NoPageEndsEarly`. The five need one invariant,
  `LaidOutInv`, about the sheets, that is, the full pages with the one being
  filled: each fits the budget and has its lines under their headers
  (`SheetsFit`), each but the last was ended by what follows it
  (`SheetsAreFilled`), a block that fits a page is on one sheet at most
  (`BlocksArePlaced`), and the lines on the sheets, in the parts and in
  `splitBlock`'s hands are together the report up to the present line
  (`NothingIsMissing`). Putting a part onto a page does one of two things to the
  sheets, whichever branch the code takes (`Placed`): it extends the last one by
  the part, or adds the part as a new one because it did not fit.

Positions in the audit file, lengths of texts and the lines of a report are sums
and concatenations over sequences, so their proofs are by induction. The
library's induction theorems take an operator, which the installed provers cannot
instantiate; the modules therefore use induction for a *set* of numbers: a set
that has 0 and with each number the next is `Nat` (`AllNumbers`), since a least
number outside it (`LeastNumber`, from the well-foundedness of `<`) cannot exist.
The models define these sums as recursive functions (`Ends`, `Lengths`) or with
folds (`FlattenSeq`).

Only model-checked:

* the liveness properties `EveryRequestEnds`, `CallsReturn` and `ShutdownEnds`:
  reasoning about fairness and `ENABLED` is out of the prover's reach;
* that `Attribution` fails for padded codes, and the other three violations,
  which are traces.

## 5. Not modelled, and the plan

Left out: texts, formatting and escaping, metrics; `/stats` beyond its form (one
query and one text); the users file, of which `Admins` is the result, and the
configuration other than that of the reports (a sequence of checks, each ending
the process); the start of the process before it receives updates; the libraries
beyond what the modules say of them. A loss of power that drops unsynced bytes of
the file is not modelled either: which bytes a file system keeps is not in this
code, and `Save` does not sync, so no property of it would hold. Time zones other
than the database's, and activations without `activated_at`, are left out of
`Dialogues` and `ReportWindows`.

What could come next:

1. `AuditLog` under `PromoService`: the steps of `Save` shown to implement the
   single step, with `Line`s as the common view of the file.
2. The events report on top of `AuditLog`'s reads rather than on a file read in
   one step, with the warning in the report.
