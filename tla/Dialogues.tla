------------------------------ MODULE Dialogues ------------------------------
(***************************************************************************)
(* From a message to a request: which handler takes a message, the forms    *)
(* that /promo, /edit and /stats fill in over several messages, the checks  *)
(* of /delete and of the REST endpoint, and the dates of the row that       *)
(* results.  What happens to a request between the hand-over and the row is *)
(* PromoService; here it is stored or fails.                                *)
(*                                                                          *)
(* The wizard library is external: it keeps one form per user in Redis,     *)
(* asks for the first empty field that is not skipped, takes the next       *)
(* message no handler wants for the answer, and calls the action when       *)
(* nothing is left to ask.                                                  *)
(*                                                                          *)
(* Moments are ticks, Day of them a day.  The clock shows odd moments only, *)
(* and a date is an even one, its midnight: nothing happens at midnight.    *)
(***************************************************************************)
EXTENDS Integers, Sequences, FiniteSets, SequencesExt

CONSTANTS
    Users, Admins,
    Rest,           \* a client of the REST endpoint
    Codes,
    Lengths, Capacities, Dates,   \* answers and arguments for these fields
    Day,            \* ticks of a day
    DurationRange,  \* a time.Duration is at least -DurationRange and less than it
    MaxTime,        \* bound: last moment of the clock
    MaxBegun,       \* bound: number of forms and REST requests begun
    None            \* no form, no row, no request, no date, no answer yet

ASSUME AdminsAssumption == Admins \subseteq Users /\ Rest \notin Users
ASSUME DayAssumption ==
    Day \in Nat \ {0} /\ Day % 2 = 0 /\ DurationRange \in Nat \ {0}

(* The texts that mean something, and any other.                             *)
Texts == {"actionSetBothDates", "actionEndlessPromo", "actionFromNowToDate",
          "actionCreate", "actionUpdate", "actionCancel", "endless", "other"}
Words == [number: Int] \cup [date: Int] \cup [moment: Int] \cup [text: Texts]
ASSUME WordsAssumption ==
    /\ Lengths \cup Capacities \cup Dates \subseteq Words
    /\ None \notin Int \cup Words \cup [code: Codes]

VARIABLES
    now,        \* the clock
    form,       \* the open form of each user, in Redis
    said,       \* what each user said in it: the arguments, then the answers
    inflight,   \* the request of each user, or client, that the service has,
                \* one at a time
    row,        \* each code's dates in the database
    inGroup,    \* the last message of a group and the answer to it
    begun       \* forms and REST requests so far

vars == <<now, form, said, inflight, row, inGroup, begun>>

Sources == Users \cup {Rest}
Silence == [arguments |-> <<>>, answers |-> <<>>]

Init ==
    /\ now = 1
    /\ form = [u \in Users |-> None]
    /\ said = [u \in Users |-> Silence]
    /\ inflight = [s \in Sources |-> None]
    /\ row = [c \in Codes |-> None]
    /\ inGroup = [asked |-> "none", answer |-> "none"]
    /\ begun = 0

-----------------------------------------------------------------------------
(* Words: arguments, answers and the values of the buttons. *)
Number(n) == [number |-> n]      \* what strconv.Atoi parses
Date(d) == [date |-> d]          \* a calendar date
Moment(t) == [moment |-> t]      \* RFC 3339
Text(w) == [text |-> w]
Code(c) == [code |-> c]

IsNumber(word) == "number" \in DOMAIN word
IsDate(word) == DOMAIN word \in {{"number"}, {"date"}, {"moment"}}

Both == Text("actionSetBothDates")
EndlessPromo == Text("actionEndlessPromo")
FromNow == Text("actionFromNowToDate")
Confirm(command) == IF command = "promo" THEN Text("actionCreate") ELSE Text("actionUpdate")

(* What the user may answer to a question: the buttons, and other texts. *)
Answers(field) ==
    CASE field \in {"promo", "code"} -> {Code(c) : c \in Codes}
      [] field = "length" -> Lengths
      [] field = "capacity" -> Capacities
      [] field = "setDates" -> {Both, EndlessPromo, FromNow, Text("other")}
      [] field \in {"since", "until"} -> Dates
      [] OTHER ->
             {Confirm("promo"), Confirm("edit"), Text("actionCancel"), Text("other")}

Endless == Text("endless")
IsEndlessArg(word) == word = Endless

(* parseArguments: up to five words that say something; more are ignored. *)
Arguments ==
    LET Prefix(n) == {a \in [1..n -> UNION {Answers("promo"), Lengths, Capacities, Dates, {Endless}}] :
                         \A i \in 1..n : a[i] \in CASE i = 1 -> Answers("promo")
                                                    [] i = 2 -> Lengths
                                                    [] i = 3 -> Capacities
                                                    [] OTHER -> IF n = 4 THEN Dates \cup {Endless}
                                                                ELSE Dates}
    IN  UNION {Prefix(n) : n \in 0..5}

-----------------------------------------------------------------------------
(* Dispatch: the first handler in this order that can handle a message does. *)
Chats == {"private", "group"}
CommandNames == {"get", "promo", "edit", "delete", "stats", "help"}
NoCommand == "none"

GuardFirst == <<"guard", "get", "promo", "edit", "delete", "stats", "help">>
MessageHandlers == <<"get", "promo", "edit", "delete", "stats", "help", "guard">>

CanHandle(handler, chat, command) ==
    CASE handler = "guard" -> chat # "private"
      [] handler = "help" -> command = "help"
      [] OTHER -> chat = "private" /\ command = handler

Handler ==
    [chat \in Chats |-> [command \in CommandNames \cup {NoCommand} |->
        LET able == {i \in DOMAIN MessageHandlers : CanHandle(MessageHandlers[i], chat, command)}
        IN  IF able = {} THEN "none" ELSE MessageHandlers[Min(able)]]]

-----------------------------------------------------------------------------
(* The form of /promo and /edit. *)
PromoFields == <<"promo", "length", "capacity", "setDates", "since", "until", "confirmation">>

(* addPromoFieldsFromArgs *)
Prefilled(arguments) ==
    LET n == Len(arguments)
        word(i) == IF i <= n THEN arguments[i] ELSE None
        endless == n = 4 /\ IsEndlessArg(arguments[4])
    IN  [promo |-> word(1), length |-> word(2), capacity |-> word(3),
         setDates |-> CASE n >= 5 -> Both
                        [] endless -> EndlessPromo
                        [] n = 4 /\ ~endless -> FromNow
                        [] OTHER -> None,
         since |-> IF n >= 5 THEN arguments[4] ELSE None,
         until |-> CASE n >= 5 -> arguments[5]
                     [] n = 4 /\ ~endless -> arguments[4]
                     [] OTHER -> None,
         confirmation |-> None]

(* skipUnlessFieldValue, and the library's SkipOnFieldValue. *)
Skipped(field, data) ==
    \/ field = "since" /\ data.setDates # Both
    \/ field = "until" /\ data.setDates = EndlessPromo

Unanswered(fields, data) ==
    {i \in DOMAIN fields : data[fields[i]] = None /\ ~Skipped(fields[i], data)}
Fields(f) == IF f.command = "stats" THEN <<"code">> ELSE PromoFields
Question(f) == Fields(f)[Min(Unanswered(Fields(f), f.data))]

-----------------------------------------------------------------------------
(* time.Duration(days) * 24 * time.Hour, in two's complement. *)
Wrapped(n) == ((n + DurationRange) % (2 * DurationRange)) - DurationRange
DaysFromNow(n) == now + Wrapped(n * Day)

ParseDate(word) ==
    CASE "number" \in DOMAIN word -> DaysFromNow(word.number)
      [] "date" \in DOMAIN word -> word.date * Day
      [] OTHER -> word.moment

(* The dates the action looks at.  If the choice is none of the three, it    *)
(* looks at none, although the end has been asked for.                       *)
ForgottenEnd(choice) == IF choice = Both THEN {"since", "until"} ELSE {}
Needed(choice) ==
    CASE choice = Both -> {"since", "until"}
      [] choice = FromNow -> {"until"}
      [] OTHER -> {}

ParseNeeded(data, field) ==
    IF field \in Needed(data.setDates) THEN ParseDate(data[field]) ELSE None

(* NewPromo.  Time passes between the parsing and the check, so an end that  *)
(* is now is past by then.                                                   *)
AnyOrder(since, until) == TRUE
InOrder(since, until) == (since # None /\ until # None) => since <= until

NewPromo(length, capacity, since, until) ==
    /\ capacity > 0
    /\ length # 0
    /\ until # None => now < until
    /\ InOrder(since, until)

Request(action, code, length, capacity, since, until, words) ==
    [action |-> action, code |-> code, length |-> length, capacity |-> capacity,
     since |-> since, until |-> until, at |-> now, said |-> words]

(* PromoHandler.action and EditHandler.action: a form that does not parse or *)
(* is not valid is refused whatever the confirmation says.                   *)
Act(u, f, words) ==
    LET since == ParseNeeded(f.data, "since")
        until == ParseNeeded(f.data, "until")
        accepted ==
            /\ IsNumber(f.data.length) /\ IsNumber(f.data.capacity)
            /\ \A field \in Needed(f.data.setDates) : IsDate(f.data[field])
            /\ NewPromo(f.data.length.number, f.data.capacity.number, since, until)
            /\ f.data.confirmation = Confirm(f.command)
    IN  inflight' = IF accepted
                    THEN [inflight EXCEPT ![u] =
                             Request(f.command, f.data.promo.code, f.data.length.number,
                                     f.data.capacity.number, since, until, words)]
                    ELSE inflight

-----------------------------------------------------------------------------
(* Handle of /promo and /edit: a new form, in the place of an open one. *)
BeginForm(u, command) ==
    /\ u \in Admins
    /\ begun < MaxBegun
    /\ begun' = begun + 1
    /\ \E arguments \in Arguments :
          /\ form' = [form EXCEPT ![u] = [command |-> command, data |-> Prefilled(arguments)]]
          /\ said' = [said EXCEPT ![u] = [arguments |-> arguments, answers |-> <<>>]]
    /\ UNCHANGED <<now, inflight, row, inGroup>>

(* Handle of /stats without arguments.  (With them it is one query.) *)
BeginStats(u) ==
    /\ u \in Admins
    /\ begun < MaxBegun
    /\ begun' = begun + 1
    /\ form' = [form EXCEPT ![u] = [command |-> "stats", data |-> [code |-> None]]]
    /\ said' = [said EXCEPT ![u] = Silence]
    /\ UNCHANGED <<now, inflight, row, inGroup>>

(* Handle of /delete with exactly one argument. *)
Delete(u) ==
    /\ u \in Admins
    /\ inflight[u] = None
    /\ \E c \in Codes :
          inflight' = [inflight EXCEPT ![u] = Request("delete", c, 0, 0, None, None, Silence)]
    /\ UNCHANGED <<now, form, said, row, inGroup, begun>>

(* HelpHandler and GroupGuardHandler, in a group. *)
AnswerGroup(chat, command, answer) ==
    /\ chat = "group"
    /\ inGroup' = [asked |-> IF command \in {"help", NoCommand} THEN command ELSE "command",
                   answer |-> answer]
    /\ UNCHANGED <<now, form, said, inflight, row, begun>>

Help(chat, command) == AnswerGroup(chat, command, "help")
Guard(chat, command) ==
    AnswerGroup(chat, command,
                IF command = NoCommand THEN "none" ELSE "groupCommandsDisabled")

(* A text no handler wants is the answer to the open form's question. *)
Answer(u, chat, command) ==
    /\ form[u] # None
    /\ command = NoCommand
    /\ inflight[u] = None
    /\ \E word \in Answers(Question(form[u])) :
          LET asked == Question(form[u])
              f == [form[u] EXCEPT !.data[asked] = word]
              words == IF chat = "private"
                       THEN [said[u] EXCEPT !.answers = Append(@, <<asked, word>>)]
                       ELSE said[u]
          IN  IF Unanswered(Fields(f), f.data) # {}
              THEN /\ form' = [form EXCEPT ![u] = f]
                   /\ said' = [said EXCEPT ![u] = words]
                   /\ UNCHANGED inflight
              ELSE /\ form' = [form EXCEPT ![u] = None]
                   /\ said' = [said EXCEPT ![u] = Silence]
                   /\ IF f.command = "stats" THEN UNCHANGED inflight ELSE Act(u, f, words)
    /\ UNCHANGED <<now, row, inGroup, begun>>

(* A message of a user.  (/get is PromoTable; what a handler refuses, or     *)
(* answers in private without changing anything, is not a step.)             *)
Receive(u, chat, command) ==
    LET handler == Handler[chat][command]
    IN  \/ handler \in {"promo", "edit"} /\ BeginForm(u, command)
        \/ handler = "stats" /\ BeginStats(u)
        \/ handler = "delete" /\ Delete(u)
        \/ handler = "help" /\ Help(chat, command)
        \/ handler = "guard" /\ Guard(chat, command)
        \/ handler = "none" /\ Answer(u, chat, command)

(* flexDate: a date of the request's body, as it is decoded. *)
Decoded(word) == IF word = None THEN None ELSE ParseDate(word)

(* GeneratePromo.  (Of two equal numbers of days the one that is decoded     *)
(* first is the earlier moment, so such a request may also be refused.)      *)
Generate ==
    /\ inflight[Rest] = None
    /\ begun < MaxBegun
    /\ begun' = begun + 1
    /\ \E c \in Codes, length \in Lengths, capacity \in Capacities,
          sinceWord \in Dates \cup {None}, untilWord \in Dates \cup {None} :
          /\ IsNumber(length) /\ IsNumber(capacity)
          /\ \A word \in {sinceWord, untilWord} \ {None} : IsDate(word)
          /\ NewPromo(length.number, capacity.number, Decoded(sinceWord), Decoded(untilWord))
          /\ inflight' = [inflight EXCEPT ![Rest] =
                 Request("generate", c, length.number, capacity.number,
                         Decoded(sinceWord), Decoded(untilWord), Silence)]
    /\ UNCHANGED <<now, form, said, row, inGroup>>

-----------------------------------------------------------------------------
(* The columns are dates, and a missing start is the day of the statement. *)
DayOf(t) == t \div Day
DayOrNone(t) == IF t = None THEN None ELSE DayOf(t)

Stored(r) ==
    [since |-> IF r.since = None THEN DayOf(now) ELSE DayOf(r.since),
     until |-> DayOrNone(r.until), checked |-> DayOf(r.at), stored |-> DayOf(now)]

(* The transaction commits; a code with activations is only disabled. *)
Store(s) ==
    /\ inflight[s] # None
    /\ LET r == inflight[s]
       IN  /\ (r.action \in {"promo", "generate"}) <=> (row[r.code] = None)
           /\ IF r.action = "delete"
              THEN row' \in {row, [row EXCEPT ![r.code] = None]}
              ELSE row' = [row EXCEPT ![r.code] = Stored(r)]
    /\ inflight' = [inflight EXCEPT ![s] = None]
    /\ UNCHANGED <<now, form, said, inGroup, begun>>

(* The code exists already, or does not, or the transaction fails. *)
Fail(s) ==
    /\ inflight[s] # None
    /\ inflight' = [inflight EXCEPT ![s] = None]
    /\ UNCHANGED <<now, form, said, row, inGroup, begun>>

(* The form's key in Redis lives for COMMAND_STATE_TTL. *)
Expire(u) ==
    /\ form[u] # None
    /\ form' = [form EXCEPT ![u] = None]
    /\ said' = [said EXCEPT ![u] = Silence]
    /\ UNCHANGED <<now, inflight, row, inGroup, begun>>

(* Requests die with the process, forms do not. *)
Restart ==
    /\ \E s \in Sources : inflight[s] # None
    /\ inflight' = [s \in Sources |-> None]
    /\ UNCHANGED <<now, form, said, row, inGroup, begun>>

Tick ==
    /\ now + 2 <= MaxTime
    /\ now' = now + 2
    /\ UNCHANGED <<form, said, inflight, row, inGroup, begun>>

Next ==
    \/ \E u \in Users, chat \in Chats, command \in CommandNames \cup {NoCommand} :
          Receive(u, chat, command)
    \/ \E u \in Users : Expire(u)
    \/ Generate
    \/ \E s \in Sources : Store(s) \/ Fail(s)
    \/ Restart
    \/ Tick

Spec == Init /\ [][Next]_vars

-----------------------------------------------------------------------------
(* In a group the bot helps, refuses every other command, and is silent      *)
(* otherwise, whatever forms are open.                                       *)
GroupsAreLeftAlone ==
    /\ inGroup.asked = "help" => inGroup.answer = "help"
    /\ inGroup.asked = "none" => inGroup.answer = "none"
    /\ inGroup.asked = "command" => inGroup.answer = "groupCommandsDisabled"

(* What was said for a field: the answer to its question, or the argument in *)
(* its place: code, length, capacity, then the end or the start and the end. *)
(* A fourth and last argument "endless" says that there is no end.           *)
Told(words, field) ==
    LET given == {i \in DOMAIN words.answers : words.answers[i][1] = field}
        n == Len(words.arguments)
        place == CASE field = "promo" -> 1
                   [] field = "length" -> 2
                   [] field = "capacity" -> 3
                   [] field = "since" -> IF n = 4 THEN 5 ELSE 4
                   [] OTHER -> IF n = 4 /\ words.arguments[4] # Endless THEN 4 ELSE 5
    IN  IF given # {} THEN words.answers[CHOOSE i \in given : TRUE][2]
        ELSE IF place <= n THEN words.arguments[place]
        ELSE None

(* A date that was said, at the moment of the confirmation. *)
Meant(word, at) ==
    CASE "number" \in DOMAIN word -> at + word.number * Day
      [] "date" \in DOMAIN word -> word.date * Day
      [] OTHER -> word.moment

Heard(r, field) ==
    LET word == Told(r.said, field)
    IN  IF word = None THEN None ELSE Meant(word, r.at)

(* The question for the dates was answered with none of its buttons. *)
OffTheButtons(words) ==
    \E i \in DOMAIN words.answers : words.answers[i] = <<"setDates", Text("other")>>

(* A request of a dialogue is what its user said in private since the        *)
(* command, in full, nothing added, and confirmed last, however the          *)
(* arguments and answers were mixed and whatever came in between: groups,    *)
(* expired forms, restarts, other commands.  There is one exception: after   *)
(* an answer off the buttons the bot still asks for the end, and drops it.   *)
RequestsAreAsSaid ==
    \A u \in Users : (inflight[u] # None /\ inflight[u].action # "delete") =>
        LET r == inflight[u]
        IN  /\ Last(r.said.answers) = <<"confirmation", Confirm(r.action)>>
            /\ Code(r.code) = Told(r.said, "promo")
            /\ Number(r.length) = Told(r.said, "length")
            /\ Number(r.capacity) = Told(r.said, "capacity")
            /\ r.since = Heard(r, "since")
            /\ r.until = IF OffTheButtons(r.said) THEN None ELSE Heard(r, "until")

(* A stored validity is not empty, and did not end before the day it was     *)
(* checked, also for a start that is filled in by the database and dates     *)
(* given to the hour; unless midnight passed between the check and the       *)
(* statement.                                                                *)
ValidityIsNotEmpty ==
    \A c \in Codes : (row[c] # None /\ row[c].until # None) =>
        /\ row[c].checked <= row[c].until
        /\ row[c].since <= row[c].until \/ row[c].checked < row[c].stored
=============================================================================
