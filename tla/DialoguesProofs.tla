-------------------------- MODULE DialoguesProofs --------------------------
(***************************************************************************)
(* What comes out of the dialogues is right, for any number of users, any   *)
(* answers and arguments, and any interleaving of forms, groups, expiries   *)
(* and restarts.  The strengthening behind most of it is FormInv: an open   *)
(* form holds, field by field, what its user said in its place.             *)
(***************************************************************************)
EXTENDS Dialogues, SequenceTheorems, TLAPS

-----------------------------------------------------------------------------
(* The first of up to seven places, of handlers or of fields. *)
LEMMA MinIsLeast ==
    ASSUME NEW S \in SUBSET (1..7), S # {}
    PROVE  Min(S) \in S /\ \A j \in S : Min(S) <= j
<1>1. \E i \in S : \A j \in S : i <= j
    <2>1. 1 \in S \/ 2 \in S \/ 3 \in S \/ 4 \in S \/ 5 \in S \/ 6 \in S \/ 7 \in S
        <3>1. PICK i : i \in S
            OBVIOUS
        <3>2. i \in 1..7
            BY <3>1
        <3>3. i = 1 \/ i = 2 \/ i = 3 \/ i = 4 \/ i = 5 \/ i = 6 \/ i = 7
            BY <3>2
        <3> QED BY <3>1, <3>3
    <2>2. CASE 1 \in S
        BY <2>2
    <2>3. CASE 1 \notin S /\ 2 \in S
        BY <2>3
    <2>4. CASE 1 \notin S /\ 2 \notin S /\ 3 \in S
        BY <2>4
    <2>5. CASE 1 \notin S /\ 2 \notin S /\ 3 \notin S /\ 4 \in S
        BY <2>5
    <2>6. CASE 1 \notin S /\ 2 \notin S /\ 3 \notin S /\ 4 \notin S /\ 5 \in S
        BY <2>6
    <2>7. CASE 1 \notin S /\ 2 \notin S /\ 3 \notin S /\ 4 \notin S /\ 5 \notin S
        BY <2>1, <2>7
    <2> QED BY <2>2, <2>3, <2>4, <2>5, <2>6, <2>7
<1> QED BY <1>1 DEF Min

-----------------------------------------------------------------------------
(* In a group, help is for HelpHandler and all else for the guard. *)
LEMMA GroupHandlers ==
    ASSUME NEW command \in CommandNames \cup {NoCommand}
    PROVE  Handler["group"][command] = IF command = "help" THEN "help" ELSE "guard"
<1> DEFINE able == {i \in DOMAIN MessageHandlers : CanHandle(MessageHandlers[i], "group", command)}
<1>1. DOMAIN MessageHandlers = 1..7
    BY DEF MessageHandlers
<1>2. able = IF command = "help" THEN {6, 7} ELSE {7}
    <2>1. \A i \in 1..7 : CanHandle(MessageHandlers[i], "group", command)
              <=> i = 7 \/ (i = 6 /\ command = "help")
        <3> SUFFICES ASSUME NEW i \in 1..7
                     PROVE  CanHandle(MessageHandlers[i], "group", command)
                                <=> i = 7 \/ (i = 6 /\ command = "help")
            OBVIOUS
        <3>1. CASE i \in 1..5
            BY <3>1 DEF MessageHandlers, CanHandle
        <3>2. CASE i = 6
            BY <3>2 DEF MessageHandlers, CanHandle
        <3>3. CASE i = 7
            <4>1. MessageHandlers[i] = "guard"
                BY <3>3 DEF MessageHandlers
            <4> QED BY <3>3, <4>1 DEF CanHandle
        <3> QED BY <3>1, <3>2, <3>3
    <2> QED BY <1>1, <2>1
<1>3. Handler["group"][command] = IF able = {} THEN "none" ELSE MessageHandlers[Min(able)]
    BY DEF Handler, Chats
<1> HIDE DEF able
<1>4. able # {} /\ able \in SUBSET (1..7)
    BY <1>2
<1>5. Min(able) \in able /\ \A j \in able : Min(able) <= j
    BY <1>4, MinIsLeast
<1>6. Min(able) = IF command = "help" THEN 6 ELSE 7
    <2>1. CASE command = "help"
        BY <1>2, <1>5, <2>1
    <2>2. CASE command # "help"
        BY <1>2, <1>5, <2>2
    <2> QED BY <2>1, <2>2
<1>7. MessageHandlers[6] = "help" /\ MessageHandlers[7] = "guard"
    BY DEF MessageHandlers
<1> QED BY <1>3, <1>4, <1>6, <1>7

(* A handler in a group answers as the order of the handlers says it should: *)
(* the guard, which takes every message, comes last.                         *)
THEOREM GroupsAreQuiet == Spec => []GroupsAreLeftAlone
<1>1. Init => GroupsAreLeftAlone
    BY DEF Init, GroupsAreLeftAlone
<1>2. GroupsAreLeftAlone /\ [Next]_vars => GroupsAreLeftAlone'
    <2> SUFFICES ASSUME GroupsAreLeftAlone, [Next]_vars PROVE GroupsAreLeftAlone'
        OBVIOUS
    <2>1. CASE inGroup' = inGroup
        BY <2>1 DEF GroupsAreLeftAlone
    <2>2. ASSUME NEW u \in Users, NEW chat \in Chats, NEW command \in CommandNames \cup {NoCommand},
                 Receive(u, chat, command)
          PROVE  GroupsAreLeftAlone'
        <3>1. CASE Handler[chat][command] = "help" /\ Help(chat, command)
            <4>1. chat = "group" /\ command = "help"
                BY <3>1, GroupHandlers DEF Help, AnswerGroup
            <4> QED BY <3>1, <4>1 DEF Help, AnswerGroup, GroupsAreLeftAlone
        <3>2. CASE Handler[chat][command] = "guard" /\ Guard(chat, command)
            <4>1. chat = "group" /\ command # "help"
                BY <3>2, GroupHandlers DEF Guard, AnswerGroup
            <4> QED BY <3>2, <4>1 DEF Guard, AnswerGroup, GroupsAreLeftAlone, NoCommand
        <3>3. CASE BeginForm(u, command) \/ BeginStats(u) \/ Delete(u) \/ Answer(u, chat, command)
            BY <2>1, <3>3 DEF BeginForm, BeginStats, Delete, Answer
        <3> QED BY <2>2, <3>1, <3>2, <3>3 DEF Receive
    <2>3. ASSUME NEW s \in Sources, Store(s) \/ Fail(s) PROVE GroupsAreLeftAlone'
        BY <2>1, <2>3 DEF Store, Fail
    <2>4. ASSUME NEW u \in Users, Expire(u) PROVE GroupsAreLeftAlone'
        BY <2>1, <2>4 DEF Expire
    <2>5. Generate \/ Restart \/ Tick \/ UNCHANGED vars => inGroup' = inGroup
        BY DEF Generate, Restart, Tick, vars
    <2> QED BY <2>1, <2>2, <2>3, <2>4, <2>5 DEF Next
<1> QED BY <1>1, <1>2, PTL DEF Spec

-----------------------------------------------------------------------------
(* What is said is words. *)
Names == {"promo", "length", "capacity", "setDates", "since", "until", "confirmation"}

LEMMA NamesOfFields ==
    /\ DOMAIN PromoFields = 1..7
    /\ \A i \in 1..7 : PromoFields[i] \in Names
    /\ \A name \in Names : \E i \in 1..7 : PromoFields[i] = name
    /\ \A i \in 1..7 : PromoFields[i] = "confirmation" => i = 7
    /\ PromoFields[7] = "confirmation"
<1>1. /\ PromoFields[1] = "promo" /\ PromoFields[2] = "length" /\ PromoFields[3] = "capacity"
      /\ PromoFields[4] = "setDates" /\ PromoFields[5] = "since" /\ PromoFields[6] = "until"
      /\ PromoFields[7] = "confirmation" /\ DOMAIN PromoFields = 1..7
    BY DEF PromoFields
<1>2. \A i \in 1..7 : i = 1 \/ i = 2 \/ i = 3 \/ i = 4 \/ i = 5 \/ i = 6 \/ i = 7
    OBVIOUS
<1>3. ASSUME NEW name \in Names PROVE \E i \in 1..7 : PromoFields[i] = name
    BY <1>1 DEF Names
<1>4. ASSUME NEW i \in 1..7 PROVE PromoFields[i] \in Names
    BY <1>1, <1>2 DEF Names
<1>5. ASSUME NEW i \in 1..7, PromoFields[i] = "confirmation" PROVE i = 7
    BY <1>1, <1>2, <1>5
<1> QED BY <1>1, <1>3, <1>4, <1>5

LEMMA AnswersAreWords ==
    /\ Answers("promo") = {Code(c) : c \in Codes}
    /\ Answers("length") = Lengths /\ Answers("capacity") = Capacities
    /\ Answers("setDates") = {Both, EndlessPromo, FromNow, Text("other")}
    /\ Answers("since") = Dates /\ Answers("until") = Dates
    /\ None \notin Answers("promo") \cup Lengths \cup Capacities \cup Dates
    /\ None \notin {Both, EndlessPromo, FromNow, Endless}
    /\ \A name \in Names : None \notin Answers(name)
<1>1. \A w \in Texts : Text(w) \in Words
    BY DEF Text, Words
<1>2. \A c \in Codes : Code(c) \in [code: Codes]
    BY DEF Code
<1>3. None \notin Words /\ \A c \in Codes : Code(c) # None
    BY <1>2, WordsAssumption
<1>4. {Both, EndlessPromo, FromNow, Endless, Text("other"),
       Text("actionCancel"), Text("actionCreate"), Text("actionUpdate")} \subseteq Words
    <2>1. /\ Both \in Words /\ EndlessPromo \in Words /\ FromNow \in Words /\ Endless \in Words
          /\ Text("other") \in Words /\ Text("actionCancel") \in Words
          /\ Text("actionCreate") \in Words /\ Text("actionUpdate") \in Words
        BY <1>1 DEF Both, EndlessPromo, FromNow, Endless, Texts
    <2> QED BY <2>1
<1>5. Lengths \cup Capacities \cup Dates \subseteq Words
    BY WordsAssumption
<1>6. /\ Answers("promo") = {Code(c) : c \in Codes}
      /\ Answers("length") = Lengths /\ Answers("capacity") = Capacities
      /\ Answers("setDates") = {Both, EndlessPromo, FromNow, Text("other")}
      /\ Answers("since") = Dates /\ Answers("until") = Dates
    BY DEF Answers
<1>7. Answers("confirmation") = {Confirm("promo"), Confirm("edit"), Text("actionCancel"), Text("other")}
    BY DEF Answers
<1>8. Answers("confirmation") \subseteq Words
    BY <1>4, <1>7 DEF Confirm
<1>9. ASSUME NEW name \in Names PROVE None \notin Answers(name)
    BY <1>3, <1>4, <1>5, <1>6, <1>8 DEF Names
<1> QED BY <1>3, <1>4, <1>5, <1>6, <1>9

(* The choices are different words. *)
LEMMA ChoicesDiffer ==
    /\ Both # EndlessPromo /\ Both # FromNow /\ EndlessPromo # FromNow
    /\ Both # Text("other") /\ EndlessPromo # Text("other") /\ FromNow # Text("other")
BY DEF Both, EndlessPromo, FromNow, Text

(* What parseArguments returns. *)
LEMMA ArgumentsAreWords ==
    ASSUME NEW a \in Arguments
    PROVE  /\ Len(a) \in 0..5
           /\ Len(a) >= 1 => a[1] \in Answers("promo")
           /\ Len(a) >= 2 => a[2] \in Lengths
           /\ Len(a) >= 3 => a[3] \in Capacities
           /\ Len(a) = 4 => a[4] \in Dates \cup {Endless}
           /\ Len(a) = 5 => a[4] \in Dates /\ a[5] \in Dates
<1> DEFINE W == UNION {Answers("promo"), Lengths, Capacities, Dates, {Endless}}
           Fits(n, i, word) == word \in CASE i = 1 -> Answers("promo")
                                          [] i = 2 -> Lengths
                                          [] i = 3 -> Capacities
                                          [] OTHER -> IF n = 4 THEN Dates \cup {Endless}
                                                      ELSE Dates
<1>1. PICK n \in 0..5 : a \in [1..n -> W] /\ \A i \in 1..n : Fits(n, i, a[i])
    BY DEF Arguments
<1>2. Len(a) = n
    BY <1>1
<1> HIDE DEF W
<1>3. \A i \in 1..n : Fits(n, i, a[i])
    BY <1>1
<1>4. n >= 1 => a[1] \in Answers("promo")
    BY <1>3
<1>5. n >= 2 => a[2] \in Lengths
    BY <1>3
<1>6. n >= 3 => a[3] \in Capacities
    BY <1>3
<1>7. n = 4 => a[4] \in Dates \cup {Endless}
    BY <1>3
<1>8. n = 5 => a[4] \in Dates /\ a[5] \in Dates
    BY <1>3
<1> QED BY <1>2, <1>4, <1>5, <1>6, <1>7, <1>8

(* What addPromoFieldsFromArgs fills in. *)
LEMMA PrefilledFits ==
    ASSUME NEW a \in Arguments
    PROVE  /\ DOMAIN Prefilled(a) = Names
           /\ \A name \in Names : Prefilled(a)[name] = None \/ Prefilled(a)[name] \in Answers(name)
           /\ Prefilled(a)["confirmation"] = None
           /\ Prefilled(a)["since"] # None => Prefilled(a)["setDates"] = Both
           /\ Prefilled(a)["until"] # None => Prefilled(a)["setDates"] \in {Both, FromNow}
           /\ Prefilled(a)["setDates"] # Text("other")
<1> DEFINE n == Len(a)
           p == Prefilled(a)
<1>1. /\ n \in 0..5
      /\ n >= 1 => a[1] \in Answers("promo")
      /\ n >= 2 => a[2] \in Lengths
      /\ n >= 3 => a[3] \in Capacities
      /\ n = 4 => a[4] \in Dates \cup {Endless}
      /\ n = 5 => a[4] \in Dates /\ a[5] \in Dates
    BY ArgumentsAreWords
<1>2. /\ p.promo = IF 1 <= n THEN a[1] ELSE None
      /\ p.length = IF 2 <= n THEN a[2] ELSE None
      /\ p.capacity = IF 3 <= n THEN a[3] ELSE None
      /\ p.setDates = CASE n >= 5 -> Both
                        [] n = 4 /\ IsEndlessArg(a[4]) -> EndlessPromo
                        [] n = 4 /\ ~(n = 4 /\ IsEndlessArg(a[4])) -> FromNow
                        [] OTHER -> None
      /\ p.since = IF n >= 5 THEN a[4] ELSE None
      /\ p.until = CASE n >= 5 -> a[5]
                     [] n = 4 /\ ~(n = 4 /\ IsEndlessArg(a[4])) -> a[4]
                     [] OTHER -> None
      /\ p.confirmation = None
    BY DEF Prefilled
<1>3. DOMAIN p = Names
    BY DEF Prefilled, Names
<1> HIDE DEF n, p
<1>4. p.promo = None \/ p.promo \in Answers("promo")
    BY <1>1, <1>2
<1>5. p.length = None \/ p.length \in Answers("length")
    BY <1>1, <1>2, AnswersAreWords
<1>6. p.capacity = None \/ p.capacity \in Answers("capacity")
    BY <1>1, <1>2, AnswersAreWords
<1>7. p.setDates = None \/ p.setDates \in Answers("setDates")
    BY <1>2, AnswersAreWords
<1>8. p.since = None \/ p.since \in Answers("since")
    BY <1>1, <1>2, AnswersAreWords
<1>9. p.until = None \/ p.until \in Answers("until")
    BY <1>1, <1>2, AnswersAreWords DEF IsEndlessArg
<1>10. p.since # None => p.setDates = Both
    BY <1>1, <1>2
<1>11. p.until # None => p.setDates \in {Both, FromNow}
    BY <1>1, <1>2
<1>12. p.setDates # Text("other")
    <2>1. None # Text("other")
        BY AnswersAreWords DEF Names
    <2>2. p.setDates \in {Both, EndlessPromo, FromNow, None}
        BY <1>1, <1>2
    <2> QED BY <2>1, <2>2, ChoicesDiffer
<1>13. ASSUME NEW name \in Names PROVE p[name] = None \/ p[name] \in Answers(name)
    BY <1>2, <1>4, <1>5, <1>6, <1>7, <1>8, <1>9 DEF Names
<1> QED BY <1>2, <1>3, <1>10, <1>11, <1>12, <1>13 DEF p

-----------------------------------------------------------------------------
(* Field by field, an open form holds the answer to the field's question, if *)
(* it was asked, or else what the arguments say.                             *)
AnyAnswer == UNION {Answers(name) : name \in Names}
Speech == [arguments: Arguments, answers: Seq(Names \X AnyAnswer)]

FormOf(data, words) ==
    /\ DOMAIN data = Names
    /\ \A name \in Names : data[name] = None \/ data[name] \in Answers(name)
    /\ data["since"] # None => data["setDates"] = Both
    /\ data["until"] # None => data["setDates"] \in {Both, FromNow, Text("other")}
    /\ words \in Speech
    /\ \A i \in 1..Len(words.answers) :
          LET name == words.answers[i][1]
          IN  /\ data[name] # None /\ data[name] = words.answers[i][2]
              /\ Prefilled(words.arguments)[name] = None
    /\ \A name \in Names :
          data[name] = Prefilled(words.arguments)[name] \/ \E i \in 1..Len(words.answers) : words.answers[i][1] = name

LEMMA NewForm ==
    ASSUME NEW a \in Arguments
    PROVE  FormOf(Prefilled(a), [arguments |-> a, answers |-> <<>>])
<1> DEFINE words == [arguments |-> a, answers |-> <<>>]
<1>1. words \in Speech
    BY DEF Speech
<1>2. words.answers = <<>> /\ words.arguments = a /\ Len(words.answers) = 0
    OBVIOUS
<1>3. 1..0 = {}
    OBVIOUS
<1> HIDE DEF words
<1>4. FormOf(Prefilled(a), words)
    BY <1>1, <1>2, <1>3, PrefilledFits DEF FormOf
<1> QED BY <1>4 DEF words

(* The library asks the first question that is left. *)
LEMMA Asked ==
    ASSUME NEW data, data["confirmation"] = None, NEW asked,
           asked = PromoFields[Min(Unanswered(PromoFields, data))]
    PROVE  /\ asked \in Names /\ data[asked] = None /\ ~Skipped(asked, data)
           /\ asked = "until" => data["setDates"] # None
           /\ asked = "confirmation" => \A name \in Names :
                  name = "confirmation" \/ data[name] # None \/ Skipped(name, data)
<1> DEFINE U == Unanswered(PromoFields, data)
<1>1. U \in SUBSET (1..7) /\ \A i \in 1..7 : i \in U <=> data[PromoFields[i]] = None /\ ~Skipped(PromoFields[i], data)
    BY NamesOfFields DEF Unanswered
<1>2. 7 \in U
    BY <1>1, NamesOfFields DEF Skipped
<1>3. Min(U) \in U /\ \A j \in U : Min(U) <= j
    BY <1>1, <1>2, MinIsLeast
<1>4. asked \in Names /\ data[asked] = None /\ ~Skipped(asked, data)
    BY <1>1, <1>3, NamesOfFields
<1>5. ASSUME asked = "confirmation", NEW name \in Names, name # "confirmation"
      PROVE  data[name] # None \/ Skipped(name, data)
    <2>1. Min(U) = 7
        BY <1>1, <1>3, <1>5, NamesOfFields
    <2>2. PICK i \in 1..7 : PromoFields[i] = name
        BY NamesOfFields
    <2>3. i # 7
        BY <1>5, <2>2, NamesOfFields
    <2>4. i \notin U
        BY <1>3, <2>1, <2>3
    <2> QED BY <1>1, <2>2, <2>4
<1>6. ASSUME asked = "until" PROVE data["setDates"] # None
    <2>1. Min(U) \in 1..7 /\ PromoFields[Min(U)] = "until"
        BY <1>1, <1>3, <1>6
    <2>2. Min(U) = 6 /\ PromoFields[4] = "setDates"
        BY <2>1 DEF PromoFields
    <2>3. 4 \notin U
        BY <1>3, <2>2
    <2> QED BY <1>1, <2>2, <2>3 DEF Skipped
<1> QED BY <1>4, <1>5, <1>6

(* Nothing is asked once all is answered or skipped, and the other way round. *)
LEMMA Complete ==
    ASSUME NEW data
    PROVE  Unanswered(PromoFields, data) = {} <=>
               \A name \in Names : data[name] # None \/ Skipped(name, data)
BY NamesOfFields DEF Unanswered

Turn(data, words, asked, word, after, all) ==
    /\ FormOf(data, words) /\ data["confirmation"] = None
    /\ asked = PromoFields[Min(Unanswered(PromoFields, data))]
    /\ word \in Answers(asked)
    /\ after = [data EXCEPT ![asked] = word]
    /\ all = [words EXCEPT !.answers = Append(@, <<asked, word>>)]

LEMMA NextAnswer ==
    ASSUME NEW data, NEW words, NEW asked, NEW word, NEW after, NEW all,
           Turn(data, words, asked, word, after, all)
    PROVE  /\ FormOf(after, all)
           /\ Unanswered(PromoFields, after) = {} <=> asked = "confirmation"
           /\ after["confirmation"] = None <=> asked # "confirmation"
           /\ Last(all.answers) = <<asked, word>>
<1>0. /\ FormOf(data, words) /\ data["confirmation"] = None
      /\ asked = PromoFields[Min(Unanswered(PromoFields, data))]
      /\ word \in Answers(asked)
      /\ after = [data EXCEPT ![asked] = word]
      /\ all = [words EXCEPT !.answers = Append(@, <<asked, word>>)]
    BY DEF Turn
<1> USE <1>0
<1>1. /\ asked \in Names /\ data[asked] = None /\ ~Skipped(asked, data)
      /\ asked = "until" => data["setDates"] # None
      /\ asked = "confirmation" => \A name \in Names :
             name = "confirmation" \/ data[name] # None \/ Skipped(name, data)
    BY Asked
<1>2. word # None
    BY <1>1, AnswersAreWords
<1>3. /\ DOMAIN data = Names
      /\ \A name \in Names : data[name] = None \/ data[name] \in Answers(name)
      /\ data["since"] # None => data["setDates"] = Both
      /\ data["until"] # None => data["setDates"] \in {Both, FromNow, Text("other")}
    BY DEF FormOf
<1>4. /\ DOMAIN after = Names
      /\ \A name \in Names : after[name] = IF name = asked THEN word ELSE data[name]
    BY <1>3
<1>5. /\ words.arguments \in Arguments /\ words.answers \in Seq(Names \X AnyAnswer)
      /\ \A i \in 1..Len(words.answers) :
            LET name == words.answers[i][1]
            IN  /\ data[name] # None /\ data[name] = words.answers[i][2]
                /\ Prefilled(words.arguments)[name] = None
      /\ \A name \in Names :
            data[name] = Prefilled(words.arguments)[name] \/ \E i \in 1..Len(words.answers) : words.answers[i][1] = name
    BY DEF FormOf, Speech
<1>6. word \in AnyAnswer
    BY <1>1 DEF AnyAnswer
<1>7. PICK old : old = words.answers
    OBVIOUS
<1>8. all.arguments = words.arguments /\ all.answers = Append(old, <<asked, word>>)
      /\ all = [arguments |-> words.arguments, answers |-> Append(old, <<asked, word>>)]
    <2>1. all = [words EXCEPT !.answers = Append(old, <<asked, word>>)]
        BY <1>7
    <2>2. words \in Speech
        BY DEF FormOf
    <2> QED BY <2>1, <2>2 DEF Speech
<1>9. /\ all.answers \in Seq(Names \X AnyAnswer) /\ Len(all.answers) = Len(old) + 1 /\ Len(old) \in Nat
      /\ \A i \in 1..Len(old) : all.answers[i] = old[i]
      /\ all.answers[Len(old) + 1] = <<asked, word>>
    <2>1. old \in Seq(Names \X AnyAnswer) /\ <<asked, word>> \in Names \X AnyAnswer
        BY <1>1, <1>5, <1>6, <1>7
    <2>2. PICK new : new = <<asked, word>>
        OBVIOUS
    <2>3. new \in Names \X AnyAnswer
        BY <2>1, <2>2
    <2>4. /\ Append(old, new) \in Seq(Names \X AnyAnswer) /\ Len(Append(old, new)) = Len(old) + 1
          /\ \A i \in 1..Len(old) : Append(old, new)[i] = old[i]
          /\ Append(old, new)[Len(old) + 1] = new
        BY <2>1, <2>3, AppendProperties
    <2>5. Len(old) \in Nat
        BY <2>1
    <2> QED BY <1>8, <2>2, <2>4, <2>5
<1>10. all \in Speech
    BY <1>5, <1>8, <1>9 DEF Speech
<1>11. Last(all.answers) = <<asked, word>>
    BY <1>9 DEF Last
<1>12. after["since"] # None => after["setDates"] = Both
    <2>1. CASE asked = "since"
        BY <1>1, <1>4, <2>1 DEF Skipped, Names
    <2>2. CASE asked = "setDates"
        <3>1. data["since"] = None
            BY <1>1, <1>3, <2>2, AnswersAreWords
        <3> QED BY <1>4, <2>2, <3>1 DEF Names
    <2>3. CASE asked # "since" /\ asked # "setDates"
        BY <1>3, <1>4, <2>3 DEF Names
    <2> QED BY <2>1, <2>2, <2>3
<1>14. ASSUME NEW i \in 1..Len(all.answers), NEW name, name = all.answers[i][1]
       PROVE  /\ after[name] # None /\ after[name] = all.answers[i][2]
              /\ Prefilled(words.arguments)[name] = None
    <2>1. CASE i = Len(old) + 1
        <3>1. name = asked /\ all.answers[i][2] = word
            BY <1>9, <1>14, <2>1
        <3>2. after[asked] = word
            BY <1>1, <1>4
        <3>3. Prefilled(words.arguments)[asked] = None
            <4>1. data[asked] = Prefilled(words.arguments)[asked] \/ \E j \in 1..Len(old) : old[j][1] = asked
                BY <1>1, <1>5, <1>7
            <4>2. ASSUME NEW j \in 1..Len(old), old[j][1] = asked PROVE FALSE
                BY <1>1, <1>5, <1>7, <4>2
            <4> QED BY <1>1, <4>1, <4>2
        <3> QED BY <1>2, <3>1, <3>2, <3>3
    <2>2. CASE i # Len(old) + 1
        <3>1. i \in 1..Len(old) /\ all.answers[i] = old[i]
            BY <1>9, <2>2
        <3>2. /\ data[name] # None /\ data[name] = old[i][2]
              /\ Prefilled(words.arguments)[name] = None
            BY <1>5, <1>7, <1>14, <3>1
        <3>3. old \in Seq(Names \X AnyAnswer) /\ old[i] \in Names \X AnyAnswer
            BY <1>5, <1>7, <3>1
        <3>4. name \in Names /\ name # asked
            BY <1>1, <1>14, <3>1, <3>2, <3>3
        <3> QED BY <1>4, <3>1, <3>2, <3>4
    <2> QED BY <2>1, <2>2
<1>15. ASSUME NEW name \in Names
       PROVE  \/ after[name] = Prefilled(words.arguments)[name]
              \/ \E i \in 1..Len(all.answers) : all.answers[i][1] = name
    <2>1. CASE name = asked
        <3>1. Len(old) + 1 \in 1..Len(all.answers)
            BY <1>9
        <3>2. all.answers[Len(old) + 1][1] = name
            BY <1>9, <2>1
        <3> QED BY <3>1, <3>2
    <2>2. CASE name # asked
        <3>1. after[name] = data[name]
            BY <1>4, <2>2
        <3>2. CASE \E i \in 1..Len(old) : old[i][1] = name
            <4>1. PICK i \in 1..Len(old) : old[i][1] = name
                BY <3>2
            <4>2. i \in 1..Len(all.answers) /\ all.answers[i][1] = name
                BY <1>9, <4>1
            <4> QED BY <4>2
        <3> QED BY <1>5, <1>7, <3>1, <3>2
    <2> QED BY <2>1, <2>2
<1>16. \A name \in Names : after[name] = None \/ after[name] \in Answers(name)
    BY <1>1, <1>3, <1>4
<1>13. after["until"] # None => after["setDates"] \in {Both, FromNow, Text("other")}
    <2>1. CASE asked = "until"
        <3>1. data["setDates"] \in {Both, EndlessPromo, FromNow, Text("other")}
            BY <1>1, <1>3, <2>1, AnswersAreWords DEF Names
        <3>2. data["setDates"] # EndlessPromo
            BY <1>1, <2>1 DEF Skipped
        <3> QED BY <1>4, <2>1, <3>1, <3>2 DEF Names
    <2>2. CASE asked = "setDates"
        <3>1. data["until"] = None
            BY <1>1, <1>3, <2>2, AnswersAreWords DEF Names
        <3> QED BY <1>4, <2>2, <3>1 DEF Names
    <2>3. CASE asked # "until" /\ asked # "setDates"
        BY <1>3, <1>4, <2>3 DEF Names
    <2> QED BY <2>1, <2>2, <2>3
<1>17. FormOf(after, all)
    BY <1>4, <1>8, <1>10, <1>12, <1>14, <1>15, <1>16, <1>13 DEF FormOf
<1>18. after["confirmation"] = None <=> asked # "confirmation"
    BY <1>1, <1>2, <1>4 DEF Names
<1>19. ASSUME asked = "confirmation" PROVE Unanswered(PromoFields, after) = {}
    <2>1. after["setDates"] = data["setDates"]
        BY <1>4, <1>19 DEF Names
    <2>2. \A name \in Names : Skipped(name, data) => Skipped(name, after)
        BY <2>1 DEF Skipped
    <2>3. \A name \in Names : after[name] # None \/ Skipped(name, after)
        BY <1>1, <1>2, <1>4, <1>19, <2>2
    <2> QED BY <2>3, Complete
<1>20. ASSUME Unanswered(PromoFields, after) = {} PROVE asked = "confirmation"
    <2>1. after["confirmation"] # None \/ Skipped("confirmation", after)
        BY <1>20, Complete DEF Names
    <2> QED BY <1>18, <2>1 DEF Skipped
<1> QED BY <1>11, <1>17, <1>18, <1>19, <1>20

-----------------------------------------------------------------------------
(* The invariant of the forms. *)
Drafting(u) == form[u] # None /\ form[u].command # "stats"

FormInv ==
    /\ DOMAIN form = Users /\ DOMAIN said = Users
    /\ \A u \in Users : form[u] # None => DOMAIN form[u] = {"command", "data"}
    /\ \A u \in Users : Drafting(u) =>
           /\ form[u].command \in {"promo", "edit"}
           /\ FormOf(form[u].data, said[u])
           /\ form[u].data["confirmation"] = None

(* The last answer: what the action gets. *)
Finished(f, words) ==
    /\ f.command \in {"promo", "edit"}
    /\ FormOf(f.data, words)
    /\ Unanswered(PromoFields, f.data) = {}
    /\ Last(words.answers) = <<"confirmation", f.data["confirmation"]>>

LEMMA FormHandlers ==
    ASSUME NEW chat \in Chats, NEW command \in CommandNames \cup {NoCommand},
           Handler[chat][command] \in {"promo", "edit"}
    PROVE  command \in {"promo", "edit"}
<1> DEFINE able == {i \in DOMAIN MessageHandlers : CanHandle(MessageHandlers[i], chat, command)}
<1>1. Handler[chat][command] = IF able = {} THEN "none" ELSE MessageHandlers[Min(able)]
    BY DEF Handler
<1>2. DOMAIN MessageHandlers = 1..7
    BY DEF MessageHandlers
<1>3. able \in SUBSET (1..7) /\ able # {}
    BY <1>1, <1>2
<1>4. Min(able) \in able
    BY <1>3, MinIsLeast
<1>5. PICK handler : handler = Handler[chat][command]
    OBVIOUS
<1>6. CanHandle(handler, chat, command)
    BY <1>1, <1>3, <1>4, <1>5
<1>7. handler \in {"promo", "edit"}
    BY <1>5
<1> QED BY <1>6, <1>7 DEF CanHandle

LEMMA OnlyInPrivate ==
    ASSUME NEW chat \in Chats, NEW command \in CommandNames \cup {NoCommand},
           Handler[chat][command] = "none"
    PROVE  chat = "private"
BY GroupHandlers DEF Chats

(* An answer fills in the next field of a form that stays open, closes a     *)
(* /stats form, or finishes one.                                             *)
LEMMA WhatAnswersDo ==
    ASSUME FormInv, NEW u \in Users, Answer(u, "private", NoCommand)
    PROVE  \/ /\ UNCHANGED inflight
              /\ \E f, words : /\ form' = [form EXCEPT ![u] = f]
                               /\ said' = [said EXCEPT ![u] = words]
                               /\ f # None => DOMAIN f = {"command", "data"}
                               /\ \/ f = None
                                  \/ f.command = "stats"
                                  \/ /\ f.command \in {"promo", "edit"}
                                     /\ FormOf(f.data, words)
                                     /\ f.data["confirmation"] = None
           \/ /\ form' = [form EXCEPT ![u] = None]
              /\ \E words : said' = [said EXCEPT ![u] = words]
              /\ \E f, words : Finished(f, words) /\ Act(u, f, words)
<1> DEFINE asked == Question(form[u])
           Filled(word) == [form[u] EXCEPT !.data[asked] = word]
           Spoken(word) == [said[u] EXCEPT !.answers = Append(@, <<asked, word>>)]
<1>1. form[u] # None
    BY DEF Answer
<1>2. PICK word \in Answers(asked) :
          IF Unanswered(Fields(Filled(word)), Filled(word).data) # {}
          THEN /\ form' = [form EXCEPT ![u] = Filled(word)]
               /\ said' = [said EXCEPT ![u] = Spoken(word)]
               /\ UNCHANGED inflight
          ELSE /\ form' = [form EXCEPT ![u] = None]
               /\ said' = [said EXCEPT ![u] = Silence]
               /\ IF Filled(word).command = "stats" THEN UNCHANGED inflight
                  ELSE Act(u, Filled(word), Spoken(word))
    BY DEF Answer
<1>3. PICK f : f = Filled(word)
    OBVIOUS
<1>4. PICK all : all = Spoken(word)
    OBVIOUS
<1>5. IF Unanswered(Fields(f), f.data) # {}
      THEN /\ form' = [form EXCEPT ![u] = f]
           /\ said' = [said EXCEPT ![u] = all]
           /\ UNCHANGED inflight
      ELSE /\ form' = [form EXCEPT ![u] = None]
           /\ said' = [said EXCEPT ![u] = Silence]
           /\ IF f.command = "stats" THEN UNCHANGED inflight ELSE Act(u, f, all)
    BY <1>2, <1>3, <1>4
<1>6. DOMAIN form[u] = {"command", "data"} /\ DOMAIN f = {"command", "data"}
    BY <1>1, <1>3 DEF FormInv
<1>7. CASE f.command = "stats"
    BY <1>5, <1>6, <1>7
<1>8. CASE f.command # "stats"
    <2>1. PICK data : data = form[u].data
        OBVIOUS
    <2>2. PICK after : after = [data EXCEPT ![asked] = word]
        OBVIOUS
    <2>3. f = [form[u] EXCEPT !.data = after]
        BY <1>3, <2>1, <2>2
    <2>4. asked = IF form[u].command = "stats"
                  THEN <<"code">>[Min(Unanswered(<<"code">>, form[u].data))]
                  ELSE PromoFields[Min(Unanswered(PromoFields, form[u].data))]
        BY DEF Question, Fields
    <2>5. all = [said[u] EXCEPT !.answers = Append(@, <<asked, word>>)]
        BY <1>4
    <2> HIDE DEF asked, Filled, Spoken
    <2>6. form[u].command = f.command /\ f.data = after
        BY <1>6, <2>3
    <2>7. /\ f.command \in {"promo", "edit"} /\ FormOf(data, said[u])
          /\ data["confirmation"] = None
        BY <1>1, <1>8, <2>1, <2>6 DEF FormInv, Drafting
    <2>8. asked = PromoFields[Min(Unanswered(PromoFields, data))]
        BY <1>8, <2>1, <2>4, <2>6
    <2>9. /\ FormOf(after, all)
          /\ Unanswered(PromoFields, after) = {} <=> asked = "confirmation"
          /\ after["confirmation"] = None <=> asked # "confirmation"
          /\ Last(all.answers) = <<asked, word>>
        <3>1. PICK question : question = asked
            OBVIOUS
        <3>2. PICK words : words = said[u]
            OBVIOUS
        <3>3. word \in Answers(question) /\ question = PromoFields[Min(Unanswered(PromoFields, data))]
            BY <2>8, <3>1
        <3>4. after = [data EXCEPT ![question] = word]
            BY <2>2, <3>1
        <3>5. all = [words EXCEPT !.answers = Append(@, <<question, word>>)]
            BY <2>5, <3>1, <3>2
        <3>6. FormOf(data, words) /\ data["confirmation"] = None
            BY <2>7, <3>2
        <3>7. Turn(data, words, question, word, after, all)
            BY <3>3, <3>4, <3>5, <3>6 DEF Turn
        <3>8. /\ FormOf(after, all)
              /\ Unanswered(PromoFields, after) = {} <=> question = "confirmation"
              /\ after["confirmation"] = None <=> question # "confirmation"
              /\ Last(all.answers) = <<question, word>>
            BY <3>7, NextAnswer
        <3> QED BY <3>1, <3>8
    <2>10. Fields(f) = PromoFields
        BY <1>8 DEF Fields
    <2>11. CASE Unanswered(PromoFields, after) # {}
        <3>1. form' = [form EXCEPT ![u] = f] /\ said' = [said EXCEPT ![u] = all] /\ UNCHANGED inflight
            BY <1>5, <2>6, <2>10, <2>11
        <3>2. f.command \in {"promo", "edit"} /\ FormOf(f.data, all) /\ f.data["confirmation"] = None
            BY <2>6, <2>7, <2>9, <2>11
        <3> QED BY <1>6, <3>1, <3>2
    <2>12. CASE Unanswered(PromoFields, after) = {}
        <3>1. /\ form' = [form EXCEPT ![u] = None] /\ said' = [said EXCEPT ![u] = Silence]
              /\ Act(u, f, all)
            BY <1>5, <1>8, <2>6, <2>10, <2>12
        <3>2. after["confirmation"] = word
            BY <2>2, <2>7, <2>9, <2>12 DEF FormOf, Names
        <3>3. Finished(f, all)
            BY <2>6, <2>7, <2>9, <2>12, <3>2 DEF Finished
        <3> QED BY <3>1, <3>3
    <2> QED BY <2>11, <2>12
<1> QED BY <1>7, <1>8

THEOREM FormsAreKept == Spec => []FormInv
<1>1. Init => FormInv
    BY DEF Init, FormInv, Drafting
<1>2. FormInv /\ [Next]_vars => FormInv'
    <2> SUFFICES ASSUME FormInv, [Next]_vars PROVE FormInv'
        OBVIOUS
    <2>1. CASE UNCHANGED <<form, said>>
        BY <2>1 DEF FormInv, Drafting, Unanswered
    <2>2. ASSUME NEW u \in Users, NEW f, NEW words,
                 form' = [form EXCEPT ![u] = f], said' = [said EXCEPT ![u] = words],
                 f # None => DOMAIN f = {"command", "data"},
                 \/ f = None
                 \/ f.command = "stats"
                 \/ /\ f.command \in {"promo", "edit"}
                    /\ FormOf(f.data, words)
                    /\ f.data["confirmation"] = None
          PROVE  FormInv'
        BY <2>2 DEF FormInv, Drafting
    <2>3. ASSUME NEW u \in Users, NEW command \in {"promo", "edit"}, BeginForm(u, command)
          PROVE  FormInv'
        <3>1. PICK a \in Arguments :
                  /\ form' = [form EXCEPT ![u] = [command |-> command, data |-> Prefilled(a)]]
                  /\ said' = [said EXCEPT ![u] = [arguments |-> a, answers |-> <<>>]]
            BY <2>3 DEF BeginForm
        <3>2. FormOf(Prefilled(a), [arguments |-> a, answers |-> <<>>])
              /\ Prefilled(a)["confirmation"] = None
            BY NewForm, PrefilledFits
        <3>3. PICK f : f = [command |-> command, data |-> Prefilled(a)]
            OBVIOUS
        <3>4. f.command = command /\ f.data = Prefilled(a) /\ DOMAIN f = {"command", "data"}
            BY <3>3
        <3> QED BY <2>2, <3>1, <3>2, <3>3, <3>4
    <2>4. ASSUME NEW u \in Users, BeginStats(u) PROVE FormInv'
        <3>1. PICK f : f = [command |-> "stats", data |-> [code |-> None]]
            OBVIOUS
        <3>2. f.command = "stats" /\ DOMAIN f = {"command", "data"}
            BY <3>1
        <3>3. form' = [form EXCEPT ![u] = f] /\ said' = [said EXCEPT ![u] = Silence]
            BY <2>4, <3>1 DEF BeginStats
        <3> QED BY <2>2, <3>2, <3>3
    <2>5. ASSUME NEW u \in Users, Answer(u, "private", NoCommand) PROVE FormInv'
        BY <2>2, <2>5, WhatAnswersDo
    <2>6. ASSUME NEW u \in Users, NEW chat \in Chats, NEW command \in CommandNames \cup {NoCommand},
                 Receive(u, chat, command)
          PROVE  FormInv'
        <3>1. CASE Handler[chat][command] \in {"promo", "edit"} /\ BeginForm(u, command)
            BY <2>3, <3>1, FormHandlers
        <3>2. CASE Handler[chat][command] = "none" /\ Answer(u, chat, command)
            <4>1. chat = "private" /\ command = NoCommand
                BY <3>2, OnlyInPrivate DEF Answer
            <4> QED BY <2>5, <3>2, <4>1
        <3>3. CASE BeginStats(u)
            BY <2>4, <3>3
        <3>4. CASE Delete(u) \/ Help(chat, command) \/ Guard(chat, command)
            BY <2>1, <3>4 DEF Delete, Help, Guard, AnswerGroup
        <3> QED BY <2>6, <3>1, <3>2, <3>3, <3>4 DEF Receive
    <2>7. ASSUME NEW u \in Users, Expire(u) PROVE FormInv'
        BY <2>2, <2>7 DEF Expire
    <2>8. ASSUME NEW s \in Sources, Store(s) \/ Fail(s) PROVE FormInv'
        BY <2>1, <2>8 DEF Store, Fail
    <2>9. Generate \/ Restart \/ Tick \/ UNCHANGED vars => UNCHANGED <<form, said>>
        BY DEF Generate, Restart, Tick, vars
    <2> QED BY <2>1, <2>6, <2>7, <2>8, <2>9 DEF Next
<1> QED BY <1>1, <1>2, PTL DEF Spec

-----------------------------------------------------------------------------
(* Dates are moments. *)
LEMMA WrappedIsNumber ==
    ASSUME NEW n \in Int
    PROVE  Wrapped(n) \in Int
<1>1. DurationRange \in Nat /\ DurationRange > 0
    BY DayAssumption
<1>2. \A m, d \in Int : d > 0 => (m % d) \in Int
    OBVIOUS
<1>3. ((n + DurationRange) % (2 * DurationRange)) \in Int
    BY <1>1, <1>2
<1> QED BY <1>1, <1>3 DEF Wrapped

LEMMA DatesAreMoments ==
    ASSUME now \in Int, NEW word \in Words, IsDate(word)
    PROVE  ParseDate(word) \in Int
<1>1. Day \in Int
    BY DayAssumption
<1>2. CASE word \in [number: Int]
    <2>1. "number" \in DOMAIN word /\ "date" \notin DOMAIN word /\ word.number \in Int
        BY <1>2
    <2>2. word.number * Day \in Int
        BY <1>1, <2>1
    <2>3. ParseDate(word) = now + Wrapped(word.number * Day)
        BY <2>1 DEF ParseDate, DaysFromNow
    <2> QED BY <2>2, <2>3, WrappedIsNumber
<1>3. CASE word \in [date: Int]
    <2>1. "number" \notin DOMAIN word /\ "date" \in DOMAIN word /\ word.date \in Int
        BY <1>3
    <2>2. ParseDate(word) = word.date * Day
        BY <2>1 DEF ParseDate
    <2> QED BY <1>1, <2>1, <2>2
<1>4. CASE word \in [moment: Int]
    <2>1. "number" \notin DOMAIN word /\ "date" \notin DOMAIN word /\ word.moment \in Int
        BY <1>4
    <2>2. ParseDate(word) = word.moment
        BY <2>1 DEF ParseDate
    <2> QED BY <2>1, <2>2
<1>5. CASE word \in [text: Texts]
    <2>1. DOMAIN word = {"text"}
        BY <1>5
    <2> QED BY <2>1 DEF IsDate
<1> QED BY <1>2, <1>3, <1>4, <1>5 DEF Words

(* The dates the action needs were asked for. *)
LEMMA NeededIsThere ==
    ASSUME NEW f, NEW words, Finished(f, words), NEW field \in Needed(f.data.setDates)
    PROVE  f.data[field] \in Dates /\ f.data[field] \in Words
<1>1. PICK data : data = f.data
    OBVIOUS
<1>2. /\ \A name \in Names : data[name] = None \/ data[name] \in Answers(name)
      /\ \A name \in Names : data[name] # None \/ Skipped(name, data)
    BY <1>1, Complete DEF Finished, FormOf
<1>3. /\ field = "since" => data.setDates = Both
      /\ field = "until" => data.setDates = Both \/ data.setDates = FromNow
      /\ field \in {"since", "until"}
    BY <1>1 DEF Needed
<1>4. ~Skipped(field, data)
    BY <1>3, ChoicesDiffer DEF Skipped
<1>5. field \in Names
    BY <1>3 DEF Names
<1>6. data[field] \in Answers(field)
    BY <1>2, <1>4, <1>5
<1> QED BY <1>1, <1>3, <1>6, AnswersAreWords, WordsAssumption

-----------------------------------------------------------------------------
(* NewPromo let a request pass at some moment before now. *)
RequestValid(r) ==
    /\ r.at \in Int
    /\ r.since = None \/ r.since \in Int
    /\ r.until = None \/ r.until \in Int
    /\ r.until # None => r.at < r.until
    /\ (r.since # None /\ r.until # None) => r.since <= r.until

RowValid(p) ==
    p.until # None =>
        /\ p.checked <= p.until
        /\ p.since <= p.until \/ p.checked < p.stored

ValidInv ==
    /\ now \in Int
    /\ DOMAIN inflight = Sources /\ DOMAIN row = Codes
    /\ \A s \in Sources : inflight[s] # None =>
           RequestValid(inflight[s]) /\ inflight[s].at <= now
    /\ \A c \in Codes : row[c] # None => RowValid(row[c])

LEMMA ActIsValid ==
    ASSUME now \in Int, NEW u \in Users, NEW f, NEW words, Finished(f, words), Act(u, f, words)
    PROVE  \/ inflight' = inflight
           \/ \E r : /\ inflight' = [inflight EXCEPT ![u] = r]
                     /\ RequestValid(r) /\ r.at = now
<1> DEFINE since == ParseNeeded(f.data, "since")
           until == ParseNeeded(f.data, "until")
<1>1. SUFFICES ASSUME inflight' # inflight
      PROVE  \E r : /\ inflight' = [inflight EXCEPT ![u] = r]
                    /\ RequestValid(r) /\ r.at = now
    OBVIOUS
<1>2. /\ \A field \in Needed(f.data.setDates) : IsDate(f.data[field])
      /\ NewPromo(f.data.length.number, f.data.capacity.number, since, until)
      /\ inflight' = [inflight EXCEPT ![u] =
                         Request(f.command, f.data.promo.code, f.data.length.number,
                                 f.data.capacity.number, since, until, words)]
    BY <1>1 DEF Act
<1>3. \A field \in Needed(f.data.setDates) : ParseDate(f.data[field]) \in Int
    BY <1>2, NeededIsThere, DatesAreMoments
<1>4. since = None \/ since \in Int
    BY <1>3 DEF ParseNeeded
<1>5. until = None \/ until \in Int
    BY <1>3 DEF ParseNeeded
<1>6. /\ until # None => now < until
      /\ (since # None /\ until # None) => since <= until
    BY <1>2 DEF NewPromo, InOrder
<1> HIDE DEF since, until
<1>7. PICK r : r = Request(f.command, f.data.promo.code, f.data.length.number,
                           f.data.capacity.number, since, until, words)
    OBVIOUS
<1>8. r.at = now /\ r.since = since /\ r.until = until
    BY <1>7 DEF Request
<1>9. RequestValid(r)
    BY <1>4, <1>5, <1>6, <1>8 DEF RequestValid
<1> QED BY <1>2, <1>7, <1>8, <1>9

LEMMA DaysAreInOrder ==
    ASSUME NEW s \in Int, NEW t \in Int
    PROVE  /\ DayOf(s) \in Int /\ DayOf(t) \in Int
           /\ s <= t => DayOf(s) <= DayOf(t)
<1>1. Day \in Nat /\ Day > 0
    BY DayAssumption
<1>2. \A m, d \in Int : d > 0 => /\ m \div d \in Int /\ d * (m \div d) <= m
                                /\ m < d * (m \div d + 1)
    OBVIOUS
<1>3. PICK a : a = DayOf(s)
    OBVIOUS
<1>4. PICK b : b = DayOf(t)
    OBVIOUS
<1>5. a \in Int /\ Day * a <= s /\ s < Day * (a + 1)
    BY <1>1, <1>2, <1>3 DEF DayOf
<1>6. b \in Int /\ Day * b <= t /\ t < Day * (b + 1)
    BY <1>1, <1>2, <1>4 DEF DayOf
<1>7. ASSUME s <= t, b < a PROVE FALSE
    <2>1. Day * (b + 1) \in Int /\ Day * a \in Int /\ Day * (b + 1) <= Day * a
        BY <1>1, <1>5, <1>6, <1>7
    <2> QED BY <1>5, <1>6, <1>7, <2>1
<1> QED BY <1>3, <1>4, <1>5, <1>6, <1>7

LEMMA StoredIsValid ==
    ASSUME now \in Int, NEW r, RequestValid(r), r.at <= now
    PROVE  RowValid(Stored(r))
<1>1. PICK p : p = Stored(r)
    OBVIOUS
<1>2. /\ p.since = IF r.since = None THEN DayOf(now) ELSE DayOf(r.since)
      /\ p.until = IF r.until = None THEN None ELSE DayOf(r.until)
      /\ p.checked = DayOf(r.at) /\ p.stored = DayOf(now)
    BY <1>1 DEF Stored, DayOrNone
<1>3. SUFFICES ASSUME r.until # None
               PROVE  /\ p.checked <= p.until
                      /\ p.since <= p.until \/ p.checked < p.stored
    BY <1>1, <1>2 DEF RowValid
<1>4. r.at \in Int /\ r.until \in Int /\ r.at < r.until
    BY <1>3 DEF RequestValid
<1>5. /\ DayOf(r.at) \in Int /\ DayOf(r.until) \in Int /\ DayOf(now) \in Int
      /\ DayOf(r.at) <= DayOf(r.until) /\ DayOf(r.at) <= DayOf(now)
    BY <1>4, DaysAreInOrder
<1>6. CASE r.since = None
    BY <1>2, <1>3, <1>5, <1>6
<1>7. CASE r.since # None
    <2>1. r.since \in Int /\ r.since <= r.until
        BY <1>3, <1>7 DEF RequestValid
    <2>2. DayOf(r.since) <= DayOf(r.until)
        BY <1>4, <2>1, DaysAreInOrder
    <2> QED BY <1>2, <1>3, <1>5, <1>7, <2>2
<1> QED BY <1>6, <1>7

(* NewPromo compares moments, the table holds days, and CURRENT_DATE is that *)
(* of the statement: what was in order stays in order, for days of any       *)
(* length, except over midnight.                                             *)
THEOREM StoredDatesAreInOrder == Spec => []ValidityIsNotEmpty
<1>1. Init => ValidInv
    BY DEF Init, ValidInv
<1>2. FormInv /\ ValidInv /\ [Next]_vars => ValidInv'
    <2> SUFFICES ASSUME FormInv, ValidInv, [Next]_vars PROVE ValidInv'
        OBVIOUS
    <2>0. now \in Int /\ now <= now
        BY DEF ValidInv
    <2>1. CASE UNCHANGED <<now, inflight, row>>
        BY <2>1 DEF ValidInv
    <2>2. ASSUME NEW s \in Sources, NEW r, inflight' = [inflight EXCEPT ![s] = r],
                 RequestValid(r), r.at = now, UNCHANGED <<now, row>>
          PROVE  ValidInv'
        BY <2>0, <2>2 DEF ValidInv
    <2>3. ASSUME NEW u \in Users, Delete(u) PROVE ValidInv'
        <3>1. PICK c \in Codes :
                  inflight' = [inflight EXCEPT ![u] = Request("delete", c, 0, 0, None, None, Silence)]
            BY <2>3 DEF Delete
        <3>2. PICK r : r = Request("delete", c, 0, 0, None, None, Silence)
            OBVIOUS
        <3>3. r.at = now /\ r.since = None /\ r.until = None
            BY <3>2 DEF Request
        <3>4. RequestValid(r)
            BY <2>0, <3>3 DEF RequestValid
        <3> QED BY <2>2, <2>3, <3>1, <3>2, <3>3, <3>4 DEF Delete, Sources
    <2>4. ASSUME NEW u \in Users, Answer(u, "private", NoCommand) PROVE ValidInv'
        <3>1. UNCHANGED <<now, row>>
            BY <2>4 DEF Answer
        <3>2. CASE \E f, words : Finished(f, words) /\ Act(u, f, words)
            <4>1. PICK f, words : Finished(f, words) /\ Act(u, f, words)
                BY <3>2
            <4>2. \/ inflight' = inflight
                  \/ \E r : /\ inflight' = [inflight EXCEPT ![u] = r]
                            /\ RequestValid(r) /\ r.at = now
                BY <2>0, <4>1, ActIsValid
            <4> QED BY <2>1, <2>2, <3>1, <4>2 DEF Sources
        <3> QED BY <2>1, <2>4, <3>1, <3>2, WhatAnswersDo
    <2>5. ASSUME NEW u \in Users, NEW chat \in Chats, NEW command \in CommandNames \cup {NoCommand},
                 Receive(u, chat, command)
          PROVE  ValidInv'
        <3>1. CASE Handler[chat][command] = "none" /\ Answer(u, chat, command)
            <4>1. chat = "private" /\ command = NoCommand
                BY <3>1, OnlyInPrivate DEF Answer
            <4> QED BY <2>4, <3>1, <4>1
        <3>2. CASE BeginForm(u, command) \/ BeginStats(u) \/ Help(chat, command) \/ Guard(chat, command)
            BY <2>1, <3>2 DEF BeginForm, BeginStats, Help, Guard, AnswerGroup
        <3> QED BY <2>3, <2>5, <3>1, <3>2 DEF Receive
    <2>6. CASE Generate
        <3>1. PICK c \in Codes, length \in Lengths, capacity \in Capacities,
                   sinceWord \in Dates \cup {None}, untilWord \in Dates \cup {None} :
                  /\ IsNumber(length) /\ IsNumber(capacity)
                  /\ \A word \in {sinceWord, untilWord} \ {None} : IsDate(word)
                  /\ NewPromo(length.number, capacity.number, Decoded(sinceWord), Decoded(untilWord))
                  /\ inflight' = [inflight EXCEPT ![Rest] =
                         Request("generate", c, length.number, capacity.number,
                                 Decoded(sinceWord), Decoded(untilWord), Silence)]
            BY <2>6, Zenon DEF Generate
        <3>2. ASSUME NEW word \in Dates \cup {None}, word # None => IsDate(word)
              PROVE  Decoded(word) = None \/ Decoded(word) \in Int
            BY <2>0, <3>2, DatesAreMoments, WordsAssumption DEF Decoded
        <3>3. PICK since : since = Decoded(sinceWord)
            OBVIOUS
        <3>4. PICK until : until = Decoded(untilWord)
            OBVIOUS
        <3>5. (since = None \/ since \in Int) /\ (until = None \/ until \in Int)
            BY <3>1, <3>2, <3>3, <3>4
        <3>6. /\ until # None => now < until
              /\ (since # None /\ until # None) => since <= until
            BY <3>1, <3>3, <3>4 DEF NewPromo, InOrder
        <3>7. PICK r : r = Request("generate", c, length.number, capacity.number, since, until, Silence)
            OBVIOUS
        <3>8. r.at = now /\ r.since = since /\ r.until = until
            BY <3>7 DEF Request
        <3>9. RequestValid(r)
            BY <2>0, <3>5, <3>6, <3>8 DEF RequestValid
        <3>10. inflight' = [inflight EXCEPT ![Rest] = r] /\ UNCHANGED <<now, row>> /\ Rest \in Sources
            BY <2>6, <3>1, <3>3, <3>4, <3>7 DEF Generate, Sources
        <3> QED BY <2>2, <3>8, <3>9, <3>10
    <2>7. ASSUME NEW s \in Sources, Store(s) PROVE ValidInv'
        <3>1. PICK r : r = inflight[s]
            OBVIOUS
        <3>2. RequestValid(r) /\ r.at <= now
            BY <2>7, <3>1 DEF Store, ValidInv
        <3>3. /\ inflight' = [inflight EXCEPT ![s] = None] /\ now' = now
              /\ \/ row' = row \/ row' = [row EXCEPT ![r.code] = None]
                 \/ row' = [row EXCEPT ![r.code] = Stored(r)]
            BY <2>7, <3>1 DEF Store
        <3>4. RowValid(Stored(r))
            BY <2>0, <3>2, StoredIsValid
        <3> QED BY <3>3, <3>4 DEF ValidInv
    <2>8. ASSUME NEW s \in Sources, Fail(s) PROVE ValidInv'
        BY <2>8 DEF Fail, ValidInv
    <2>9. CASE Restart
        BY <2>9 DEF Restart, ValidInv
    <2>10. CASE Tick
        <3>1. now' \in Int /\ now <= now' /\ now' = now + 2 /\ UNCHANGED <<inflight, row>>
            BY <2>0, <2>10 DEF Tick
        <3>2. ASSUME NEW s \in Sources, inflight[s] # None
              PROVE  RequestValid(inflight[s]) /\ inflight[s].at <= now'
            BY <2>0, <3>1, <3>2 DEF ValidInv, RequestValid
        <3> QED BY <3>1, <3>2 DEF ValidInv
    <2>11. ASSUME NEW u \in Users, Expire(u) PROVE ValidInv'
        BY <2>1, <2>11 DEF Expire
    <2>12. CASE UNCHANGED vars
        BY <2>1, <2>12 DEF vars
    <2> QED BY <2>5, <2>6, <2>7, <2>8, <2>9, <2>10, <2>11, <2>12 DEF Next
<1>3. ValidInv => ValidityIsNotEmpty
    BY DEF ValidInv, RowValid, ValidityIsNotEmpty
<1> QED BY <1>1, <1>2, <1>3, FormsAreKept, PTL DEF Spec

-----------------------------------------------------------------------------
(* A number of days, as a duration in nanoseconds, fits into 64 bits. *)
DaysFit ==
    \A word \in Dates : "number" \in DOMAIN word =>
        word.number * Day \in -DurationRange..(DurationRange - 1)

LEMMA FittingDaysDoNotWrap ==
    ASSUME NEW n \in -DurationRange..(DurationRange - 1)
    PROVE  Wrapped(n) = n
<1>1. DurationRange \in Nat /\ DurationRange > 0 /\ n \in Int
    BY DayAssumption
<1>2. \A m, d \in Int : (0 <= m /\ m < d) => (m % d) = m
    OBVIOUS
<1>3. 0 <= n + DurationRange /\ n + DurationRange < 2 * DurationRange
    BY <1>1
<1>4. ((n + DurationRange) % (2 * DurationRange)) = n + DurationRange
    BY <1>1, <1>2, <1>3
<1> QED BY <1>1, <1>4 DEF Wrapped

LEMMA DatesAreMeant ==
    ASSUME DaysFit, NEW word \in Dates, IsDate(word)
    PROVE  ParseDate(word) = Meant(word, now)
<1>1. CASE "number" \in DOMAIN word
    <2>1. DOMAIN word = {"number"}
        BY <1>1 DEF IsDate
    <2>2. Wrapped(word.number * Day) = word.number * Day
        BY <1>1, FittingDaysDoNotWrap DEF DaysFit
    <2> QED BY <2>1, <2>2 DEF ParseDate, DaysFromNow, Meant
<1>2. CASE "number" \notin DOMAIN word
    BY <1>2 DEF ParseDate, Meant
<1> QED BY <1>1, <1>2

-----------------------------------------------------------------------------
(* What is in a field was said for it, and nothing else was. *)
LEMMA FieldsWereSaid ==
    ASSUME NEW data, NEW words, FormOf(data, words),
           NEW field \in {"promo", "length", "capacity", "since", "until"}
    PROVE  Told(words, field) = data[field]
<1> DEFINE given == {i \in DOMAIN words.answers : words.answers[i][1] = field}
<1>1. field \in Names
    BY DEF Names
<1>2. /\ words.arguments \in Arguments /\ words.answers \in Seq(Names \X AnyAnswer)
      /\ DOMAIN words.answers = 1..Len(words.answers)
      /\ \A i \in 1..Len(words.answers) :
            LET name == words.answers[i][1]
            IN  /\ data[name] # None /\ data[name] = words.answers[i][2]
                /\ Prefilled(words.arguments)[name] = None
      /\ data[field] = Prefilled(words.arguments)[field]
         \/ \E i \in 1..Len(words.answers) : words.answers[i][1] = field
    BY <1>1 DEF FormOf, Speech
<1>3. CASE given # {}
    <2>1. PICK i : i = CHOOSE j \in given : TRUE
        OBVIOUS
    <2>2. i \in given
        BY <1>3, <2>1
    <2>3. Told(words, field) = words.answers[i][2]
        BY <1>3, <2>1 DEF Told
    <2>4. data[field] # None /\ data[field] = words.answers[i][2]
        BY <1>2, <2>2
    <2> QED BY <2>3, <2>4
<1>4. CASE given = {}
    <2>1. PICK a : a = words.arguments
        OBVIOUS
    <2>2. PICK n : n = Len(a)
        OBVIOUS
    <2>3. data[field] = Prefilled(a)[field]
        BY <1>2, <1>4, <2>1
    <2>4. n \in 0..5
        BY <1>2, <2>1, <2>2, ArgumentsAreWords
    <2>5. CASE field = "promo"
        <3>1. Told(words, field) = IF 1 <= n THEN a[1] ELSE None
            BY <1>4, <2>1, <2>2, <2>5 DEF Told
        <3>2. Prefilled(a)[field] = IF 1 <= n THEN a[1] ELSE None
            BY <2>2, <2>5 DEF Prefilled
        <3> QED BY <2>3, <2>5, <3>1, <3>2
    <2>6. CASE field = "length"
        <3>1. Told(words, field) = IF 2 <= n THEN a[2] ELSE None
            BY <1>4, <2>1, <2>2, <2>6 DEF Told
        <3>2. Prefilled(a)[field] = IF 2 <= n THEN a[2] ELSE None
            BY <2>2, <2>6 DEF Prefilled
        <3> QED BY <2>3, <2>6, <3>1, <3>2
    <2>7. CASE field = "capacity"
        <3>1. Told(words, field) = IF 3 <= n THEN a[3] ELSE None
            BY <1>4, <2>1, <2>2, <2>7 DEF Told
        <3>2. Prefilled(a)[field] = IF 3 <= n THEN a[3] ELSE None
            BY <2>2, <2>7 DEF Prefilled
        <3> QED BY <2>3, <2>7, <3>1, <3>2
    <2>8. CASE field = "since"
        <3>1. Told(words, field) = IF n = 4 THEN (IF 5 <= n THEN a[5] ELSE None)
                                   ELSE IF 4 <= n THEN a[4] ELSE None
            BY <1>4, <2>1, <2>2, <2>4, <2>8 DEF Told
        <3>2. Prefilled(a)[field] = IF n >= 5 THEN a[4] ELSE None
            BY <2>2, <2>8 DEF Prefilled
        <3> QED BY <2>3, <2>4, <2>8, <3>1, <3>2
    <2>9. CASE field = "until"
        <3>1. Told(words, field) = IF n = 4 /\ a[4] # Endless THEN a[4]
                                   ELSE IF 5 <= n THEN a[5] ELSE None
            BY <1>4, <2>1, <2>2, <2>4, <2>9 DEF Told
        <3>2. Prefilled(a)[field] = CASE n >= 5 -> a[5]
                                      [] n = 4 /\ ~(n = 4 /\ IsEndlessArg(a[4])) -> a[4]
                                      [] OTHER -> None
            BY <2>2, <2>9 DEF Prefilled
        <3> QED BY <2>3, <2>4, <2>9, <3>1, <3>2 DEF IsEndlessArg
    <2> QED BY <2>5, <2>6, <2>7, <2>8, <2>9
<1> QED BY <1>3, <1>4

(* The arguments never put a form off the buttons: it was an answer. *)
LEMMA ChoiceWasSaid ==
    ASSUME NEW data, NEW words, FormOf(data, words)
    PROVE  OffTheButtons(words) <=> data["setDates"] = Text("other")
<1>1. /\ words.arguments \in Arguments /\ words.answers \in Seq(Names \X AnyAnswer)
      /\ DOMAIN words.answers = 1..Len(words.answers)
      /\ \A i \in 1..Len(words.answers) : words.answers[i] \in Names \X AnyAnswer
    BY DEF FormOf, Speech
<1>2. /\ \A i \in 1..Len(words.answers) : data[words.answers[i][1]] = words.answers[i][2]
      /\ data["setDates"] = Prefilled(words.arguments)["setDates"]
         \/ \E i \in 1..Len(words.answers) : words.answers[i][1] = "setDates"
    BY DEF FormOf, Names
<1>3. ASSUME OffTheButtons(words) PROVE data["setDates"] = Text("other")
    <2>1. PICK other : other = Text("other")
        OBVIOUS
    <2>2. PICK i \in 1..Len(words.answers) : words.answers[i] = <<"setDates", other>>
        BY <1>1, <1>3, <2>1 DEF OffTheButtons
    <2> QED BY <1>2, <2>1, <2>2
<1>4. ASSUME data["setDates"] = Text("other") PROVE OffTheButtons(words)
    <2>1. PICK other : other = Text("other")
        OBVIOUS
    <2>2. PICK i \in 1..Len(words.answers) : words.answers[i][1] = "setDates"
        BY <1>1, <1>2, <1>4, PrefilledFits
    <2>3. words.answers[i] = <<"setDates", other>>
        BY <1>1, <1>2, <1>4, <2>1, <2>2
    <2> QED BY <1>1, <2>1, <2>3 DEF OffTheButtons
<1> QED BY <1>3, <1>4

-----------------------------------------------------------------------------
AsSaid(r) ==
    /\ Last(r.said.answers) = <<"confirmation", Confirm(r.action)>>
    /\ Code(r.code) = Told(r.said, "promo")
    /\ Number(r.length) = Told(r.said, "length")
    /\ Number(r.capacity) = Told(r.said, "capacity")
    /\ r.since = Heard(r, "since")
    /\ r.until = IF OffTheButtons(r.said) THEN None ELSE Heard(r, "until")

LEMMA NumbersAreNumbers ==
    ASSUME NEW word \in Words, IsNumber(word)
    PROVE  word = Number(word.number)
<1>1. word \in [number: Int]
    BY DEF Words, IsNumber
<1> QED BY <1>1 DEF Number

LEMMA ActIsAsSaid ==
    ASSUME DaysFit, now \in Int, NEW u \in Users, NEW f, NEW words, Finished(f, words), Act(u, f, words)
    PROVE  \/ inflight' = inflight
           \/ \E r : inflight' = [inflight EXCEPT ![u] = r] /\ AsSaid(r)
<1> DEFINE since == ParseNeeded(f.data, "since")
           until == ParseNeeded(f.data, "until")
<1>1. SUFFICES ASSUME inflight' # inflight
      PROVE  \E r : inflight' = [inflight EXCEPT ![u] = r] /\ AsSaid(r)
    OBVIOUS
<1>2. /\ IsNumber(f.data.length) /\ IsNumber(f.data.capacity)
      /\ \A field \in Needed(f.data.setDates) : IsDate(f.data[field])
      /\ f.data.confirmation = Confirm(f.command)
      /\ inflight' = [inflight EXCEPT ![u] =
                         Request(f.command, f.data.promo.code, f.data.length.number,
                                 f.data.capacity.number, since, until, words)]
    BY <1>1 DEF Act
<1>3. PICK data : data = f.data
    OBVIOUS
<1>4. /\ FormOf(data, words)
      /\ Last(words.answers) = <<"confirmation", data["confirmation"]>>
      /\ \A name \in Names : data[name] # None \/ Skipped(name, data)
    BY <1>3, Complete DEF Finished
<1>5. \A name \in Names : data[name] = None \/ data[name] \in Answers(name)
    BY <1>4 DEF FormOf
<1>6. /\ data.promo \in Answers("promo") /\ data.length \in Lengths /\ data.capacity \in Capacities
    <2>1. \A name \in {"promo", "length", "capacity"} :
              name \in Names /\ ~Skipped(name, data)
        BY DEF Names, Skipped
    <2> QED BY <1>4, <1>5, <2>1, AnswersAreWords
<1>7. /\ Told(words, "promo") = data.promo /\ Told(words, "length") = data.length
      /\ Told(words, "capacity") = data.capacity
    BY <1>4, FieldsWereSaid
<1>8. data.promo = Code(data.promo.code)
    BY <1>6, AnswersAreWords DEF Code
<1>9. data.length = Number(data.length.number) /\ data.capacity = Number(data.capacity.number)
    BY <1>2, <1>3, <1>6, NumbersAreNumbers, WordsAssumption
<1>10. ASSUME NEW field \in Needed(data.setDates)
       PROVE  /\ ParseDate(data[field]) \in Int /\ Told(words, field) = data[field]
              /\ ParseDate(data[field]) = Meant(data[field], now)
    <2>1. data[field] \in Dates /\ data[field] \in Words /\ IsDate(data[field])
        BY <1>2, <1>3, NeededIsThere
    <2>2. ParseDate(data[field]) \in Int
        BY <2>1, DatesAreMoments
    <2>3. ParseDate(data[field]) = Meant(data[field], now)
        BY <2>1, DatesAreMeant
    <2>4. field \in {"since", "until"}
        BY DEF Needed
    <2> QED BY <1>4, <2>2, <2>3, <2>4, FieldsWereSaid
<1>11. ASSUME NEW field \in {"since", "until"}, field \notin Needed(data.setDates),
              field = "until" => data.setDates # Text("other")
       PROVE  Told(words, field) = None
    <2>1. /\ data["since"] # None => data.setDates = Both
          /\ data["until"] # None => data.setDates \in {Both, FromNow, Text("other")}
        BY <1>4 DEF FormOf
    <2>2. data[field] = None
        BY <1>11, <2>1, ChoicesDiffer DEF Needed
    <2> QED BY <1>4, <2>2, FieldsWereSaid
<1>12. ASSUME NEW field \in {"since", "until"},
              field = "until" => data.setDates # Text("other")
       PROVE  ParseNeeded(f.data, field) =
                  IF Told(words, field) = None THEN None ELSE Meant(Told(words, field), now)
    <2>1. CASE field \in Needed(data.setDates)
        <3>1. ParseNeeded(f.data, field) = ParseDate(data[field])
            BY <1>3, <2>1 DEF ParseNeeded
        <3>2. /\ Told(words, field) = data[field]
              /\ ParseDate(data[field]) = Meant(data[field], now)
            BY <1>10, <2>1
        <3>3. data[field] # None
            BY <1>3, <2>1, NeededIsThere, WordsAssumption
        <3> QED BY <3>1, <3>2, <3>3
    <2>2. CASE field \notin Needed(data.setDates)
        BY <1>3, <1>11, <1>12, <2>2 DEF ParseNeeded
    <2> QED BY <2>1, <2>2
<1>13. data.setDates = Text("other") => until = None
    BY <1>3, ChoicesDiffer DEF ParseNeeded, Needed
<1>14. OffTheButtons(words) <=> data.setDates = Text("other")
    BY <1>4, ChoiceWasSaid
<1>15. since = IF Told(words, "since") = None THEN None ELSE Meant(Told(words, "since"), now)
    BY <1>12
<1>16. ~OffTheButtons(words) =>
          until = IF Told(words, "until") = None THEN None ELSE Meant(Told(words, "until"), now)
    BY <1>12, <1>14
<1> HIDE DEF since, until
<1>17. PICK r : r = Request(f.command, data.promo.code, data.length.number,
                            data.capacity.number, since, until, words)
    OBVIOUS
<1>18. /\ r.at = now /\ r.since = since /\ r.until = until /\ r.said = words /\ r.action = f.command
       /\ r.code = data.promo.code /\ r.length = data.length.number /\ r.capacity = data.capacity.number
    BY <1>17 DEF Request
<1>19. Last(words.answers) = <<"confirmation", Confirm(f.command)>>
    BY <1>2, <1>3, <1>4
<1>20. AsSaid(r)
    <2>1. Heard(r, "since") = since
        BY <1>15, <1>18 DEF Heard
    <2>2. until = IF OffTheButtons(words) THEN None ELSE Heard(r, "until")
        BY <1>13, <1>14, <1>16, <1>18 DEF Heard
    <2> QED BY <1>7, <1>8, <1>9, <1>18, <1>19, <2>1, <2>2 DEF AsSaid
<1>21. inflight' = [inflight EXCEPT ![u] = r]
    BY <1>2, <1>3, <1>17
<1> QED BY <1>20, <1>21

(* A request that comes out of a dialogue says what its user said, date for  *)
(* date, the end after an answer off the buttons excepted, as long as no     *)
(* number of days overflows a duration; the many-days run shows what happens *)
(* otherwise.                                                                *)
THEOREM RequestsSayWhatWasSaid ==
    ASSUME DaysFit
    PROVE  Spec => []RequestsAreAsSaid
<1> DEFINE SaidInv ==
               /\ DOMAIN inflight = Sources /\ now \in Int
               /\ \A u \in Users : (inflight[u] # None /\ inflight[u].action # "delete") =>
                      AsSaid(inflight[u])
<1>1. Init => SaidInv
    BY DEF Init, Sources
<1>2. FormInv /\ SaidInv /\ [Next]_vars => SaidInv'
    <2> SUFFICES ASSUME FormInv, SaidInv, [Next]_vars PROVE SaidInv'
        OBVIOUS
    <2>1. CASE UNCHANGED <<now, inflight>>
        BY <2>1
    <2>2. ASSUME NEW s \in Sources, NEW r, inflight' = [inflight EXCEPT ![s] = r], now' = now,
                 s = Rest \/ r = None \/ r.action = "delete" \/ AsSaid(r)
          PROVE  SaidInv'
        BY <2>2, AdminsAssumption DEF Sources
    <2>3. ASSUME NEW u \in Users, Delete(u) PROVE SaidInv'
        <3>1. PICK c \in Codes :
                  inflight' = [inflight EXCEPT ![u] = Request("delete", c, 0, 0, None, None, Silence)]
            BY <2>3 DEF Delete
        <3>2. PICK r : r = Request("delete", c, 0, 0, None, None, Silence)
            OBVIOUS
        <3>3. r.action = "delete"
            BY <3>2 DEF Request
        <3> QED BY <2>2, <2>3, <3>1, <3>2, <3>3 DEF Delete, Sources
    <2>4. ASSUME NEW u \in Users, Answer(u, "private", NoCommand) PROVE SaidInv'
        <3>1. now' = now
            BY <2>4 DEF Answer
        <3>2. CASE \E f, words : Finished(f, words) /\ Act(u, f, words)
            <4>1. PICK f, words : Finished(f, words) /\ Act(u, f, words)
                BY <3>2
            <4>2. inflight' = inflight \/ \E r : inflight' = [inflight EXCEPT ![u] = r] /\ AsSaid(r)
                BY <4>1, ActIsAsSaid
            <4>3. CASE inflight' = inflight
                BY <2>1, <3>1, <4>3
            <4>4. CASE \E r : inflight' = [inflight EXCEPT ![u] = r] /\ AsSaid(r)
                BY <2>2, <3>1, <4>4 DEF Sources
            <4> QED BY <4>2, <4>3, <4>4
        <3> QED BY <2>1, <2>4, <3>1, <3>2, WhatAnswersDo
    <2>5. ASSUME NEW u \in Users, NEW chat \in Chats, NEW command \in CommandNames \cup {NoCommand},
                 Receive(u, chat, command)
          PROVE  SaidInv'
        <3>1. CASE Handler[chat][command] = "none" /\ Answer(u, chat, command)
            <4>1. chat = "private" /\ command = NoCommand
                BY <3>1, OnlyInPrivate DEF Answer
            <4> QED BY <2>4, <3>1, <4>1
        <3>2. CASE BeginForm(u, command) \/ BeginStats(u) \/ Help(chat, command) \/ Guard(chat, command)
            <4>1. UNCHANGED <<now, inflight>>
                BY <3>2 DEF BeginForm, BeginStats, Help, Guard, AnswerGroup
            <4> QED BY <2>1, <4>1
        <3> QED BY <2>3, <2>5, <3>1, <3>2 DEF Receive
    <2>6. CASE Generate
        <3>1. PICK r : inflight' = [inflight EXCEPT ![Rest] = r] /\ now' = now
            BY <2>6 DEF Generate
        <3> QED BY <2>2, <3>1 DEF Sources
    <2>7. ASSUME NEW s \in Sources, Store(s) \/ Fail(s) PROVE SaidInv'
        <3>1. inflight' = [inflight EXCEPT ![s] = None] /\ now' = now
            BY <2>7 DEF Store, Fail
        <3> QED BY <2>2, <3>1
    <2>8. CASE Restart
        <3>1. inflight' = [s \in Sources |-> None] /\ now' = now
            BY <2>8 DEF Restart
        <3> QED BY <3>1 DEF Sources
    <2>9. CASE Tick
        <3>1. inflight' = inflight /\ now' \in Int
            BY <2>9 DEF Tick
        <3> QED BY <3>1
    <2>10. ASSUME NEW u \in Users, Expire(u) PROVE SaidInv'
        BY <2>1, <2>10 DEF Expire
    <2>11. CASE UNCHANGED vars
        BY <2>1, <2>11 DEF vars
    <2> QED BY <2>5, <2>6, <2>7, <2>8, <2>9, <2>10, <2>11 DEF Next
<1>3. SaidInv => RequestsAreAsSaid
    BY DEF RequestsAreAsSaid, AsSaid
<1> QED BY <1>1, <1>2, <1>3, FormsAreKept, PTL DEF Spec
=============================================================================
