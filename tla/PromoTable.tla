----------------------------- MODULE PromoTable -----------------------------
(***************************************************************************)
(* /get: an admin browses the table of promo codes in one message, twenty   *)
(* codes at a time, with buttons for the next and the previous page and for *)
(* the order.  Each button carries the page it leads to, so a page is asked *)
(* for by its number, in a table that others change meanwhile; the bot      *)
(* serves each press in a goroutine of its own.                             *)
(***************************************************************************)
EXTENDS Integers, Sequences, FiniteSets, SequencesExt

CONSTANTS
    Codes,       \* promo codes, as numbers in their alphabetical order
    Columns,     \* the columns besides code the list can be sorted by
    Values,      \* values of those columns: numbers
    Searched,    \* codes that match the words given with the command
    Presses,     \* goroutines that serve button presses
    PageSize,    \* promoPageSize
    MaxChanges,  \* bound: number of changes of the table
    MaxPresses,  \* bound: number of presses
    None

Sorts == {"code"} \cup Columns
DefaultSort == "capacity"

Table == [Codes -> [Columns -> Values] \cup {None}]
Button == [page: Nat, sort: Sorts, descending: BOOLEAN, filtered: BOOLEAN]

ASSUME PromoTableAssumption ==
    /\ PageSize \in Nat \ {0} /\ MaxChanges \in Nat /\ MaxPresses \in Nat
    /\ DefaultSort \in Columns
    /\ IsFiniteSet(Codes) /\ Codes \subseteq Nat /\ Searched \subseteq Codes
    /\ Values \subseteq Nat

VARIABLES
    rows,      \* the table
    changes,   \* how often it changed
    presses,   \* how often a button was pressed
    command,   \* the command's message: with "words" or "plain"
    kept,      \* it is still there to read the words from
    message,   \* the bot's message: a view, or None before it is sent
    serving,   \* per goroutine: the button it serves, or None
    rendered,  \* per goroutine: the view it is about to show, or None
    answers,   \* what the last finished press was answered with
    walk       \* what the admin has seen since page 1, see Walked

vars == <<rows, changes, presses, command, kept, message, serving, rendered, answers, walk>>

-----------------------------------------------------------------------------
(* GetTable *)
Matching(table, filtered) ==
    {c \in Codes : table[c] # None /\ (filtered => c \in Searched)}

Key(table, c, sort) == IF sort = "code" THEN c ELSE table[c][sort]

(* ORDER BY sort direction, code ASC *)
InSortOrder(table, b, c, d) ==
    LET k == Key(table, c, b.sort)
        m == Key(table, d, b.sort)
    IN  IF b.descending THEN k > m ELSE k < m

ByColumnOnly(table, b, c, d) ==
    \/ InSortOrder(table, b, c, d)
    \/ Key(table, c, b.sort) = Key(table, d, b.sort)
Precedes(table, b, c, d) ==
    \/ InSortOrder(table, b, c, d)
    \/ Key(table, c, b.sort) = Key(table, d, b.sort) /\ c < d

(* The sequences the ORDER BY clause allows the database to return. *)
Orderings(table, b) ==
    {s \in SetToSeqs(Matching(table, b.filtered)) :
        \A i, j \in DOMAIN s : i < j => Precedes(table, b, s[i], s[j])}

OffsetFromOne(b) == (b.page + 1) * PageSize
Offset(b) == b.page * PageSize
Slice(s, offset) ==
    SubSeq(s, offset + 1, IF offset + PageSize < Len(s) THEN offset + PageSize ELSE Len(s))

(* The window count is a column of the rows: no rows, no count. *)
TotalOf(s, offset) == IF Slice(s, offset) = <<>> THEN 0 ELSE Len(s)

-----------------------------------------------------------------------------
(* renderPage and paginationKeyboard *)
PagesOf(total) == (total + PageSize - 1) \div PageSize

UnfilteredSortButtons(b) ==
    {[page |-> 0, sort |-> s, filtered |-> FALSE,
      descending |-> (s = b.sort /\ ~b.descending)] : s \in Sorts}
SortButtons(b) ==
    {[page |-> 0, sort |-> s, filtered |-> b.filtered,
      descending |-> (s = b.sort /\ ~b.descending)] : s \in Sorts}

PastTheLast(b, pages) ==
    {[b EXCEPT !.page = p] : p \in {q \in {b.page - 1, b.page + 1} : 0 <= q /\ q <= pages}}
Navigation(b, pages) ==
    {[b EXCEPT !.page = p] : p \in {q \in {b.page - 1, b.page + 1} : 0 <= q /\ q < pages}}

EmptyList == [kind |-> "noPromo"]
ListView(b, s) ==
    [kind |-> "list", at |-> b, items |-> Slice(s, Offset(b)),
     first |-> Offset(b) + 1, pages |-> PagesOf(Len(s)), total |-> Len(s),
     buttons |-> SortButtons(b) \cup Navigation(b, PagesOf(Len(s))),
     asOf |-> rows]

(* What renderPage may return for a button: a view, or errInvalidPromoPage.  *)
Expired == [kind |-> "expired"]
Views(b) ==
    {IF TotalOf(s, Offset(b)) = 0 THEN EmptyList
     ELSE IF b.page >= PagesOf(TotalOf(s, Offset(b))) THEN Expired
     ELSE ListView(b, s) : s \in Orderings(rows, b)}

-----------------------------------------------------------------------------
NoWalk == [seen |-> <<>>, from |-> None]

(* Ghost: the codes on the pages the admin went through since page 1 of a    *)
(* list, as long as neither the list nor the table it shows changed.         *)
Walked(view) ==
    IF view.kind # "list" THEN NoWalk
    ELSE IF view.at.page = 0 THEN [seen |-> view.items, from |-> view]
    ELSE IF /\ walk.from # None
            /\ walk.from.asOf = view.asOf
            /\ view.at = [walk.from.at EXCEPT !.page = @ + 1]
         THEN [seen |-> walk.seen \o view.items, from |-> view]
         ELSE NoWalk

Init ==
    /\ rows \in Table
    /\ changes = 0 /\ presses = 0
    /\ command \in {"plain", "words"}
    /\ kept = TRUE
    /\ message = None
    /\ serving = [w \in Presses |-> None]
    /\ rendered = [w \in Presses |-> None]
    /\ answers = "none"
    /\ walk = NoWalk

(* GetHandle.Handle: page 0, by capacity, filtered if words were given. *)
Get ==
    /\ message = None
    /\ \E view \in Views([page |-> 0, sort |-> DefaultSort, descending |-> FALSE,
                          filtered |-> command = "words"]) :
           /\ message' = view
           /\ walk' = Walked(view)
    /\ UNCHANGED <<rows, changes, presses, command, kept, serving, rendered, answers>>

(* The admin presses a button of the message as it is now. *)
Press(w) ==
    /\ serving[w] = None
    /\ presses < MaxPresses
    /\ message # None
    /\ message.kind = "list"
    /\ \E b \in message.buttons : serving' = [serving EXCEPT ![w] = b]
    /\ presses' = presses + 1
    /\ UNCHANGED <<rows, changes, command, kept, message, rendered, answers, walk>>

Answer(w, text) ==
    /\ answers' = text
    /\ serving' = [serving EXCEPT ![w] = None]
    /\ rendered' = [rendered EXCEPT ![w] = None]

(* The words of a filtered list come from the message it replies to. *)
FilterKnown(b) == b.filtered => kept

Query(w) ==
    /\ serving[w] # None
    /\ rendered[w] = None
    /\ FilterKnown(serving[w])
    /\ \E view \in Views(serving[w]) \ {Expired} :
           rendered' = [rendered EXCEPT ![w] = view]
    /\ UNCHANGED <<rows, changes, presses, command, kept, message, serving, answers, walk>>

PaginationExpired(w) ==
    /\ serving[w] # None
    /\ rendered[w] = None
    /\ ~FilterKnown(serving[w]) \/ Expired \in Views(serving[w])
    /\ Answer(w, "paginationExpired")
    /\ UNCHANGED <<rows, changes, presses, command, kept, message, walk>>

(* The query failed or took more than ten seconds. *)
QueryFails(w) ==
    /\ serving[w] # None
    /\ rendered[w] = None
    /\ FilterKnown(serving[w])
    /\ Answer(w, "failure")
    /\ UNCHANGED <<rows, changes, presses, command, kept, message, walk>>

(* The press is answered and the message edited. *)
Edit(w) ==
    /\ rendered[w] # None
    /\ message' = rendered[w]
    /\ walk' = Walked(rendered[w])
    /\ Answer(w, "")
    /\ UNCHANGED <<rows, changes, presses, command, kept>>

(* Other admins, REST clients and activations change the table. *)
TableChanges ==
    /\ changes < MaxChanges
    /\ changes' = changes + 1
    /\ \E c \in Codes, row \in [Columns -> Values] \cup {None} :
           rows' = [rows EXCEPT ![c] = row]
    /\ rows' # rows
    /\ UNCHANGED <<presses, command, kept, message, serving, rendered, answers, walk>>

DeleteCommand ==
    /\ message # None
    /\ kept
    /\ kept' = FALSE
    /\ UNCHANGED <<rows, changes, presses, command, message, serving, rendered, answers, walk>>

Terminating ==
    /\ message # None
    /\ presses = MaxPresses \/ message.kind # "list"
    /\ \A w \in Presses : serving[w] = None
    /\ UNCHANGED vars

Next ==
    \/ Get
    \/ \E w \in Presses :
          Press(w) \/ Query(w) \/ PaginationExpired(w) \/ QueryFails(w) \/ Edit(w)
    \/ TableChanges
    \/ DeleteCommand
    \/ Terminating

Spec == Init /\ [][Next]_vars

-----------------------------------------------------------------------------
Lists == {v \in {message} \cup {rendered[w] : w \in Presses} : v # None /\ v.kind = "list"}

(* A list is right for one state of the table: the number in front of a code *)
(* is its place among the codes that match, and the page is full unless it   *)
(* is the last.                                                              *)
PlacesAreRight ==
    \A v \in Lists :
        LET matching == Matching(v.asOf, v.at.filtered)
        IN  /\ v.total = Cardinality(matching)
            /\ \A i \in DOMAIN v.items :
                  v.first + i - 1 =
                      1 + Cardinality({c \in matching : Precedes(v.asOf, v.at, c, v.items[i])})
            /\ Len(v.items) = PageSize \/ v.at.page + 1 = v.pages

(* An admin who goes from page 1 to the last page of a list, in a table that *)
(* does not change meanwhile, sees every matching code exactly once.         *)
WalkSeesEachCodeOnce ==
    (walk.from # None /\ walk.from.at.page + 1 = walk.from.pages) =>
        /\ Len(walk.seen) = walk.from.total
        /\ ToSet(walk.seen) = Matching(walk.from.asOf, walk.from.at.filtered)

(* The buttons lead everywhere the list goes on, to the page before, the     *)
(* page after and the ends, and to no page the list did not have.            *)
ButtonsLeadSomewhere ==
    \A v \in Lists :
        LET pages == PagesOf(Cardinality(Matching(v.asOf, v.at.filtered)))
        IN  /\ \A b \in v.buttons : b.page \in 0..(pages - 1)
            /\ \A p \in 0..(pages - 1) : p \in {v.at.page - 1, v.at.page + 1} =>
                   \E b \in v.buttons : b = [v.at EXCEPT !.page = p]

(* The answer to "/get words" stays about these words, and the answer to a   *)
(* plain /get about all codes, whatever is pressed in whatever order.        *)
FilterIsKept == \A v \in Lists : v.at.filtered <=> command = "words"

(* "No promo codes in the database or not found for the specific query" is   *)
(* said when there are none.                                                 *)
NoPromoIsTrue ==
    [][\A w \in Presses : (rendered'[w] # rendered[w] /\ rendered'[w] = EmptyList) =>
           Matching(rows, serving[w].filtered) = {}]_vars
=============================================================================
