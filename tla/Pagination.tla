----------------------------- MODULE Pagination -----------------------------
(***************************************************************************)
(* paginate: how a report becomes Telegram messages.  The loop over blocks  *)
(* and their parts is one behaviour, one iteration a step.                  *)
(*                                                                          *)
(* A text is the sequence of its lines, of which only the length (in UTF-16 *)
(* units) and the origin matter: line 0 of a block is its header.  Lines    *)
(* are joined by one newline, so the separator "\n\n" between two texts is  *)
(* an empty line between them.                                              *)
(***************************************************************************)
EXTENDS Integers, Sequences, FiniteSets, SequencesExt

CONSTANTS
    Reports,    \* the reports to lay out: sequences of blocks
    Limit,      \* maxMessageLen
    TitleLen,   \* length of the title
    SuffixLen,  \* length of what the suffix adds, the page number apart
    NoticeLen,  \* length of the notice that pages were left out
    MaxPages,   \* at most so many messages
    Radix       \* base page numbers are written in (10 in the program)

SeparatorLen == 2

Digits(n) == IF n < Radix THEN 1 ELSE IF n < Radix * Radix THEN 2 ELSE 3

(* The length of the heading of page n of several. *)
HeadingLen(n) == TitleLen + SuffixLen + Digits(n)

BudgetForPageOne == Limit - HeadingLen(1) - SeparatorLen
Budget == Limit - HeadingLen(MaxPages) - SeparatorLen

ASSUME PagesAssumption ==
    Radix \in Nat /\ Radix > 1 /\ MaxPages \in 1..(Radix * Radix * Radix - 1)
ASSUME LengthsAssumption ==
    /\ Limit \in Nat /\ TitleLen \in Nat /\ SuffixLen \in Nat /\ NoticeLen \in Nat
    /\ Budget \in Nat

(* A report's blocks have lines, and no header, with its longest line or     *)
(* with the notice, fills a message by itself.                               *)
ASSUME ReportsAssumption ==
    /\ Reports \subseteq Seq([header: Nat, lines: Seq(Nat)])
    /\ \A blocks \in Reports : \A b \in DOMAIN blocks :
           LET block == blocks[b] IN
           /\ block.lines # <<>>
           /\ block.header + SeparatorLen + NoticeLen <= Budget
           /\ \A l \in DOMAIN block.lines : block.header + 1 + block.lines[l] <= Budget

VARIABLES
    report,    \* the blocks to lay out
    at,        \* block being laid out
    line,      \* next line of that block for splitBlock
    taken,     \* splitBlock's current: lines of the part being built
    parts,     \* parts of the block that are not on a page yet
    current,   \* text of the page being filled
    pages,     \* full pages
    result,    \* the messages, headings apart
    phase

vars == <<report, at, line, taken, parts, current, pages, result, phase>>

Blank == [block |-> 0, index |-> 0, len |-> 0]
Notice(dropped) == [block |-> 0, index |-> dropped, len |-> NoticeLen]

(* msgLen of the joined lines: up to line n, each with a newline after it,   *)
(* and altogether, without the last newline.                                 *)
Lengths(text) ==
    LET length[n \in 0..Len(text)] == IF n = 0 THEN 0 ELSE length[n - 1] + text[n].len + 1
    IN  length
TextLen(text) == IF text = <<>> THEN 0 ELSE Lengths(text)[Len(text)] - 1

Header(b) == <<[block |-> b, index |-> 0, len |-> report[b].header]>>
Line(b, l) == [block |-> b, index |-> l, len |-> report[b].lines[l]]
Lines(b) == [l \in DOMAIN report[b].lines |-> Line(b, l)]

NoHeader(b, lines) == lines
RenderBlock(b, lines) == Header(b) \o lines

Init ==
    /\ report \in Reports
    /\ at = 1 /\ line = 1 /\ taken = <<>> /\ parts = <<>>
    /\ current = <<>> /\ pages = <<>> /\ result = <<>>
    /\ phase = "block"

-----------------------------------------------------------------------------
(* splitBlock: a block that fits a page by itself stays whole, another is    *)
(* split along its lines.                                                    *)
RestOfPage == Budget - TextLen(current)
Room == Budget

TakeBlock ==
    /\ phase = "block"
    /\ at <= Len(report)
    /\ LET whole == RenderBlock(at, Lines(at))
       IN  \/ /\ TextLen(whole) <= Room
              /\ parts' = <<whole>>
              /\ phase' = "place"
           \/ /\ TextLen(whole) > Room
              /\ phase' = "split"
              /\ UNCHANGED parts
    /\ line' = 1
    /\ taken' = <<>>
    /\ UNCHANGED <<report, at, current, pages, result>>

SplitLine ==
    /\ phase = "split"
    /\ line <= Len(report[at].lines)
    /\ LET next == Line(at, line)
           candidate == RenderBlock(at, Append(taken, next))
       IN  \/ /\ taken # <<>> /\ TextLen(candidate) > Room
              /\ parts' = Append(parts, RenderBlock(at, taken))
              /\ taken' = <<next>>
           \/ /\ ~(taken # <<>> /\ TextLen(candidate) > Room)
              /\ taken' = Append(taken, next)
              /\ UNCHANGED parts
    /\ line' = line + 1
    /\ UNCHANGED <<report, at, current, pages, result, phase>>

SplitEnds ==
    /\ phase = "split"
    /\ line > Len(report[at].lines)
    /\ parts' = IF taken # <<>> THEN Append(parts, RenderBlock(at, taken)) ELSE parts
    /\ taken' = <<>>
    /\ phase' = "place"
    /\ UNCHANGED <<report, at, line, current, pages, result>>

(* A part goes onto the current page, or flushes it and starts the next. *)
FitsBelow(part) == TextLen(current) + SeparatorLen + TextLen(part) < Budget
Fits(part) ==
    LET separator == IF current = <<>> THEN 0 ELSE SeparatorLen
    IN  TextLen(current) + separator + TextLen(part) <= Budget

Flushed == IF current = <<>> THEN pages ELSE Append(pages, current)

Place ==
    /\ phase = "place"
    /\ parts # <<>>
    /\ LET part == Head(parts)
       IN  \/ /\ Fits(part)
              /\ current' = IF current = <<>> THEN part ELSE current \o <<Blank>> \o part
              /\ UNCHANGED pages
           \/ /\ ~Fits(part)
              /\ pages' = Flushed
              /\ current' = part
    /\ parts' = Tail(parts)
    /\ UNCHANGED <<report, at, line, taken, result, phase>>

NextBlock ==
    /\ phase = "place"
    /\ parts = <<>>
    /\ at' = at + 1
    /\ phase' = "block"
    /\ UNCHANGED <<report, line, taken, parts, current, pages, result>>

(* withNotice drops trailing lines until the notice fits. *)
NothingDropped(page, dropped) == page \o <<Blank, Notice(dropped)>>
WithNotice(page, dropped) ==
    LET enough == {n \in 2..Len(page) :
                      TextLen(SubSeq(page, 1, n)) + SeparatorLen + NoticeLen <= Budget}
        kept == CHOOSE n \in enough \cup {1} : \A m \in enough : m <= n
    IN  SubSeq(page, 1, kept) \o <<Blank, Notice(dropped)>>

(* The last page is flushed, and the pages past the cap are left out. *)
PagesSoFar == IF pages = <<>> THEN <<<<>>>> ELSE pages
LaidOut == IF Flushed = <<>> THEN <<<<>>>> ELSE Flushed

Dropped(all) == Len(all) - MaxPages

Capped(all) ==
    IF Len(all) <= MaxPages THEN all
    ELSE Append(SubSeq(all, 1, MaxPages - 1), WithNotice(all[MaxPages], Dropped(all)))

Finish ==
    /\ phase = "block"
    /\ at > Len(report)
    /\ pages' = LaidOut
    /\ result' = Capped(LaidOut)
    /\ current' = <<>>
    /\ phase' = "done"
    /\ UNCHANGED <<report, at, line, taken, parts>>

Terminating == phase = "done" /\ UNCHANGED vars

Next ==
    \/ TakeBlock \/ SplitLine \/ SplitEnds \/ Place \/ NextBlock \/ Finish
    \/ Terminating

Spec == Init /\ [][Next]_vars

-----------------------------------------------------------------------------
(* withTitles: page n of k, with its heading. *)
MessageLen(n) ==
    LET heading == IF Len(result) > 1 THEN HeadingLen(n) ELSE TitleLen
    IN  heading + SeparatorLen + TextLen(result[n])

(* No message is longer than Telegram accepts, whatever its page number, and *)
(* with the notice on it.                                                    *)
EveryMessageFits ==
    phase = "done" => \A n \in DOMAIN result : MessageLen(n) <= Limit

IsLine(l) == l.block > 0 /\ l.index > 0
LinesOf(text) == FlattenSeq([n \in DOMAIN text |-> IF IsLine(text[n]) THEN <<text[n]>> ELSE <<>>])
Content(texts) == FlattenSeq([n \in DOMAIN texts |-> LinesOf(texts[n])])
AllLines == FlattenSeq([b \in DOMAIN report |-> Lines(b)])

(* The messages, no more than allowed, together hold every line of the       *)
(* report once and in order.  If the cap cut something, they hold a          *)
(* beginning of it, and the last message ends with the number of pages that  *)
(* are missing.                                                              *)
NothingLostSilently ==
    phase = "done" =>
        /\ Len(result) \in 1..MaxPages
        /\ IsPrefix(Content(result), AllLines)
        /\ Content(result) = AllLines \/
               IsSuffix(<<Notice(Len(pages) - Len(result))>>, Last(result))
        /\ Len(pages) <= MaxPages => Content(result) = AllLines

(* A line stands on its message under the header of its own block, also when *)
(* the block continues from the message before.                              *)
LinesKeepTheirHeader ==
    phase = "done" => \A n \in DOMAIN result : \A l \in DOMAIN result[n] :
        IsLine(result[n][l]) =>
            \E h \in 1..(l - 1) :
                /\ result[n][h].index = 0
                /\ \A k \in h..l : result[n][k].block = result[n][l].block

PagesOf(b) == {p \in DOMAIN pages : \E l \in DOMAIN pages[p] : pages[p][l].block = b}

(* A block is spread over several pages only if it is too long for one. *)
BlocksStayWhole ==
    phase = "done" => \A b \in DOMAIN report :
        TextLen(RenderBlock(b, Lines(b))) <= Budget => Cardinality(PagesOf(b)) = 1

-----------------------------------------------------------------------------
(* The definition paginate is checked against: how few pages there must be.  *)
(* A page is only ended by a part that did not fit on it any more.           *)
PagesAreFilled ==
    phase = "done" => \A p \in 1..(Len(pages) - 1) :
        LET next == pages[p + 1]
            part == CHOOSE n \in 1..Len(next) :
                        /\ \A k \in 1..n : next[k].block = next[1].block
                        /\ n < Len(next) => next[n + 1].block # next[1].block
        IN  TextLen(pages[p]) + SeparatorLen + TextLen(SubSeq(next, 1, part)) > Budget
=============================================================================
