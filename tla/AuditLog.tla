------------------------------ MODULE AuditLog ------------------------------
(***************************************************************************)
(* audit.FileStorage: one file that goroutines append to with Save and read *)
(* back with FindLogs, through one write handle and one read handle shared  *)
(* by all of them, under one mutex.  PromoService takes Save as one step;   *)
(* here it is the steps of the code, next to readers and Close.             *)
(*                                                                          *)
(* The file is a sequence of lines.  A line has its length in bytes, the    *)
(* newline included, and the saves that wrote to it; it is "whole" if it is *)
(* exactly one JSON object, which then has a time and an action.            *)
(***************************************************************************)
EXTENDS Integers, Sequences, FiniteSets, SequencesExt

CONSTANTS
    Writers,       \* goroutines that call Save
    Readers,       \* goroutines that call FindLogs
    Actions,       \* audited actions
    Filters,       \* the action lists callers of FindLogs ask for
    Sizes,         \* lengths of records
    WriteFaults,   \* TRUE if file.Write may fail
    MaxTailBytes,  \* how much of the file one read replays
    MaxLine,       \* the scanner's limit for a line
    MaxTime,       \* bound: last moment of the clock
    MaxSaves,      \* bound: number of calls of Save
    Nobody         \* the mutex is free

ASSUME NumbersAssumption ==
    /\ MaxTailBytes \in Nat \ {0} /\ MaxLine \in Nat \ {0}
    /\ MaxTime \in Nat /\ MaxSaves \in Nat
    /\ Sizes \subseteq Nat \ {0, 1}
ASSUME FiltersAssumption == \A f \in Filters : f \subseteq Actions
ASSUME NobodyAssumption == Nobody \notin Readers

VARIABLES
    now,       \* the clock
    file,      \* audit.json
    closed,    \* Close was called
    mutex,     \* the reader inside the lock; Save and Close lock for one step
    offset,    \* position of the shared read handle
    calls,     \* number of Save calls so far; the last one's identity
    saving,    \* per writer: the record it has stamped and serialised, if any
    saved,     \* calls of Save that returned nil
    pc,        \* where each reader is
    query,     \* what each reader asked for: since, actions
    found,     \* records each reader has collected
    oldest,    \* earliest time each reader has met; MaxTime + 1: none
    cut,       \* first byte each reader considers
    expected   \* what the read ought to return, fixed when it starts

vars == <<now, file, closed, mutex, offset, calls, saving, saved,
          pc, query, found, oldest, cut, expected>>

readerVars == <<mutex, offset, pc, query, found, oldest, cut, expected>>

NoRecord == [id |-> 0]
NoQuery == [since |-> 0, actions |-> {}]
NoTime == MaxTime + 1

Init ==
    /\ now = 0
    /\ file = <<>>
    /\ closed = FALSE
    /\ mutex = Nobody
    /\ offset = 0
    /\ calls = 0
    /\ saving = [w \in Writers |-> NoRecord]
    /\ saved = {}
    /\ pc = [r \in Readers |-> "start"]
    /\ query = [r \in Readers |-> NoQuery]
    /\ found = [r \in Readers |-> <<>>]
    /\ oldest = [r \in Readers |-> NoTime]
    /\ cut = [r \in Readers |-> 0]
    /\ expected = [r \in Readers |-> {}]

-----------------------------------------------------------------------------
(* Positions in the file: line i is the bytes Start(i) .. End(i) - 1. *)
Ends(lines) ==
    LET end[i \in 0..Len(lines)] == IF i = 0 THEN 0 ELSE end[i - 1] + lines[i].size
    IN  end
End(i) == Ends(file)[i]
Start(i) == End(i - 1)
Size == End(Len(file))
LineAt(position) == CHOOSE i \in DOMAIN file : Start(i) <= position /\ position < End(i)

(* Write: the handle is in append mode, so the bytes go to the end of the    *)
(* file, and onto its last line if that one has no newline.                  *)
Overwritten(record, size, whole, ended) ==
    <<[ids |-> {record.id}, at |-> record.at, action |-> record.action,
       size |-> size, whole |-> whole, ended |-> ended]>>
Written(record, size, whole, ended) ==
    LET line == [ids |-> {record.id}, at |-> record.at, action |-> record.action,
                 size |-> size, whole |-> whole, ended |-> ended]
        last == file[Len(file)]
    IN  IF file = <<>> \/ last.ended
        THEN Append(file, line)
        ELSE [file EXCEPT ![Len(file)] =
                  [last EXCEPT !.ids = @ \cup {record.id}, !.size = @ + size,
                               !.whole = FALSE, !.ended = ended]]

(* matchesAction, and not before since. *)
Matches(line, q) ==
    /\ q.actions = {} \/ line.action \in q.actions
    /\ line.at >= q.since

-----------------------------------------------------------------------------
Tick ==
    /\ now < MaxTime
    /\ now' = now + 1
    /\ UNCHANGED <<file, closed, calls, saving, saved, readerVars>>

(* Save stamps and serialises the record before it locks. *)
Stamp(w) ==
    /\ saving[w] = NoRecord
    /\ calls < MaxSaves
    /\ calls' = calls + 1
    /\ \E a \in Actions, s \in Sizes :
           saving' = [saving EXCEPT ![w] = [id |-> calls', at |-> now, action |-> a, size |-> s]]
    /\ UNCHANGED <<now, file, closed, saved, readerVars>>

MutexIgnored == TRUE
MutexFree == mutex = Nobody

SaveReturns(w) ==
    /\ saving[w] # NoRecord
    /\ MutexFree
    /\ saving' = [saving EXCEPT ![w] = NoRecord]
    /\ UNCHANGED <<now, closed, calls, readerVars>>

Save(w) ==
    /\ SaveReturns(w)
    /\ ~closed
    /\ file' = Written(saving[w], saving[w].size, TRUE, TRUE)
    /\ saved' = saved \cup {saving[w].id}

(* The disk is full, say: nothing was written, or a first byte, or everything *)
(* but the newline.                                                           *)
SaveFails(w) ==
    /\ SaveReturns(w)
    /\ \/ closed /\ UNCHANGED file
       \/ /\ WriteFaults /\ ~closed
          /\ \/ UNCHANGED file
             \/ file' = Written(saving[w], 1, FALSE, FALSE)
             \/ file' = Written(saving[w], saving[w].size - 1, TRUE, FALSE)
    /\ UNCHANGED saved

-----------------------------------------------------------------------------
(* FindLogs locks, takes the size, and rewinds the shared handle to one byte *)
(* before the cut.                                                           *)
CutOf(size) == IF size > MaxTailBytes THEN size - MaxTailBytes ELSE 0

SeekAtCut(start) == start
SeekTo(start) == IF start > 0 THEN start - 1 ELSE start

(* The records a read owes its caller: those that lie within the tail. *)
Owed(q) ==
    {[id |-> CHOOSE id \in file[i].ids : TRUE, at |-> file[i].at] :
        i \in {j \in DOMAIN file : /\ file[j].whole
                                   /\ Start(j) + MaxTailBytes >= Size
                                   /\ Matches(file[j], q)}}

Rewind(r) ==
    /\ pc[r] = "start"
    /\ MutexFree
    /\ ~closed
    /\ mutex' = r
    /\ \E since \in 0..now, f \in Filters :
           LET q == [since |-> since, actions |-> f]
           IN  /\ query' = [query EXCEPT ![r] = q]
               /\ expected' = [expected EXCEPT ![r] = Owed(q)]
    /\ LET start == CutOf(Size)
       IN  /\ cut' = [cut EXCEPT ![r] = start]
           /\ offset' = SeekTo(start)
           /\ pc' = [pc EXCEPT ![r] = IF start > 0 THEN "discard" ELSE "scan"]
    /\ found' = [found EXCEPT ![r] = <<>>]
    /\ oldest' = [oldest EXCEPT ![r] = NoTime]
    /\ UNCHANGED <<now, file, closed, calls, saving, saved>>

(* Stat fails on the closed handle. *)
RewindFails(r) ==
    /\ pc[r] = "start"
    /\ MutexFree
    /\ closed
    /\ pc' = [pc EXCEPT ![r] = "failed"]
    /\ UNCHANGED <<now, file, closed, calls, saving, saved,
                   mutex, offset, query, found, oldest, cut, expected>>

(* Scanner.Scan: the bytes from the handle's position to the end of a line. *)
HasToken == offset < Size /\ End(LineAt(offset)) - offset <= MaxLine

Discard(r) ==
    /\ pc[r] = "discard"
    /\ HasToken
    /\ offset' = End(LineAt(offset))
    /\ pc' = [pc EXCEPT ![r] = "scan"]
    /\ UNCHANGED <<now, file, closed, calls, saving, saved,
                   mutex, query, found, oldest, cut, expected>>

(* A token is a record if it is a whole line; any other is skipped. *)
ScanLine(r) ==
    /\ pc[r] = "scan"
    /\ HasToken
    /\ LET i == LineAt(offset)
           line == file[i]
           parsed == offset = Start(i) /\ line.whole
           entry == [id |-> CHOOSE id \in line.ids : TRUE, at |-> line.at]
       IN  /\ offset' = End(i)
           /\ oldest' = [oldest EXCEPT ![r] =
                            IF parsed /\ line.at < @ THEN line.at ELSE @]
           /\ found' = [found EXCEPT ![r] =
                           IF parsed /\ Matches(line, query[r]) THEN Append(@, entry) ELSE @]
    /\ UNCHANGED <<now, file, closed, calls, saving, saved,
                   mutex, pc, query, cut, expected>>

(* SortStableFunc: the places of the entries in order, of which there is one. *)
ByTime(entries) ==
    {p \in SetToSeqs(DOMAIN entries) :
        \A i, j \in DOMAIN p : i < j =>
            \/ entries[p[i]].at < entries[p[j]].at
            \/ entries[p[i]].at = entries[p[j]].at /\ p[i] < p[j]}
OldestFirst(entries) ==
    {[k \in DOMAIN entries |-> entries[p[k]]] : p \in ByTime(entries)}

(* The end of the file: sort and unlock. *)
Finish(r) ==
    /\ pc[r] = "scan"
    /\ offset >= Size
    /\ \E sorted \in OldestFirst(found[r]) : found' = [found EXCEPT ![r] = sorted]
    /\ pc' = [pc EXCEPT ![r] = "done"]
    /\ mutex' = Nobody
    /\ UNCHANGED <<now, file, closed, calls, saving, saved,
                   offset, query, oldest, cut, expected>>

TryAgain == "start"
GiveUp == "failed"

(* bufio.ErrTooLong, from either Scan: the whole read fails. *)
ScanFails(r) ==
    /\ pc[r] \in {"discard", "scan"}
    /\ offset < Size
    /\ ~HasToken
    /\ pc' = [pc EXCEPT ![r] = GiveUp]
    /\ mutex' = Nobody
    /\ UNCHANGED <<now, file, closed, calls, saving, saved,
                   offset, query, found, oldest, cut, expected>>

Close ==
    /\ ~closed
    /\ MutexFree
    /\ closed' = TRUE
    /\ UNCHANGED <<now, file, calls, saving, saved, readerVars>>

Terminating ==
    /\ now = MaxTime /\ calls = MaxSaves /\ closed
    /\ \A w \in Writers : saving[w] = NoRecord
    /\ \A r \in Readers : pc[r] \in {"done", "failed"}
    /\ UNCHANGED vars

(* The critical section of a reader. *)
Reading(r) == Discard(r) \/ ScanLine(r) \/ Finish(r) \/ ScanFails(r)

Next ==
    \/ Tick
    \/ \E w \in Writers : Stamp(w) \/ Save(w) \/ SaveFails(w)
    \/ \E r \in Readers : Rewind(r) \/ RewindFails(r) \/ Reading(r)
    \/ Close
    \/ Terminating

Spec == Init /\ [][Next]_vars

(* Goroutines run, and a Go mutex serves a goroutine that waited too long    *)
(* before the others.                                                        *)
Fairness ==
    /\ \A w \in Writers : SF_vars(Save(w) \/ SaveFails(w))
    /\ \A r \in Readers : WF_vars(Reading(r)) /\ SF_vars(Rewind(r) \/ RewindFails(r))
FairSpec == Spec /\ Fairness

-----------------------------------------------------------------------------
TypeOK ==
    /\ now \in 0..MaxTime
    /\ \A i \in DOMAIN file :
           /\ file[i].ids \subseteq 1..calls /\ file[i].ids # {}
           /\ file[i].at \in 0..now /\ file[i].size \in Nat \ {0}
           /\ file[i].whole \in BOOLEAN /\ file[i].ended \in BOOLEAN
    /\ closed \in BOOLEAN
    /\ mutex \in Readers \cup {Nobody}
    /\ offset \in 0..Size
    /\ calls \in 0..MaxSaves
    /\ \A w \in Writers : saving[w] = NoRecord \/ saving[w].at \in 0..now
    /\ saved \subseteq 1..calls
    /\ pc \in [Readers -> {"start", "discard", "scan", "done", "failed"}]
    /\ \A r \in Readers : (mutex = r) <=> pc[r] \in {"discard", "scan"}
    /\ oldest \in [Readers -> 0..NoTime]

(* FindLogs returns exactly the matching records of the tail, once each,     *)
(* oldest first: the cut takes no record that lies within the tail and       *)
(* leaves no half of one, nothing another reader does to the shared handle   *)
(* gets in, and no Save is seen half.                                        *)
ReadIsExact ==
    \A r \in Readers : pc[r] = "done" =>
        /\ ToSet(found[r]) = expected[r]
        /\ Len(found[r]) = Cardinality(expected[r])
        /\ \A i, j \in DOMAIN found[r] : i < j => found[r][i].at <= found[r][j].at

(* A Save that returned nil is in the file: whole on a line of its own,      *)
(* unless it was appended to what a failed write had left.                   *)
SavedIsInFile ==
    \A id \in saved : \E i \in DOMAIN file :
        /\ id \in file[i].ids
        /\ file[i].whole \/ \E other \in file[i].ids : other \notin saved

(* The warning that the tail does not reach back to since. *)
WarnedLate(r) == cut[r] > 0 /\ oldest[r] # NoTime /\ oldest[r] > query[r].since + 1
Warned(r) == cut[r] > 0 /\ oldest[r] # NoTime /\ oldest[r] > query[r].since

(* The Save of line j had stamped its record when that of line i did: if i   *)
(* comes first in the file, it overtook j on the way to the mutex.           *)
Overtook(i, j) == \E id \in file[j].ids : \A later \in file[i].ids : id < later

(* A matching record, younger than the moment asked for, that the cut left   *)
(* out is announced with a warning when the tail has been read, whatever     *)
(* writers, readers and failed writes do meanwhile.  There are two           *)
(* exceptions.  If no line of the tail is a record, FindLogs has no time to  *)
(* compare and says nothing; and a record that overtook another Save is      *)
(* missed if that one, stamped before, is in the tail and makes it look as   *)
(* if it reached far enough.                                                 *)
NothingLeftOutQuietly ==
    \A r \in Readers : (pc[r] = "scan" /\ offset >= Size /\ ~Warned(r)) =>
        \A i \in DOMAIN file :
            (/\ file[i].whole /\ Start(i) < cut[r]
             /\ Matches(file[i], query[r]) /\ file[i].at > query[r].since)
            => \/ \A j \in DOMAIN file : Start(j) >= cut[r] => ~file[j].whole
               \/ \E j \in (i + 1)..Len(file) :
                     Start(j) >= cut[r] /\ file[j].at <= query[r].since /\ Overtook(i, j)

(* Nobody waits for the mutex for ever: every Save returns and every         *)
(* FindLogs ends, also when a line is too long or the storage is closed.     *)
CallsReturn ==
    /\ \A w \in Writers : saving[w] # NoRecord ~> saving[w] = NoRecord
    /\ \A r \in Readers : <>(pc[r] \in {"done", "failed"})
=============================================================================
