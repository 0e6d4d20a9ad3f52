---------------------------- MODULE AuditLogProofs ----------------------------
(***************************************************************************)
(* Why a Save that returned nil can be relied on: its record is on a line   *)
(* of its own in the file, unless the line had been left unended by a write *)
(* that failed; and then that line names the failed call, which is never    *)
(* confirmed later.  And why a FindLogs that returned can: between Rewind   *)
(* and Finish the file stands still, the handle goes from the end of one    *)
(* line to the end of the next, and what was found so far is what there is  *)
(* to be found up to there.                                                 *)
(***************************************************************************)
EXTENDS AuditLog, NaturalsInduction, WellFoundedInduction, FiniteSetTheorems, TLAPS

-----------------------------------------------------------------------------
(* Induction over numbers, for a set of them. *)
LEMMA LeastNumber ==
    ASSUME NEW S \in SUBSET Nat, S # {}
    PROVE  \E n \in S : \A m \in S : n <= m
<1> DEFINE R == {p \in Nat \X Nat : p[1] < p[2]}
<1>1. IsWellFoundedOn(R, Nat)
  BY NatLessThanWellFounded DEF OpToRel
<1> HIDE DEF R
<1>2. PICK n \in S : \A m \in S : <<m, n>> \notin R
  BY <1>1, WFMin
<1>3. \A m \in S : ~(m < n)
  BY <1>2 DEF R
<1> QED BY <1>3

LEMMA AllNumbers ==
    ASSUME NEW S \in SUBSET Nat, 0 \in S, \A n \in S : n + 1 \in S
    PROVE  S = Nat
<1> SUFFICES ASSUME Nat \ S # {} PROVE FALSE
  OBVIOUS
<1>1. PICK n \in Nat \ S : \A m \in Nat \ S : n <= m
  BY LeastNumber
<1>2. n # 0 /\ n - 1 \in Nat /\ n - 1 \notin Nat \ S
  BY <1>1
<1> QED BY <1>1, <1>2

-----------------------------------------------------------------------------
(* Where the lines of a file end: one after the other, as long as they are.  *)
Sized(lines) == Len(lines) \in Nat /\ \A i \in 1..Len(lines) : lines[i].size \in Nat \ {0}

AddsUp(e, lines, n) ==
    /\ e = [i \in 0..n |-> e[i]] /\ e[0] = 0
    /\ \A i \in 1..n : e[i] = e[i - 1] + lines[i].size

LEMMA EndsExist ==
    ASSUME NEW lines, Len(lines) \in Nat
    PROVE  AddsUp(Ends(lines), lines, Len(lines))
<1> DEFINE S == {n \in Nat : \E e : AddsUp(e, lines, n)}
<1>1. 0 \in S
  <2>1. AddsUp([i \in 0..0 |-> 0], lines, 0)
    BY DEF AddsUp
  <2> QED BY <2>1
<1>2. ASSUME NEW n \in S PROVE n + 1 \in S
  <2>1. PICK e : AddsUp(e, lines, n)
    OBVIOUS
  <2> DEFINE longer == [i \in 0..(n + 1) |-> IF i = n + 1 THEN e[n] + lines[n + 1].size ELSE e[i]]
  <2>2. longer[0] = 0 /\ longer = [i \in 0..(n + 1) |-> longer[i]]
    BY <2>1 DEF AddsUp
  <2>3. ASSUME NEW i \in 1..(n + 1) PROVE longer[i] = longer[i - 1] + lines[i].size
    <3>1. CASE i = n + 1
      BY <3>1
    <3>2. CASE i \in 1..n
      BY <2>1, <3>2 DEF AddsUp
    <3> QED BY <3>1, <3>2
  <2>4. AddsUp(longer, lines, n + 1)
    BY <2>2, <2>3 DEF AddsUp
  <2> QED BY <2>4
<1> HIDE DEF S
<1>3. S \in SUBSET Nat
  BY DEF S
<1>4. PICK e : AddsUp(e, lines, Len(lines))
  <2>1. S = Nat
    BY <1>1, <1>2, <1>3, AllNumbers
  <2> QED BY <2>1 DEF S
<1> DEFINE Equation(f) == f = [i \in 0..Len(lines) |-> IF i = 0 THEN 0 ELSE f[i - 1] + lines[i].size]
<1>5. Equation(e)
  BY <1>4 DEF AddsUp
<1>6. Ends(lines) = CHOOSE f : Equation(f)
  BY DEF Ends
<1> HIDE DEF Equation
<1>7. Equation(Ends(lines))
  BY <1>5, <1>6
<1> DEFINE g == Ends(lines)
<1>8. g = [i \in 0..Len(lines) |-> IF i = 0 THEN 0 ELSE g[i - 1] + lines[i].size]
  BY <1>7 DEF Equation
<1> HIDE DEF g
<1>9. AddsUp(g, lines, Len(lines))
  BY <1>8 DEF AddsUp
<1> QED BY <1>9 DEF g

LEMMA EndsGrow ==
    ASSUME NEW lines, Sized(lines)
    PROVE  /\ Ends(lines) \in [0..Len(lines) -> Nat] /\ Ends(lines)[0] = 0
           /\ \A i \in 1..Len(lines) : Ends(lines)[i] = Ends(lines)[i - 1] + lines[i].size
           /\ \A i, j \in 0..Len(lines) : i < j => Ends(lines)[i] < Ends(lines)[j]
<1> DEFINE n == Len(lines)
           e == Ends(lines)
           S == {j \in Nat : j <= n => /\ \A i \in 0..j : e[i] \in Nat
                                      /\ \A i \in 0..(j - 1) : e[i] < e[j]}
<1>1. n \in Nat /\ \A i \in 1..n : lines[i].size \in Nat \ {0}
  BY DEF Sized
<1>2. /\ e = [i \in 0..n |-> e[i]] /\ e[0] = 0
      /\ \A i \in 1..n : e[i] = e[i - 1] + lines[i].size
  BY <1>1, EndsExist DEF AddsUp
<1> HIDE DEF n, e
<1>3. 0 \in S
  BY <1>2
<1>4. ASSUME NEW j \in S PROVE j + 1 \in S
  <2> SUFFICES ASSUME j + 1 <= n
               PROVE  /\ \A i \in 0..(j + 1) : e[i] \in Nat
                      /\ \A i \in 0..j : e[i] < e[j + 1]
    OBVIOUS
  <2>1. j \in Nat /\ j + 1 \in 1..n /\ (j + 1) - 1 = j
    BY <1>1
  <2>2. /\ \A i \in 0..j : e[i] \in Nat
        /\ \A i \in 0..(j - 1) : e[i] < e[j]
    BY <1>1, <2>1
  <2>3. lines[j + 1].size \in Nat \ {0} /\ e[j + 1] = e[j] + lines[j + 1].size
    BY <1>1, <1>2, <2>1
  <2>4. e[j] \in Nat /\ e[j + 1] \in Nat /\ e[j] < e[j + 1]
    BY <2>1, <2>2, <2>3
  <2>5. ASSUME NEW i \in 0..j PROVE e[i] < e[j + 1]
    <3>1. CASE i = j
      BY <2>4, <3>1
    <3>2. CASE i \in 0..(j - 1)
      <4>1. e[i] \in Nat /\ e[i] < e[j]
        BY <2>1, <2>2, <3>2
      <4> QED BY <2>4, <4>1
    <3> QED BY <2>1, <3>1, <3>2
  <2>6. \A i \in 0..(j + 1) : e[i] \in Nat
    BY <2>1, <2>2, <2>4
  <2> QED BY <2>5, <2>6
<1> HIDE DEF S
<1>5. S = Nat
  <2>1. S \in SUBSET Nat
    BY DEF S
  <2> QED BY <1>3, <1>4, <2>1, AllNumbers
<1>6. \A j \in 0..n : e[j] \in Nat /\ \A i \in 0..(j - 1) : e[i] < e[j]
  BY <1>1, <1>5 DEF S
<1> QED BY <1>1, <1>2, <1>6 DEF n, e

(* Lines that are as long end where they ended. *)
LEMMA EndsAgree ==
    ASSUME NEW lines, NEW more, Sized(lines), Sized(more),
           NEW n \in Nat, n <= Len(lines), n <= Len(more),
           \A i \in 1..n : more[i].size = lines[i].size
    PROVE  \A i \in 0..n : Ends(more)[i] = Ends(lines)[i]
<1> DEFINE S == {i \in Nat : i <= n => Ends(more)[i] = Ends(lines)[i]}
<1>1. 0 \in S
  BY EndsGrow
<1>2. ASSUME NEW i \in S PROVE i + 1 \in S
  <2> SUFFICES ASSUME i + 1 <= n PROVE Ends(more)[i + 1] = Ends(lines)[i + 1]
    OBVIOUS
  <2>1. i \in Nat /\ i + 1 \in 1..n /\ (i + 1) - 1 = i
        /\ i + 1 \in 1..Len(lines) /\ i + 1 \in 1..Len(more)
    BY DEF Sized
  <2>2. /\ Ends(lines)[i + 1] = Ends(lines)[i] + lines[i + 1].size
        /\ Ends(more)[i + 1] = Ends(more)[i] + more[i + 1].size
    BY <2>1, EndsGrow
  <2> QED BY <2>1, <2>2
<1> HIDE DEF S
<1>3. S = Nat
  <2>1. S \in SUBSET Nat
    BY DEF S
  <2> QED BY <1>1, <1>2, <2>1, AllNumbers
<1> QED BY <1>3 DEF S

(* Every byte of the file lies on one line. *)
LEMMA BytesLieOnLines ==
    ASSUME Sized(file), NEW p \in Nat, p < Size
    PROVE  LineAt(p) \in DOMAIN file /\ Start(LineAt(p)) <= p /\ p < End(LineAt(p))
<1> DEFINE n == Len(file)
           Beyond == {j \in 0..n : p < End(j)}
<1>1. n \in Nat /\ DOMAIN file = 1..n
  BY DEF Sized
<1>2. (\A j \in 0..n : End(j) \in Nat) /\ End(0) = 0
  BY <1>1, EndsGrow DEF End
<1>3. Beyond \in SUBSET Nat /\ n \in Beyond
  BY <1>1 DEF Size
<1>4. PICK i \in Beyond : \A j \in Beyond : i <= j
  BY <1>3, LeastNumber
<1>5. i \in 1..n /\ i - 1 \in 0..n /\ i - 1 \notin Beyond
  BY <1>1, <1>2, <1>4
<1>6. i \in DOMAIN file /\ Start(i) <= p /\ p < End(i)
  BY <1>1, <1>2, <1>5 DEF Start
<1> QED BY <1>6 DEF LineAt

LEMMA LineFrom ==
    ASSUME Sized(file), NEW k \in 0..Len(file), End(k) < Size
    PROVE  k + 1 \in DOMAIN file /\ Start(k + 1) = End(k) /\ LineAt(End(k)) = k + 1
<1> DEFINE n == Len(file)
           i == LineAt(End(k))
<1>1. n \in Nat /\ k \in 0..n /\ DOMAIN file = 1..n
  BY DEF Sized
<1>2. /\ \A j \in 0..n : End(j) \in Nat
      /\ \A l, m \in 0..n : l < m => End(l) < End(m)
  BY EndsGrow DEF End
<1>3. i \in 1..n /\ End(i - 1) <= End(k) /\ End(k) < End(i)
  BY <1>1, <1>2, BytesLieOnLines DEF Start
<1> HIDE DEF i
<1>4. ~(k < i - 1) /\ ~(i < k) /\ i # k
  BY <1>1, <1>2, <1>3
<1>5. i = k + 1
  BY <1>1, <1>3, <1>4
<1> QED BY <1>1, <1>3, <1>5 DEF i, Start

-----------------------------------------------------------------------------
Line == [ids: SUBSET Nat, at: Nat, action: Actions, size: Nat, whole: BOOLEAN, ended: BOOLEAN]
StampedRecord == [id: Nat \ {0}, at: Nat, action: Actions, size: Sizes]

Types ==
    /\ now \in Nat /\ calls \in Nat
    /\ file \in Seq(Line)
    /\ saving \in [Writers -> {NoRecord} \cup StampedRecord]

(* A call has one record in its hands, and nothing of it is in the file. *)
RecordsAreFresh ==
    /\ saved \subseteq 0..calls
    /\ \A w \in Writers : saving[w] # NoRecord =>
          /\ saving[w].id <= calls /\ saving[w].id \notin saved
          /\ \A v \in Writers : (v # w /\ saving[v] # NoRecord) => saving[v].id # saving[w].id

(* A call that is over and returned an error. *)
Failed(id) ==
    /\ id \in 0..calls /\ id \notin saved
    /\ \A w \in Writers : saving[w] # NoRecord => saving[w].id # id

(* A line that is not one whole, ended record was touched by such a call. *)
DamageHasAName ==
    \A i \in DOMAIN file : ~(file[i].whole /\ file[i].ended) =>
        \E id \in file[i].ids : Failed(id)

SaveInv == Types /\ RecordsAreFresh /\ DamageHasAName /\ SavedIsInFile

-----------------------------------------------------------------------------
LEMMA InitSaveInv == Init => SaveInv
BY NumbersAssumption
   DEF Init, SaveInv, Types, RecordsAreFresh, DamageHasAName, SavedIsInFile

LEMMA StampedFields ==
    ASSUME Types, NEW w \in Writers, saving[w] # NoRecord
    PROVE  /\ saving[w].id \in Nat /\ saving[w].at \in Nat
           /\ saving[w].action \in Actions
           /\ saving[w].size \in Nat /\ saving[w].size - 1 \in Nat
<1>1. saving[w] \in StampedRecord
  BY DEF Types
<1>2. saving[w].size \in Nat \ {0, 1}
  BY <1>1, NumbersAssumption DEF StampedRecord
<1> QED BY <1>1, <1>2 DEF StampedRecord

(* What Write does to the lines of the file: all but a last, unended one     *)
(* stay as they are; that one grows, and is no whole record after it.        *)
LEMMA WrittenLines ==
    ASSUME Types, NEW w \in Writers, saving[w] # NoRecord,
           NEW size \in Nat, NEW whole \in BOOLEAN, NEW ended \in BOOLEAN,
           file' = Written(saving[w], size, whole, ended)
    PROVE  /\ file' \in Seq(Line)
           /\ DOMAIN file \subseteq DOMAIN file'
           /\ \A i \in DOMAIN file : file'[i] = file[i] \/
                 (/\ ~file[i].ended /\ ~file'[i].whole
                  /\ file'[i].ids = file[i].ids \cup {saving[w].id})
           /\ \E i \in DOMAIN file' :
                 /\ saving[w].id \in file'[i].ids
                 /\ \A j \in DOMAIN file' : j # i => j \in DOMAIN file /\ file'[j] = file[j]
                 /\ \/ i \in DOMAIN file /\ ~file[i].ended
                    \/ i \notin DOMAIN file /\ file'[i].whole = whole /\ file'[i].ended = ended
<1> DEFINE line == [ids |-> {saving[w].id}, at |-> saving[w].at, action |-> saving[w].action,
                    size |-> size, whole |-> whole, ended |-> ended]
           n == Len(file)
<1>1. line \in Line
  BY StampedFields DEF Line
<1>2. file \in Seq(Line) /\ n \in Nat /\ DOMAIN file = 1..n
  BY DEF Types
<1>3. CASE file = <<>> \/ file[n].ended
  <2>1. file' = Append(file, line)
    BY <1>3 DEF Written
  <2> HIDE DEF line
  <2>2. file' \in Seq(Line) /\ DOMAIN file' = 1..(n + 1) /\ file'[n + 1] = line
        /\ \A i \in DOMAIN file : file'[i] = file[i]
    BY <1>1, <1>2, <2>1
  <2>3. saving[w].id \in line.ids /\ line.whole = whole /\ line.ended = ended
    BY DEF line
  <2> QED BY <1>2, <2>2, <2>3
<1>4. CASE ~(file = <<>> \/ file[n].ended)
  <2> DEFINE last == [file[n] EXCEPT !.ids = @ \cup {saving[w].id}, !.size = @ + size,
                                     !.whole = FALSE, !.ended = ended]
  <2>1. file' = [file EXCEPT ![n] = last]
    BY <1>4 DEF Written
  <2>2. n \in DOMAIN file /\ file[n] \in Line
    BY <1>2, <1>4
  <2>3. last \in Line /\ last.ids = file[n].ids \cup {saving[w].id} /\ ~last.whole
    <3>1. saving[w].id \in Nat /\ file[n].size + size \in Nat
      BY <2>2, StampedFields DEF Line
    <3>2. last \in Line
      BY <2>2, <3>1 DEF Line
    <3>3. last.ids = file[n].ids \cup {saving[w].id}
      BY <2>2 DEF Line
    <3>4. ~last.whole
      BY <2>2 DEF Line
    <3> QED BY <3>2, <3>3, <3>4
  <2> HIDE DEF last
  <2>4. file' \in Seq(Line) /\ DOMAIN file' = DOMAIN file /\ file'[n] = last
        /\ \A i \in DOMAIN file : i # n => file'[i] = file[i]
    BY <1>2, <2>1, <2>2, <2>3
  <2> QED BY <1>4, <2>2, <2>3, <2>4
<1> QED BY <1>3, <1>4

(* The end of a call of Save that wrote something: if all of it, then it is  *)
(* confirmed.  A line that is damaged already keeps the name of its damage,  *)
(* because a call that has failed is not among those confirmed later.        *)
LEMMA WriteKeeps ==
    ASSUME SaveInv, NEW w \in Writers, saving[w] # NoRecord,
           NEW size \in Nat, NEW whole \in BOOLEAN, NEW ended \in BOOLEAN,
           file' = Written(saving[w], size, whole, ended),
           saving' = [saving EXCEPT ![w] = NoRecord], UNCHANGED <<now, calls>>,
           \/ saved' = saved
           \/ saved' = saved \cup {saving[w].id} /\ whole /\ ended
    PROVE  SaveInv'
<1> PICK id : id = saving[w].id
  OBVIOUS
<1> USE DEF SaveInv
<1>1. Types'
  BY WrittenLines DEF Types
<1>2. /\ saving'[w] = NoRecord /\ \A v \in Writers : v # w => saving'[v] = saving[v]
      /\ id \in 0..calls /\ id \notin saved
      /\ \A v \in Writers : (v # w /\ saving[v] # NoRecord) => saving[v].id # id
  BY StampedFields DEF Types, RecordsAreFresh
<1>3. RecordsAreFresh'
  BY <1>2 DEF RecordsAreFresh
<1>4. \A x : Failed(x) => Failed(x)' /\ x # id
  BY <1>2 DEF Failed
<1>5. saved' = saved => Failed(id)'
  BY <1>2 DEF Failed
<1>6. PICK k \in DOMAIN file' :
          /\ id \in file'[k].ids
          /\ \A j \in DOMAIN file' : j # k => j \in DOMAIN file /\ file'[j] = file[j]
          /\ \/ k \in DOMAIN file /\ ~file[k].ended
             \/ k \notin DOMAIN file /\ file'[k].whole = whole /\ file'[k].ended = ended
  BY WrittenLines
<1>7. /\ DOMAIN file \subseteq DOMAIN file'
      /\ \A i \in DOMAIN file : file[i].ids \subseteq file'[i].ids
      /\ \A i \in DOMAIN file : file'[i] # file[i] => ~file[i].ended
  <2>1. /\ DOMAIN file \subseteq DOMAIN file'
        /\ \A i \in DOMAIN file : file'[i] = file[i] \/
                 (~file[i].ended /\ file'[i].ids = file[i].ids \cup {id})
    BY WrittenLines
  <2> QED BY <2>1
<1>8. k \in DOMAIN file => \E x \in file'[k].ids : Failed(x)' /\ x # id
  BY <1>4, <1>6, <1>7 DEF DamageHasAName
<1>9. DamageHasAName'
  <2>1. ASSUME NEW i \in DOMAIN file', ~(file'[i].whole /\ file'[i].ended)
        PROVE  \E x \in file'[i].ids : Failed(x)'
    <3>1. CASE i # k
      BY <1>4, <1>6, <2>1, <3>1 DEF DamageHasAName
    <3>2. CASE i = k /\ k \in DOMAIN file
      BY <1>8, <3>2
    <3>3. CASE i = k /\ k \notin DOMAIN file
      BY <1>5, <1>6, <2>1, <3>3
    <3> QED BY <3>1, <3>2, <3>3
  <2> QED BY <2>1 DEF DamageHasAName
<1>10. SavedIsInFile'
  <2>1. ASSUME NEW x \in saved'
        PROVE  \E i \in DOMAIN file' :
                  /\ x \in file'[i].ids
                  /\ file'[i].whole \/ \E other \in file'[i].ids : other \notin saved'
    <3>1. CASE x = id
      <4>1. whole /\ ended
        BY <1>2, <2>1, <3>1
      <4> QED BY <1>6, <1>8, <3>1, <4>1 DEF Failed
    <3>2. CASE x # id
      <4>1. PICK i \in DOMAIN file :
                /\ x \in file[i].ids
                /\ file[i].whole \/ \E other \in file[i].ids : other \notin saved
        BY <2>1, <3>2 DEF SavedIsInFile
      <4>2. i \in DOMAIN file' /\ x \in file'[i].ids
        BY <1>7, <4>1
      <4>3. CASE file'[i] = file[i] /\ file[i].whole
        BY <4>2, <4>3
      <4>4. CASE ~file[i].whole \/ file'[i] # file[i]
        <5>1. PICK y \in file[i].ids : Failed(y)
          BY <1>7, <4>4 DEF DamageHasAName
        <5>2. y \in file'[i].ids /\ y \notin saved'
          BY <1>4, <1>7, <5>1 DEF Failed
        <5> QED BY <4>2, <5>2
      <4> QED BY <4>3, <4>4
    <3> QED BY <3>1, <3>2
  <2> QED BY <2>1 DEF SavedIsInFile
<1> QED BY <1>1, <1>3, <1>9, <1>10

LEMMA NextSaveInv == SaveInv /\ [Next]_vars => SaveInv'
<1> SUFFICES ASSUME SaveInv, [Next]_vars PROVE SaveInv'
  OBVIOUS
<1> USE DEF SaveInv
<1>1. ASSUME NEW w \in Writers, Stamp(w) PROVE SaveInv'
  <2>1. PICK a \in Actions, s \in Sizes :
            saving' = [saving EXCEPT ![w] = [id |-> calls', at |-> now, action |-> a, size |-> s]]
    BY <1>1 DEF Stamp
  <2> DEFINE stamped == [id |-> calls', at |-> now, action |-> a, size |-> s]
  <2>2. /\ UNCHANGED <<now, file, saved>> /\ calls' = calls + 1
        /\ stamped \in StampedRecord /\ stamped.id = calls'
    BY <1>1 DEF Stamp, Types, StampedRecord
  <2> HIDE DEF stamped
  <2>3. saving'[w] = stamped /\ \A v \in Writers : v # w => saving'[v] = saving[v]
    BY <2>1 DEF Types, stamped
  <2>4. Types'
    <3>1. saving' \in [Writers -> {NoRecord} \cup StampedRecord]
      BY <2>1, <2>2 DEF Types, stamped
    <3> QED BY <2>2, <3>1 DEF Types
  <2>5. \A v \in Writers : saving[v] # NoRecord => saving[v].id \in 0..calls
    BY StampedFields DEF RecordsAreFresh, Types
  <2>6. RecordsAreFresh'
    BY <2>2, <2>3, <2>5 DEF RecordsAreFresh, Types
  <2>7. \A x : Failed(x) => Failed(x)'
    BY <2>2, <2>3 DEF Failed, Types
  <2>8. DamageHasAName' /\ SavedIsInFile'
    BY <2>2, <2>7 DEF DamageHasAName, SavedIsInFile
  <2> QED BY <2>4, <2>6, <2>8
<1>2. ASSUME NEW w \in Writers, Save(w) PROVE SaveInv'
  <2>1. saving[w].size \in Nat
    BY <1>2, StampedFields DEF Save, SaveReturns
  <2> QED BY <1>2, <2>1, WriteKeeps DEF Save, SaveReturns
<1>3. ASSUME NEW w \in Writers, SaveFails(w) PROVE SaveInv'
  <2>1. /\ saving[w] # NoRecord /\ saving' = [saving EXCEPT ![w] = NoRecord]
        /\ UNCHANGED <<now, calls, saved>>
    BY <1>3 DEF SaveFails, SaveReturns
  <2>2. saving[w].size - 1 \in Nat
    BY <2>1, StampedFields
  <2>3. CASE UNCHANGED file
    <3>1. \A x : Failed(x) => Failed(x)'
      BY <2>1 DEF Failed, Types
    <3> QED BY <2>1, <2>3, <3>1 DEF Types, RecordsAreFresh, DamageHasAName, SavedIsInFile
  <2>4. CASE ~UNCHANGED file
    BY <1>3, <2>1, <2>2, <2>4, WriteKeeps DEF SaveFails
  <2> QED BY <2>3, <2>4
<1>4. CASE UNCHANGED <<file, calls, saving, saved>> /\ now' \in {now, now + 1}
  BY <1>4 DEF Types, RecordsAreFresh, DamageHasAName, Failed, SavedIsInFile
<1> QED BY <1>1, <1>2, <1>3, <1>4
        DEF Next, Tick, Rewind, RewindFails, Reading, Discard, ScanLine, Finish, ScanFails,
            Close, Terminating, vars, readerVars

(* What Save has confirmed is in the file for good, for any number of        *)
(* goroutines and any writes that fail half way: whole, unless a failed      *)
(* write had left the line unended on which it was appended.                 *)
THEOREM ConfirmedIsKept == Spec => []SavedIsInFile
<1>1. SaveInv => SavedIsInFile
  BY DEF SaveInv
<1> QED BY InitSaveInv, NextSaveInv, <1>1, PTL DEF Spec

-----------------------------------------------------------------------------
(* The reads.  No two lines have a call in common, so a record stands for    *)
(* its line.                                                                 *)
LinesInv ==
    /\ now \in 0..MaxTime /\ calls \in 0..MaxSaves /\ closed \in BOOLEAN
    /\ saved \subseteq 1..calls
    /\ \A i \in DOMAIN file :
          /\ file[i].ids \subseteq 1..calls /\ file[i].ids # {}
          /\ file[i].at \in 0..now /\ file[i].size \in Nat \ {0}
    /\ \A i, j \in DOMAIN file : i # j => file[i].ids \cap file[j].ids = {}
    /\ \A w \in Writers : saving[w] # NoRecord =>
          /\ saving[w].at \in 0..now
          /\ \A i \in DOMAIN file : saving[w].id \notin file[i].ids

Entry == [id: Nat, at: Nat]
EntryOf(i) == [id |-> CHOOSE id \in file[i].ids : TRUE, at |-> file[i].at]

(* The lines a read wants: whole ones, from the cut on, that match. *)
Wanted(r) ==
    {i \in DOMAIN file : /\ file[i].whole /\ Start(i) >= cut[r]
                         /\ Matches(file[i], query[r])}
Collected(r, k) == {EntryOf(i) : i \in {j \in Wanted(r) : j <= k}}

ReaderTypes ==
    /\ mutex \in Readers \cup {Nobody}
    /\ offset \in 0..Size
    /\ pc \in [Readers -> {"start", "discard", "scan", "done", "failed"}]
    /\ query \in [Readers -> [since: Nat, actions: SUBSET Actions]]
    /\ found \in [Readers -> Seq(Entry)]
    /\ oldest \in [Readers -> 0..NoTime]
    /\ cut \in [Readers -> Nat]
    /\ expected \in [Readers -> SUBSET Entry]
    /\ \A r \in Readers : (mutex = r) <=> pc[r] \in {"discard", "scan"}

(* The reader in the critical section knows where the file ends, and what is *)
(* expected of it is what that file has for it.                              *)
AtWork(r) ==
    pc[r] \in {"discard", "scan"} =>
        /\ cut[r] = CutOf(Size)
        /\ expected[r] = {EntryOf(i) : i \in Wanted(r)}
AtCut(r) ==
    pc[r] = "discard" =>
        cut[r] > 0 /\ offset = cut[r] - 1 /\ found[r] = <<>> /\ oldest[r] = NoTime
(* The handle is at the end of a line, and what there is up to it is found. *)
Scanned(r) ==
    pc[r] = "scan" =>
        /\ offset >= cut[r] /\ IsInjective(found[r])
        /\ \E k \in 0..Len(file) : offset = End(k) /\ ToSet(found[r]) = Collected(r, k)
(* The oldest time a read has met is that of a line from the cut on. *)
OldestFound(r) ==
    (pc[r] \in {"scan", "done"} /\ oldest[r] # NoTime) =>
        \E m \in DOMAIN file : Start(m) >= cut[r] /\ file[m].at = oldest[r]
(* No record the handle has passed is older. *)
NothingOlder(r) ==
    pc[r] = "scan" =>
        \A m \in DOMAIN file :
            (file[m].whole /\ Start(m) >= cut[r] /\ Start(m) < offset) => oldest[r] <= file[m].at
Returned(r) ==
    pc[r] = "done" =>
        /\ ToSet(found[r]) = expected[r]
        /\ Len(found[r]) = Cardinality(expected[r])
        /\ \A i, j \in DOMAIN found[r] : i < j => found[r][i].at <= found[r][j].at

ReaderInv(r) ==
    /\ cut[r] <= Size /\ AtWork(r) /\ AtCut(r) /\ Scanned(r)
    /\ OldestFound(r) /\ NothingOlder(r) /\ Returned(r)

ReadInv == SaveInv /\ LinesInv /\ ReaderTypes /\ \A r \in Readers : ReaderInv(r)

-----------------------------------------------------------------------------
(* What a write does to the file, seen from a read. *)
LEMMA FileIsSized ==
    ASSUME SaveInv, LinesInv
    PROVE  Sized(file) /\ Len(file) \in Nat /\ DOMAIN file = 1..Len(file)
<1>1. Len(file) \in Nat /\ DOMAIN file = 1..Len(file)
  BY DEF SaveInv, Types
<1> QED BY <1>1 DEF Sized, LinesInv

LEMMA WrittenGrows ==
    ASSUME SaveInv, LinesInv, NEW w \in Writers, saving[w] # NoRecord,
           NEW size \in Nat \ {0}, NEW whole \in BOOLEAN, NEW ended \in BOOLEAN,
           file' = Written(saving[w], size, whole, ended)
    PROVE  /\ Len(file') \in {Len(file), Len(file) + 1} /\ Len(file') >= 1
           /\ \A i \in DOMAIN file : i < Len(file') => file'[i] = file[i]
           /\ \A i \in DOMAIN file : file'[i].at = file[i].at
           /\ \A i \in DOMAIN file' : file'[i].size \in Nat \ {0}
           /\ \A i \in DOMAIN file' :
                 file'[i].ids = (IF i \in DOMAIN file THEN file[i].ids ELSE {})
                                \cup (IF i = Len(file') THEN {saving[w].id} ELSE {})
           /\ \A i \in DOMAIN file' \ DOMAIN file : file'[i].at = saving[w].at
           /\ \A i \in DOMAIN file : file'[i].size >= file[i].size
<1> DEFINE line == [ids |-> {saving[w].id}, at |-> saving[w].at, action |-> saving[w].action,
                    size |-> size, whole |-> whole, ended |-> ended]
           n == Len(file)
<1>1. file \in Seq(Line) /\ n \in Nat /\ DOMAIN file = 1..n
  BY DEF SaveInv, Types
<1>2. \A i \in DOMAIN file : file[i].size \in Nat \ {0}
  BY DEF LinesInv
<1>3. line \in Line
  BY StampedFields DEF SaveInv, Line
<1>4. CASE file = <<>> \/ file[n].ended
  <2>1. file' = Append(file, line)
    BY <1>4 DEF Written
  <2>2. line.size = size /\ line.at = saving[w].at /\ line.ids = {saving[w].id}
    OBVIOUS
  <2> HIDE DEF line
  <2>3. /\ Len(file') = n + 1 /\ DOMAIN file' = 1..(n + 1) /\ file'[n + 1] = line
        /\ \A i \in DOMAIN file : file'[i] = file[i]
    BY <1>1, <1>3, <2>1
  <2>4. \A i \in DOMAIN file' : (i \in DOMAIN file /\ i # n + 1) \/ (i = n + 1 /\ i \notin DOMAIN file)
    BY <1>1, <2>3
  <2>5. \A i \in DOMAIN file' :
            file'[i].ids = (IF i \in DOMAIN file THEN file[i].ids ELSE {})
                           \cup (IF i = Len(file') THEN {saving[w].id} ELSE {})
    BY <2>2, <2>3, <2>4
  <2>6. \A i \in DOMAIN file' : file'[i].size \in Nat \ {0}
    BY <1>2, <2>2, <2>3, <2>4
  <2>7. \A i \in DOMAIN file' \ DOMAIN file : file'[i].at = saving[w].at
    BY <2>2, <2>3, <2>4
  <2> QED BY <1>1, <1>2, <2>3, <2>5, <2>6, <2>7
<1>5. CASE ~(file = <<>> \/ file[n].ended)
  <2> DEFINE last == [file[n] EXCEPT !.ids = @ \cup {saving[w].id}, !.size = @ + size,
                                     !.whole = FALSE, !.ended = ended]
  <2>1. file' = [file EXCEPT ![n] = last]
    BY <1>5 DEF Written
  <2>2. n \in DOMAIN file /\ file[n] \in Line
    BY <1>1, <1>5
  <2>3. last.ids = file[n].ids \cup {saving[w].id}
    BY <2>2 DEF Line
  <2>4. last.at = file[n].at
    BY <2>2 DEF Line
  <2>5. last.size = file[n].size + size
    BY <2>2 DEF Line
  <2>6. last.size \in Nat \ {0} /\ last.size >= file[n].size
    BY <1>2, <2>2, <2>5
  <2> HIDE DEF last
  <2>7. /\ Len(file') = n /\ DOMAIN file' = 1..n /\ file'[n] = last
        /\ \A i \in DOMAIN file : i # n => file'[i] = file[i]
    BY <1>1, <2>1, <2>2
  <2>8. \A i \in DOMAIN file' :
            file'[i].ids = (IF i \in DOMAIN file THEN file[i].ids ELSE {})
                           \cup (IF i = Len(file') THEN {saving[w].id} ELSE {})
    BY <1>1, <2>3, <2>7
  <2>9. \A i \in DOMAIN file : file'[i].size \in Nat \ {0} /\ file'[i].size >= file[i].size
    BY <1>1, <1>2, <2>6, <2>7
  <2>10. \A i \in DOMAIN file : file'[i].at = file[i].at
    BY <1>1, <2>4, <2>7
  <2> QED BY <1>1, <2>2, <2>7, <2>8, <2>9, <2>10
<1> QED BY <1>4, <1>5

(* The file grows at its end: the lines it has stay where they start. *)
LEMMA StartsStay ==
    ASSUME SaveInv, LinesInv, NEW w \in Writers, saving[w] # NoRecord,
           NEW size \in Nat \ {0}, NEW whole \in BOOLEAN, NEW ended \in BOOLEAN,
           file' = Written(saving[w], size, whole, ended)
    PROVE  /\ DOMAIN file \subseteq DOMAIN file' /\ Sized(file') /\ Sized(file)
           /\ \A i \in DOMAIN file : Start(i)' = Start(i) /\ file'[i].at = file[i].at
           /\ Size \in Nat /\ Size' \in Nat /\ Size <= Size'
<1> DEFINE n == Len(file)
           m == Len(file')
<1>1. Sized(file) /\ n \in Nat /\ DOMAIN file = 1..n
  BY FileIsSized
<1>2. file' \in Seq(Line)
  BY WrittenLines DEF SaveInv
<1>3. m \in {n, n + 1} /\ m >= 1 /\ DOMAIN file' = 1..m
  BY <1>2, WrittenGrows
<1>4. /\ \A i \in 1..n : i < m => file'[i] = file[i]
      /\ \A i \in 1..n : file'[i].at = file[i].at /\ file'[i].size >= file[i].size
      /\ \A i \in 1..m : file'[i].size \in Nat \ {0}
  BY <1>1, <1>3, WrittenGrows
<1>5. Sized(file')
  BY <1>1, <1>3, <1>4 DEF Sized
<1> DEFINE e == Ends(file)
           f == Ends(file')
<1>6. m - 1 \in Nat /\ \A i \in 0..(m - 1) : f[i] = e[i]
  <2>1. m - 1 \in Nat /\ m - 1 <= n /\ m - 1 <= m /\ 1..(m - 1) \subseteq 1..n
        /\ \A i \in 1..(m - 1) : file'[i].size = file[i].size
    BY <1>1, <1>3, <1>4
  <2>2. PICK k : k = m - 1
    OBVIOUS
  <2>3. k \in Nat /\ k <= Len(file) /\ k <= Len(file')
        /\ \A i \in 1..k : file'[i].size = file[i].size
    BY <2>1, <2>2
  <2>4. PICK g : g = file'
    OBVIOUS
  <2>5. Sized(g) /\ k <= Len(g) /\ \A i \in 1..k : g[i].size = file[i].size
    BY <1>5, <2>3, <2>4
  <2>6. \A i \in 0..k : Ends(g)[i] = Ends(file)[i]
    BY <1>1, <2>3, <2>5, EndsAgree
  <2> QED BY <2>1, <2>2, <2>4, <2>6
<1>7. /\ \A i \in 0..n : e[i] \in Nat
      /\ \A i \in 1..n : e[i] = e[i - 1] + file[i].size
  BY <1>1, EndsGrow
<1>8. /\ \A i \in 0..m : f[i] \in Nat
      /\ \A i \in 1..m : f[i] = f[i - 1] + file'[i].size
  BY <1>5, EndsGrow
<1> HIDE DEF e, f
<1>9. e[n] \in Nat /\ f[m] \in Nat /\ e[n] <= f[m]
  <2>1. n \in 0..n /\ m \in 0..m /\ m \in 1..m
    BY <1>1, <1>3
  <2>2. f[m] = e[m - 1] + file'[m].size /\ e[m - 1] \in Nat /\ file'[m].size \in Nat
    BY <1>1, <1>3, <1>4, <1>6, <1>7, <1>8, <2>1
  <2>3. CASE m = n + 1
    BY <1>7, <1>8, <2>1, <2>2, <2>3
  <2>4. CASE m = n
    <3>1. e[n] = e[n - 1] + file[n].size /\ file'[n].size >= file[n].size
      BY <1>1, <1>3, <1>4, <1>7, <2>4
    <3>2. file[n].size \in Nat
      BY <1>1, <2>1, <2>4 DEF Sized
    <3> QED BY <1>7, <1>8, <2>1, <2>2, <2>4, <3>1, <3>2
  <2> QED BY <1>3, <2>3, <2>4
<1>10. \A i \in 1..n : f[i - 1] = e[i - 1]
  BY <1>1, <1>3, <1>6
<1> QED BY <1>1, <1>3, <1>4, <1>5, <1>9, <1>10 DEF Start, Size, End, e, f

-----------------------------------------------------------------------------
LEMMA SizeIsNat ==
    ASSUME SaveInv, LinesInv
    PROVE  /\ Size \in Nat /\ CutOf(Size) \in Nat /\ CutOf(Size) <= Size
           /\ \A i \in DOMAIN file : Start(i) \in Nat /\ End(i) \in Nat /\ End(i) <= Size
                                     /\ Start(i) < End(i)
<1> DEFINE n == Len(file)
<1>1. n \in Nat /\ DOMAIN file = 1..n
  BY FileIsSized
<1>2. /\ \A i \in 0..n : End(i) \in Nat
      /\ \A i, j \in 0..n : i < j => End(i) < End(j)
  BY FileIsSized, EndsGrow DEF End
<1>3. Size = End(n)
  BY DEF Size
<1> HIDE DEF n
<1>4. Size \in Nat
  BY <1>1, <1>2, <1>3
<1>5. ASSUME NEW i \in 1..n
      PROVE  Start(i) \in Nat /\ End(i) \in Nat /\ Start(i) < End(i) /\ End(i) <= Size
  <2>1. i \in 0..n /\ n \in 0..n /\ i - 1 \in 0..n /\ i - 1 < i /\ (i = n \/ i < n)
    BY <1>1
  <2> QED BY <1>2, <1>3, <2>1 DEF Start
<1> QED BY <1>1, <1>4, <1>5, NumbersAssumption DEF CutOf

(* A step that leaves the file alone leaves alone what is said of it. *)
LEMMA OthersStay ==
    ASSUME NEW r \in Readers, ReaderInv(r), file' = file,
           \/ pc'[r] = pc[r]
           \/ pc'[r] = "failed",
           pc[r] \in {"discard", "scan"} => offset' = offset,
           query'[r] = query[r], found'[r] = found[r], oldest'[r] = oldest[r],
           cut'[r] = cut[r], expected'[r] = expected[r]
    PROVE  ReaderInv(r)'
<1>1. Size' = Size /\ \A k : End(k)' = End(k) /\ EntryOf(k)' = EntryOf(k)
  BY DEF Size, End, EntryOf
<1>2. Wanted(r)' = Wanted(r)
  BY <1>1 DEF Wanted, Start
<1>3. \A k : Collected(r, k)' = Collected(r, k)
  BY <1>1, <1>2 DEF Collected
<1>4. (cut[r] <= Size)' /\ AtCut(r)'
  BY <1>1 DEF ReaderInv, AtCut
<1>5. AtWork(r)'
  BY <1>1, <1>2 DEF ReaderInv, AtWork
<1>6. Scanned(r)'
  BY <1>1, <1>3 DEF ReaderInv, Scanned
<1>7. OldestFound(r)' /\ NothingOlder(r)'
  BY DEF ReaderInv, OldestFound, NothingOlder, End, Start
<1>8. Returned(r)'
  BY DEF ReaderInv, Returned
<1> QED BY <1>4, <1>5, <1>6, <1>7, <1>8 DEF ReaderInv

(* A read that is not at work is about nothing that a write may change. *)
LEMMA GrowthIsNotRead ==
    ASSUME ReadInv, mutex = Nobody, NEW w \in Writers, saving[w] # NoRecord,
           NEW size \in Nat \ {0}, NEW whole \in BOOLEAN, NEW ended \in BOOLEAN,
           file' = Written(saving[w], size, whole, ended), UNCHANGED readerVars
    PROVE  ReaderTypes' /\ \A r \in Readers : ReaderInv(r)'
<1>1. /\ DOMAIN file \subseteq DOMAIN file'
      /\ \A i \in DOMAIN file : Start(i)' = Start(i) /\ file'[i].at = file[i].at
      /\ Size \in Nat /\ Size' \in Nat /\ Size <= Size'
  BY StartsStay DEF ReadInv
<1>2. UNCHANGED <<mutex, offset, pc, query, found, oldest, cut, expected>>
  BY DEF readerVars
<1>3. ReaderTypes'
  BY <1>1, <1>2 DEF ReadInv, ReaderTypes
<1>4. ASSUME NEW r \in Readers PROVE ReaderInv(r)'
  <2>1. ReaderInv(r) /\ pc[r] \notin {"discard", "scan"} /\ cut[r] \in Nat
    BY NobodyAssumption DEF ReadInv, ReaderTypes
  <2>2. (cut[r] <= Size)'
    BY <1>1, <1>2, <2>1 DEF ReaderInv
  <2>3. OldestFound(r)'
    BY <1>1, <1>2, <2>1 DEF ReaderInv, OldestFound
  <2> QED BY <1>2, <2>1, <2>2, <2>3 DEF ReaderInv, AtWork, AtCut, Scanned, NothingOlder, Returned
<1> QED BY <1>3, <1>4

(* What a read is owed is what is whole from the cut on and matches. *)
LEMMA OwedIsWanted ==
    ASSUME ReadInv, NEW r \in Readers, NEW q, file' = file,
           cut'[r] = CutOf(Size), query'[r] = q
    PROVE  Owed(q) = {EntryOf(i)' : i \in Wanted(r)'} /\ Owed(q) \subseteq Entry
<1>1. /\ Size \in Nat /\ \A i \in DOMAIN file : Start(i) \in Nat
  BY SizeIsNat DEF ReadInv
<1>2. \A i \in DOMAIN file : Start(i) + MaxTailBytes >= Size <=> Start(i) >= CutOf(Size)
  BY <1>1, NumbersAssumption DEF CutOf
<1>3. \A i : EntryOf(i)' = EntryOf(i)
  BY DEF EntryOf
<1>4. Wanted(r)' = {i \in DOMAIN file : /\ file[i].whole /\ Start(i) >= CutOf(Size)
                                        /\ Matches(file[i], q)}
  BY DEF Wanted, Start, End
<1>5. \A i \in DOMAIN file : EntryOf(i) \in Entry
  <2> SUFFICES ASSUME NEW i \in DOMAIN file PROVE EntryOf(i) \in Entry
    OBVIOUS
  <2>1. file[i].ids \subseteq Nat /\ file[i].ids # {} /\ file[i].at \in Nat
    BY DEF ReadInv, LinesInv
  <2> QED BY <2>1 DEF EntryOf, Entry
<1>6. Owed(q) = {EntryOf(i) : i \in {j \in DOMAIN file : /\ file[j].whole
                                                         /\ Start(j) >= CutOf(Size)
                                                         /\ Matches(file[j], q)}}
  BY <1>2 DEF Owed, EntryOf
<1> QED BY <1>3, <1>4, <1>5, <1>6

LEMMA OthersAreOut ==
    ASSUME ReadInv, NEW r \in Readers, NEW q \in Readers, q # r, mutex \in {Nobody, r}
    PROVE  pc[q] \notin {"discard", "scan"}
BY NobodyAssumption DEF ReadInv, ReaderTypes

LEMMA NothingBefore ==
    ASSUME ReadInv, NEW r \in Readers
    PROVE  Collected(r, 0) = {}
<1>1. \A i \in Wanted(r) : i \in Nat /\ i >= 1
  BY FileIsSized DEF Wanted, ReadInv
<1> QED BY <1>1 DEF Collected

LEMMA RewindKeeps ==
    ASSUME ReadInv, LinesInv', NEW r \in Readers, Rewind(r)
    PROVE  ReaderTypes' /\ \A x \in Readers : ReaderInv(x)'
<1>1. PICK since \in 0..now, f \in Filters :
          /\ query' = [query EXCEPT ![r] = [since |-> since, actions |-> f]]
          /\ expected' = [expected EXCEPT ![r] = Owed([since |-> since, actions |-> f])]
  BY DEF Rewind
<1> DEFINE q == [since |-> since, actions |-> f]
           start == CutOf(Size)
<1>2. q \in [since: Nat, actions: SUBSET Actions]
  BY FiltersAssumption DEF ReadInv, LinesInv
<1> HIDE DEF q
<1>3. /\ query' = [query EXCEPT ![r] = q] /\ expected' = [expected EXCEPT ![r] = Owed(q)]
  BY <1>1 DEF q
<1>4. /\ pc[r] = "start" /\ mutex = Nobody /\ mutex' = r /\ file' = file
      /\ cut' = [cut EXCEPT ![r] = start] /\ offset' = SeekTo(start)
      /\ pc' = [pc EXCEPT ![r] = IF start > 0 THEN "discard" ELSE "scan"]
      /\ found' = [found EXCEPT ![r] = <<>>] /\ oldest' = [oldest EXCEPT ![r] = NoTime]
  BY DEF Rewind, MutexFree
<1>5. start \in Nat /\ Size \in Nat /\ start <= Size
  BY SizeIsNat DEF ReadInv
<1> HIDE DEF start
<1>6. Size' = Size /\ (\A k : End(k)' = End(k)) /\ start = CutOf(Size)
  BY <1>4 DEF Size, End, start
<1>7. /\ cut'[r] = start /\ query'[r] = q /\ expected'[r] = Owed(q)
      /\ pc'[r] = (IF start > 0 THEN "discard" ELSE "scan")
      /\ found'[r] = <<>> /\ oldest'[r] = NoTime
  BY <1>3, <1>4 DEF ReadInv, ReaderTypes
<1>8. ASSUME NEW x \in Readers, x # r
      PROVE  /\ pc'[x] = pc[x] /\ query'[x] = query[x] /\ found'[x] = found[x]
             /\ oldest'[x] = oldest[x] /\ cut'[x] = cut[x] /\ expected'[x] = expected[x]
             /\ pc[x] \notin {"discard", "scan"}
  BY <1>3, <1>4, <1>8, OthersAreOut DEF ReadInv, ReaderTypes
<1>9. Owed(q) = {EntryOf(i)' : i \in Wanted(r)'} /\ Owed(q) \subseteq Entry
  BY <1>4, <1>6, <1>7, OwedIsWanted
<1>10. offset' = (IF start > 0 THEN start - 1 ELSE 0) /\ offset' \in 0..Size
  BY <1>4, <1>5 DEF SeekTo
<1>11. ReaderTypes'
  <2>1. /\ pc' \in [Readers -> {"start", "discard", "scan", "done", "failed"}]
        /\ query' \in [Readers -> [since: Nat, actions: SUBSET Actions]]
        /\ expected' \in [Readers -> SUBSET Entry]
        /\ cut' \in [Readers -> Nat]
    BY <1>2, <1>3, <1>4, <1>5, <1>9 DEF ReadInv, ReaderTypes
  <2>2. found' \in [Readers -> Seq(Entry)]
    <3>1. <<>> \in Seq(Entry)
      OBVIOUS
    <3> QED BY <1>4, <3>1 DEF ReadInv, ReaderTypes
  <2>3. oldest' \in [Readers -> 0..NoTime]
    <3>1. NoTime \in 0..NoTime
      BY NumbersAssumption DEF NoTime
    <3> QED BY <1>4, <3>1 DEF ReadInv, ReaderTypes
  <2>4. \A x \in Readers : (mutex' = x) <=> pc'[x] \in {"discard", "scan"}
    BY <1>4, <1>7, <1>8
  <2> QED BY <1>4, <1>6, <1>10, <2>1, <2>2, <2>3, <2>4 DEF ReaderTypes
<1>12. ReaderInv(r)'
  <2>1. (cut[r] <= Size)' /\ AtWork(r)'
    BY <1>5, <1>6, <1>7, <1>9 DEF AtWork
  <2>2. AtCut(r)'
    BY <1>5, <1>6, <1>7, <1>10 DEF AtCut
  <2>3. Scanned(r)'
    <3>1. SUFFICES ASSUME start = 0 PROVE Scanned(r)'
      BY <1>5, <1>7 DEF Scanned
    <3>2. Collected(r, 0)' = {}
      <4>1. \A i \in Wanted(r)' : i \in Nat /\ i >= 1
        BY <1>4, FileIsSized DEF Wanted, ReadInv
      <4> QED BY <4>1 DEF Collected
    <3>3. ToSet(<<>>) = {} /\ IsInjective(<<>>)
      BY DEF ToSet, IsInjective
    <3>4. offset' = End(0)' /\ 0 \in 0..Len(file')
      BY <1>4, <1>6, <1>10, <3>1, FileIsSized, EndsGrow DEF End, ReadInv
    <3>5. \E k \in 0..Len(file') : offset' = End(k)' /\ ToSet(found'[r]) = Collected(r, k)'
      BY <1>7, <3>2, <3>3, <3>4
    <3>6. offset' >= cut'[r] /\ IsInjective(found'[r])
      BY <1>7, <1>10, <3>1, <3>3
    <3> QED BY <3>5, <3>6 DEF Scanned
  <2>4. OldestFound(r)' /\ Returned(r)'
    BY <1>7 DEF OldestFound, Returned, NoTime
  <2>5. NothingOlder(r)'
    <3>1. SUFFICES ASSUME start = 0 PROVE NothingOlder(r)'
      BY <1>5, <1>7 DEF NothingOlder
    <3>2. offset' = 0
      BY <1>6, <1>10, <3>1
    <3>3. \A m \in DOMAIN file' : Start(m)' \in Nat
      BY <1>4, SizeIsNat DEF Start, End, ReadInv
    <3> QED BY <3>2, <3>3 DEF NothingOlder
  <2> QED BY <2>1, <2>2, <2>3, <2>4, <2>5 DEF ReaderInv
<1>13. ASSUME NEW x \in Readers, x # r PROVE ReaderInv(x)'
  BY <1>4, <1>8, <1>13, OthersStay DEF ReadInv
<1> QED BY <1>11, <1>12, <1>13

LEMMA DiscardKeeps ==
    ASSUME ReadInv, NEW r \in Readers, Discard(r)
    PROVE  ReaderTypes' /\ \A x \in Readers : ReaderInv(x)'
<1>1. /\ pc[r] = "discard" /\ offset < Size /\ file' = file /\ offset' = End(LineAt(offset))
      /\ pc' = [pc EXCEPT ![r] = "scan"]
      /\ UNCHANGED <<mutex, query, found, oldest, cut, expected>>
  BY DEF Discard, HasToken
<1>2. /\ cut[r] = CutOf(Size) /\ cut[r] > 0 /\ offset = cut[r] - 1 /\ found[r] = <<>>
      /\ oldest[r] = NoTime /\ mutex = r /\ cut[r] \in Nat
  BY <1>1 DEF ReadInv, ReaderInv, AtWork, AtCut, ReaderTypes
<1>0. PICK k : k = LineAt(offset)
  OBVIOUS
<1>3. k \in DOMAIN file /\ Start(k) <= offset /\ offset < End(k)
  BY <1>1, <1>2, <1>0, FileIsSized, BytesLieOnLines DEF ReadInv
<1>4. /\ Start(k) \in Nat /\ End(k) \in Nat /\ End(k) <= Size /\ Size \in Nat
      /\ \A i \in DOMAIN file : Start(i) \in Nat
  BY <1>3, SizeIsNat DEF ReadInv
<1>5. offset' = End(k) /\ offset' \in 0..Size /\ offset' >= cut[r]
  BY <1>1, <1>2, <1>0, <1>3, <1>4
<1>6. Size' = Size /\ \A i : End(i)' = End(i) /\ EntryOf(i)' = EntryOf(i)
  BY <1>1 DEF Size, End, EntryOf
<1>7. Wanted(r)' = Wanted(r)
  BY <1>1, <1>6 DEF Wanted, Start
<1>8. pc'[r] = "scan" /\ \A x \in Readers : x # r => pc'[x] = pc[x]
  BY <1>1 DEF ReadInv, ReaderTypes
<1>9. ReaderTypes'
  <2>1. pc' \in [Readers -> {"start", "discard", "scan", "done", "failed"}]
    BY <1>1 DEF ReadInv, ReaderTypes
  <2> QED BY <1>1, <1>5, <1>6, <1>8, <2>1 DEF ReadInv, ReaderTypes
<1>10. ReaderInv(r)'
  <2>1. (cut[r] <= Size)' /\ AtWork(r)'
    BY <1>1, <1>6, <1>7, <1>8 DEF ReadInv, ReaderInv, AtWork
  <2>2. AtCut(r)' /\ OldestFound(r)' /\ Returned(r)'
    BY <1>1, <1>2, <1>8 DEF AtCut, OldestFound, Returned, NoTime
  <2>3. Scanned(r)'
    <3>1. \A i \in Wanted(r) : ~(i <= k)
      <4>1. \A i \in DOMAIN file : i <= k => Start(i) <= Start(k)
        <5> SUFFICES ASSUME NEW i \in DOMAIN file, i <= k PROVE End(i - 1) <= End(k - 1)
          BY DEF Start
        <5>1. Sized(file) /\ Len(file) \in Nat /\ i \in 1..Len(file) /\ k \in 1..Len(file)
          BY <1>3, FileIsSized DEF ReadInv
        <5>2. i - 1 \in 0..Len(file) /\ k - 1 \in 0..Len(file) /\ (i = k \/ i - 1 < k - 1)
          BY <5>1
        <5>3. i - 1 < k - 1 => End(i - 1) < End(k - 1)
          BY <5>1, <5>2, EndsGrow DEF End
        <5>4. End(i - 1) \in Nat /\ End(k - 1) \in Nat
          BY <5>1, <5>2, EndsGrow DEF End
        <5> QED BY <5>2, <5>3, <5>4
      <4> QED BY <1>2, <1>3, <1>4, <4>1 DEF Wanted
    <3>2. Collected(r, k)' = {}
      BY <1>7, <3>1 DEF Collected
    <3>3. ToSet(<<>>) = {} /\ IsInjective(<<>>)
      BY DEF ToSet, IsInjective
    <3>4. k \in 0..Len(file') /\ offset' = End(k)'
      BY <1>1, <1>3, <1>5, <1>6, FileIsSized DEF ReadInv
    <3>5. \E i \in 0..Len(file') : offset' = End(i)' /\ ToSet(found'[r]) = Collected(r, i)'
      BY <1>1, <1>2, <3>2, <3>3, <3>4
    <3>6. offset' >= cut'[r] /\ IsInjective(found'[r])
      BY <1>1, <1>2, <1>5, <3>3
    <3> QED BY <3>5, <3>6 DEF Scanned
  <2>4. NothingOlder(r)'
    <3> SUFFICES ASSUME NEW m \in DOMAIN file, Start(m) >= cut[r], Start(m) < End(k)
                 PROVE  FALSE
      BY <1>1, <1>5, <1>6 DEF NothingOlder, Start
    <3>1. Sized(file) /\ Len(file) \in Nat /\ m \in 1..Len(file) /\ k \in 1..Len(file)
      BY <1>3, FileIsSized DEF ReadInv
    <3>2. m - 1 \in 0..Len(file) /\ k - 1 \in 0..Len(file) /\ k \in 0..Len(file)
      BY <3>1
    <3>3. /\ \A i \in 0..Len(file) : End(i) \in Nat
          /\ \A i, j \in 0..Len(file) : i < j => End(i) < End(j)
      BY <3>1, EndsGrow DEF End
    <3>4. m - 1 < k
      BY <3>2, <3>3 DEF Start
    <3>5. m - 1 < k - 1 \/ m = k
      BY <3>1, <3>4
    <3>6. Start(m) <= Start(k)
      BY <3>2, <3>3, <3>5 DEF Start
    <3> QED BY <1>2, <1>3, <1>4, <3>6
  <2> QED BY <2>1, <2>2, <2>3, <2>4 DEF ReaderInv
<1>11. ASSUME NEW x \in Readers, x # r PROVE ReaderInv(x)'
  <2>1. pc[x] \notin {"discard", "scan"} /\ ReaderInv(x) /\ pc'[x] = pc[x]
    BY <1>2, <1>8, <1>11, OthersAreOut DEF ReadInv
  <2> QED BY <1>1, <2>1, OthersStay
<1> QED BY <1>9, <1>10, <1>11

-----------------------------------------------------------------------------
(* What a read does with the records it finds. *)
LEMMA Appended ==
    ASSUME NEW s \in Seq(Entry), NEW e \in Entry
    PROVE  /\ Append(s, e) \in Seq(Entry) /\ ToSet(Append(s, e)) = ToSet(s) \cup {e}
           /\ IsInjective(s) /\ e \notin ToSet(s) => IsInjective(Append(s, e))
<1> DEFINE n == Len(s)
           t == Append(s, e)
<1>1. /\ t \in Seq(Entry) /\ n \in Nat /\ DOMAIN s = 1..n /\ DOMAIN t = 1..(n + 1)
      /\ t[n + 1] = e /\ \A i \in 1..n : t[i] = s[i]
  OBVIOUS
<1> HIDE DEF n, t
<1>2. \A i \in 1..(n + 1) : i \in 1..n \/ i = n + 1
  BY <1>1
<1>3. 1..n \subseteq 1..(n + 1) /\ n + 1 \in 1..(n + 1)
  BY <1>1
<1>4. ToSet(t) = ToSet(s) \cup {e}
  BY <1>1, <1>2, <1>3 DEF ToSet
<1>5. ASSUME IsInjective(s), e \notin ToSet(s) PROVE IsInjective(t)
  <2>1. \A i \in 1..n : t[i] # e
    BY <1>1, <1>5 DEF ToSet
  <2>2. \A i, j \in 1..n : t[i] = t[j] => i = j
    BY <1>1, <1>5 DEF IsInjective
  <2>3. ASSUME NEW i \in 1..(n + 1), NEW j \in 1..(n + 1), t[i] = t[j] PROVE i = j
    BY <1>1, <1>2, <2>1, <2>2, <2>3
  <2> QED BY <1>1, <2>3 DEF IsInjective
<1> QED BY <1>1, <1>4, <1>5 DEF t

LEMMA EachCountsOnce ==
    ASSUME NEW s \in Seq(Entry), IsInjective(s)
    PROVE  Cardinality(ToSet(s)) = Len(s)
<1>1. Len(s) \in Nat /\ s \in [1..Len(s) -> ToSet(s)] /\ DOMAIN s = 1..Len(s)
  BY DEF ToSet
<1>2. s \in Bijection(1..Len(s), ToSet(s))
  BY <1>1 DEF ToSet, IsInjective, Bijection, Injection, Surjection
<1> QED BY <1>1, <1>2, FS_CountingElements DEF ExistsBijection

LEMMA SortedIsRearranged ==
    ASSUME NEW s \in Seq(Entry), NEW t \in OldestFirst(s)
    PROVE  /\ t \in Seq(Entry) /\ ToSet(t) = ToSet(s) /\ Len(t) = Len(s)
           /\ \A i, j \in DOMAIN t : i < j => t[i].at <= t[j].at
<1> DEFINE n == Len(s)
<1>1. n \in Nat /\ DOMAIN s = 1..n /\ \A i \in 1..n : s[i] \in Entry
  OBVIOUS
<1>2. PICK p \in ByTime(s) : t = [i \in DOMAIN s |-> s[p[i]]]
  BY DEF OldestFirst
<1> HIDE DEF n
<1>3. IsFiniteSet(1..n) /\ Cardinality(1..n) = n
  BY <1>1, FS_Interval
<1>4. p \in [1..n -> 1..n] /\ \A i, j \in 1..n : i # j => p[i] # p[j]
  BY <1>1, <1>2, <1>3 DEF ByTime, SetToSeqs
<1>5. p \in Injection(1..n, 1..n)
  BY <1>4 DEF Injection, IsInjective
<1>6. p \in Surjection(1..n, 1..n)
  BY <1>3, <1>5, FS_Injection
<1>7. \A j \in 1..n : \E i \in 1..n : p[i] = j
  BY <1>6 DEF Surjection
<1>8. t \in [1..n -> Entry] /\ \A i \in 1..n : t[i] = s[p[i]]
  BY <1>1, <1>2, <1>4
<1>9. t \in Seq(Entry) /\ Len(t) = n /\ DOMAIN t = 1..n
  BY <1>1, <1>8
<1>10. ToSet(t) = ToSet(s)
  <2>1. ToSet(t) = {t[i] : i \in 1..n} /\ ToSet(s) = {s[i] : i \in 1..n}
    BY <1>1, <1>9 DEF ToSet
  <2>2. \A i \in 1..n : t[i] = s[p[i]] /\ p[i] \in 1..n
    BY <1>4, <1>8
  <2>3. \A j \in 1..n : \E i \in 1..n : t[i] = s[j]
    BY <1>7, <2>2
  <2>4. {t[i] : i \in 1..n} \subseteq {s[i] : i \in 1..n}
    BY <2>2
  <2>5. {s[i] : i \in 1..n} \subseteq {t[i] : i \in 1..n}
    BY <2>3
  <2> QED BY <2>1, <2>4, <2>5
<1>11. ASSUME NEW i \in 1..n, NEW j \in 1..n, i < j PROVE t[i].at <= t[j].at
  <2>1. s[p[i]].at < s[p[j]].at \/ s[p[i]].at = s[p[j]].at
    <3>1. DOMAIN p = 1..n
      BY <1>4
    <3> QED BY <1>2, <1>11, <3>1 DEF ByTime
  <2>2. s[p[i]].at \in Nat /\ s[p[j]].at \in Nat
    BY <1>1, <1>4 DEF Entry
  <2> QED BY <1>8, <2>1, <2>2
<1> QED BY <1>9, <1>10, <1>11 DEF n

LEMMA EntriesDiffer ==
    ASSUME LinesInv
    PROVE  /\ \A i \in DOMAIN file : EntryOf(i) \in Entry
           /\ \A i, j \in DOMAIN file : i # j => EntryOf(i) # EntryOf(j)
<1>1. \A i \in DOMAIN file : EntryOf(i) \in Entry /\ EntryOf(i).id \in file[i].ids
  <2> SUFFICES ASSUME NEW i \in DOMAIN file
               PROVE  EntryOf(i) \in Entry /\ EntryOf(i).id \in file[i].ids
    OBVIOUS
  <2>1. file[i].ids \subseteq Nat /\ file[i].ids # {} /\ file[i].at \in Nat
    BY DEF LinesInv
  <2>2. (CHOOSE id \in file[i].ids : TRUE) \in file[i].ids
    BY <2>1
  <2> QED BY <2>1, <2>2 DEF EntryOf, Entry
<1>2. \A i, j \in DOMAIN file : i # j => file[i].ids \cap file[j].ids = {}
  BY DEF LinesInv
<1> QED BY <1>1, <1>2

LEMMA NextLine ==
    ASSUME ReadInv, NEW r \in Readers, NEW k \in 0..Len(file), k + 1 \in DOMAIN file
    PROVE  /\ Collected(r, k + 1) = Collected(r, k) \cup
                  (IF k + 1 \in Wanted(r) THEN {EntryOf(k + 1)} ELSE {})
           /\ EntryOf(k + 1) \notin Collected(r, k)
<1>1. Wanted(r) \subseteq DOMAIN file /\ DOMAIN file \subseteq Nat /\ k \in Nat
  BY FileIsSized DEF Wanted, ReadInv
<1>2. \A i \in Wanted(r) : i <= k + 1 <=> (i <= k \/ i = k + 1)
  BY <1>1
<1>3. \A i \in Wanted(r) : i <= k => i # k + 1
  BY <1>1
<1>4. EntryOf(k + 1) \notin Collected(r, k)
  BY <1>1, <1>3, EntriesDiffer DEF Collected, ReadInv
<1> QED BY <1>1, <1>2, <1>4 DEF Collected

LEMMA ScanLineKeeps ==
    ASSUME ReadInv, NEW r \in Readers, ScanLine(r)
    PROVE  ReaderTypes' /\ \A x \in Readers : ReaderInv(x)'
<1>1. /\ pc[r] = "scan" /\ offset < Size /\ file' = file
      /\ UNCHANGED <<mutex, pc, query, cut, expected>>
  BY DEF ScanLine, HasToken
<1>2. PICK k \in 0..Len(file) : offset = End(k) /\ ToSet(found[r]) = Collected(r, k)
  BY <1>1 DEF ReadInv, ReaderInv, Scanned
<1>3. k \in Nat /\ k + 1 \in DOMAIN file /\ Start(k + 1) = offset /\ LineAt(offset) = k + 1
  BY <1>1, <1>2, FileIsSized, LineFrom DEF ReadInv
<1> DEFINE line == file[k + 1]
<1>4. /\ offset' = End(k + 1)
      /\ oldest' = [oldest EXCEPT ![r] = IF line.whole /\ line.at < @ THEN line.at ELSE @]
      /\ found' = [found EXCEPT ![r] = IF line.whole /\ Matches(line, query[r])
                                       THEN Append(@, EntryOf(k + 1)) ELSE @]
  <2>1. offset' = End(k + 1)
    BY <1>3 DEF ScanLine
  <2>2. oldest' = [oldest EXCEPT ![r] = IF line.whole /\ line.at < @ THEN line.at ELSE @]
    BY <1>3 DEF ScanLine
  <2>3. found' = [found EXCEPT ![r] = IF line.whole /\ Matches(line, query[r])
                                      THEN Append(@, EntryOf(k + 1)) ELSE @]
    <3>1. PICK i : i = LineAt(offset)
      OBVIOUS
    <3>2. found' = [found EXCEPT ![r] =
                       IF (offset = Start(i) /\ file[i].whole) /\ Matches(file[i], query[r])
                       THEN Append(@, EntryOf(i)) ELSE @]
      BY <3>1 DEF ScanLine, EntryOf
    <3> QED BY <1>3, <3>1, <3>2
  <2> QED BY <2>1, <2>2, <2>3
<1>5. /\ mutex = r /\ offset \in Nat /\ cut[r] \in Nat /\ offset >= cut[r]
      /\ IsInjective(found[r]) /\ found[r] \in Seq(Entry)
      /\ cut[r] = CutOf(Size) /\ oldest[r] \in 0..NoTime
  BY <1>1, SizeIsNat DEF ReadInv, ReaderInv, Scanned, AtWork, ReaderTypes
<1>6. line.at \in 0..now /\ now \in 0..MaxTime /\ EntryOf(k + 1) \in Entry
  BY <1>3, EntriesDiffer DEF ReadInv, LinesInv
<1>7. k + 1 \in Wanted(r) <=> line.whole /\ Matches(line, query[r])
  BY <1>3, <1>5 DEF Wanted
<1>8. /\ Collected(r, k + 1) = Collected(r, k) \cup
             (IF k + 1 \in Wanted(r) THEN {EntryOf(k + 1)} ELSE {})
      /\ EntryOf(k + 1) \notin Collected(r, k)
  BY <1>3, NextLine
<1> HIDE DEF line
<1>9. /\ found'[r] = (IF k + 1 \in Wanted(r) THEN Append(found[r], EntryOf(k + 1)) ELSE found[r])
      /\ oldest'[r] = (IF line.whole /\ line.at < oldest[r] THEN line.at ELSE oldest[r])
      /\ \A x \in Readers : x # r => found'[x] = found[x] /\ oldest'[x] = oldest[x]
  BY <1>4, <1>7 DEF ReadInv, ReaderTypes
<1>10. found'[r] \in Seq(Entry) /\ IsInjective(found'[r]) /\ ToSet(found'[r]) = Collected(r, k + 1)
  <2>1. CASE k + 1 \in Wanted(r)
    BY <1>2, <1>5, <1>6, <1>8, <1>9, <2>1, Appended
  <2>2. CASE k + 1 \notin Wanted(r)
    BY <1>2, <1>5, <1>8, <1>9, <2>2
  <2> QED BY <2>1, <2>2
<1>11. oldest'[r] \in 0..NoTime
  BY <1>5, <1>6, <1>9, NumbersAssumption DEF NoTime
<1>12. End(k + 1) \in 0..Size /\ Size \in Nat /\ offset' > offset
  BY <1>3, <1>4, SizeIsNat DEF ReadInv
<1>13. Size' = Size /\ \A i : End(i)' = End(i) /\ EntryOf(i)' = EntryOf(i)
  BY <1>1 DEF Size, End, EntryOf
<1>14. Wanted(r)' = Wanted(r)
  BY <1>1, <1>13 DEF Wanted, Start
<1>15. ReaderTypes'
  <2>1. found' \in [Readers -> Seq(Entry)]
    BY <1>4, <1>9, <1>10 DEF ReadInv, ReaderTypes
  <2>2. oldest' \in [Readers -> 0..NoTime]
    BY <1>4, <1>9, <1>11 DEF ReadInv, ReaderTypes
  <2>3. offset' \in 0..Size'
    BY <1>4, <1>12, <1>13
  <2> QED BY <1>1, <2>1, <2>2, <2>3 DEF ReadInv, ReaderTypes
<1>16. ReaderInv(r)'
  <2>1. (cut[r] <= Size)' /\ AtWork(r)'
    BY <1>1, <1>13, <1>14 DEF ReadInv, ReaderInv, AtWork
  <2>2. AtCut(r)' /\ Returned(r)'
    BY <1>1 DEF AtCut, Returned
  <2>3. Scanned(r)'
    <3>1. Collected(r, k + 1)' = Collected(r, k + 1)
      BY <1>13, <1>14 DEF Collected
    <3>2. k + 1 \in 0..Len(file') /\ offset' = End(k + 1)'
      BY <1>1, <1>3, <1>4, <1>13, FileIsSized DEF ReadInv
    <3>3. \E i \in 0..Len(file') : offset' = End(i)' /\ ToSet(found'[r]) = Collected(r, i)'
      BY <1>10, <3>1, <3>2
    <3>4. offset' >= cut'[r] /\ IsInjective(found'[r])
      BY <1>1, <1>4, <1>5, <1>10, <1>12
    <3> QED BY <3>3, <3>4 DEF Scanned
  <2>4. OldestFound(r)'
    <3>1. Start(k + 1) >= cut[r] /\ \A i : Start(i)' = Start(i)
      BY <1>3, <1>5, <1>13 DEF Start
    <3>2. CASE oldest'[r] = line.at
      BY <1>1, <1>3, <3>1, <3>2 DEF OldestFound, line
    <3>3. CASE oldest'[r] = oldest[r]
      BY <1>1, <3>1, <3>3 DEF ReadInv, ReaderInv, OldestFound, NoTime
    <3> QED BY <1>9, <3>2, <3>3
  <2>5. NothingOlder(r)'
    <3> SUFFICES ASSUME NEW m \in DOMAIN file, file[m].whole,
                        Start(m) >= cut[r], Start(m) < End(k + 1)
                 PROVE  oldest'[r] <= file[m].at
      BY <1>1, <1>4, <1>13 DEF NothingOlder, Start
    <3>1. file[m].at \in Nat /\ line.at \in Nat /\ oldest[r] \in Nat
      BY <1>5, <1>6 DEF ReadInv, LinesInv, NoTime
    <3>2. oldest'[r] <= oldest[r] /\ (line.whole => oldest'[r] <= line.at)
      BY <1>9, <3>1
    <3>3. Start(m) < offset \/ m = k + 1
      <4>1. Sized(file) /\ Len(file) \in Nat /\ m \in 1..Len(file) /\ k + 1 \in 1..Len(file)
        BY <1>3, FileIsSized DEF ReadInv
      <4>2. m - 1 \in 0..Len(file) /\ k + 1 \in 0..Len(file) /\ k \in 0..Len(file)
        BY <4>1
      <4>3. /\ \A i \in 0..Len(file) : End(i) \in Nat
            /\ \A i, j \in 0..Len(file) : i < j => End(i) < End(j)
        BY <4>1, EndsGrow DEF End
      <4>4. ~(k + 1 < m - 1) /\ m - 1 # k + 1
        BY <4>2, <4>3 DEF Start
      <4>5. m - 1 < k \/ m = k + 1
        BY <4>1, <4>2, <4>4
      <4> QED BY <1>2, <4>2, <4>3, <4>5 DEF Start
    <3>4. CASE Start(m) < offset
      <4>1. oldest[r] <= file[m].at
        BY <1>1, <3>4 DEF ReadInv, ReaderInv, NothingOlder
      <4> QED BY <1>5, <1>11, <3>1, <3>2, <4>1 DEF NoTime
    <3>5. CASE m = k + 1
      BY <3>2, <3>5 DEF line
    <3> QED BY <3>3, <3>4, <3>5
  <2> QED BY <2>1, <2>2, <2>3, <2>4, <2>5 DEF ReaderInv
<1>17. ASSUME NEW x \in Readers, x # r PROVE ReaderInv(x)'
  <2>1. pc[x] \notin {"discard", "scan"} /\ ReaderInv(x)
    BY <1>5, <1>17, OthersAreOut DEF ReadInv
  <2> QED BY <1>1, <1>9, <1>17, <2>1, OthersStay
<1> QED BY <1>15, <1>16, <1>17

LEMMA FinishKeeps ==
    ASSUME ReadInv, NEW r \in Readers, Finish(r)
    PROVE  ReaderTypes' /\ \A x \in Readers : ReaderInv(x)'
<1>1. /\ pc[r] = "scan" /\ offset >= Size /\ file' = file
      /\ pc' = [pc EXCEPT ![r] = "done"] /\ mutex' = Nobody
      /\ UNCHANGED <<offset, query, oldest, cut, expected>>
  BY DEF Finish
<1>2. PICK sorted \in OldestFirst(found[r]) : found' = [found EXCEPT ![r] = sorted]
  BY DEF Finish
<1>3. PICK k \in 0..Len(file) : offset = End(k) /\ ToSet(found[r]) = Collected(r, k)
  BY <1>1 DEF ReadInv, ReaderInv, Scanned
<1>4. /\ mutex = r /\ IsInjective(found[r]) /\ found[r] \in Seq(Entry)
      /\ expected[r] = {EntryOf(i) : i \in Wanted(r)}
  BY <1>1 DEF ReadInv, ReaderInv, Scanned, AtWork, ReaderTypes
<1>5. k = Len(file)
  <2>1. Len(file) \in Nat /\ Sized(file)
    BY FileIsSized DEF ReadInv
  <2>2. /\ \A i \in 0..Len(file) : End(i) \in Nat
        /\ \A i, j \in 0..Len(file) : i < j => End(i) < End(j)
    BY <2>1, EndsGrow DEF End
  <2>3. ~(k < Len(file))
    BY <1>1, <1>3, <2>1, <2>2 DEF Size
  <2> QED BY <2>1, <2>3
<1>6. ToSet(found[r]) = expected[r]
  <2>1. \A i \in Wanted(r) : i <= k
    BY <1>5, FileIsSized DEF Wanted, ReadInv
  <2> QED BY <1>3, <1>4, <2>1 DEF Collected
<1>7. /\ sorted \in Seq(Entry) /\ ToSet(sorted) = ToSet(found[r]) /\ Len(sorted) = Len(found[r])
      /\ \A i, j \in DOMAIN sorted : i < j => sorted[i].at <= sorted[j].at
  BY <1>4, SortedIsRearranged
<1>8. /\ pc'[r] = "done" /\ found'[r] = sorted
      /\ \A x \in Readers : x # r => pc'[x] = pc[x] /\ found'[x] = found[x]
  BY <1>1, <1>2 DEF ReadInv, ReaderTypes
<1>9. \A x \in Readers : x # r => pc[x] \notin {"discard", "scan"} /\ ReaderInv(x)
  BY <1>4, OthersAreOut DEF ReadInv
<1>10. Size' = Size
  BY <1>1 DEF Size, End
<1>11. ReaderTypes'
  <2>1. found' \in [Readers -> Seq(Entry)]
    BY <1>2, <1>7 DEF ReadInv, ReaderTypes
  <2>2. pc' \in [Readers -> {"start", "discard", "scan", "done", "failed"}]
    BY <1>1 DEF ReadInv, ReaderTypes
  <2>3. \A x \in Readers : (mutex' = x) <=> pc'[x] \in {"discard", "scan"}
    BY <1>1, <1>8, <1>9, NobodyAssumption
  <2> QED BY <1>1, <1>10, <2>1, <2>2, <2>3 DEF ReadInv, ReaderTypes
<1>12. ReaderInv(r)'
  <2>1. (cut[r] <= Size)'
    BY <1>1, <1>10 DEF ReadInv, ReaderInv
  <2>2. Returned(r)'
    BY <1>1, <1>4, <1>6, <1>7, <1>8, EachCountsOnce DEF Returned
  <2>3. OldestFound(r)'
    BY <1>1 DEF ReadInv, ReaderInv, OldestFound, Start, End
  <2> QED BY <1>8, <2>1, <2>2, <2>3 DEF ReaderInv, AtWork, AtCut, Scanned, NothingOlder
<1>13. ASSUME NEW x \in Readers, x # r PROVE ReaderInv(x)'
  BY <1>1, <1>8, <1>9, <1>13, OthersStay
<1> QED BY <1>11, <1>12, <1>13

-----------------------------------------------------------------------------
LEMMA InitReadInv == Init => ReadInv
<1> SUFFICES ASSUME Init PROVE ReadInv
  OBVIOUS
<1>1. SaveInv
  BY InitSaveInv
<1>2. LinesInv
  <2>1. DOMAIN file = {} /\ \A w \in Writers : saving[w] = NoRecord
    BY DEF Init
  <2>2. 0 \in 0..MaxTime /\ 0 \in 0..MaxSaves
    BY NumbersAssumption
  <2> QED BY <2>1, <2>2 DEF Init, LinesInv
<1>3. Size \in Nat
  BY <1>1, <1>2, SizeIsNat
<1>4. ReaderTypes
  <2>1. <<>> \in Seq(Entry) /\ NoTime \in 0..NoTime /\ NoQuery \in [since: Nat, actions: SUBSET Actions]
    BY NumbersAssumption DEF NoTime, NoQuery
  <2> QED BY <1>3, <2>1, NobodyAssumption DEF Init, ReaderTypes
<1>5. \A r \in Readers : ReaderInv(r)
  BY <1>3 DEF Init, ReaderInv, AtWork, AtCut, Scanned, OldestFound, NothingOlder, Returned
<1> QED BY <1>1, <1>2, <1>4, <1>5 DEF ReadInv

LEMMA StampKeepsLines ==
    ASSUME SaveInv, LinesInv, NEW w \in Writers, Stamp(w)
    PROVE  LinesInv'
<1>1. PICK a \in Actions, s \in Sizes :
          saving' = [saving EXCEPT ![w] = [id |-> calls', at |-> now, action |-> a, size |-> s]]
  BY DEF Stamp
<1> DEFINE stamped == [id |-> calls', at |-> now, action |-> a, size |-> s]
<1>2. /\ UNCHANGED <<now, file, closed, saved>> /\ calls' = calls + 1 /\ calls < MaxSaves
      /\ stamped.id = calls' /\ stamped.at = now
  BY DEF Stamp
<1> HIDE DEF stamped
<1>3. saving'[w] = stamped /\ \A v \in Writers : v # w => saving'[v] = saving[v]
  BY <1>1 DEF SaveInv, Types, stamped
<1>4. calls \in Nat /\ 1..calls \subseteq 1..(calls + 1) /\ calls + 1 \notin 1..calls
  BY DEF LinesInv
<1>5. \A v \in Writers : saving'[v] # NoRecord =>
          saving'[v].at \in 0..now /\ \A i \in DOMAIN file : saving'[v].id \notin file[i].ids
  <2>1. now \in 0..now
    BY DEF LinesInv
  <2>2. \A i \in DOMAIN file : stamped.id \notin file[i].ids
    BY <1>2, <1>4 DEF LinesInv
  <2> QED BY <1>2, <1>3, <2>1, <2>2 DEF LinesInv
<1>6. calls' \in 0..MaxSaves
  BY <1>2, NumbersAssumption DEF LinesInv
<1>7. \A i \in DOMAIN file : file[i].ids \subseteq 1..calls'
  BY <1>2, <1>4 DEF LinesInv
<1>8. saved \subseteq 1..calls'
  BY <1>2, <1>4 DEF LinesInv
<1> QED BY <1>2, <1>5, <1>6, <1>7, <1>8 DEF LinesInv

(* The end of a call of Save that wrote something. *)
LEMMA WriteKeepsLines ==
    ASSUME SaveInv, LinesInv, NEW w \in Writers, saving[w] # NoRecord,
           NEW size \in Nat \ {0}, NEW whole \in BOOLEAN, NEW ended \in BOOLEAN,
           file' = Written(saving[w], size, whole, ended),
           saving' = [saving EXCEPT ![w] = NoRecord], UNCHANGED <<now, calls, closed>>,
           saved' = saved \/ saved' = saved \cup {saving[w].id}
    PROVE  LinesInv'
<1> PICK id : id = saving[w].id
  OBVIOUS
<1>1. /\ saving'[w] = NoRecord /\ \A v \in Writers : v # w => saving'[v] = saving[v]
      /\ id \in 1..calls /\ saving[w].at \in 0..now
      /\ \A i \in DOMAIN file : id \notin file[i].ids
      /\ \A v \in Writers : (v # w /\ saving[v] # NoRecord) => saving[v].id # id
  <2>1. saving[w] \in StampedRecord /\ saving[w].id <= calls
    BY DEF SaveInv, Types, RecordsAreFresh
  <2>2. id \in 1..calls
    BY <2>1 DEF StampedRecord, LinesInv
  <2>3. \A v \in Writers : (v # w /\ saving[v] # NoRecord) => saving[v].id # id
    BY DEF SaveInv, RecordsAreFresh
  <2> QED BY <2>2, <2>3 DEF SaveInv, Types, LinesInv
<1>2. /\ Len(file') \in {Len(file), Len(file) + 1} /\ Len(file') >= 1
      /\ \A i \in DOMAIN file : file'[i].at = file[i].at
      /\ \A i \in DOMAIN file' : file'[i].size \in Nat \ {0}
      /\ \A i \in DOMAIN file' :
            file'[i].ids = (IF i \in DOMAIN file THEN file[i].ids ELSE {})
                           \cup (IF i = Len(file') THEN {id} ELSE {})
      /\ \A i \in DOMAIN file' \ DOMAIN file : file'[i].at = saving[w].at
  BY WrittenGrows
<1>3. \A i \in DOMAIN file' : i \in DOMAIN file \/ i = Len(file')
  <2>1. Len(file) \in Nat /\ DOMAIN file = 1..Len(file)
    BY FileIsSized
  <2>2. Len(file') \in Nat /\ DOMAIN file' = 1..Len(file')
    <3>1. file' \in Seq(Line)
      BY WrittenLines DEF SaveInv
    <3> QED BY <3>1
  <2> QED BY <1>2, <2>1, <2>2
<1>4. ASSUME NEW i \in DOMAIN file'
      PROVE  /\ file'[i].ids \subseteq 1..calls /\ file'[i].ids # {}
             /\ file'[i].at \in 0..now /\ file'[i].size \in Nat \ {0}
  <2>1. CASE i \in DOMAIN file
    <3>1. file[i].ids \subseteq 1..calls /\ file[i].ids # {} /\ file[i].at \in 0..now
      BY <2>1 DEF LinesInv
    <3> QED BY <1>1, <1>2, <2>1, <3>1
  <2>2. CASE i \notin DOMAIN file
    <3>1. file'[i].ids = {id} /\ file'[i].at = saving[w].at
      BY <1>2, <1>3, <2>2
    <3> QED BY <1>1, <1>2, <3>1
  <2> QED BY <2>1, <2>2
<1>5. ASSUME NEW i \in DOMAIN file', NEW j \in DOMAIN file', i # j
      PROVE  file'[i].ids \cap file'[j].ids = {}
  <2>1. \A l, m \in DOMAIN file : l # m => file[l].ids \cap file[m].ids = {}
    BY DEF LinesInv
  <2> QED BY <1>1, <1>2, <1>5, <2>1
<1>6. ASSUME NEW v \in Writers, saving'[v] # NoRecord
      PROVE  saving'[v].at \in 0..now /\ \A i \in DOMAIN file' : saving'[v].id \notin file'[i].ids
  <2>1. v # w /\ saving'[v] = saving[v] /\ saving[v].id # id
    BY <1>1, <1>6
  <2>2. saving[v].at \in 0..now /\ \A i \in DOMAIN file : saving[v].id \notin file[i].ids
    BY <1>6, <2>1 DEF LinesInv
  <2> QED BY <1>2, <2>1, <2>2
<1>7. saved' \subseteq 1..calls
  BY <1>1 DEF LinesInv
<1> QED BY <1>4, <1>5, <1>6, <1>7 DEF LinesInv

LEMMA NextReadInv == ReadInv /\ [Next]_vars => ReadInv'
<1> SUFFICES ASSUME ReadInv, [Next]_vars PROVE ReadInv'
  OBVIOUS
<1>1. SaveInv'
  BY NextSaveInv DEF ReadInv
<1>2. SUFFICES LinesInv' /\ ReaderTypes' /\ \A r \in Readers : ReaderInv(r)'
  BY <1>1 DEF ReadInv
<1>3. ASSUME UNCHANGED <<file, readerVars>>
      PROVE  ReaderTypes' /\ \A r \in Readers : ReaderInv(r)'
  <2>1. UNCHANGED <<file, mutex, offset, pc, query, found, oldest, cut, expected>>
    BY <1>3 DEF readerVars
  <2>2. Size' = Size
    BY <2>1 DEF Size, End
  <2> QED BY <2>1, <2>2, OthersStay DEF ReadInv, ReaderTypes
<1>4. ASSUME UNCHANGED <<file, calls, saving, saved>>, now' \in {now} \cup ({now + 1} \cap 0..MaxTime),
             closed' \in BOOLEAN
      PROVE  LinesInv'
  <2>1. now \in Nat /\ now' \in 0..MaxTime /\ 0..now \subseteq 0..now'
    BY <1>4 DEF ReadInv, LinesInv
  <2> QED BY <1>4, <2>1 DEF ReadInv, LinesInv
<1>5. CASE Tick
  <2>1. now + 1 \in 0..MaxTime /\ closed \in BOOLEAN
    BY <1>5, NumbersAssumption DEF Tick, ReadInv, LinesInv
  <2> QED BY <1>3, <1>4, <1>5, <2>1 DEF Tick
<1>6. ASSUME NEW w \in Writers, Stamp(w)
      PROVE  LinesInv' /\ ReaderTypes' /\ \A r \in Readers : ReaderInv(r)'
  BY <1>3, <1>6, StampKeepsLines DEF Stamp, ReadInv
<1>7. ASSUME NEW w \in Writers, SaveReturns(w), UNCHANGED file,
             saved' = saved
      PROVE  LinesInv' /\ ReaderTypes' /\ \A r \in Readers : ReaderInv(r)'
  <2>1. saving' = [saving EXCEPT ![w] = NoRecord] /\ UNCHANGED <<now, closed, calls, readerVars>>
    BY <1>7 DEF SaveReturns
  <2>2. \A v \in Writers : saving'[v] # NoRecord => saving'[v] = saving[v]
    BY <2>1 DEF ReadInv, SaveInv, Types
  <2>3. LinesInv'
    BY <1>7, <2>1, <2>2 DEF ReadInv, LinesInv
  <2> QED BY <1>3, <1>7, <2>1, <2>3
<1>8. ASSUME NEW w \in Writers, SaveReturns(w),
             NEW size \in Nat \ {0}, NEW whole \in BOOLEAN, NEW ended \in BOOLEAN,
             file' = Written(saving[w], size, whole, ended),
             saved' = saved \/ saved' = saved \cup {saving[w].id}
      PROVE  LinesInv' /\ ReaderTypes' /\ \A r \in Readers : ReaderInv(r)'
  <2>1. /\ saving[w] # NoRecord /\ mutex = Nobody
        /\ saving' = [saving EXCEPT ![w] = NoRecord] /\ UNCHANGED <<now, closed, calls>>
        /\ UNCHANGED readerVars
    BY <1>8 DEF SaveReturns, MutexFree
  <2>2. LinesInv'
    BY <1>8, <2>1, WriteKeepsLines DEF ReadInv
  <2> QED BY <1>8, <2>1, <2>2, GrowthIsNotRead
<1>9. ASSUME NEW w \in Writers, saving[w] # NoRecord
      PROVE  saving[w].size \in Nat \ {0} /\ saving[w].size - 1 \in Nat \ {0}
  <2>1. PICK s \in Sizes : s = saving[w].size
    BY <1>9 DEF ReadInv, SaveInv, Types, StampedRecord
  <2>2. s \in Nat /\ s # 0 /\ s # 1
    BY NumbersAssumption
  <2> QED BY <2>1, <2>2
<1>10. ASSUME NEW w \in Writers, Save(w)
       PROVE  LinesInv' /\ ReaderTypes' /\ \A r \in Readers : ReaderInv(r)'
  <2>1. saving[w] # NoRecord
    BY <1>10 DEF Save, SaveReturns
  <2> QED BY <1>8, <1>9, <1>10, <2>1 DEF Save
<1>11. ASSUME NEW w \in Writers, SaveFails(w)
       PROVE  LinesInv' /\ ReaderTypes' /\ \A r \in Readers : ReaderInv(r)'
  <2>1. saving[w] # NoRecord /\ SaveReturns(w) /\ saved' = saved
    BY <1>11 DEF SaveFails, SaveReturns
  <2>2. CASE UNCHANGED file
    BY <1>7, <2>1, <2>2
  <2>3. CASE file' = Written(saving[w], 1, FALSE, FALSE)
    <3>1. 1 \in Nat \ {0}
      OBVIOUS
    <3> QED BY <1>8, <2>1, <2>3, <3>1
  <2>4. CASE file' = Written(saving[w], saving[w].size - 1, TRUE, FALSE)
    BY <1>8, <1>9, <2>1, <2>4
  <2> QED BY <1>11, <2>2, <2>3, <2>4 DEF SaveFails
<1>12. ASSUME NEW r \in Readers, Rewind(r) \/ RewindFails(r) \/ Reading(r)
       PROVE  LinesInv' /\ ReaderTypes' /\ \A x \in Readers : ReaderInv(x)'
  <2>1. LinesInv'
    <3>1. UNCHANGED <<now, file, closed, calls, saving, saved>>
      BY <1>12 DEF Rewind, RewindFails, Reading, Discard, ScanLine, Finish, ScanFails
    <3> QED BY <1>4, <3>1 DEF ReadInv, LinesInv
  <2>2. ASSUME pc' = [pc EXCEPT ![r] = "failed"], mutex' = Nobody, mutex \in {Nobody, r},
               UNCHANGED <<file, offset, query, found, oldest, cut, expected>>
        PROVE  ReaderTypes' /\ \A x \in Readers : ReaderInv(x)'
    <3>1. Size' = Size
      BY <2>2 DEF Size, End
    <3>2. \A x \in Readers : pc'[x] = (IF x = r THEN "failed" ELSE pc[x])
      BY <2>2 DEF ReadInv, ReaderTypes
    <3>3. \A x \in Readers : x # r => pc[x] \notin {"discard", "scan"}
      BY <2>2, OthersAreOut
    <3>4. ReaderTypes'
      <4>1. pc' \in [Readers -> {"start", "discard", "scan", "done", "failed"}]
        BY <2>2 DEF ReadInv, ReaderTypes
      <4> QED BY <2>2, <3>1, <3>2, <3>3, <4>1, NobodyAssumption DEF ReadInv, ReaderTypes
    <3>5. \A x \in Readers : ReaderInv(x)'
      BY <2>2, <3>2, OthersStay DEF ReadInv
    <3> QED BY <3>4, <3>5
  <2>3. CASE RewindFails(r)
    BY <2>1, <2>2, <2>3 DEF RewindFails, MutexFree
  <2>4. CASE ScanFails(r)
    <3>1. mutex = r
      BY <2>4 DEF ScanFails, ReadInv, ReaderTypes
    <3> QED BY <2>1, <2>2, <2>4, <3>1 DEF ScanFails, GiveUp
  <2> QED BY <1>12, <2>1, <2>3, <2>4, RewindKeeps, DiscardKeeps, ScanLineKeeps, FinishKeeps
          DEF Reading
<1>13. CASE Close
  BY <1>3, <1>4, <1>13 DEF Close
<1>14. CASE UNCHANGED vars
  <2>1. closed \in BOOLEAN
    BY DEF ReadInv, LinesInv
  <2> QED BY <1>3, <1>4, <1>14, <2>1 DEF vars, readerVars
<1> QED BY <1>5, <1>6, <1>10, <1>11, <1>12, <1>13, <1>14 DEF Next, Terminating

(* Whatever writers, failed writes and readers do, the file is a sequence of *)
(* sized lines that name their calls, the shared handle stays within the     *)
(* file, and the mutex is held by the reader in the critical section and by  *)
(* nobody else.                                                              *)
THEOREM StateIsTyped == Spec => []TypeOK
<1>1. ReadInv => TypeOK
  <2> SUFFICES ASSUME ReadInv PROVE TypeOK
    OBVIOUS
  <2>1. \A i \in DOMAIN file : file[i].whole \in BOOLEAN /\ file[i].ended \in BOOLEAN
    <3>1. \A i \in DOMAIN file : file[i] \in Line
      BY DEF ReadInv, SaveInv, Types
    <3> QED BY <3>1 DEF Line
  <2> QED BY <2>1 DEF ReadInv, LinesInv, ReaderTypes, TypeOK
<1> QED BY InitReadInv, NextReadInv, <1>1, PTL DEF Spec

(* FindLogs returns exactly the matching records of the tail as it was when  *)
(* the read began, each once, oldest first, for any lines and any limit.     *)
THEOREM ReadsAreExact == Spec => []ReadIsExact
<1>1. ReadInv => ReadIsExact
  BY DEF ReadInv, ReaderInv, Returned, ReadIsExact
<1> QED BY InitReadInv, NextReadInv, <1>1, PTL DEF Spec

-----------------------------------------------------------------------------
(* Calls are numbered in the order of their stamps: of two records, written  *)
(* or still waiting for the mutex, the one with the earlier stamp has the    *)
(* smaller number.  (A line that was merged counts with its first record.)   *)
StampedInOrder ==
    /\ \A i, j \in DOMAIN file : (file[i].whole /\ file[j].at < file[i].at) => Overtook(i, j)
    /\ \A w \in Writers : saving[w] # NoRecord => \A i \in DOMAIN file :
          /\ (file[i].whole /\ saving[w].at < file[i].at) => \A id \in file[i].ids : saving[w].id < id
          /\ file[i].at < saving[w].at => \E id \in file[i].ids : id < saving[w].id
    /\ \A v, w \in Writers :
          (saving[v] # NoRecord /\ saving[w] # NoRecord /\ saving[v].at < saving[w].at) =>
              saving[v].id < saving[w].id

LEMMA WholeLinesAreAlone ==
    ASSUME SaveInv, NEW w \in Writers,
           NEW size \in Nat \ {0}, NEW whole \in BOOLEAN, NEW ended \in BOOLEAN,
           file' = Written(saving[w], size, whole, ended)
    PROVE  \A i \in DOMAIN file : file'[i].whole => file'[i] = file[i]
<1> DEFINE line == [ids |-> {saving[w].id}, at |-> saving[w].at, action |-> saving[w].action,
                    size |-> size, whole |-> whole, ended |-> ended]
           n == Len(file)
<1>1. file \in Seq(Line) /\ n \in Nat /\ DOMAIN file = 1..n
  BY DEF SaveInv, Types
<1>2. CASE file = <<>> \/ file[n].ended
  <2>1. file' = Append(file, line)
    BY <1>2 DEF Written
  <2> HIDE DEF line
  <2> QED BY <1>1, <2>1
<1>3. CASE ~(file = <<>> \/ file[n].ended)
  <2> DEFINE last == [file[n] EXCEPT !.ids = @ \cup {saving[w].id}, !.size = @ + size,
                                     !.whole = FALSE, !.ended = ended]
  <2>1. file' = [file EXCEPT ![n] = last]
    BY <1>3 DEF Written
  <2>2. n \in DOMAIN file /\ file[n] \in Line
    BY <1>1, <1>3
  <2>3. last.whole = FALSE
    BY <2>2 DEF Line
  <2> HIDE DEF last
  <2> QED BY <1>1, <2>1, <2>2, <2>3
<1> QED BY <1>2, <1>3

LEMMA StampKeepsOrder ==
    ASSUME SaveInv, LinesInv, StampedInOrder, NEW w \in Writers, Stamp(w)
    PROVE  StampedInOrder'
<1>1. PICK a \in Actions, s \in Sizes :
          saving' = [saving EXCEPT ![w] = [id |-> calls', at |-> now, action |-> a, size |-> s]]
  BY DEF Stamp
<1> DEFINE stamped == [id |-> calls', at |-> now, action |-> a, size |-> s]
<1>2. file' = file /\ calls' = calls + 1 /\ stamped.id = calls + 1 /\ stamped.at = now
  BY DEF Stamp
<1> HIDE DEF stamped
<1>3. saving'[w] = stamped /\ \A v \in Writers : v # w => saving'[v] = saving[v]
  BY <1>1 DEF SaveInv, Types, stamped
<1>4. calls \in Nat /\ now \in Nat
  BY DEF LinesInv
<1>5. ASSUME NEW i \in DOMAIN file
      PROVE  file[i].at \in Nat /\ ~(now < file[i].at) /\ \E id \in file[i].ids : id < calls + 1
  <2>1. file[i].at \in 0..now /\ file[i].ids \subseteq 1..calls /\ file[i].ids # {}
    BY DEF LinesInv
  <2> QED BY <1>4, <2>1
<1>6. ASSUME NEW v \in Writers, saving[v] # NoRecord
      PROVE  saving[v].at \in Nat /\ ~(now < saving[v].at) /\ saving[v].id < calls + 1
  <2>1. saving[v].at \in 0..now
    BY <1>6 DEF LinesInv
  <2>2. saving[v].id \in Nat /\ saving[v].id <= calls
    BY <1>6 DEF SaveInv, Types, RecordsAreFresh, StampedRecord
  <2> QED BY <1>4, <2>1, <2>2
<1>7. ASSUME NEW v \in Writers, saving'[v] # NoRecord, NEW i \in DOMAIN file
      PROVE  /\ (file[i].whole /\ saving'[v].at < file[i].at) => \A id \in file[i].ids : saving'[v].id < id
             /\ file[i].at < saving'[v].at => \E id \in file[i].ids : id < saving'[v].id
  <2>1. CASE v = w
    BY <1>2, <1>3, <1>5, <2>1
  <2>2. CASE v # w
    BY <1>3, <1>7, <2>2 DEF StampedInOrder
  <2> QED BY <2>1, <2>2
<1>8. ASSUME NEW u \in Writers, NEW v \in Writers, saving'[u] # NoRecord, saving'[v] # NoRecord,
             saving'[u].at < saving'[v].at
      PROVE  saving'[u].id < saving'[v].id
  <2>1. CASE u = w
    <3>1. saving'[u].at = now /\ ~(now < now)
      BY <1>2, <1>3, <1>4, <2>1
    <3> QED BY <1>3, <1>6, <1>8, <2>1, <3>1
  <2>2. CASE u # w /\ v = w
    BY <1>2, <1>3, <1>6, <1>8, <2>2
  <2>3. CASE u # w /\ v # w
    BY <1>3, <1>8, <2>3 DEF StampedInOrder
  <2> QED BY <2>1, <2>2, <2>3
<1>9. \A i, j \in DOMAIN file' : (file'[i].whole /\ file'[j].at < file'[i].at) => Overtook(i, j)'
  BY <1>2 DEF StampedInOrder, Overtook
<1> QED BY <1>2, <1>7, <1>8, <1>9 DEF StampedInOrder

LEMMA WriteKeepsOrder ==
    ASSUME SaveInv, LinesInv, StampedInOrder, NEW w \in Writers, saving[w] # NoRecord,
           NEW size \in Nat \ {0}, NEW whole \in BOOLEAN, NEW ended \in BOOLEAN,
           file' = Written(saving[w], size, whole, ended),
           saving' = [saving EXCEPT ![w] = NoRecord]
    PROVE  StampedInOrder'
<1> PICK id : id = saving[w].id
  OBVIOUS
<1> PICK at : at = saving[w].at
  OBVIOUS
<1>1. saving'[w] = NoRecord /\ \A v \in Writers : v # w => saving'[v] = saving[v]
  BY DEF SaveInv, Types
<1>2. /\ \A i \in DOMAIN file : file'[i].at = file[i].at
      /\ \A i \in DOMAIN file' :
            file'[i].ids = (IF i \in DOMAIN file THEN file[i].ids ELSE {})
                           \cup (IF i = Len(file') THEN {id} ELSE {})
      /\ \A i \in DOMAIN file' \ DOMAIN file : file'[i].at = at
  BY WrittenGrows
<1>3. \A i \in DOMAIN file' \ DOMAIN file : file'[i].ids = {id} /\ file'[i].at = at
  <2>1. Len(file) \in Nat /\ DOMAIN file = 1..Len(file)
    BY FileIsSized
  <2>2. Len(file') \in Nat /\ DOMAIN file' = 1..Len(file')
    <3>1. file' \in Seq(Line)
      BY WrittenLines DEF SaveInv
    <3> QED BY <3>1
  <2>3. Len(file') \in {Len(file), Len(file) + 1}
    BY WrittenGrows
  <2>4. \A i \in DOMAIN file' \ DOMAIN file : i = Len(file')
    BY <2>1, <2>2, <2>3
  <2> QED BY <1>2, <2>4
<1>4. \A i \in DOMAIN file : file[i].ids \subseteq file'[i].ids \/ i \notin DOMAIN file'
  BY <1>2
<1>5. \A i \in DOMAIN file : file'[i].whole => file'[i] = file[i]
  BY WholeLinesAreAlone
<1>6. ASSUME NEW v \in Writers, saving[v] # NoRecord, NEW i \in DOMAIN file
      PROVE  /\ (file[i].whole /\ saving[v].at < file[i].at) => \A x \in file[i].ids : saving[v].id < x
             /\ file[i].at < saving[v].at => \E x \in file[i].ids : x < saving[v].id
  BY <1>6 DEF StampedInOrder
<1>7. ASSUME NEW i \in DOMAIN file', NEW j \in DOMAIN file', file'[i].whole, file'[j].at < file'[i].at
      PROVE  \E x \in file'[j].ids : \A y \in file'[i].ids : x < y
  <2>1. CASE i \in DOMAIN file /\ j \in DOMAIN file
    <3>1. file[i].whole /\ file[j].at < file[i].at /\ file'[i].ids = file[i].ids
      BY <1>2, <1>5, <1>7, <2>1
    <3>2. \E x \in file[j].ids : \A y \in file[i].ids : x < y
      BY <2>1, <3>1 DEF StampedInOrder, Overtook
    <3> QED BY <1>4, <2>1, <3>1, <3>2
  <2>2. CASE i \in DOMAIN file /\ j \notin DOMAIN file
    <3>1. file[i].whole /\ at < file[i].at /\ file'[i].ids = file[i].ids /\ file'[j].ids = {id}
      BY <1>2, <1>3, <1>5, <1>7, <2>2
    <3> QED BY <1>6, <2>2, <3>1
  <2>3. CASE i \notin DOMAIN file /\ j \in DOMAIN file
    <3>1. file[j].at < at /\ file'[i].ids = {id}
      BY <1>2, <1>3, <1>7, <2>3
    <3>2. \E x \in file[j].ids : x < id
      BY <1>6, <2>3, <3>1
    <3> QED BY <1>4, <2>3, <3>1, <3>2
  <2>4. CASE i \notin DOMAIN file /\ j \notin DOMAIN file
    <3>1. file'[i].at = at /\ file'[j].at = at
      BY <1>3, <2>4
    <3>2. at \in Nat
      BY DEF LinesInv
    <3> QED BY <1>7, <3>1, <3>2
  <2> QED BY <2>1, <2>2, <2>3, <2>4
<1>8. ASSUME NEW v \in Writers, saving'[v] # NoRecord, NEW i \in DOMAIN file'
      PROVE  /\ (file'[i].whole /\ saving'[v].at < file'[i].at) => \A x \in file'[i].ids : saving'[v].id < x
             /\ file'[i].at < saving'[v].at => \E x \in file'[i].ids : x < saving'[v].id
  <2>1. v # w /\ saving'[v] = saving[v] /\ saving[v] # NoRecord
    BY <1>1, <1>8
  <2>2. CASE i \in DOMAIN file
    BY <1>2, <1>4, <1>5, <1>6, <2>1, <2>2
  <2>3. CASE i \notin DOMAIN file
    <3>1. file'[i].ids = {id} /\ file'[i].at = at
      BY <1>3, <2>3
    <3>2. (saving[v].at < at => saving[v].id < id) /\ (at < saving[v].at => id < saving[v].id)
      BY <2>1 DEF StampedInOrder
    <3> QED BY <2>1, <3>1, <3>2
  <2> QED BY <2>2, <2>3
<1>9. ASSUME NEW u \in Writers, NEW v \in Writers, saving'[u] # NoRecord, saving'[v] # NoRecord,
             saving'[u].at < saving'[v].at
      PROVE  saving'[u].id < saving'[v].id
  BY <1>1, <1>9 DEF StampedInOrder
<1> QED BY <1>7, <1>8, <1>9 DEF StampedInOrder, Overtook

LEMMA NextStampedInOrder == ReadInv /\ StampedInOrder /\ [Next]_vars => StampedInOrder'
<1> SUFFICES ASSUME ReadInv, StampedInOrder, [Next]_vars PROVE StampedInOrder'
  OBVIOUS
<1>1. SaveInv /\ LinesInv
  BY DEF ReadInv
<1>2. CASE UNCHANGED <<file, saving>>
  BY <1>2 DEF StampedInOrder, Overtook
<1>3. CASE \E w \in Writers : Stamp(w)
  BY <1>1, <1>3, StampKeepsOrder
<1>4. ASSUME NEW w \in Writers, saving[w] # NoRecord
      PROVE  saving[w].size \in Nat \ {0} /\ saving[w].size - 1 \in Nat \ {0}
  <2>1. PICK s \in Sizes : s = saving[w].size
    BY <1>1, <1>4 DEF SaveInv, Types, StampedRecord
  <2>2. s \in Nat /\ s # 0 /\ s # 1
    BY NumbersAssumption
  <2> QED BY <2>1, <2>2
<1>5. ASSUME NEW w \in Writers, Save(w) \/ SaveFails(w) PROVE StampedInOrder'
  <2>1. saving[w] # NoRecord /\ saving' = [saving EXCEPT ![w] = NoRecord]
    BY <1>5 DEF Save, SaveFails, SaveReturns
  <2>2. CASE UNCHANGED file
    <3>1. \A v \in Writers : saving'[v] # NoRecord => saving'[v] = saving[v]
      BY <1>1, <2>1 DEF SaveInv, Types
    <3> QED BY <2>2, <3>1 DEF StampedInOrder, Overtook
  <2>3. 1 \in Nat \ {0} /\ TRUE \in BOOLEAN /\ FALSE \in BOOLEAN
    OBVIOUS
  <2>4. CASE file' = Written(saving[w], saving[w].size, TRUE, TRUE)
    BY <1>1, <1>4, <2>1, <2>3, <2>4, WriteKeepsOrder
  <2>5. CASE file' = Written(saving[w], 1, FALSE, FALSE)
    BY <1>1, <2>1, <2>3, <2>5, WriteKeepsOrder
  <2>6. CASE file' = Written(saving[w], saving[w].size - 1, TRUE, FALSE)
    BY <1>1, <1>4, <2>1, <2>3, <2>6, WriteKeepsOrder
  <2> QED BY <1>5, <2>2, <2>4, <2>5, <2>6 DEF Save, SaveFails
<1>6. CASE Tick \/ Close \/ UNCHANGED vars
  BY <1>2, <1>6 DEF Tick, Close, vars
<1>7. CASE \E r \in Readers : Rewind(r) \/ RewindFails(r) \/ Reading(r)
  BY <1>2, <1>7 DEF Rewind, RewindFails, Reading, Discard, ScanLine, Finish, ScanFails
<1> QED BY <1>3, <1>5, <1>6, <1>7 DEF Next, Terminating

(* A read that leaves out a record from after the time asked for says so     *)
(* with its warning, unless nothing in the tail is a record, or the tail     *)
(* holds a record whose Save was stamped before that of the missing one and  *)
(* written after it: the oldest time met is that of a line behind the cut,   *)
(* and lines are out of the order of their stamps only where one Save        *)
(* overtook another.                                                         *)
THEOREM QuietLossHasACause == Spec => []NothingLeftOutQuietly
<1>1. ReadInv /\ StampedInOrder => NothingLeftOutQuietly
  <2> SUFFICES ASSUME ReadInv, StampedInOrder,
                      NEW r \in Readers, pc[r] = "scan", offset >= Size, ~Warned(r),
                      NEW n \in DOMAIN file, Start(n) >= cut[r], file[n].whole,
                      NEW i \in DOMAIN file,
                      file[i].whole, Start(i) < cut[r], file[i].at > query[r].since
               PROVE  \E j \in (i + 1)..Len(file) :
                          Start(j) >= cut[r] /\ file[j].at <= query[r].since /\ Overtook(i, j)
    BY DEF NothingLeftOutQuietly
  <2>0. oldest[r] # NoTime
    <3>1. Start(n) \in Nat /\ Start(n) < Size /\ Size \in Nat /\ offset \in Nat
      BY SizeIsNat DEF ReadInv, ReaderTypes
    <3>2. oldest[r] <= file[n].at
      BY <3>1 DEF ReadInv, ReaderInv, NothingOlder
    <3>3. file[n].at \in 0..MaxTime /\ MaxTime \in Nat
      BY NumbersAssumption DEF ReadInv, LinesInv
    <3> QED BY <3>2, <3>3 DEF NoTime
  <2>1. PICK m \in DOMAIN file : Start(m) >= cut[r] /\ file[m].at = oldest[r]
    BY <2>0 DEF ReadInv, ReaderInv, OldestFound
  <2>2. /\ Start(i) \in Nat /\ Start(m) \in Nat /\ cut[r] \in Nat
        /\ query[r].since \in Nat /\ file[i].at \in Nat /\ file[m].at \in Nat
    <3>1. cut[r] \in Nat /\ query[r].since \in Nat
      BY DEF ReadInv, ReaderTypes
    <3>2. file[i].at \in Nat /\ file[m].at \in Nat
      BY DEF ReadInv, LinesInv
    <3>3. Start(i) \in Nat /\ Start(m) \in Nat
      BY SizeIsNat DEF ReadInv
    <3> QED BY <3>1, <3>2, <3>3
  <2>3. m \in (i + 1)..Len(file)
    <3>1. /\ Sized(file) /\ Len(file) \in Nat
          /\ i \in 1..Len(file) /\ m \in 1..Len(file)
      BY FileIsSized DEF ReadInv
    <3>2. i - 1 \in 0..Len(file) /\ m - 1 \in 0..Len(file)
      BY <3>1
    <3>3. m - 1 < i - 1 => End(m - 1) < End(i - 1)
      BY <3>1, <3>2, EndsGrow DEF End
    <3>4. ~(m < i) /\ m # i
      BY <2>1, <2>2, <3>1, <3>3 DEF Start
    <3> QED BY <3>1, <3>4
  <2>4. file[m].at <= query[r].since
    <3>1. cut[r] > 0
      BY <2>2
    <3> QED BY <2>0, <2>1, <2>2, <3>1 DEF Warned
  <2>5. file[m].at < file[i].at
    BY <2>2, <2>4
  <2>6. Overtook(i, m)
    BY <2>5 DEF StampedInOrder
  <2> QED BY <2>1, <2>3, <2>4, <2>6
<1>2. Init => StampedInOrder
  BY DEF Init, StampedInOrder
<1> QED BY InitReadInv, NextReadInv, NextStampedInOrder, <1>1, <1>2, PTL DEF Spec
=============================================================================
