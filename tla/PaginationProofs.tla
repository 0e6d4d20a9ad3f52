-------------------------- MODULE PaginationProofs --------------------------
(***************************************************************************)
(* Proofs about Pagination, for any reports, any lengths and any cap: every *)
(* message fits, no line is lost silently or parted from its header, and    *)
(* pages are neither split nor ended without need.  The inductive invariant *)
(* is about the sheets, the full pages with the one being filled: a part    *)
(* extends the last of them or is put on a new one (Placed).                *)
(***************************************************************************)
EXTENDS Pagination, NaturalsInduction, WellFoundedInduction, FiniteSetTheorems,
        SequenceTheorems, TLAPS

-----------------------------------------------------------------------------
(* Induction over numbers, for a set of them. *)
LEMMA LeastNumber ==
    ASSUME NEW S \in SUBSET Nat, S # {}
    PROVE  \E n \in S : \A m \in S : n <= m
<1> DEFINE R == {p \in Nat \X Nat : p[1] < p[2]}
<1>1. IsWellFoundedOn(R, Nat)
  BY NatLessThanWellFounded DEF OpToRel
<1> HIDE DEF R
<1>2. PICK n \in S : \A m \in S : <<m, n>> \notin R
  BY <1>1, WFMin
<1>3. \A m \in S : ~(m < n)
  BY <1>2 DEF R
<1> QED BY <1>3

LEMMA AllNumbers ==
    ASSUME NEW S \in SUBSET Nat, 0 \in S, \A n \in S : n + 1 \in S
    PROVE  S = Nat
<1> SUFFICES ASSUME Nat \ S # {} PROVE FALSE
  OBVIOUS
<1>1. PICK n \in Nat \ S : \A m \in Nat \ S : n <= m
  BY LeastNumber
<1>2. n # 0 /\ n - 1 \in Nat /\ n - 1 \notin Nat \ S
  BY <1>1
<1> QED BY <1>1, <1>2

(* Joining sequences of one set is associative. *)
Associate(s, t, u) == (s \o t) \o u = s \o (t \o u)

LEMMA SequencesAssociate ==
    ASSUME NEW S, NEW s \in Seq(S), NEW t \in Seq(S), NEW u \in Seq(S)
    PROVE  Associate(s, t, u)
  BY ConcatAssociative DEF Associate


-----------------------------------------------------------------------------
(* The length of a text. *)
LineRecord == [block: Nat, index: Nat, len: Nat]
Text == Seq(LineRecord)

LEMMA TextsAssociate ==
    ASSUME NEW s \in Text, NEW t \in Text, NEW u \in Text
    PROVE  Associate(s, t, u)
  BY SequencesAssociate DEF Text

LEMMA TextLines ==
    ASSUME NEW text \in Text
    PROVE  /\ Len(text) \in Nat /\ DOMAIN text = 1..Len(text)
           /\ \A i \in 1..Len(text) :
                 /\ text[i] \in LineRecord
                 /\ text[i].block \in Nat /\ text[i].index \in Nat /\ text[i].len \in Nat
<1>1. Len(text) \in Nat /\ DOMAIN text = 1..Len(text) /\ \A i \in 1..Len(text) : text[i] \in LineRecord
  BY DEF Text
<1>2. \A l \in LineRecord : l.block \in Nat /\ l.index \in Nat /\ l.len \in Nat
  BY DEF LineRecord
<1> QED BY <1>1, <1>2

Measured(f, text, n) ==
    /\ f = [i \in 0..n |-> f[i]] /\ f[0] = 0
    /\ \A i \in 1..n : f[i] = f[i - 1] + text[i].len + 1

LEMMA LengthsExist ==
    ASSUME NEW text, Len(text) \in Nat
    PROVE  Measured(Lengths(text), text, Len(text))
<1> DEFINE S == {n \in Nat : \E f : Measured(f, text, n)}
<1>1. 0 \in S
  <2>1. Measured([i \in 0..0 |-> 0], text, 0)
    BY DEF Measured
  <2> QED BY <2>1
<1>2. ASSUME NEW n \in S PROVE n + 1 \in S
  <2>1. PICK f : Measured(f, text, n)
    OBVIOUS
  <2> DEFINE next == f[n] + text[n + 1].len + 1
             longer == [i \in 0..(n + 1) |-> IF i = n + 1 THEN next ELSE f[i]]
  <2>2. longer[0] = 0 /\ longer = [i \in 0..(n + 1) |-> longer[i]]
    BY <2>1 DEF Measured
  <2>3. ASSUME NEW i \in 1..(n + 1)
        PROVE  longer[i] = longer[i - 1] + text[i].len + 1
    <3>1. CASE i = n + 1
      BY <3>1
    <3>2. CASE i \in 1..n
      <4>1. f[i] = f[i - 1] + text[i].len + 1
        BY <2>1, <3>2 DEF Measured
      <4> QED BY <3>2, <4>1
    <3> QED BY <3>1, <3>2
  <2>4. Measured(longer, text, n + 1)
    BY <2>2, <2>3 DEF Measured
  <2> QED BY <2>4
<1> HIDE DEF S
<1>3. S \in SUBSET Nat
  BY DEF S
<1>4. PICK f : Measured(f, text, Len(text))
  <2>1. S = Nat
    BY <1>1, <1>2, <1>3, AllNumbers
  <2> QED BY <2>1 DEF S
<1> DEFINE Equation(g) ==
               g = [n \in 0..Len(text) |->
                       IF n = 0 THEN 0 ELSE g[n - 1] + text[n].len + 1]
<1>5. Equation(f)
  BY <1>4 DEF Measured
<1>6. Lengths(text) = CHOOSE g : Equation(g)
  BY DEF Lengths
<1> HIDE DEF Equation
<1>7. Equation(Lengths(text))
  BY <1>5, <1>6
<1> DEFINE h == Lengths(text)
<1>8. h = [n \in 0..Len(text) |->
              IF n = 0 THEN 0 ELSE h[n - 1] + text[n].len + 1]
  BY <1>7 DEF Equation
<1> HIDE DEF h
<1>9. Measured(h, text, Len(text))
  BY <1>8 DEF Measured
<1> QED BY <1>9 DEF h

LEMMA LengthsGrow ==
    ASSUME NEW text \in Text
    PROVE  /\ Lengths(text)[0] = 0
           /\ \A i \in 0..Len(text) : Lengths(text)[i] \in Nat
           /\ \A i \in 1..Len(text) : Lengths(text)[i] =
                  Lengths(text)[i - 1] + text[i].len + 1
<1> DEFINE f == Lengths(text)
           S == {i \in Nat : i <= Len(text) => f[i] \in Nat}
<1>1. Len(text) \in Nat /\ \A i \in 1..Len(text) : text[i].len \in Nat
  BY TextLines
<1>2. f[0] = 0 /\ \A i \in 1..Len(text) : f[i] = f[i - 1] + text[i].len + 1
  BY <1>1, LengthsExist DEF Measured
<1> HIDE DEF f
<1>3. 0 \in S
  BY <1>2
<1>4. ASSUME NEW i \in S PROVE i + 1 \in S
  <2> SUFFICES ASSUME i + 1 <= Len(text) PROVE f[i + 1] \in Nat
    OBVIOUS
  <2>1. i \in Nat /\ i + 1 \in 1..Len(text) /\ (i + 1) - 1 = i /\ f[i] \in Nat
    BY <1>1
  <2>2. f[i + 1] = f[i] + text[i + 1].len + 1 /\ text[i + 1].len \in Nat
    BY <1>1, <1>2, <2>1
  <2> QED BY <2>1, <2>2
<1> HIDE DEF S
<1>5. S = Nat
  <2>1. S \in SUBSET Nat
    BY DEF S
  <2> QED BY <1>3, <1>4, <2>1, AllNumbers
<1> QED BY <1>1, <1>2, <1>5 DEF S, f

(* Two texts, one below the other. *)
LEMMA JoinedLength ==
    ASSUME NEW s \in Text, NEW t \in Text, s # <<>>, t # <<>>
    PROVE  TextLen(s \o t) = TextLen(s) + 1 + TextLen(t)
<1> DEFINE m == Len(s)
           n == Len(t)
           st == s \o t
           f == Lengths(s)
           g == Lengths(t)
           h == Lengths(st)
<1>1. /\ m \in Nat \ {0} /\ n \in Nat \ {0} /\ st \in Text /\ Len(st) = m + n
      /\ \A i \in 1..m : st[i] = s[i]
      /\ \A i \in 1..n : st[m + i] = t[i]
  BY DEF Text
<1> HIDE DEF st, m, n
<1>2. /\ f[0] = 0 /\ \A i \in 0..m : f[i] \in Nat
      /\ \A i \in 1..m : f[i] = f[i - 1] + s[i].len + 1
  BY LengthsGrow DEF m
<1>3. /\ g[0] = 0 /\ \A i \in 0..n : g[i] \in Nat
      /\ \A i \in 1..n : g[i] = g[i - 1] + t[i].len + 1
  BY LengthsGrow DEF n
<1>4. /\ h[0] = 0 /\ \A i \in 0..(m + n) : h[i] \in Nat
      /\ \A i \in 1..(m + n) : h[i] = h[i - 1] + st[i].len + 1
  BY <1>1, LengthsGrow
<1>5. \A i \in 1..n : t[i].len \in Nat
  BY TextLines DEF n
<1> HIDE DEF f, g, h
<1>6. \A i \in 0..m : h[i] = f[i]
  <2> DEFINE S == {i \in Nat : i <= m => h[i] = f[i]}
  <2>1. 0 \in S
    BY <1>2, <1>4
  <2>2. ASSUME NEW i \in S PROVE i + 1 \in S
    <3> SUFFICES ASSUME i + 1 <= m PROVE h[i + 1] = f[i + 1]
      OBVIOUS
    <3>1. i \in Nat /\ i + 1 \in 1..m /\ i + 1 \in 1..(m + n) /\ (i + 1) - 1 = i /\ h[i] = f[i]
      BY <1>1
    <3>2. /\ h[i + 1] = h[i] + st[i + 1].len + 1 /\ f[i + 1] = f[i] + s[i + 1].len + 1
          /\ st[i + 1] = s[i + 1]
      BY <1>1, <1>2, <1>4, <3>1
    <3> QED BY <3>1, <3>2
  <2> HIDE DEF S
  <2>3. S = Nat
    <3>1. S \in SUBSET Nat
      BY DEF S
    <3> QED BY <2>1, <2>2, <3>1, AllNumbers
  <2> QED BY <1>1, <2>3 DEF S
<1>7. \A i \in 0..n : h[m + i] = f[m] + g[i]
  <2> DEFINE S == {i \in Nat : i <= n => h[m + i] = f[m] + g[i]}
  <2>1. 0 \in S
    <3>1. h[m] = f[m] /\ f[m] \in Nat
      BY <1>1, <1>2, <1>6
    <3> QED BY <1>1, <1>3, <3>1
  <2>2. ASSUME NEW i \in S PROVE i + 1 \in S
    <3> SUFFICES ASSUME i + 1 <= n PROVE h[m + (i + 1)] = f[m] + g[i + 1]
      OBVIOUS
    <3>1. /\ i \in Nat /\ m + (i + 1) \in 1..(m + n) /\ (m + (i + 1)) - 1 = m + i
          /\ i + 1 \in 1..n /\ (i + 1) - 1 = i /\ i \in 0..n /\ i <= n
      BY <1>1
    <3>2. h[m + i] = f[m] + g[i] /\ f[m] \in Nat /\ g[i] \in Nat
      BY <1>1, <1>2, <1>3, <3>1
    <3>3. h[m + (i + 1)] = h[m + i] + st[m + (i + 1)].len + 1 /\ st[m + (i + 1)] = t[i + 1]
      BY <1>1, <1>4, <3>1
    <3>4. g[i + 1] = g[i] + t[i + 1].len + 1 /\ t[i + 1].len \in Nat
      BY <1>3, <1>5, <3>1
    <3> QED BY <3>2, <3>3, <3>4
  <2> HIDE DEF S
  <2>3. S = Nat
    <3>1. S \in SUBSET Nat
      BY DEF S
    <3> QED BY <2>1, <2>2, <3>1, AllNumbers
  <2>4. \A i \in Nat : i <= n => h[m + i] = f[m] + g[i]
    BY <2>3 DEF S
  <2> QED BY <1>1, <2>4
<1>8. h[m + n] = f[m] + g[n] /\ f[m] \in Nat /\ g[n] \in Nat
  BY <1>1, <1>2, <1>3, <1>7
<1>9. /\ TextLen(s) = f[m] - 1 /\ TextLen(t) = g[n] - 1 /\ TextLen(st) = h[m + n] - 1
  <2>1. st # <<>>
    BY <1>1
  <2> QED BY <1>1, <2>1 DEF TextLen, f, g, h, m, n
<1> QED BY <1>8, <1>9 DEF st

LEMMA ShortTexts ==
    /\ TextLen(<<>>) = 0
    /\ \A l \in LineRecord : TextLen(<<l>>) = l.len
    /\ \A text \in Text : TextLen(text) \in Nat
<1>1. TextLen(<<>>) = 0
  BY DEF TextLen
<1>2. ASSUME NEW text \in Text, text # <<>>
      PROVE  /\ Len(text) \in 1..Len(text)
             /\ \A i \in 1..Len(text) :
                   /\ Lengths(text)[i] = Lengths(text)[i - 1] + text[i].len + 1
                   /\ Lengths(text)[i - 1] \in Nat /\ text[i].len \in Nat
             /\ Lengths(text)[0] = 0
  <2>1. Len(text) \in Nat \ {0} /\ \A i \in 1..Len(text) : text[i].len \in Nat
    BY <1>2, TextLines DEF Text
  <2>2. \A i \in 1..Len(text) : i - 1 \in 0..Len(text)
    BY <2>1
  <2> QED BY <2>1, <2>2, LengthsGrow
<1>3. ASSUME NEW text \in Text PROVE TextLen(text) \in Nat
  <2>1. CASE text # <<>>
    <3>1. Lengths(text)[Len(text)] - 1 \in Nat
      BY <1>2, <2>1
    <3> QED BY <2>1, <3>1 DEF TextLen
  <2> QED BY <1>1, <2>1
<1>4. ASSUME NEW l \in LineRecord PROVE TextLen(<<l>>) = l.len
  <2> DEFINE s == <<l>>
  <2>1. s \in Text /\ Len(s) = 1 /\ s[1] = l /\ s # <<>> /\ l.len \in Nat
    BY DEF Text, LineRecord
  <2> HIDE DEF s
  <2>2. Lengths(s)[1] = l.len + 1
    <3>1. 1 \in 1..Len(s) /\ 1 - 1 = 0
      BY <2>1
    <3> QED BY <1>2, <2>1, <3>1
  <2>3. TextLen(s) = l.len
    BY <2>1, <2>2 DEF TextLen
  <2> QED BY <2>3 DEF s
<1> QED BY <1>1, <1>3, <1>4

-----------------------------------------------------------------------------
(* Sequences of sequences, one after the other. *)
Glued(f, seqs, n) ==
    /\ f = [i \in 1..n |-> f[i]] /\ f[1] = seqs[1]
    /\ \A i \in 2..n : f[i] = f[i - 1] \o seqs[i]

LEMMA GluedExists ==
    ASSUME NEW seqs, Len(seqs) \in Nat, Len(seqs) # 0
    PROVE  \E f : Glued(f, seqs, Len(seqs)) /\ FlattenSeq(seqs) = f[Len(seqs)]
<1> DEFINE S == {n \in Nat : \E f : Glued(f, seqs, n + 1)}
<1>1. 0 \in S
  <2>1. Glued([i \in 1..(0 + 1) |-> seqs[1]], seqs, 0 + 1)
    BY DEF Glued
  <2> QED BY <2>1
<1>2. ASSUME NEW n \in S PROVE n + 1 \in S
  <2>1. PICK f : Glued(f, seqs, n + 1)
    OBVIOUS
  <2> DEFINE next == f[n + 1] \o seqs[n + 2]
             longer == [i \in 1..((n + 1) + 1) |-> IF i = n + 2 THEN next ELSE f[i]]
  <2> HIDE DEF next
  <2>2. n \in Nat /\ longer = [i \in 1..((n + 1) + 1) |-> longer[i]] /\ longer[1] = f[1]
    OBVIOUS
  <2>5. longer[1] = seqs[1]
    BY <2>1, <2>2 DEF Glued
  <2>3. ASSUME NEW i \in 2..((n + 1) + 1)
        PROVE  longer[i] = longer[i - 1] \o seqs[i]
    <3>1. CASE i = n + 2
      <4>1. i - 1 = n + 1 /\ longer[i] = next /\ longer[n + 1] = f[n + 1]
        BY <2>2, <3>1
      <4> QED BY <3>1, <4>1 DEF next
    <3>2. CASE i \in 2..(n + 1)
      <4>1. f[i] = f[i - 1] \o seqs[i]
        BY <2>1, <3>2 DEF Glued
      <4>2. longer[i] = f[i] /\ longer[i - 1] = f[i - 1]
        BY <2>2, <3>2
      <4> QED BY <4>1, <4>2
    <3>3. i = n + 2 \/ i \in 2..(n + 1)
      BY <2>2
    <3> QED BY <3>1, <3>2, <3>3, Zenon
  <2> HIDE DEF longer
  <2>4. Glued(longer, seqs, (n + 1) + 1)
    BY <2>2, <2>3, <2>5 DEF Glued
  <2> QED BY <2>4
<1> HIDE DEF S
<1> DEFINE len == Len(seqs)
<1>3. PICK f : Glued(f, seqs, len)
  <2>1. S = Nat
    <3>1. S \in SUBSET Nat
      BY DEF S
    <3> QED BY <1>1, <1>2, <3>1, AllNumbers
  <2>2. len - 1 \in S /\ (len - 1) + 1 = len
    BY <2>1
  <2> QED BY <2>2 DEF S
<1> DEFINE Equation(g) == g = [i \in 1..len |-> IF i = 1 THEN seqs[i] ELSE g[i - 1] \o seqs[i]]
<1>4. Equation(f)
  <2>1. f[1] = seqs[1] /\ \A i \in 1..len : i # 1 => f[i] = f[i - 1] \o seqs[i]
    <3>1. \A i \in 1..len : i # 1 => i \in 2..len
      OBVIOUS
    <3>2. f[1] = seqs[1] /\ \A i \in 2..len : f[i] = f[i - 1] \o seqs[i]
      BY <1>3, Zenon DEF Glued
    <3> QED BY <3>1, <3>2, Zenon
  <2>2. f = [i \in 1..len |-> f[i]]
    BY <1>3 DEF Glued
  <2> QED BY <2>1, <2>2
<1> DEFINE h == CHOOSE g : Equation(g)
<1>5. FlattenSeq(seqs) = h[len]
  BY DEF FlattenSeq
<1> HIDE DEF Equation
<1>6. Equation(h)
  BY <1>4
<1> HIDE DEF h, len
<1>7. Glued(h, seqs, len)
  <2>1. h = [i \in 1..len |-> IF i = 1 THEN seqs[i] ELSE h[i - 1] \o seqs[i]] /\ len \in Nat \ {0}
    BY <1>6 DEF Equation, len
  <2>2. h[1] = seqs[1] /\ \A i \in 2..len : h[i] = h[i - 1] \o seqs[i]
    <3>1. \A i \in 1..len : h[i] = IF i = 1 THEN seqs[i] ELSE h[i - 1] \o seqs[i]
      BY <2>1, Zenon
    <3>2. \A i \in 2..len : i \in 1..len /\ i # 1
      BY <2>1
    <3>3. 1 \in 1..len
      BY <2>1
    <3> QED BY <3>1, <3>2, <3>3, Zenon
  <2>3. h = [i \in 1..len |-> h[i]]
    BY <2>1
  <2> QED BY <2>2, <2>3 DEF Glued
<1> QED BY <1>5, <1>7 DEF len

LEMMA GluedOnce ==
    ASSUME NEW f, NEW g, NEW ss, NEW tt, NEW m \in Nat, NEW n \in Nat, m # 0, m <= n,
           Glued(f, ss, m), Glued(g, tt, n), \A i \in 1..m : ss[i] = tt[i]
    PROVE  f[m] = g[m]
<1> DEFINE S == {i \in Nat : i + 1 <= m => f[i + 1] = g[i + 1]}
<1>1. 0 \in S
  BY DEF Glued
<1>2. ASSUME NEW i \in S PROVE i + 1 \in S
  <2> SUFFICES ASSUME (i + 1) + 1 <= m PROVE f[(i + 1) + 1] = g[(i + 1) + 1]
    OBVIOUS
  <2> DEFINE k == (i + 1) + 1
  <2>1. k \in 2..m /\ k \in 2..n /\ k \in 1..m /\ k - 1 = i + 1 /\ f[i + 1] = g[i + 1]
    OBVIOUS
  <2> HIDE DEF k
  <2>2. f[k] = f[k - 1] \o ss[k] /\ g[k] = g[k - 1] \o tt[k] /\ ss[k] = tt[k]
    BY <2>1 DEF Glued
  <2>3. f[k] = g[k]
    BY <2>1, <2>2
  <2> QED BY <2>3 DEF k
<1> HIDE DEF S
<1>3. S = Nat
  <2>1. S \in SUBSET Nat
    BY DEF S
  <2> QED BY <1>1, <1>2, <2>1, AllNumbers
<1>4. m - 1 \in S /\ (m - 1) + 1 = m
  BY <1>3
<1> QED BY <1>4 DEF S

LEMMA FlattenAppend ==
    ASSUME NEW S, NEW ss \in Seq(Seq(S)), NEW t \in Seq(S)
    PROVE  /\ FlattenSeq(<<>>) = <<>>
           /\ ss = <<>> => FlattenSeq(Append(ss, t)) = t
           /\ ss # <<>> => FlattenSeq(Append(ss, t)) = FlattenSeq(ss) \o t
<1> DEFINE m == Len(ss)
           tt == Append(ss, t)
<1>1. m \in Nat /\ Len(tt) = m + 1 /\ tt[m + 1] = t /\ \A i \in 1..m : tt[i] = ss[i]
  OBVIOUS
<1> HIDE DEF m, tt
<1>2. PICK g : Glued(g, tt, m + 1) /\ FlattenSeq(tt) = g[m + 1]
  BY <1>1, GluedExists
<1>3. ss = <<>> => FlattenSeq(tt) = t
  <2>1. ss = <<>> => m = 0
    BY DEF m
  <2> QED BY <1>1, <1>2, <2>1 DEF Glued
<1>4. ASSUME ss # <<>> PROVE FlattenSeq(tt) = FlattenSeq(ss) \o t
  <2>1. m # 0
    BY <1>4 DEF m
  <2>2. PICK f : Glued(f, ss, m) /\ FlattenSeq(ss) = f[m]
    BY <1>1, <2>1, GluedExists DEF m
  <2>3. f[m] = g[m]
    <3>1. m \in Nat /\ m + 1 \in Nat /\ m <= m + 1 /\ \A i \in 1..m : ss[i] = tt[i]
      BY <1>1
    <3> QED BY <1>2, <2>1, <2>2, <3>1, GluedOnce
  <2>4. m + 1 \in 2..(m + 1) /\ (m + 1) - 1 = m
    BY <1>1, <2>1
  <2>5. g[m + 1] = g[m] \o tt[m + 1]
    BY <1>2, <2>4 DEF Glued
  <2> QED BY <1>1, <1>2, <2>2, <2>3, <2>5
<1>5. FlattenSeq(<<>>) = <<>>
  BY DEF FlattenSeq
<1> QED BY <1>3, <1>4, <1>5 DEF tt

LEMMA FlattenType ==
    ASSUME NEW S
    PROVE  \A ss \in Seq(Seq(S)) : FlattenSeq(ss) \in Seq(S)
<1> DEFINE N == {n \in Nat : \A ss \in Seq(Seq(S)) : Len(ss) = n => FlattenSeq(ss) \in Seq(S)}
<1>1. 0 \in N
  <2>1. <<>> \in Seq(Seq(S)) /\ <<>> \in Seq(S)
    OBVIOUS
  <2>2. FlattenSeq(<<>>) = <<>>
    BY <2>1, FlattenAppend
  <2>3. \A ss \in Seq(Seq(S)) : Len(ss) = 0 => ss = <<>>
    BY EmptySeq
  <2> QED BY <2>1, <2>2, <2>3
<1>2. ASSUME NEW n \in N PROVE n + 1 \in N
  <2> SUFFICES ASSUME NEW ss \in Seq(Seq(S)), Len(ss) = n + 1
               PROVE  FlattenSeq(ss) \in Seq(S)
    OBVIOUS
  <2>1. PICK s \in Seq(Seq(S)), t \in Seq(S) : ss = Append(s, t)
    <3>1. ss # <<>>
      BY n \in Nat
    <3> QED BY <3>1, SequenceEmptyOrAppend
  <2>2. Len(s) = n
    BY <2>1
  <2>3. FlattenSeq(s) \in Seq(S)
    BY <2>2
  <2>4. FlattenSeq(ss) = t \/ FlattenSeq(ss) = FlattenSeq(s) \o t
    BY <2>1, FlattenAppend
  <2>5. FlattenSeq(s) \o t \in Seq(S)
    BY <2>3, ConcatProperties
  <2> QED BY <2>4, <2>5
<1> HIDE DEF N
<1>3. N = Nat
  <2>1. N \in SUBSET Nat
    BY DEF N
  <2> QED BY <1>1, <1>2, <2>1, AllNumbers
<1> QED BY <1>3 DEF N

LEMMA FlattenSteps ==
    ASSUME NEW S, NEW ss \in Seq(Seq(S)), NEW t \in Seq(S)
    PROVE  FlattenSeq(Append(ss, t)) = FlattenSeq(ss) \o t
<1>1. CASE ss # <<>>
  BY <1>1, FlattenAppend
<1>2. CASE ss = <<>>
  <2>1. FlattenSeq(ss) = <<>> /\ FlattenSeq(Append(ss, t)) = t
    BY <1>2, FlattenAppend
  <2>2. <<>> \o t = t
    BY ConcatEmptySeq
  <2> QED BY <2>1, <2>2
<1> QED BY <1>1, <1>2

LEMMA FlattenJoined ==
    ASSUME NEW S, NEW ss \in Seq(Seq(S))
    PROVE  \A tt \in Seq(Seq(S)) : FlattenSeq(ss \o tt) = FlattenSeq(ss) \o FlattenSeq(tt)
<1> DEFINE Joined(tt) == FlattenSeq(ss \o tt) = FlattenSeq(ss) \o FlattenSeq(tt)
           N == {n \in Nat : \A tt \in Seq(Seq(S)) : Len(tt) = n => Joined(tt)}
<1>1. 0 \in N
  <2>1. <<>> \in Seq(S) /\ ss \o <<>> = ss
    BY ConcatEmptySeq
  <2>2. FlattenSeq(<<>>) = <<>>
    BY <2>1, FlattenAppend
  <2>3. FlattenSeq(ss) \o <<>> = FlattenSeq(ss)
    BY FlattenType, ConcatEmptySeq
  <2>4. Joined(<<>>)
    BY <2>1, <2>2, <2>3
  <2>5. \A tt \in Seq(Seq(S)) : Len(tt) = 0 => tt = <<>>
    BY EmptySeq
  <2> HIDE DEF Joined
  <2> QED BY <2>4, <2>5
<1> HIDE DEF N, Joined
<1>2. ASSUME NEW n \in N PROVE n + 1 \in N
  <2> SUFFICES ASSUME NEW tt \in Seq(Seq(S)), Len(tt) = n + 1
               PROVE  Joined(tt)
    BY DEF N
  <2>8. n \in Nat /\ \A s \in Seq(Seq(S)) : Len(s) = n => Joined(s)
    BY DEF N
  <2>1. PICK s \in Seq(Seq(S)), t \in Seq(S) : tt = Append(s, t)
    <3>1. tt # <<>>
      BY <2>8
    <3> QED BY <3>1, SequenceEmptyOrAppend
  <2>2. Len(s) = n
    BY <2>1, <2>8
  <2>3. FlattenSeq(ss \o s) = FlattenSeq(ss) \o FlattenSeq(s)
    BY <2>2, <2>8 DEF Joined
  <2>4. ss \o tt = Append(ss \o s, t) /\ ss \o s \in Seq(Seq(S))
    <3>1. tt = s \o <<t>> /\ ss \o s \in Seq(Seq(S)) /\ <<t>> \in Seq(Seq(S))
      BY <2>1, AppendIsConcat
    <3>2. (ss \o s) \o <<t>> = ss \o (s \o <<t>>)
      <4>1. Associate(ss, s, <<t>>)
        BY <3>1, SequencesAssociate
      <4> QED BY <4>1 DEF Associate
    <3>3. Append(ss \o s, t) = (ss \o s) \o <<t>>
      BY <3>1, AppendIsConcat
    <3> QED BY <3>1, <3>2, <3>3
  <2>5. FlattenSeq(ss \o tt) = FlattenSeq(ss \o s) \o t
    BY <2>4, FlattenSteps
  <2>6. FlattenSeq(tt) = FlattenSeq(s) \o t
    BY <2>1, FlattenSteps
  <2>7. (FlattenSeq(ss) \o FlattenSeq(s)) \o t = FlattenSeq(ss) \o (FlattenSeq(s) \o t)
    <3>1. FlattenSeq(ss) \in Seq(S) /\ FlattenSeq(s) \in Seq(S)
      BY FlattenType
    <3>2. Associate(FlattenSeq(ss), FlattenSeq(s), t)
      BY <3>1, SequencesAssociate
    <3> QED BY <3>2 DEF Associate
  <2> QED BY <2>3, <2>5, <2>6, <2>7 DEF Joined
<1>3. N = Nat
  <2>1. N \in SUBSET Nat
    BY DEF N
  <2> QED BY <1>1, <1>2, <2>1, AllNumbers
<1>4. \A tt \in Seq(Seq(S)) : Len(tt) \in Nat => Joined(tt)
  BY <1>3 DEF N
<1>5. \A tt \in Seq(Seq(S)) : Joined(tt)
  BY <1>4, LenProperties
<1> QED BY <1>5 DEF Joined

LEMMA FlattenOne ==
    ASSUME NEW S, NEW t \in Seq(S)
    PROVE  FlattenSeq(<<t>>) = t
<1>1. <<>> \in Seq(Seq(S)) /\ Append(<<>>, t) = <<t>>
  OBVIOUS
<1> QED BY <1>1, FlattenAppend

-----------------------------------------------------------------------------
(* The lines a text and several texts hold. *)
KeepLine(text) == [n \in DOMAIN text |-> IF IsLine(text[n]) THEN <<text[n]>> ELSE <<>>]

LEMMA KeptLines ==
    ASSUME NEW text \in Text
    PROVE  /\ KeepLine(text) \in Seq(Text) /\ Len(KeepLine(text)) = Len(text)
           /\ \A n \in 1..Len(text) :
                 KeepLine(text)[n] = IF IsLine(text[n]) THEN <<text[n]>> ELSE <<>>
<1>1. DOMAIN text = 1..Len(text) /\ Len(text) \in Nat /\ \A n \in 1..Len(text) : text[n] \in LineRecord
  BY TextLines
<1>2. \A l \in LineRecord : (IF IsLine(l) THEN <<l>> ELSE <<>>) \in Text
  BY DEF Text
<1> DEFINE e(n) == IF IsLine(text[n]) THEN <<text[n]>> ELSE <<>>
           len == Len(text)
<1>3. \A n \in 1..len : e(n) \in Text
  BY <1>1, <1>2
<1>4. KeepLine(text) = [n \in 1..len |-> e(n)]
  BY <1>1 DEF KeepLine
<1>5. \A n \in 1..len : KeepLine(text)[n] = e(n)
  BY <1>4
<1>6. len \in Nat
  BY <1>1
<1> HIDE DEF e, len
<1>7. KeepLine(text) \in Seq(Text) /\ Len(KeepLine(text)) = len
  BY <1>3, <1>4, <1>6
<1> QED BY <1>5, <1>7 DEF e, len

LEMMA KeptJoined ==
    ASSUME NEW s \in Text, NEW t \in Text
    PROVE  KeepLine(s \o t) = KeepLine(s) \o KeepLine(t)
<1> DEFINE st == s \o t
           m == Len(s)
           n == Len(t)
<1>1. st \in Text /\ m \in Nat /\ n \in Nat /\ Len(st) = m + n
  BY DEF Text
<1>2. \A i \in 1..(m + n) : st[i] = IF i <= m THEN s[i] ELSE t[i - m]
  BY DEF Text
<1> HIDE DEF st
<1>3. /\ KeepLine(s) \in Seq(Text) /\ KeepLine(t) \in Seq(Text) /\ KeepLine(st) \in Seq(Text)
      /\ Len(KeepLine(s)) = m /\ Len(KeepLine(t)) = n /\ Len(KeepLine(st)) = m + n
  BY <1>1, KeptLines
<1> DEFINE ks == KeepLine(s)
           kt == KeepLine(t)
           k == KeepLine(st)
<1>4. /\ \A i \in 1..m : ks[i] = IF IsLine(s[i]) THEN <<s[i]>> ELSE <<>>
      /\ \A i \in 1..n : kt[i] = IF IsLine(t[i]) THEN <<t[i]>> ELSE <<>>
      /\ \A i \in 1..(m + n) : k[i] = IF IsLine(st[i]) THEN <<st[i]>> ELSE <<>>
  BY <1>1, KeptLines
<1>5. ks \in Seq(Text) /\ kt \in Seq(Text) /\ k \in Seq(Text) /\ Len(ks) = m /\ Len(kt) = n /\ Len(k) = m + n
  BY <1>3
<1> HIDE DEF ks, kt, k, m, n
<1>6. ks \o kt \in Seq(Text) /\ Len(ks \o kt) = m + n
  BY <1>5
<1>7. ASSUME NEW i \in 1..(m + n) PROVE k[i] = (ks \o kt)[i]
  <2>1. (ks \o kt)[i] = IF i <= m THEN ks[i] ELSE kt[i - m]
    BY <1>5
  <2>2. CASE i <= m
    <3>1. i \in 1..m
      BY <1>1, <2>2
    <3> QED BY <1>2, <1>4, <2>1, <2>2, <3>1
  <2>3. CASE ~(i <= m)
    <3>1. i - m \in 1..n
      BY <1>1, <2>3
    <3>2. st[i] = t[i - m] /\ (ks \o kt)[i] = kt[i - m]
      BY <1>2, <2>1, <2>3
    <3> QED BY <1>4, <3>1, <3>2
  <2> QED BY <2>2, <2>3
<1>8. k = ks \o kt
  BY <1>5, <1>6, <1>7, SeqEqual
<1> QED BY <1>8 DEF k, ks, kt, st

LEMMA LinesJoined ==
    ASSUME NEW s \in Text, NEW t \in Text
    PROVE  LinesOf(s) \in Text /\ LinesOf(s \o t) = LinesOf(s) \o LinesOf(t)
<1>1. KeepLine(s) \in Seq(Text) /\ KeepLine(t) \in Seq(Text)
  BY KeptLines
<1>2. LinesOf(s) = FlattenSeq(KeepLine(s)) /\ LinesOf(t) = FlattenSeq(KeepLine(t))
      /\ LinesOf(s \o t) = FlattenSeq(KeepLine(s \o t))
  BY DEF LinesOf, KeepLine
<1>3. FlattenSeq(KeepLine(s)) \in Text
  BY <1>1, FlattenType DEF Text
<1>4. FlattenSeq(KeepLine(s) \o KeepLine(t)) = FlattenSeq(KeepLine(s)) \o FlattenSeq(KeepLine(t))
  BY <1>1, FlattenJoined DEF Text
<1> QED BY <1>2, <1>3, <1>4, KeptJoined

LEMMA LinesOfOne ==
    /\ LinesOf(<<>>) = <<>>
    /\ \A l \in LineRecord : LinesOf(<<l>>) = IF IsLine(l) THEN <<l>> ELSE <<>>
<1>1. LinesOf(<<>>) = <<>>
  <2> DEFINE k == KeepLine(<<>>)
  <2>1. <<>> \in Text /\ Len(<<>>) = 0
    BY DEF Text
  <2>2. k \in Seq(Text) /\ Len(k) = 0
    BY <2>1, KeptLines
  <2> HIDE DEF k
  <2>3. k = <<>>
    BY <2>2, EmptySeq
  <2>4. LinesOf(<<>>) = FlattenSeq(k)
    BY DEF LinesOf, KeepLine, k
  <2>5. FlattenSeq(<<>>) = <<>>
    BY DEF FlattenSeq
  <2> QED BY <2>3, <2>4, <2>5
<1>2. ASSUME NEW l \in LineRecord PROVE LinesOf(<<l>>) = IF IsLine(l) THEN <<l>> ELSE <<>>
  <2> DEFINE t == <<l>>
             k == KeepLine(t)
             e == IF IsLine(l) THEN <<l>> ELSE <<>>
  <2>1. t \in Text /\ Len(t) = 1 /\ t[1] = l /\ e \in Text
    BY DEF Text
  <2> HIDE DEF t
  <2>2. k \in Seq(Text) /\ Len(k) = 1 /\ k[1] = e
    BY <2>1, KeptLines
  <2>3. LinesOf(t) = FlattenSeq(k)
    BY DEF LinesOf, KeepLine
  <2> HIDE DEF k, e
  <2>4. k = <<e>>
    BY <2>1, <2>2
  <2>5. FlattenSeq(<<e>>) = e
    BY <2>1, FlattenOne DEF Text
  <2> QED BY <2>3, <2>4, <2>5 DEF t, e
<1> QED BY <1>1, <1>2

LEMMA OnlyLines ==
    \A text \in Text : (\A n \in 1..Len(text) : IsLine(text[n])) => LinesOf(text) = text
<1> DEFINE Whole(text) == (\A n \in 1..Len(text) : IsLine(text[n])) => LinesOf(text) = text
           N == {n \in Nat : \A text \in Text : Len(text) = n => Whole(text)}
<1>1. 0 \in N
  <2>1. \A text \in Text : Len(text) = 0 => text = <<>>
    BY EmptySeq DEF Text
  <2>2. Whole(<<>>)
    BY LinesOfOne
  <2> HIDE DEF Whole
  <2> QED BY <2>1, <2>2
<1> HIDE DEF N
<1>2. ASSUME NEW n \in N PROVE n + 1 \in N
  <2> SUFFICES ASSUME NEW text \in Text, Len(text) = n + 1,
                      \A i \in 1..Len(text) : IsLine(text[i])
               PROVE  LinesOf(text) = text
    BY DEF N
  <2>1. n \in Nat /\ \A s \in Text : Len(s) = n => Whole(s)
    BY DEF N
  <2>2. PICK s \in Text, l \in LineRecord : text = Append(s, l)
    <3>1. text # <<>>
      BY <2>1
    <3> QED BY <3>1, SequenceEmptyOrAppend DEF Text
  <2>3. Len(s) = n /\ IsLine(l) /\ \A i \in 1..n : IsLine(s[i])
    <3>1. s \in Seq(LineRecord)
      BY DEF Text
    <3>2. Len(s) = n /\ text[n + 1] = l /\ \A i \in 1..n : text[i] = s[i]
      BY <2>1, <2>2, <3>1
    <3>3. n + 1 \in 1..Len(text) /\ \A i \in 1..n : i \in 1..Len(text)
      BY <2>1
    <3> QED BY <3>2, <3>3
  <2>4. LinesOf(s) = s
    BY <2>1, <2>3
  <2>5. text = s \o <<l>> /\ <<l>> \in Text
    BY <2>2, AppendIsConcat DEF Text
  <2>6. LinesOf(<<l>>) = <<l>>
    BY <2>3, LinesOfOne
  <2> QED BY <2>4, <2>5, <2>6, LinesJoined
<1>3. N = Nat
  <2>1. N \in SUBSET Nat
    BY DEF N
  <2> QED BY <1>1, <1>2, <2>1, AllNumbers
<1> HIDE DEF Whole
<1>4. \A text \in Text : Whole(text)
  BY <1>3, LenProperties DEF N, Text
<1> QED BY <1>4 DEF Whole

(* Content, of a text more. *)
TextsLines(texts) == [n \in DOMAIN texts |-> LinesOf(texts[n])]

LEMMA LinesOfTexts ==
    ASSUME NEW texts \in Seq(Text)
    PROVE  /\ TextsLines(texts) \in Seq(Text) /\ Len(TextsLines(texts)) = Len(texts)
           /\ \A n \in 1..Len(texts) : TextsLines(texts)[n] = LinesOf(texts[n])
           /\ Content(texts) = FlattenSeq(TextsLines(texts)) /\ Content(texts) \in Text
<1> DEFINE len == Len(texts)
<1>1. len \in Nat /\ DOMAIN texts = 1..len /\ \A n \in 1..len : texts[n] \in Text
  OBVIOUS
<1>2. \A n \in 1..len : LinesOf(texts[n]) \in Text
  BY <1>1, LinesJoined
<1>3. TextsLines(texts) = [n \in 1..len |-> LinesOf(texts[n])]
  BY <1>1 DEF TextsLines
<1> HIDE DEF len
<1>4. TextsLines(texts) \in Seq(Text) /\ Len(TextsLines(texts)) = len
      /\ \A n \in 1..len : TextsLines(texts)[n] = LinesOf(texts[n])
  BY <1>1, <1>2, <1>3
<1>5. Content(texts) = FlattenSeq(TextsLines(texts))
  BY DEF Content, TextsLines
<1>6. FlattenSeq(TextsLines(texts)) \in Text
  BY <1>4, FlattenType DEF Text
<1> QED BY <1>4, <1>5, <1>6 DEF len

LEMMA ContentOfOne ==
    /\ Content(<<>>) = <<>>
    /\ \A text \in Text : Content(<<text>>) = LinesOf(text)
<1>1. Content(<<>>) = <<>>
  <2> DEFINE k == TextsLines(<<>>)
  <2>1. <<>> \in Seq(Text) /\ Len(<<>>) = 0
    OBVIOUS
  <2>2. k \in Seq(Text) /\ Len(k) = 0 /\ Content(<<>>) = FlattenSeq(k)
    BY <2>1, LinesOfTexts
  <2> HIDE DEF k
  <2>3. k = <<>>
    BY <2>2, EmptySeq
  <2>4. <<>> \in Text
    BY DEF Text
  <2> QED BY <2>1, <2>2, <2>3, <2>4, FlattenAppend DEF Text
<1>2. ASSUME NEW text \in Text PROVE Content(<<text>>) = LinesOf(text)
  <2> DEFINE t == <<text>>
             k == TextsLines(t)
  <2>1. t \in Seq(Text) /\ Len(t) = 1 /\ t[1] = text
    OBVIOUS
  <2> HIDE DEF t
  <2>2. k \in Seq(Text) /\ Len(k) = 1 /\ k[1] = LinesOf(text) /\ Content(t) = FlattenSeq(k)
    BY <2>1, LinesOfTexts
  <2> HIDE DEF k
  <2>3. k = <<LinesOf(text)>>
    BY <2>2
  <2>4. LinesOf(text) \in Text
    BY LinesJoined
  <2> QED BY <2>2, <2>3, <2>4, FlattenOne DEF t, Text
<1> QED BY <1>1, <1>2

LEMMA ContentJoined ==
    ASSUME NEW ss \in Seq(Text), NEW tt \in Seq(Text)
    PROVE  Content(ss \o tt) = Content(ss) \o Content(tt)
<1> DEFINE st == ss \o tt
           m == Len(ss)
           n == Len(tt)
           ks == TextsLines(ss)
           kt == TextsLines(tt)
           k == TextsLines(st)
<1>1. st \in Seq(Text) /\ m \in Nat /\ n \in Nat /\ Len(st) = m + n
  OBVIOUS
<1>2. \A i \in 1..(m + n) : st[i] = IF i <= m THEN ss[i] ELSE tt[i - m]
  OBVIOUS
<1> HIDE DEF st
<1>3. /\ ks \in Seq(Text) /\ kt \in Seq(Text) /\ k \in Seq(Text)
      /\ Len(ks) = m /\ Len(kt) = n /\ Len(k) = m + n
      /\ \A i \in 1..m : ks[i] = LinesOf(ss[i])
      /\ \A i \in 1..n : kt[i] = LinesOf(tt[i])
      /\ \A i \in 1..(m + n) : k[i] = LinesOf(st[i])
      /\ Content(ss) = FlattenSeq(ks) /\ Content(tt) = FlattenSeq(kt)
      /\ Content(st) = FlattenSeq(k)
  BY <1>1, LinesOfTexts
<1> HIDE DEF ks, kt, k, m, n
<1>4. ks \o kt \in Seq(Text) /\ Len(ks \o kt) = m + n
  BY <1>3
<1>5. ASSUME NEW i \in 1..(m + n) PROVE k[i] = (ks \o kt)[i]
  <2>1. (ks \o kt)[i] = IF i <= m THEN ks[i] ELSE kt[i - m]
    <3>1. ks \in Seq(Text) /\ kt \in Seq(Text) /\ Len(ks) = m /\ Len(kt) = n
      BY <1>3
    <3> QED BY <3>1
  <2>2. CASE i <= m
    <3>1. i \in 1..m
      BY <1>1, <2>2
    <3> QED BY <1>2, <1>3, <2>1, <2>2, <3>1
  <2>3. CASE ~(i <= m)
    <3>1. i - m \in 1..n
      BY <1>1, <2>3
    <3>2. st[i] = tt[i - m] /\ (ks \o kt)[i] = kt[i - m]
      BY <1>2, <2>1, <2>3
    <3> QED BY <1>3, <3>1, <3>2
  <2> QED BY <2>2, <2>3
<1>6. k = ks \o kt
  BY <1>3, <1>4, <1>5, SeqEqual
<1>7. FlattenSeq(ks \o kt) = FlattenSeq(ks) \o FlattenSeq(kt)
  BY <1>3, FlattenJoined DEF Text
<1> QED BY <1>3, <1>6, <1>7 DEF st

-----------------------------------------------------------------------------
(* What is on the way to the messages.  The sheets are the full pages and    *)
(* the one being filled: placing a part either extends the last sheet or     *)
(* begins a new one, whatever is flushed when.                               *)
Sheets == Flushed

(* The lines of a text stand under the header of their block. *)
UnderHeader(text, l) ==
    \E h \in 1..(l - 1) : text[h].index = 0 /\ \A k \in h..l : text[k].block = text[l].block
Headed(text) == \A l \in 1..Len(text) : IsLine(text[l]) => UnderHeader(text, l)

IsPart(b, text) ==
    /\ text \in Text /\ text # <<>> /\ TextLen(text) <= Budget
    /\ text[1] = Header(b)[1]
    /\ \A k \in 1..Len(text) : text[k].block = b

IsSheet(text) ==
    /\ text \in Text /\ text # <<>> /\ TextLen(text) <= Budget
    /\ \E b \in DOMAIN report : text[1] = Header(b)[1]
    /\ Headed(text)

Progress ==
    /\ report \in Reports /\ at \in 1..(Len(report) + 1)
    /\ taken \in Text /\ parts \in Seq(Text) /\ current \in Text /\ pages \in Seq(Text)
    /\ phase \in {"block", "split", "place", "done"}
    /\ phase \in {"split", "place"} => at \in 1..Len(report)
    /\ phase = "block" => parts = <<>>
    /\ (phase # "done" /\ current = <<>>) => pages = <<>>
    /\ phase = "split" => line \in 1..(Len(report[at].lines) + 1)

(* What waits to be placed are parts of the block at hand; it is split only  *)
(* if it must be, and then the part being built fits.                        *)
PartsFit ==
    /\ phase \in {"split", "place"} => \A i \in 1..Len(parts) : IsPart(at, parts[i])
    /\ phase = "split" =>
          /\ TextLen(RenderBlock(at, Lines(at))) > Budget
          /\ IF taken = <<>> THEN line = 1 /\ parts = <<>> ELSE IsPart(at, RenderBlock(at, taken))
          /\ \A k \in 1..Len(taken) : IsLine(taken[k])

SheetsFit(sheets) == \A p \in 1..Len(sheets) : IsSheet(sheets[p])

Stands(b, sheet) == \E l \in 1..Len(sheet) : sheet[l].block = b
NoPlace(b, sheets) == \A p \in 1..Len(sheets) : ~Stands(b, sheets[p])
OnePlace(b, sheets) ==
    \E p \in 1..Len(sheets) : \A q \in 1..Len(sheets) : Stands(b, sheets[q]) <=> q = p
FitsAPage(b) == TextLen(RenderBlock(b, Lines(b))) <= Budget

BlocksArePlaced ==
    \A b \in 1..Len(report) :
        /\ b > at => NoPlace(b, Sheets)
        /\ (b = at /\ phase \in {"block", "split"}) => NoPlace(b, Sheets)
        /\ FitsAPage(b) =>
              /\ b < at => OnePlace(b, Sheets)
              /\ (b = at /\ phase = "place") =>
                    IF parts = <<>> THEN OnePlace(b, Sheets)
                    ELSE NoPlace(b, Sheets) /\ Len(parts) = 1

(* The first part of a sheet is its first n lines, and did not fit before. *)
FirstPart(sheet, n) ==
    /\ n \in 1..Len(sheet)
    /\ \A k \in 1..n : sheet[k].block = sheet[1].block
    /\ n < Len(sheet) => sheet[n + 1].block # sheet[1].block
FilledBefore(sheet, next) ==
    \E n \in 1..Len(next) :
        /\ FirstPart(next, n)
        /\ TextLen(sheet) + SeparatorLen + TextLen(SubSeq(next, 1, n)) > Budget
SheetsAreFilled(sheets) ==
    \A p \in 1..(Len(sheets) - 1) : FilledBefore(sheets[p], sheets[p + 1])

(* Nothing is lost between the report and the sheets. *)
FirstLines(n) == FlattenSeq([b \in 1..n |-> Lines(b)])
NothingIsMissing ==
    /\ phase = "block" => Content(Sheets) = FirstLines(at - 1)
    /\ phase = "split" => /\ Content(Sheets) = FirstLines(at - 1)
                          /\ Content(parts) \o taken = SubSeq(Lines(at), 1, line - 1)
    /\ phase = "place" => Content(Sheets) \o Content(parts) = FirstLines(at)
LaidOutInv ==
    /\ Progress
    /\ phase # "done" => /\ PartsFit /\ SheetsFit(Sheets) /\ BlocksArePlaced /\ SheetsAreFilled(Sheets)
                         /\ NothingIsMissing

-----------------------------------------------------------------------------
(* Reports and what is rendered of them. *)
LEMMA BudgetIsANumber ==
    /\ Budget \in Int
    /\ \A n \in 1..MaxPages : HeadingLen(n) \in Nat /\ HeadingLen(n) <= HeadingLen(MaxPages)
<1> DEFINE square == Radix * Radix
<1>1. square \in Int /\ Radix \in Nat /\ MaxPages \in Nat
  BY PagesAssumption
<1>2. \A n : Digits(n) = IF n < Radix THEN 1 ELSE IF n < square THEN 2 ELSE 3
  BY DEF Digits
<1>3. MaxPages \in 1..MaxPages
  BY PagesAssumption
<1> HIDE DEF square
<1>4. \A n \in 1..MaxPages : Digits(n) \in Nat /\ Digits(n) <= Digits(MaxPages)
  BY <1>1, <1>2
<1>5. \A n \in 1..MaxPages : HeadingLen(n) \in Nat /\ HeadingLen(n) <= HeadingLen(MaxPages)
  BY <1>3, <1>4, LengthsAssumption DEF HeadingLen
<1>6. Budget \in Int
  BY <1>3, <1>5, LengthsAssumption DEF Budget, SeparatorLen
<1> QED BY <1>5, <1>6

Block == [header: Nat, lines: Seq(Nat)]

LEMMA ReportFacts ==
    ASSUME report \in Reports
    PROVE  /\ Len(report) \in Nat /\ DOMAIN report = 1..Len(report)
           /\ \A b \in 1..Len(report) :
                 /\ report[b].header \in Nat /\ report[b].lines \in Seq(Nat)
                 /\ report[b].lines # <<>>
                 /\ report[b].header + SeparatorLen + NoticeLen <= Budget
                 /\ \A l \in 1..Len(report[b].lines) :
                       /\ report[b].lines[l] \in Nat
                       /\ report[b].header + 1 + report[b].lines[l] <= Budget
<1>1. report \in Seq(Block)
  BY ReportsAssumption DEF Block
<1>2. Len(report) \in Nat /\ DOMAIN report = 1..Len(report) /\ \A b \in 1..Len(report) : report[b] \in Block
  BY <1>1
<1>3. ASSUME NEW b \in 1..Len(report)
      PROVE  /\ report[b].header \in Nat /\ report[b].lines \in Seq(Nat)
             /\ report[b].lines # <<>>
             /\ report[b].header + SeparatorLen + NoticeLen <= Budget
             /\ \A l \in 1..Len(report[b].lines) :
                   /\ report[b].lines[l] \in Nat
                   /\ report[b].header + 1 + report[b].lines[l] <= Budget
  <2>1. report[b] \in Block
    BY <1>2
  <2>2. report[b].header \in Nat /\ report[b].lines \in Seq(Nat)
    BY <2>1 DEF Block
  <2>3. /\ report[b].lines # <<>>
        /\ report[b].header + SeparatorLen + NoticeLen <= Budget
        /\ \A l \in DOMAIN report[b].lines : report[b].header + 1 + report[b].lines[l] <= Budget
    BY <1>2, ReportsAssumption
  <2>4. PICK lines : lines = report[b].lines
    OBVIOUS
  <2>5. DOMAIN lines = 1..Len(lines) /\ \A l \in 1..Len(lines) : lines[l] \in Nat
    BY <2>2, <2>4
  <2> QED BY <2>2, <2>3, <2>4, <2>5
<1> QED BY <1>2, <1>3

LEMMA BlockLines ==
    ASSUME report \in Reports, NEW b \in 1..Len(report)
    PROVE  /\ Header(b)[1] \in LineRecord /\ Header(b) = <<Header(b)[1]>>
           /\ Header(b)[1].block = b /\ Header(b)[1].index = 0 /\ Header(b)[1].len = report[b].header
           /\ b \in Nat /\ b > 0
           /\ Lines(b) \in Text /\ Len(Lines(b)) = Len(report[b].lines) /\ Lines(b) # <<>>
           /\ \A l \in 1..Len(report[b].lines) :
                 /\ Lines(b)[l] = Line(b, l) /\ Line(b, l) \in LineRecord
                 /\ Line(b, l).block = b /\ Line(b, l).len = report[b].lines[l]
                 /\ IsLine(Line(b, l))
<1>1. b \in Nat /\ b > 0 /\ report[b].header \in Nat /\ report[b].lines \in Seq(Nat) /\ report[b].lines # <<>>
  BY ReportFacts
<1>2. PICK lines : lines = report[b].lines
  OBVIOUS
<1>3. /\ DOMAIN lines = 1..Len(lines) /\ Len(lines) \in Nat /\ Len(lines) # 0
      /\ \A l \in 1..Len(lines) : lines[l] \in Nat
  BY <1>1, <1>2
<1>4. PICK h : h = [block |-> b, index |-> 0, len |-> report[b].header]
  OBVIOUS
<1>5. h \in LineRecord /\ h.block = b /\ h.index = 0 /\ h.len = report[b].header
  BY <1>1, <1>4 DEF LineRecord
<1>6. Header(b) = <<h>> /\ Header(b)[1] = h
  BY <1>4 DEF Header
<1>7. ASSUME NEW l \in 1..Len(lines)
      PROVE  /\ Line(b, l) \in LineRecord /\ Line(b, l).block = b
             /\ Line(b, l).len = lines[l] /\ IsLine(Line(b, l))
  BY <1>1, <1>2, <1>3 DEF Line, LineRecord, IsLine
<1>8. Lines(b) = [l \in 1..Len(lines) |-> Line(b, l)]
  BY <1>2, <1>3 DEF Lines
<1> DEFINE n == Len(lines)
<1>9. n \in Nat /\ n # 0 /\ Lines(b) = [l \in 1..n |-> Line(b, l)]
      /\ \A l \in 1..n : Line(b, l) \in LineRecord
  BY <1>3, <1>7, <1>8
<1> HIDE DEF n
<1>10. Lines(b) \in Text /\ Len(Lines(b)) = n /\ \A l \in 1..n : Lines(b)[l] = Line(b, l)
  BY <1>9 DEF Text
<1>11. Lines(b) # <<>>
  BY <1>9, <1>10
<1> QED BY <1>1, <1>2, <1>5, <1>6, <1>7, <1>10, <1>11 DEF n

LEMMA Rendered ==
    ASSUME report \in Reports, NEW b \in 1..Len(report), NEW t \in Text
    PROVE  /\ RenderBlock(b, t) \in Text /\ RenderBlock(b, t) # <<>>
           /\ Len(RenderBlock(b, t)) = Len(t) + 1
           /\ RenderBlock(b, t)[1] = Header(b)[1]
           /\ \A k \in 1..Len(t) : RenderBlock(b, t)[k + 1] = t[k]
           /\ t # <<>> => TextLen(RenderBlock(b, t)) = report[b].header + 1 + TextLen(t)
           /\ LinesOf(RenderBlock(b, t)) = LinesOf(t)
<1>1. PICK h : h = Header(b)[1]
  OBVIOUS
<1>2. h \in LineRecord /\ Header(b) = <<h>> /\ h.len = report[b].header /\ ~IsLine(h)
  BY <1>1, BlockLines DEF IsLine
<1>3. <<h>> \in Text /\ <<h>> # <<>> /\ Len(<<h>>) = 1
  BY <1>2 DEF Text
<1>4. RenderBlock(b, t) = <<h>> \o t
  BY <1>2 DEF RenderBlock
<1>5. PICK r : r = <<h>> \o t
  OBVIOUS
<1>6. /\ r \in Text /\ r # <<>> /\ Len(r) = Len(t) + 1 /\ r[1] = h
      /\ \A k \in 1..Len(t) : r[k + 1] = t[k]
  BY <1>2, <1>5 DEF Text
<1>7. t # <<>> => TextLen(r) = report[b].header + 1 + TextLen(t)
  BY <1>2, <1>3, <1>5, JoinedLength, ShortTexts
<1>8. LinesOf(r) = LinesOf(t)
  <2>1. LinesOf(<<h>>) = <<>>
    BY <1>2, LinesOfOne
  <2>2. LinesOf(r) = LinesOf(<<h>>) \o LinesOf(t)
    BY <1>3, <1>5, LinesJoined
  <2>3. <<>> \o LinesOf(t) = LinesOf(t)
    BY LinesJoined, ConcatEmptySeq DEF Text
  <2> QED BY <2>1, <2>2, <2>3
<1> QED BY <1>1, <1>4, <1>5, <1>6, <1>7, <1>8

LEMMA BlankLine ==
    /\ Blank \in LineRecord /\ <<Blank>> \in Text /\ TextLen(<<Blank>>) = 0
    /\ Blank.block = 0 /\ ~IsLine(Blank) /\ LinesOf(<<Blank>>) = <<>>
<1>1. Blank \in LineRecord /\ Blank.block = 0 /\ Blank.len = 0 /\ ~IsLine(Blank)
  BY DEF Blank, LineRecord, IsLine
<1>2. <<Blank>> \in Text
  BY <1>1 DEF Text
<1> QED BY <1>1, <1>2, ShortTexts, LinesOfOne

(* Two texts with an empty line between them. *)
LEMMA Stacked ==
    ASSUME NEW s \in Text, NEW t \in Text, s # <<>>, t # <<>>
    PROVE  LET st == s \o <<Blank>> \o t IN
           /\ st \in Text /\ Len(st) = Len(s) + 1 + Len(t)
           /\ \A k \in 1..Len(s) : st[k] = s[k]
           /\ st[Len(s) + 1] = Blank
           /\ \A k \in 1..Len(t) : st[Len(s) + 1 + k] = t[k]
           /\ TextLen(st) = TextLen(s) + SeparatorLen + TextLen(t)
           /\ LinesOf(st) = LinesOf(s) \o LinesOf(t)
<1> DEFINE sb == s \o <<Blank>>
           m == Len(s)
           n == Len(t)
<1>1. m \in Nat /\ n \in Nat
  BY TextLines
<1>2. /\ sb \in Text /\ sb # <<>> /\ Len(sb) = m + 1 /\ sb[m + 1] = Blank
      /\ \A k \in 1..m : sb[k] = s[k]
  BY BlankLine DEF Text
<1>3. TextLen(sb) = TextLen(s) + 1
  <2>1. <<Blank>> # <<>> /\ TextLen(s) \in Nat
    BY ShortTexts
  <2> QED BY <2>1, BlankLine, JoinedLength
<1>4. LinesOf(sb) = LinesOf(s)
  <2>1. LinesOf(sb) = LinesOf(s) \o <<>>
    BY BlankLine, LinesJoined
  <2>2. LinesOf(s) \o <<>> = LinesOf(s)
    BY LinesJoined, ConcatEmptySeq DEF Text
  <2> QED BY <2>1, <2>2
<1> DEFINE st == sb \o t
<1> HIDE DEF sb, m, n
<1>5. PICK q : q = sb \o t
  OBVIOUS
<1>6. /\ q \in Text /\ Len(q) = Len(sb) + Len(t)
      /\ \A k \in 1..(Len(sb) + Len(t)) : q[k] = IF k <= Len(sb) THEN sb[k] ELSE t[k - Len(sb)]
  BY <1>2, <1>5 DEF Text
<1>7. Len(q) = m + 1 + n /\ \A k \in 1..(m + 1 + n) : q[k] = IF k <= m + 1 THEN sb[k] ELSE t[k - (m + 1)]
  BY <1>1, <1>2, <1>6 DEF n
<1>8. q[m + 1] = Blank /\ \A k \in 1..m : q[k] = s[k]
  BY <1>1, <1>2, <1>7
<1>9. \A k \in 1..n : q[m + 1 + k] = t[k]
  <2> TAKE k \in 1..n
  <2>1. m + 1 + k \in 1..(m + 1 + n) /\ ~(m + 1 + k <= m + 1) /\ (m + 1 + k) - (m + 1) = k
    BY <1>1
  <2> QED BY <1>7, <2>1
<1>10. TextLen(q) = TextLen(s) + SeparatorLen + TextLen(t)
  <2>1. TextLen(q) = TextLen(sb) + 1 + TextLen(t)
    BY <1>2, <1>5, JoinedLength
  <2>2. TextLen(s) \in Nat /\ TextLen(t) \in Nat
    BY ShortTexts
  <2> QED BY <1>3, <2>1, <2>2 DEF SeparatorLen
<1>11. LinesOf(q) = LinesOf(s) \o LinesOf(t)
  BY <1>2, <1>4, <1>5, LinesJoined
<1>12. q = s \o <<Blank>> \o t
  BY <1>5 DEF sb
<1> QED BY <1>6, <1>7, <1>8, <1>9, <1>10, <1>11, <1>12 DEF m, n

-----------------------------------------------------------------------------
(* A part put on the sheets so far: below the last of them if there is room, *)
(* otherwise on a sheet of its own.                                          *)
LEMMA HeadedStacked ==
    ASSUME NEW s \in Text, NEW t \in Text, s # <<>>, t # <<>>, Headed(s), Headed(t)
    PROVE  Headed(s \o <<Blank>> \o t)
<1> DEFINE m == Len(s)
           n == Len(t)
<1>1. PICK st : st = s \o <<Blank>> \o t
  OBVIOUS
<1>2. /\ m \in Nat /\ n \in Nat /\ Len(st) = m + 1 + n
      /\ \A k \in 1..m : st[k] = s[k]
      /\ st[m + 1] = Blank
      /\ \A k \in 1..n : st[m + 1 + k] = t[k]
  BY <1>1, Stacked, TextLines
<1>3. /\ \A l \in 1..m : IsLine(s[l]) => UnderHeader(s, l)
      /\ \A l \in 1..n : IsLine(t[l]) => UnderHeader(t, l)
  BY DEF Headed
<1> HIDE DEF m, n
<1>4. ASSUME NEW l \in 1..(m + 1 + n), IsLine(st[l]) PROVE UnderHeader(st, l)
  <2>1. CASE l \in 1..m
    <3>1. IsLine(s[l])
      BY <1>2, <1>4, <2>1
    <3>2. PICK h \in 1..(l - 1) : s[h].index = 0 /\ \A k \in h..l : s[k].block = s[l].block
      BY <1>3, <2>1, <3>1 DEF UnderHeader
    <3>3. h \in 1..m /\ \A k \in h..l : k \in 1..m
      BY <1>2, <2>1
    <3> QED BY <1>2, <2>1, <3>2, <3>3 DEF UnderHeader
  <2>2. CASE l = m + 1
    BY <1>2, <1>4, <2>2, BlankLine
  <2>3. CASE l > m + 1
    <3>1. PICK i : i = l - (m + 1)
      OBVIOUS
    <3>2. i \in 1..n /\ l = m + 1 + i
      BY <1>2, <2>3, <3>1
    <3>3. IsLine(t[i]) /\ st[l] = t[i]
      BY <1>2, <1>4, <3>2
    <3>4. PICK h \in 1..(i - 1) : t[h].index = 0 /\ \A k \in h..i : t[k].block = t[i].block
      BY <1>3, <3>2, <3>3 DEF UnderHeader
    <3>5. h \in 1..n /\ m + 1 + h \in 1..(l - 1)
      BY <1>2, <3>2
    <3>6. st[m + 1 + h].index = 0
      BY <1>2, <3>4, <3>5
    <3>7. ASSUME NEW k \in (m + 1 + h)..l PROVE st[k].block = st[l].block
      <4>1. k - (m + 1) \in h..i /\ k - (m + 1) \in 1..n /\ k = m + 1 + (k - (m + 1))
        BY <1>2, <3>2, <3>5
      <4>2. st[k] = t[k - (m + 1)]
        BY <1>2, <4>1
      <4> QED BY <3>3, <3>4, <4>1, <4>2
    <3> QED BY <3>5, <3>6, <3>7 DEF UnderHeader
  <2> QED BY <1>2, <2>1, <2>2, <2>3
<1> QED BY <1>1, <1>2, <1>4 DEF Headed

LEMMA HeadedBeginning ==
    ASSUME NEW s \in Text, Headed(s), NEW n \in 1..Len(s)
    PROVE  Headed(SubSeq(s, 1, n))
<1>1. PICK b : b = SubSeq(s, 1, n)
  OBVIOUS
<1>2. Len(s) \in Nat /\ Len(b) = n /\ \A i \in 1..n : b[i] = s[i]
  BY <1>1, TextLines DEF Text
<1>3. ASSUME NEW l \in 1..n, IsLine(b[l]) PROVE UnderHeader(b, l)
  <2>1. l \in 1..Len(s) /\ IsLine(s[l])
    BY <1>2, <1>3
  <2>2. PICK h \in 1..(l - 1) : s[h].index = 0 /\ \A k \in h..l : s[k].block = s[l].block
    BY <2>1 DEF Headed, UnderHeader
  <2>3. h \in 1..n /\ \A k \in h..l : k \in 1..n
    BY <1>2
  <2> QED BY <1>2, <2>2, <2>3 DEF UnderHeader
<1> QED BY <1>1, <1>2, <1>3 DEF Headed

LEMMA PartIsSheet ==
    ASSUME report \in Reports, NEW b \in 1..Len(report), NEW part, IsPart(b, part)
    PROVE  IsSheet(part) /\ Len(part) \in Nat /\ Len(part) > 0 /\ FirstPart(part, Len(part))
<1>1. part \in Text /\ part # <<>> /\ part[1].index = 0 /\ \A k \in 1..Len(part) : part[k].block = b
  BY BlockLines DEF IsPart
<1>2. Len(part) \in Nat /\ Len(part) > 0
  BY <1>1 DEF Text
<1>3. Headed(part)
  <2>1. ASSUME NEW l \in 1..Len(part), IsLine(part[l]) PROVE UnderHeader(part, l)
    <3>1. l # 1
      BY <1>1, <2>1 DEF IsLine
    <3>2. 1 \in 1..(l - 1) /\ \A k \in 1..l : k \in 1..Len(part)
      BY <1>2, <3>1
    <3> QED BY <1>1, <3>2 DEF UnderHeader
  <2> QED BY <2>1 DEF Headed
<1>4. FirstPart(part, Len(part))
  <2>1. 1 \in 1..Len(part) /\ Len(part) \in 1..Len(part)
    BY <1>2
  <2>2. ~(Len(part) < Len(part))
    BY <1>2
  <2> QED BY <1>1, <2>1, <2>2 DEF FirstPart
<1>5. IsSheet(part)
  BY <1>1, <1>3, ReportFacts DEF IsSheet, IsPart
<1> QED BY <1>2, <1>4, <1>5

GrownBy(last, part, grown) ==
    /\ grown = last \o <<Blank>> \o part
    /\ TextLen(last) + SeparatorLen + TextLen(part) <= Budget
Below(sheets, more, part) ==
    \E front \in Seq(Text), last, grown \in Text :
        /\ last # <<>> /\ GrownBy(last, part, grown)
        /\ sheets = Append(front, last) /\ more = Append(front, grown)
Alone(sheets, more, part) ==
    /\ more = Append(sheets, part)
    /\ sheets # <<>> => TextLen(sheets[Len(sheets)]) + SeparatorLen + TextLen(part) > Budget

(* The sheet a part was put below is a sheet, with the same first part. *)
LEMMA SheetGrows ==
    ASSUME report \in Reports, NEW b \in 1..Len(report), NEW part, IsPart(b, part),
           NEW last, IsSheet(last), NEW grown, GrownBy(last, part, grown)
    PROVE  /\ IsSheet(grown)
           /\ \A n : FirstPart(last, n) => FirstPart(grown, n) /\ SubSeq(grown, 1, n) = SubSeq(last, 1, n)
           /\ \A c : c # 0 => (Stands(c, grown) <=> (Stands(c, last) \/ c = b))
<1> DEFINE m == Len(last)
           k == Len(part)
<1>1. grown = last \o <<Blank>> \o part /\ TextLen(last) + SeparatorLen + TextLen(part) <= Budget
  BY DEF GrownBy
<1>2. last \in Text /\ last # <<>> /\ part \in Text /\ part # <<>> /\ Headed(last)
      /\ IsSheet(part) /\ Headed(part)
  BY PartIsSheet DEF IsPart, IsSheet
<1>3. /\ grown \in Text /\ Len(grown) = m + 1 + k
      /\ \A i \in 1..m : grown[i] = last[i]
      /\ grown[m + 1] = Blank
      /\ \A i \in 1..k : grown[m + 1 + i] = part[i]
      /\ TextLen(grown) = TextLen(last) + SeparatorLen + TextLen(part)
  BY <1>1, <1>2, Stacked
<1>4. m \in Nat /\ m > 0 /\ k \in Nat /\ k > 0
  BY <1>2 DEF Text
<1>5. IsSheet(grown)
  <2>1. Headed(grown)
    BY <1>1, <1>2, HeadedStacked
  <2>2. grown # <<>> /\ grown[1] = last[1]
    BY <1>3, <1>4
  <2> QED BY <1>1, <1>3, <2>1, <2>2 DEF IsSheet
<1>6. ASSUME NEW n, FirstPart(last, n)
      PROVE  FirstPart(grown, n) /\ SubSeq(grown, 1, n) = SubSeq(last, 1, n)
  <2>1. n \in 1..m /\ n \in Nat
    BY <1>4, <1>6 DEF FirstPart
  <2>2. PICK c \in 1..Len(report) : last[1] = Header(c)[1]
    BY ReportFacts DEF IsSheet
  <2>3. last[1].block # 0
    BY <2>2, BlockLines
  <2>4. FirstPart(grown, n)
    <3>1. n \in 1..Len(grown) /\ 1 \in 1..m
      BY <1>3, <1>4, <2>1
    <3>2. \A i \in 1..n : grown[i].block = grown[1].block
      BY <1>3, <1>6, <2>1, <3>1 DEF FirstPart
    <3>3. grown[n + 1].block # grown[1].block
      <4>1. CASE n < m
        <5>1. n + 1 \in 1..m
          BY <1>4, <2>1, <4>1
        <5> QED BY <1>3, <1>6, <3>1, <4>1, <5>1 DEF FirstPart
      <4>2. CASE n = m
        BY <1>3, <2>3, <3>1, <4>2, BlankLine
      <4> QED BY <1>4, <2>1, <4>1, <4>2
    <3> QED BY <3>1, <3>2, <3>3 DEF FirstPart
  <2>5. SubSeq(grown, 1, n) = SubSeq(last, 1, n)
    <3>1. last \in Seq(LineRecord) /\ grown \in Seq(LineRecord)
      BY <1>2, <1>3 DEF Text
    <3>2. \A i \in 1..n : grown[i] = last[i]
      BY <1>3, <2>1
    <3>3. Len(SubSeq(grown, 1, n)) = n /\ Len(SubSeq(last, 1, n)) = n
          /\ SubSeq(grown, 1, n) \in Seq(LineRecord) /\ SubSeq(last, 1, n) \in Seq(LineRecord)
          /\ (\A i \in 1..n : SubSeq(grown, 1, n)[i] = grown[i])
          /\ (\A i \in 1..n : SubSeq(last, 1, n)[i] = last[i])
      BY <1>3, <1>4, <2>1, <3>1
    <3> QED BY <3>2, <3>3, SeqEqual
  <2> QED BY <2>4, <2>5
<1>7. ASSUME NEW c, c # 0 PROVE Stands(c, grown) <=> (Stands(c, last) \/ c = b)
  <2>1. ASSUME NEW i \in 1..(m + 1 + k), grown[i].block = c PROVE Stands(c, last) \/ c = b
    <3>1. CASE i \in 1..m
      BY <1>3, <2>1, <3>1 DEF Stands
    <3>2. CASE i = m + 1
      BY <1>3, <1>7, <2>1, <3>2, BlankLine
    <3>3. CASE i > m + 1
      <4>1. i - (m + 1) \in 1..k /\ i = m + 1 + (i - (m + 1))
        BY <1>4, <3>3
      <4>2. grown[i] = part[i - (m + 1)]
        BY <1>3, <4>1
      <4> QED BY <2>1, <4>1, <4>2 DEF IsPart
    <3> QED BY <1>4, <3>1, <3>2, <3>3
  <2>2. ASSUME NEW i \in 1..m, last[i].block = c PROVE Stands(c, grown)
    <3>1. i \in 1..(m + 1 + k)
      BY <1>4
    <3> QED BY <1>3, <2>2, <3>1 DEF Stands
  <2>3. ASSUME c = b PROVE Stands(c, grown)
    <3>1. 1 \in 1..k /\ m + 1 + 1 \in 1..(m + 1 + k)
      BY <1>4
    <3>2. grown[m + 1 + 1].block = b
      BY <1>3, <3>1 DEF IsPart
    <3> QED BY <1>3, <2>3, <3>1, <3>2 DEF Stands
  <2> QED BY <1>3, <2>1, <2>2, <2>3 DEF Stands
<1> QED BY <1>5, <1>6, <1>7

Placed(sheets, more, part) == Below(sheets, more, part) \/ Alone(sheets, more, part)

LEMMA PlacedSheets ==
    ASSUME NEW part \in Text, NEW sheets \in Seq(Text), NEW more, Placed(sheets, more, part)
    PROVE  /\ more \in Seq(Text) /\ Content(more) = Content(sheets) \o LinesOf(part)
           /\ Len(sheets) \in Nat
           /\ \/ /\ Len(more) = Len(sheets) /\ Len(sheets) > 0
                 /\ \A p \in 1..(Len(sheets) - 1) : more[p] = sheets[p]
                 /\ sheets[Len(sheets)] # <<>>
                 /\ GrownBy(sheets[Len(sheets)], part, more[Len(sheets)])
              \/ /\ Len(more) = Len(sheets) + 1
                 /\ \A p \in 1..Len(sheets) : more[p] = sheets[p]
                 /\ more[Len(sheets) + 1] = part
                 /\ Len(sheets) > 0 =>
                      TextLen(sheets[Len(sheets)]) + SeparatorLen + TextLen(part) > Budget
<1>1. CASE Alone(sheets, more, part)
  <2>1. more = Append(sheets, part) /\ Len(sheets) \in Nat
    BY <1>1 DEF Alone
  <2>2. /\ more \in Seq(Text) /\ Len(more) = Len(sheets) + 1 /\ more[Len(sheets) + 1] = part
        /\ \A p \in 1..Len(sheets) : more[p] = sheets[p]
    BY <2>1
  <2>3. Len(sheets) > 0 => sheets # <<>>
    OBVIOUS
  <2>4. Content(more) = Content(sheets) \o LinesOf(part)
    <3>1. more = sheets \o <<part>> /\ <<part>> \in Seq(Text)
      BY <2>1, AppendIsConcat
    <3>2. Content(more) = Content(sheets) \o Content(<<part>>)
      BY <3>1, ContentJoined
    <3> QED BY <3>2, ContentOfOne
  <2> QED BY <1>1, <2>1, <2>2, <2>3, <2>4 DEF Alone
<1>2. CASE Below(sheets, more, part)
  <2>1. PICK front \in Seq(Text), last \in Text, grown \in Text :
          /\ last # <<>> /\ GrownBy(last, part, grown)
          /\ sheets = Append(front, last) /\ more = Append(front, grown)
    BY <1>2 DEF Below
  <2>2. grown = last \o <<Blank>> \o part
    BY <2>1 DEF GrownBy
  <2>5. PICK n : n = Len(front) + 1
    OBVIOUS
  <2>6. /\ n \in Nat /\ n > 0 /\ n - 1 = Len(front)
        /\ Len(sheets) = n /\ sheets[n] = last /\ \A p \in 1..(n - 1) : sheets[p] = front[p]
    BY <2>1, <2>5
  <2>7. more \in Seq(Text) /\ Len(more) = n /\ more[n] = grown /\ \A p \in 1..(n - 1) : more[p] = front[p]
    BY <2>1, <2>5
  <2>8. Content(more) = Content(sheets) \o LinesOf(part)
    <3>1. /\ more = front \o <<grown>> /\ <<grown>> \in Seq(Text)
          /\ sheets = front \o <<last>> /\ <<last>> \in Seq(Text)
      <4>1. Append(front, grown) = front \o <<grown>> /\ Append(front, last) = front \o <<last>>
        BY AppendIsConcat
      <4>2. <<grown>> \in Seq(Text) /\ <<last>> \in Seq(Text)
        OBVIOUS
      <4>3. sheets = Append(front, last) /\ more = Append(front, grown)
        BY <2>1
      <4> QED BY <4>1, <4>2, <4>3, Zenon
    <3>2. Content(more) = Content(front) \o LinesOf(grown)
          /\ Content(sheets) = Content(front) \o LinesOf(last)
      BY <3>1, ContentJoined, ContentOfOne
    <3>3. LinesOf(grown) = LinesOf(last) \o LinesOf(part)
      <4>1. PICK blank : blank = <<Blank>> /\ blank \in Text /\ LinesOf(blank) = <<>>
        BY BlankLine
      <4>2. last \o blank \in Text /\ grown = (last \o blank) \o part
        BY <2>2, <4>1 DEF Text
      <4>3. LinesOf(grown) = LinesOf(last \o blank) \o LinesOf(part)
            /\ LinesOf(last \o blank) = LinesOf(last) \o <<>>
        <5>1. LinesOf(last \o blank) = LinesOf(last) \o LinesOf(blank)
          BY <4>1, LinesJoined
        <5>2. LinesOf((last \o blank) \o part) = LinesOf(last \o blank) \o LinesOf(part)
          BY <4>2, LinesJoined
        <5> QED BY <4>1, <4>2, <5>1, <5>2
      <4>4. LinesOf(last) \o <<>> = LinesOf(last)
        BY LinesJoined, ConcatEmptySeq DEF Text
      <4> QED BY <4>3, <4>4
    <3>4. LinesOf(last) \in Text /\ LinesOf(part) \in Text /\ Content(front) \in Text
      BY LinesJoined, LinesOfTexts
    <3>5. (Content(front) \o LinesOf(last)) \o LinesOf(part)
            = Content(front) \o (LinesOf(last) \o LinesOf(part))
      <4>1. Associate(Content(front), LinesOf(last), LinesOf(part))
        BY <3>4, TextsAssociate
      <4> QED BY <4>1 DEF Associate
    <3> QED BY <3>2, <3>3, <3>5
  <2> QED BY <2>1, <2>2, <2>6, <2>7, <2>8
<1> QED BY <1>1, <1>2 DEF Placed

LEMMA PlacingKeepsSheets ==
    ASSUME report \in Reports, NEW b \in 1..Len(report), NEW part, IsPart(b, part),
           NEW sheets \in Seq(Text), SheetsFit(sheets), NEW more, Placed(sheets, more, part)
    PROVE  /\ SheetsFit(more)
           /\ SheetsAreFilled(sheets) => SheetsAreFilled(more)
<1> DEFINE n == Len(sheets)
           last == sheets[n]
<1>1. part \in Text /\ IsSheet(part) /\ Len(part) \in Nat /\ Len(part) > 0 /\ FirstPart(part, Len(part))
  BY PartIsSheet DEF IsPart
<1>2. n \in Nat
  OBVIOUS
<1>3. CASE /\ Len(more) = n /\ n > 0 /\ \A p \in 1..(n - 1) : more[p] = sheets[p]
           /\ GrownBy(last, part, more[n])
  <2>1. IsSheet(last)
    BY <1>2, <1>3 DEF SheetsFit
  <2>2. /\ IsSheet(more[n])
        /\ \A k : FirstPart(last, k) =>
              FirstPart(more[n], k) /\ SubSeq(more[n], 1, k) = SubSeq(last, 1, k)
    <3> HIDE DEF last, n
    <3>1. GrownBy(last, part, more[n])
      BY <1>3
    <3> QED BY <2>1, <3>1, SheetGrows
  <2>3. SheetsFit(more)
    <3>1. ASSUME NEW p \in 1..n PROVE IsSheet(more[p])
      <4>1. CASE p = n
        BY <2>2, <4>1
      <4>2. CASE p # n
        <5>1. p \in 1..(n - 1)
          BY <1>2, <4>2
        <5>2. IsSheet(sheets[p]) /\ more[p] = sheets[p]
          BY <1>3, <5>1 DEF SheetsFit
        <5> QED BY <5>2
      <4> QED BY <4>1, <4>2
    <3> QED BY <1>3, <3>1 DEF SheetsFit
  <2>4. ASSUME SheetsAreFilled(sheets), NEW p \in 1..(n - 1)
        PROVE  FilledBefore(more[p], more[p + 1])
    <3>1. FilledBefore(sheets[p], sheets[p + 1]) /\ more[p] = sheets[p]
      BY <1>3, <2>4 DEF SheetsAreFilled
    <3>2. CASE p + 1 = n
      <4>1. PICK k \in 1..Len(last) :
              /\ FirstPart(last, k)
              /\ TextLen(sheets[p]) + SeparatorLen + TextLen(SubSeq(last, 1, k)) > Budget
        BY <3>1, <3>2 DEF FilledBefore
      <4>2. FirstPart(more[n], k) /\ SubSeq(more[n], 1, k) = SubSeq(last, 1, k) /\ k \in 1..Len(more[n])
        BY <2>2, <4>1 DEF FirstPart
      <4> QED BY <3>1, <3>2, <4>1, <4>2 DEF FilledBefore
    <3>3. CASE p + 1 # n
      <4>1. p + 1 \in 1..(n - 1)
        BY <1>2, <3>3
      <4> QED BY <1>3, <3>1, <4>1
    <3> QED BY <3>2, <3>3
  <2> QED BY <1>3, <2>3, <2>4 DEF SheetsAreFilled
<1>4. CASE /\ Len(more) = n + 1 /\ \A p \in 1..n : more[p] = sheets[p]
           /\ more[n + 1] = part
           /\ n > 0 => TextLen(last) + SeparatorLen + TextLen(part) > Budget
  <2>1. SheetsFit(more)
    BY <1>1, <1>2, <1>4 DEF SheetsFit
  <2>2. ASSUME SheetsAreFilled(sheets), NEW p \in 1..n
        PROVE  FilledBefore(more[p], more[p + 1])
    <3>1. CASE p = n
      <4>1. PICK k : k = Len(part)
        OBVIOUS
      <4>2. SubSeq(part, 1, k) = part
        BY <1>1, <4>1, SubSeqFull DEF Text
      <4>3. more[p] = last /\ more[p + 1] = part /\ n > 0
        BY <1>2, <1>4, <3>1
      <4>4. k \in 1..Len(part) /\ FirstPart(part, k)
        BY <1>1, <4>1
      <4> HIDE DEF last, n
      <4>5. TextLen(last) + SeparatorLen + TextLen(SubSeq(part, 1, k)) > Budget
        BY <1>4, <4>2, <4>3
      <4> QED BY <4>3, <4>4, <4>5 DEF FilledBefore
    <3>2. CASE p # n
      <4>1. p \in 1..(n - 1) /\ p \in 1..n /\ p + 1 \in 1..n
        BY <1>2, <3>2
      <4> QED BY <1>4, <2>2, <4>1 DEF SheetsAreFilled
    <3> QED BY <3>1, <3>2
  <2>3. (n + 1) - 1 = n
    BY <1>2
  <2> QED BY <1>4, <2>1, <2>2, <2>3 DEF SheetsAreFilled
<1>5. \/ /\ Len(more) = n /\ n > 0 /\ \A p \in 1..(n - 1) : more[p] = sheets[p]
         /\ GrownBy(last, part, more[n])
      \/ /\ Len(more) = n + 1 /\ \A p \in 1..n : more[p] = sheets[p]
         /\ more[n + 1] = part
         /\ n > 0 => TextLen(last) + SeparatorLen + TextLen(part) > Budget
  BY <1>1, PlacedSheets
<1> QED BY <1>3, <1>4, <1>5

LEMMA PlacingKeepsPlaces ==
    ASSUME report \in Reports, NEW b \in 1..Len(report), NEW part, IsPart(b, part),
           NEW sheets \in Seq(Text), SheetsFit(sheets), NEW more, Placed(sheets, more, part),
           NEW c \in 1..Len(report)
    PROVE  /\ c # b => /\ NoPlace(c, sheets) => NoPlace(c, more)
                       /\ OnePlace(c, sheets) => OnePlace(c, more)
           /\ NoPlace(b, sheets) => OnePlace(b, more)
<1> DEFINE n == Len(sheets)
           last == sheets[n]
<1>1. /\ part \in Text /\ \A d : Stands(d, part) <=> d = b
  <2>1. part \in Text /\ 1 \in 1..Len(part) /\ \A k \in 1..Len(part) : part[k].block = b
    BY PartIsSheet DEF IsPart
  <2> QED BY <2>1 DEF Stands
<1>2. n \in Nat /\ b # 0 /\ c # 0
  BY ReportFacts
<1>3. CASE /\ Len(more) = n /\ n > 0 /\ \A p \in 1..(n - 1) : more[p] = sheets[p]
           /\ GrownBy(last, part, more[n])
  <2>1. IsSheet(last)
    BY <1>2, <1>3 DEF SheetsFit
  <2>2. \A d : d # 0 => (Stands(d, more[n]) <=> (Stands(d, last) \/ d = b))
    <3> HIDE DEF last, n
    <3>1. GrownBy(last, part, more[n])
      BY <1>3
    <3> QED BY <2>1, <3>1, SheetGrows
  <2> HIDE DEF last
  <2>3. \A p \in 1..n : p # n => more[p] = sheets[p]
    <3>1. \A p \in 1..n : p # n => p \in 1..(n - 1)
      BY <1>2
    <3> QED BY <1>3, <3>1
  <2>4. n \in 1..n /\ last = sheets[n]
    BY <1>2, <1>3 DEF last
  <2> HIDE DEF n
  <2>5. Len(more) = n /\ Len(sheets) = n
    BY <1>3 DEF n
  <2>6. \A d, p : (d # 0 /\ p \in 1..n) =>
            (Stands(d, more[p]) <=> (Stands(d, sheets[p]) \/ (p = n /\ d = b)))
    BY <2>2, <2>3, <2>4
  <2>7. ASSUME c # b, NoPlace(c, sheets) PROVE NoPlace(c, more)
    BY <1>2, <2>5, <2>6, <2>7 DEF NoPlace
  <2>8. ASSUME c # b, OnePlace(c, sheets) PROVE OnePlace(c, more)
    <3>1. PICK p \in 1..n : \A q \in 1..n : Stands(c, sheets[q]) <=> q = p
      BY <2>5, <2>8 DEF OnePlace
    <3>2. \A q \in 1..n : Stands(c, more[q]) <=> q = p
      BY <1>2, <2>6, <2>8, <3>1
    <3> QED BY <2>5, <3>1, <3>2 DEF OnePlace
  <2>9. ASSUME NoPlace(b, sheets) PROVE OnePlace(b, more)
    BY <1>2, <2>4, <2>5, <2>6, <2>9 DEF OnePlace, NoPlace
  <2> QED BY <2>7, <2>8, <2>9
<1>4. CASE /\ Len(more) = n + 1 /\ \A p \in 1..n : more[p] = sheets[p]
           /\ more[n + 1] = part
  <2>1. \A p \in 1..(n + 1) : p \in 1..n \/ p = n + 1
    BY <1>2
  <2>2. n + 1 \in 1..(n + 1) /\ n + 1 \notin 1..n /\ 1..n \subseteq 1..(n + 1)
    BY <1>2
  <2> HIDE DEF n
  <2>3. Len(more) = n + 1 /\ Len(sheets) = n
    BY <1>4 DEF n
  <2>4. /\ \A d, p : p \in 1..n => (Stands(d, more[p]) <=> Stands(d, sheets[p]))
        /\ \A d : Stands(d, more[n + 1]) <=> d = b
    BY <1>1, <1>4
  <2> DEFINE k == n + 1
  <2>5. /\ \A p \in 1..k : p \in 1..n \/ p = k
        /\ k \in 1..k /\ k \notin 1..n /\ 1..n \subseteq 1..k /\ Len(more) = k
        /\ \A d : Stands(d, more[k]) <=> d = b
    BY <2>1, <2>2, <2>3, <2>4
  <2> HIDE DEF k
  <2>7. ASSUME c # b, NoPlace(c, sheets) PROVE NoPlace(c, more)
    BY <2>3, <2>4, <2>5, <2>7 DEF NoPlace
  <2>8. ASSUME c # b, OnePlace(c, sheets) PROVE OnePlace(c, more)
    <3>1. PICK p \in 1..n : \A q \in 1..n : Stands(c, sheets[q]) <=> q = p
      BY <2>3, <2>8 DEF OnePlace
    <3>2. \A q \in 1..k : Stands(c, more[q]) <=> q = p
      BY <2>4, <2>5, <2>8, <3>1
    <3> QED BY <2>5, <3>1, <3>2 DEF OnePlace
  <2>9. ASSUME NoPlace(b, sheets) PROVE OnePlace(b, more)
    <3>1. \A q \in 1..k : Stands(b, more[q]) <=> q = k
      BY <2>3, <2>4, <2>5, <2>9 DEF NoPlace
    <3> QED BY <2>5, <3>1 DEF OnePlace
  <2> QED BY <2>7, <2>8, <2>9
<1>5. \/ /\ Len(more) = n /\ n > 0 /\ \A p \in 1..(n - 1) : more[p] = sheets[p]
         /\ GrownBy(last, part, more[n])
      \/ /\ Len(more) = n + 1 /\ \A p \in 1..n : more[p] = sheets[p]
         /\ more[n + 1] = part
  BY <1>1, PlacedSheets
<1> QED BY <1>3, <1>4, <1>5

-----------------------------------------------------------------------------
(* The lines of the first blocks. *)
LEMMA FirstLinesGrow ==
    ASSUME report \in Reports, NEW n \in 0..Len(report)
    PROVE  /\ FirstLines(n) \in Text
           /\ FirstLines(0) = <<>>
           /\ n > 0 => FirstLines(n) = FirstLines(n - 1) \o Lines(n)
           /\ n = Len(report) => FirstLines(n) = AllLines
<1> DEFINE Part(i) == [b \in 1..i |-> Lines(b)]
<1>1. Len(report) \in Nat /\ DOMAIN report = 1..Len(report)
      /\ \A b \in 1..Len(report) : Lines(b) \in Text
  BY ReportFacts, BlockLines
<1>2. ASSUME NEW i \in 0..Len(report)
      PROVE  Part(i) \in Seq(Text) /\ Len(Part(i)) = i /\ \A b \in 1..i : Part(i)[b] = Lines(b)
  <2>1. i \in Nat /\ \A b \in 1..i : Lines(b) \in Text
    BY <1>1
  <2> QED BY <2>1
<1>3. \A i : FirstLines(i) = FlattenSeq(Part(i))
  BY DEF FirstLines
<1> HIDE DEF Part
<1>4. FirstLines(n) \in Text
  BY <1>2, <1>3, FlattenType DEF Text
<1>5. FirstLines(0) = <<>>
  <2>1. Part(0) \in Seq(Text) /\ Len(Part(0)) = 0
    BY <1>1, <1>2
  <2>2. Part(0) = <<>>
    BY <2>1, EmptySeq
  <2>3. FlattenSeq(<<>>) = <<>>
    BY DEF FlattenSeq
  <2> QED BY <1>3, <2>2, <2>3
<1>6. ASSUME n > 0 PROVE FirstLines(n) = FirstLines(n - 1) \o Lines(n)
  <2>1. n \in 1..Len(report) /\ n - 1 \in 0..Len(report) /\ n - 1 \in Nat
    BY <1>1, <1>6
  <2>2. PICK p : p = Part(n - 1)
    OBVIOUS
  <2>3. PICK q : q = Part(n)
    OBVIOUS
  <2>4. /\ p \in Seq(Text) /\ Len(p) = n - 1 /\ \A b \in 1..(n - 1) : p[b] = Lines(b)
        /\ q \in Seq(Text) /\ Len(q) = n /\ \A b \in 1..n : q[b] = Lines(b)
    BY <1>2, <2>1, <2>2, <2>3
  <2>5. PICK t : t = Lines(n)
    OBVIOUS
  <2>6. t \in Text /\ n \in 1..n
    BY <1>1, <2>1, <2>5
  <2>7. PICK r : r = Append(p, t)
    OBVIOUS
  <2>8. r \in Seq(Text) /\ Len(r) = n /\ r[n] = t /\ \A b \in 1..(n - 1) : r[b] = p[b]
    <3>1. (n - 1) + 1 = n
      BY <2>1
    <3> QED BY <2>4, <2>6, <2>7, <3>1, AppendProperties
  <2>9. ASSUME NEW b \in 1..n PROVE q[b] = r[b]
    <3>1. b = n \/ b \in 1..(n - 1)
      BY <2>1
    <3> QED BY <2>4, <2>5, <2>6, <2>8, <3>1
  <2>10. q = r
    BY <2>4, <2>8, <2>9, SeqEqual
  <2>11. FlattenSeq(r) = FlattenSeq(p) \o t
    BY <2>4, <2>6, <2>7, FlattenSteps DEF Text
  <2> QED BY <1>3, <2>2, <2>3, <2>5, <2>10, <2>11
<1>7. n = Len(report) => FirstLines(n) = AllLines
  BY <1>1 DEF FirstLines, AllLines
<1> QED BY <1>4, <1>5, <1>6, <1>7

(* A step that does not touch the pages leaves what holds of the sheets. *)
LEMMA SheetsStand ==
    ASSUME report' = report, current' = current, pages' = pages
    PROVE  /\ Sheets' = Sheets
           /\ SheetsFit(Sheets) => SheetsFit(Sheets)'
           /\ SheetsAreFilled(Sheets) => SheetsAreFilled(Sheets)'
<1>1. Sheets' = Sheets
  BY DEF Sheets, Flushed
<1>2. SheetsFit(Sheets) => SheetsFit(Sheets)'
  BY <1>1 DEF SheetsFit, IsSheet, Header
<1>3. SheetsAreFilled(Sheets) => SheetsAreFilled(Sheets)'
  BY <1>1 DEF SheetsAreFilled
<1> QED BY <1>1, <1>2, <1>3

LEMMA SameReport ==
    ASSUME report' = report
    PROVE  /\ \A b : FitsAPage(b)' <=> FitsAPage(b)
           /\ \A b, text : IsPart(b, text)' <=> IsPart(b, text)
           /\ \A b, t : RenderBlock(b, t)' = RenderBlock(b, t)
           /\ \A b : Lines(b)' = Lines(b)
           /\ \A b, l : Line(b, l)' = Line(b, l)
           /\ \A n : FirstLines(n)' = FirstLines(n)
<1>1. \A b : Header(b)' = Header(b) /\ Lines(b)' = Lines(b) /\ \A l : Line(b, l)' = Line(b, l)
  BY DEF Header, Lines, Line
<1>2. \A b, t : RenderBlock(b, t)' = RenderBlock(b, t)
  BY <1>1 DEF RenderBlock
<1>3. \A b : FitsAPage(b)' <=> FitsAPage(b)
  BY <1>1, <1>2 DEF FitsAPage
<1>4. \A b, text : IsPart(b, text)' <=> IsPart(b, text)
  BY <1>1 DEF IsPart
<1>5. \A n : FirstLines(n)' = FirstLines(n)
  BY <1>1 DEF FirstLines
<1> QED BY <1>1, <1>2, <1>3, <1>4, <1>5

-----------------------------------------------------------------------------
(* The invariant holds at first and is kept by every step. *)
LEMMA LaidOutAtFirst == Init => LaidOutInv
<1> SUFFICES ASSUME Init PROVE LaidOutInv
  OBVIOUS
<1>1. /\ report \in Reports /\ at = 1 /\ taken = <<>> /\ parts = <<>>
      /\ current = <<>> /\ pages = <<>> /\ phase = "block"
  BY DEF Init
<1>2. Len(report) \in Nat /\ \A b \in 1..Len(report) : b \in Nat
  BY <1>1, ReportFacts
<1>3. Sheets = <<>> /\ Len(Sheets) = 0
  BY <1>1 DEF Sheets, Flushed
<1>4. Progress
  <2>1. <<>> \in Text /\ <<>> \in Seq(Text)
    BY DEF Text
  <2>2. at \in 1..(Len(report) + 1)
    BY <1>1, <1>2
  <2> QED BY <1>1, <2>1, <2>2 DEF Progress
<1>5. PartsFit
  BY <1>1 DEF PartsFit
<1>6. SheetsFit(Sheets) /\ SheetsAreFilled(Sheets)
  BY <1>3 DEF SheetsFit, SheetsAreFilled
<1>7. BlocksArePlaced
  <2>1. \A b \in 1..Len(report) : NoPlace(b, Sheets) /\ ~(b < at)
    BY <1>1, <1>2, <1>3 DEF NoPlace
  <2> QED BY <1>1, <2>1 DEF BlocksArePlaced
<1>8. NothingIsMissing
  <2>1. Content(Sheets) = <<>>
    BY <1>3, ContentOfOne
  <2>2. FirstLines(0) = <<>> /\ at - 1 = 0
    BY <1>1, <1>2, FirstLinesGrow
  <2> QED BY <1>1, <2>1, <2>2 DEF NothingIsMissing
<1> QED BY <1>4, <1>5, <1>6, <1>7, <1>8 DEF LaidOutInv

(* The whole block as one part. *)
LEMMA WholePart ==
    ASSUME report \in Reports, NEW b \in 1..Len(report), NEW t \in Text, t # <<>>,
           \A k \in 1..Len(t) : t[k].block = b, TextLen(RenderBlock(b, t)) <= Budget
    PROVE  IsPart(b, RenderBlock(b, t))
<1>1. PICK r : r = RenderBlock(b, t)
  OBVIOUS
<1>2. /\ r \in Text /\ r # <<>> /\ Len(r) = Len(t) + 1 /\ r[1] = Header(b)[1]
      /\ \A k \in 1..Len(t) : r[k + 1] = t[k]
  BY <1>1, Rendered
<1>3. Header(b)[1].block = b /\ Len(t) \in Nat
  BY BlockLines, TextLines
<1>4. ASSUME NEW k \in 1..Len(r) PROVE r[k].block = b
  <2>1. CASE k = 1
    BY <1>2, <1>3, <2>1
  <2>2. CASE k # 1
    <3>1. k - 1 \in 1..Len(t) /\ k = (k - 1) + 1
      BY <1>2, <1>3, <2>2
    <3> QED BY <1>2, <3>1
  <2> QED BY <2>1, <2>2
<1> QED BY <1>1, <1>2, <1>4 DEF IsPart

LEMMA BlockAsPart ==
    ASSUME report \in Reports, NEW b \in 1..Len(report), FitsAPage(b)
    PROVE  IsPart(b, RenderBlock(b, Lines(b)))
<1>1. PICK t : t = Lines(b)
  OBVIOUS
<1>2. t \in Text /\ t # <<>> /\ Len(t) = Len(report[b].lines)
  BY <1>1, BlockLines
<1>3. \A k \in 1..Len(t) : t[k].block = b
  BY <1>1, <1>2, BlockLines
<1>4. TextLen(RenderBlock(b, t)) <= Budget
  BY <1>1 DEF FitsAPage
<1> QED BY <1>1, <1>2, <1>3, <1>4, WholePart

LEMMA TakeBlockKeeps ==
    ASSUME LaidOutInv, TakeBlock
    PROVE  LaidOutInv'
<1>1. /\ phase = "block" /\ at <= Len(report) /\ line' = 1 /\ taken' = <<>>
      /\ report' = report /\ at' = at /\ current' = current /\ pages' = pages
  BY DEF TakeBlock
<1>2. Progress /\ PartsFit /\ SheetsFit(Sheets) /\ BlocksArePlaced /\ SheetsAreFilled(Sheets) /\ NothingIsMissing
  BY <1>1 DEF LaidOutInv
<1>3. report \in Reports /\ at \in 1..Len(report) /\ parts = <<>> /\ pages \in Seq(Text) /\ current \in Text
      /\ (current = <<>> => pages = <<>>)
  <2>1. report \in Reports /\ at \in 1..(Len(report) + 1) /\ parts = <<>> /\ pages \in Seq(Text)
        /\ current \in Text /\ (current = <<>> => pages = <<>>)
    BY <1>1, <1>2 DEF Progress
  <2>2. at \in 1..Len(report)
    BY <1>1, <2>1, ReportFacts
  <2> QED BY <2>1, <2>2
<1>4. PICK whole : whole = RenderBlock(at, Lines(at))
  OBVIOUS
<1>5. \/ /\ TextLen(whole) <= Budget /\ parts' = <<whole>> /\ phase' = "place"
      \/ /\ TextLen(whole) > Budget /\ parts' = parts /\ phase' = "split"
  BY <1>4 DEF TakeBlock, Room
<1>6. FitsAPage(at) <=> TextLen(whole) <= Budget
  BY <1>4 DEF FitsAPage
<1>7. TextLen(whole) \in Nat /\ LinesOf(whole) = Lines(at) /\ whole \in Text
  <2>1. Lines(at) \in Text /\ Len(Lines(at)) = Len(report[at].lines)
    BY <1>3, BlockLines
  <2>2. \A n \in 1..Len(Lines(at)) : IsLine(Lines(at)[n])
    BY <1>3, <2>1, BlockLines
  <2>3. LinesOf(Lines(at)) = Lines(at)
    BY <2>1, <2>2, OnlyLines
  <2>4. whole \in Text /\ LinesOf(whole) = LinesOf(Lines(at))
    BY <1>3, <1>4, <2>1, Rendered
  <2> QED BY <2>3, <2>4, ShortTexts
<1>8. PICK b : b = at
  OBVIOUS
<1>9. Sheets' = Sheets /\ SheetsFit(Sheets)' /\ SheetsAreFilled(Sheets)'
  BY <1>1, <1>2, SheetsStand
<1>10. Progress'
  <2>1. parts' \in Seq(Text) /\ taken' \in Text
    <3>1. <<whole>> \in Seq(Text) /\ <<>> \in Seq(Text)
      BY <1>7
    <3>2. parts' \in Seq(Text)
      BY <1>3, <1>5, <3>1
    <3>3. <<>> \in Text
      BY DEF Text
    <3> QED BY <1>1, <3>2, <3>3
  <2>2. phase' = "split" => line' \in 1..(Len(report'[at'].lines) + 1)
    <3>1. PICK lines : lines = report[at].lines
      OBVIOUS
    <3>2. Len(lines) \in Nat
      BY <1>3, <3>1, ReportFacts
    <3>3. 1 \in 1..(Len(lines) + 1)
      BY <3>2
    <3> QED BY <1>1, <3>1, <3>3
  <2>3. at' \in 1..(Len(report') + 1)
    BY <1>1, <1>2 DEF Progress
  <2> QED BY <1>1, <1>3, <1>5, <2>1, <2>2, <2>3 DEF Progress
<1>11. PartsFit'
  <2>1. CASE TextLen(whole) <= Budget /\ parts' = <<whole>> /\ phase' = "place"
    <3>1. IsPart(b, whole)
      BY <1>3, <1>4, <1>6, <1>8, <2>1, BlockAsPart
    <3>2. IsPart(b, whole)'
      BY <1>1, <3>1, SameReport
    <3>3. PICK q : q = parts'
      OBVIOUS
    <3>4. \A i \in 1..Len(q) : q[i] = whole
      BY <2>1, <3>3
    <3> QED BY <1>1, <1>8, <2>1, <3>2, <3>3, <3>4 DEF PartsFit
  <2>2. CASE TextLen(whole) > Budget /\ parts' = parts /\ phase' = "split"
    <3>1. RenderBlock(b, Lines(b))' = whole
      <4>1. RenderBlock(b, Lines(b)) = whole
        BY <1>4, <1>8
      <4> QED BY <1>1, <4>1 DEF RenderBlock, Lines, Header, Line
    <3>2. Budget' = Budget
      BY DEF Budget
    <3>3. at' = b /\ taken' = <<>> /\ parts' = <<>> /\ Len(<<>>) = 0
      BY <1>1, <1>3, <1>8, <2>2
    <3> QED BY <1>1, <2>2, <3>1, <3>2, <3>3 DEF PartsFit
  <2> QED BY <1>5, <2>1, <2>2
<1>12. BlocksArePlaced'
  <2>1. ASSUME NEW c \in 1..Len(report)
        PROVE  /\ c > at' => NoPlace(c, Sheets)
               /\ c = at => NoPlace(c, Sheets)
               /\ (FitsAPage(c) /\ c < at') => OnePlace(c, Sheets)
               /\ (FitsAPage(c) /\ c = at) => phase' = "place" /\ parts' = <<whole>>
    <3>1. (FitsAPage(c) /\ c = at) => phase' = "place" /\ parts' = <<whole>>
      <4>1. ASSUME FitsAPage(at) PROVE phase' = "place" /\ parts' = <<whole>>
        BY <1>5, <1>6, <1>7, <4>1, BudgetIsANumber
      <4> QED BY <4>1
    <3> QED BY <1>1, <1>2, <3>1 DEF BlocksArePlaced
  <2>2. \A c : FitsAPage(c)' <=> FitsAPage(c)
    BY <1>1, SameReport
  <2>3. ASSUME NEW c \in 1..Len(report)
        PROVE  /\ c > at' => NoPlace(c, Sheets)'
               /\ (c = at' /\ phase' \in {"block", "split"}) => NoPlace(c, Sheets)'
               /\ FitsAPage(c)' =>
                    /\ c < at' => OnePlace(c, Sheets)'
                    /\ (c = at' /\ phase' = "place") =>
                          IF parts' = <<>> THEN OnePlace(c, Sheets)'
                          ELSE NoPlace(c, Sheets)' /\ Len(parts') = 1
    <3>1. Len(<<whole>>) = 1 /\ <<whole>> # <<>>
      OBVIOUS
    <3>2. (NoPlace(c, Sheets)' <=> NoPlace(c, Sheets)) /\ (OnePlace(c, Sheets)' <=> OnePlace(c, Sheets))
      BY <1>9
    <3> QED BY <1>1, <2>1, <2>2, <3>1, <3>2
  <2> QED BY <1>1, <2>3 DEF BlocksArePlaced
<1>13. NothingIsMissing'
  <2>1. Content(Sheets) = FirstLines(b - 1) /\ b \in 1..Len(report)
    BY <1>1, <1>2, <1>3, <1>8 DEF NothingIsMissing
  <2>2. FirstLines(b) = FirstLines(b - 1) \o Lines(b)
    <3>1. b \in 0..Len(report) /\ b > 0
      BY <2>1, ReportFacts
    <3> QED BY <1>3, <3>1, FirstLinesGrow
  <2>3. FirstLines(b)' = FirstLines(b) /\ FirstLines(b - 1)' = FirstLines(b - 1)
    BY <1>1, SameReport
  <2>4. CASE parts' = <<whole>> /\ phase' = "place"
    <3>1. Content(<<whole>>) = Lines(b)
      BY <1>7, <1>8, ContentOfOne
    <3>2. Content(Sheets)' = Content(Sheets) /\ Content(parts)' = Content(<<whole>>)
      BY <1>9, <2>4
    <3>3. (Content(Sheets) \o Content(parts) = FirstLines(at))'
      BY <1>1, <1>8, <2>1, <2>2, <2>3, <3>1, <3>2
    <3> QED BY <2>4, <3>3 DEF NothingIsMissing
  <2>5. CASE parts' = parts /\ phase' = "split"
    <3>1. Content(parts) = <<>>
      BY <1>3, ContentOfOne
    <3>2. Content(Sheets)' = Content(Sheets) /\ Content(parts)' = Content(parts)
      BY <1>9, <2>5
    <3>3. SubSeq(Lines(at), 1, line - 1)' = <<>>
      <4>1. PICK t : t = Lines(at)'
        OBVIOUS
      <4>2. line' - 1 = 0
        BY <1>1
      <4>3. SubSeq(t, 1, 0) = <<>>
        BY SubSeqEmpty
      <4> QED BY <4>1, <4>2, <4>3
    <3>4. (Content(Sheets) = FirstLines(at - 1))'
      BY <1>1, <1>8, <2>1, <2>3, <3>2
    <3>5. (Content(parts) \o taken = SubSeq(Lines(at), 1, line - 1))'
      <4>1. <<>> \o <<>> = <<>>
        OBVIOUS
      <4> QED BY <1>1, <3>1, <3>2, <3>3, <4>1
    <3> QED BY <2>5, <3>4, <3>5 DEF NothingIsMissing
  <2> QED BY <1>5, <2>4, <2>5
<1> QED BY <1>9, <1>10, <1>11, <1>12, <1>13 DEF LaidOutInv

LEMMA NextBlockKeeps ==
    ASSUME LaidOutInv, NextBlock
    PROVE  LaidOutInv'
<1>1. /\ phase = "place" /\ parts = <<>> /\ at' = at + 1 /\ phase' = "block"
      /\ report' = report /\ line' = line /\ taken' = taken /\ parts' = parts
      /\ current' = current /\ pages' = pages
  BY DEF NextBlock
<1>2. Progress /\ PartsFit /\ SheetsFit(Sheets) /\ BlocksArePlaced /\ SheetsAreFilled(Sheets) /\ NothingIsMissing
  BY <1>1 DEF LaidOutInv
<1>3. report \in Reports /\ at \in 1..Len(report) /\ Len(report) \in Nat
  BY <1>1, <1>2, ReportFacts DEF Progress
<1>4. Sheets' = Sheets /\ SheetsFit(Sheets)' /\ SheetsAreFilled(Sheets)'
  BY <1>1, <1>2, SheetsStand
<1>5. Progress'
  <2>1. at' \in 1..(Len(report') + 1)
    BY <1>1, <1>3
  <2> QED BY <1>1, <1>2, <2>1 DEF Progress
<1>6. PartsFit'
  BY <1>1 DEF PartsFit
<1>7. BlocksArePlaced'
  <2>1. \A c : FitsAPage(c)' <=> FitsAPage(c)
    BY <1>1, SameReport
  <2>2. ASSUME NEW c \in 1..Len(report)
        PROVE  /\ c > at' => NoPlace(c, Sheets)'
               /\ c = at' => NoPlace(c, Sheets)'
               /\ (FitsAPage(c)' /\ c < at') => OnePlace(c, Sheets)'
    <3>1. (NoPlace(c, Sheets)' <=> NoPlace(c, Sheets)) /\ (OnePlace(c, Sheets)' <=> OnePlace(c, Sheets))
      BY <1>4
    <3>2. /\ c > at => NoPlace(c, Sheets)
          /\ (FitsAPage(c) /\ c < at) => OnePlace(c, Sheets)
          /\ (FitsAPage(c) /\ c = at) => OnePlace(c, Sheets)
      BY <1>1, <1>2 DEF BlocksArePlaced
    <3>3. (c >= at' => c > at) /\ (c < at' => (c < at \/ c = at))
      BY <1>1, <1>3
    <3>4. (c > at' => c >= at') /\ (c = at' => c >= at')
      BY <1>1, <1>3
    <3> QED BY <2>1, <3>1, <3>2, <3>3, <3>4
  <2> QED BY <1>1, <2>2 DEF BlocksArePlaced
<1>8. NothingIsMissing'
  <2>1. Content(Sheets) = FirstLines(at)
    <3>1. Content(parts) = <<>>
      BY <1>1, ContentOfOne
    <3>2. Content(Sheets) \o <<>> = Content(Sheets)
      <4>1. Sheets \in Seq(Text)
        BY <1>2 DEF Progress, Sheets, Flushed
      <4> QED BY <4>1, LinesOfTexts, ConcatEmptySeq DEF Text
    <3> QED BY <1>1, <1>2, <3>1, <3>2 DEF NothingIsMissing
  <2>2. PICK b : b = at
    OBVIOUS
  <2>3. FirstLines(b)' = FirstLines(b)
    BY <1>1, SameReport
  <2>4. at' - 1 = b
    BY <1>1, <1>3, <2>2
  <2>5. (Content(Sheets) = FirstLines(at - 1))'
    BY <1>4, <2>1, <2>2, <2>3, <2>4
  <2> QED BY <1>1, <2>5 DEF NothingIsMissing
<1> QED BY <1>4, <1>5, <1>6, <1>7, <1>8 DEF LaidOutInv

LEMMA PlaceKeeps ==
    ASSUME LaidOutInv, Place
    PROVE  LaidOutInv'
<1>1. /\ phase = "place" /\ parts # <<>> /\ parts' = Tail(parts)
      /\ report' = report /\ at' = at /\ line' = line /\ taken' = taken /\ phase' = phase
  BY DEF Place
<1>2. Progress /\ PartsFit /\ SheetsFit(Sheets) /\ BlocksArePlaced /\ SheetsAreFilled(Sheets) /\ NothingIsMissing
  BY <1>1 DEF LaidOutInv
<1>3. /\ report \in Reports /\ at \in 1..Len(report) /\ Len(report) \in Nat
      /\ parts \in Seq(Text) /\ pages \in Seq(Text) /\ current \in Text
      /\ current = <<>> => pages = <<>>
  BY <1>1, <1>2, ReportFacts DEF Progress
<1>4. PICK b : b = at
  OBVIOUS
<1>5. PICK part : part = Head(parts)
  OBVIOUS
<1>6. /\ Len(parts) \in Nat /\ Len(parts) > 0 /\ part = parts[1] /\ 1 \in 1..Len(parts)
      /\ parts' \in Seq(Text) /\ Len(parts') = Len(parts) - 1
      /\ \A i \in 1..Len(parts') : parts'[i] = parts[i + 1]
      /\ parts = <<part>> \o parts'
  BY <1>1, <1>3, <1>5
<1>7. IsPart(b, part)
  BY <1>1, <1>2, <1>4, <1>6 DEF PartsFit
<1>8. part \in Text /\ part # <<>> /\ TextLen(part) \in Nat /\ TextLen(part) <= Budget
      /\ TextLen(current) \in Nat
  BY <1>3, <1>7, ShortTexts DEF IsPart
<1>9. Sheets \in Seq(Text)
  BY <1>3 DEF Sheets, Flushed
<1>10. /\ Placed(Sheets, Sheets', part)
       /\ current' \in Text /\ current' # <<>> /\ pages' \in Seq(Text)
  <2>1. PICK grown : grown = current \o <<Blank>> \o part
    OBVIOUS
  <2>2. current # <<>> => grown \in Text /\ grown # <<>>
    <3>1. current # <<>> => grown \in Text /\ Len(grown) = Len(current) + 1 + Len(part)
      BY <1>3, <1>8, <2>1, Stacked
    <3>2. Len(current) \in Nat /\ Len(part) \in Nat
      BY <1>3, <1>8, TextLines
    <3> QED BY <3>1, <3>2
  <2>3. \/ Fits(part) /\ current' = (IF current = <<>> THEN part ELSE grown) /\ pages' = pages
        \/ ~Fits(part) /\ pages' = Flushed /\ current' = part
    BY <1>5, <2>1 DEF Place
  <2>4. current = <<>> => Fits(part)
    BY <1>8, BudgetIsANumber, ShortTexts DEF Fits
  <2>5. current # <<>> => (Fits(part) <=> TextLen(current) + SeparatorLen + TextLen(part) <= Budget)
    BY DEF Fits
  <2>6. CASE current = <<>>
    <3>1. current' = part /\ pages' = pages /\ Sheets = pages /\ pages = <<>>
      BY <1>3, <2>3, <2>4, <2>6 DEF Sheets, Flushed
    <3>2. Sheets' = Append(Sheets, part) /\ Sheets = <<>>
      BY <1>8, <3>1 DEF Sheets, Flushed
    <3>3. Alone(Sheets, Sheets', part)
      BY <3>2 DEF Alone
    <3> QED BY <1>3, <1>8, <3>1, <3>3 DEF Placed
  <2>7. CASE current # <<>> /\ Fits(part)
    <3>1. current' = grown /\ pages' = pages /\ Sheets = Append(pages, current)
      BY <2>3, <2>7 DEF Sheets, Flushed
    <3>2. Sheets' = Append(pages, grown)
      BY <2>2, <2>7, <3>1 DEF Sheets, Flushed
    <3>3. GrownBy(current, part, grown)
      BY <2>1, <2>5, <2>7 DEF GrownBy
    <3>4. Below(Sheets, Sheets', part)
      BY <1>3, <2>2, <2>7, <3>1, <3>2, <3>3 DEF Below
    <3> QED BY <1>3, <2>2, <2>7, <3>1, <3>4 DEF Placed
  <2>8. CASE current # <<>> /\ ~Fits(part)
    <3>1. current' = part /\ pages' = Sheets /\ Sheets = Append(pages, current)
      BY <2>3, <2>8 DEF Sheets, Flushed
    <3>2. Sheets' = Append(Sheets, part)
      BY <1>8, <3>1 DEF Sheets, Flushed
    <3>3. Sheets[Len(Sheets)] = current
      BY <1>3, <3>1
    <3>4. TextLen(current) + SeparatorLen + TextLen(part) > Budget
      BY <1>8, <2>5, <2>8, BudgetIsANumber DEF SeparatorLen
    <3>5. Alone(Sheets, Sheets', part)
      BY <3>2, <3>3, <3>4 DEF Alone
    <3> QED BY <1>8, <1>9, <3>1, <3>5 DEF Placed
  <2> QED BY <2>4, <2>6, <2>7, <2>8
<1>11. PICK s : s = Sheets
  OBVIOUS
<1>12. PICK t : t = Sheets'
  OBVIOUS
<1>13. s \in Seq(Text) /\ SheetsFit(s) /\ SheetsAreFilled(s) /\ Placed(s, t, part)
  BY <1>2, <1>9, <1>10, <1>11, <1>12
<1>14. SheetsFit(t) /\ SheetsAreFilled(t)
  BY <1>3, <1>4, <1>7, <1>13, PlacingKeepsSheets
<1>15. ASSUME NEW c \in 1..Len(report)
       PROVE  /\ c # b => /\ NoPlace(c, s) => NoPlace(c, t)
                          /\ OnePlace(c, s) => OnePlace(c, t)
              /\ NoPlace(b, s) => OnePlace(b, t)
  BY <1>3, <1>4, <1>7, <1>13, PlacingKeepsPlaces
<1>16. Content(t) = Content(s) \o LinesOf(part)
  BY <1>8, <1>13, PlacedSheets
<1>17. SheetsFit(Sheets)' /\ SheetsAreFilled(Sheets)'
  <2>1. SheetsFit(t)'
    BY <1>1, <1>14 DEF SheetsFit, IsSheet, Header
  <2> QED BY <1>12, <1>14, <2>1
<1>18. Progress'
  BY <1>1, <1>2, <1>6, <1>10 DEF Progress
<1>19. PartsFit'
  <2>1. PICK q : q = parts'
    OBVIOUS
  <2>2. ASSUME NEW i \in 1..Len(q) PROVE IsPart(b, q[i])'
    <3>1. i + 1 \in 1..Len(parts) /\ q[i] = parts[i + 1]
      BY <1>6, <2>1
    <3>2. IsPart(b, q[i])
      BY <1>1, <1>2, <1>4, <3>1 DEF PartsFit
    <3>3. PICK x : x = q[i]
      OBVIOUS
    <3>4. IsPart(b, x)'
      BY <1>1, <3>2, <3>3, SameReport
    <3> QED BY <3>3, <3>4
  <2> QED BY <1>1, <1>4, <2>1, <2>2 DEF PartsFit
<1>20. BlocksArePlaced'
  <2>1. \A c : FitsAPage(c)' <=> FitsAPage(c)
    BY <1>1, SameReport
  <2>2. ASSUME NEW c \in 1..Len(report)
        PROVE  /\ c > at' => NoPlace(c, Sheets)'
               /\ FitsAPage(c)' =>
                    /\ c < at' => OnePlace(c, Sheets)'
                    /\ c = at' => parts' = <<>> /\ OnePlace(c, Sheets)'
    <3>1. (NoPlace(c, Sheets)' <=> NoPlace(c, t)) /\ (OnePlace(c, Sheets)' <=> OnePlace(c, t))
      BY <1>12
    <3>2. /\ c > at => NoPlace(c, s)
          /\ (FitsAPage(c) /\ c < at) => OnePlace(c, s)
          /\ (FitsAPage(c) /\ c = at) => NoPlace(c, s) /\ Len(parts) = 1
      BY <1>1, <1>2, <1>11 DEF BlocksArePlaced
    <3>3. (c > at => c # b) /\ (c < at => c # b)
      BY <1>3, <1>4
    <3>4. Len(parts) = 1 => parts' = <<>>
      BY <1>6, EmptySeq
    <3> QED BY <1>1, <1>4, <1>15, <2>1, <3>1, <3>2, <3>3, <3>4
  <2> QED BY <1>1, <2>2 DEF BlocksArePlaced
<1>21. NothingIsMissing'
  <2>1. Content(s) \o Content(parts) = FirstLines(b)
    BY <1>1, <1>2, <1>4, <1>11 DEF NothingIsMissing
  <2>2. PICK q : q = parts'
    OBVIOUS
  <2>3. Content(parts) = LinesOf(part) \o Content(q)
    <3>1. <<part>> \in Seq(Text) /\ q \in Seq(Text) /\ parts = <<part>> \o q
      BY <1>6, <1>8, <2>2
    <3>2. Content(parts) = Content(<<part>>) \o Content(q)
      BY <3>1, ContentJoined
    <3> QED BY <1>8, <3>2, ContentOfOne
  <2>4. Content(t) \o Content(q) = FirstLines(b)
    <3>1. Content(s) \in Text /\ LinesOf(part) \in Text /\ Content(q) \in Text
      BY <1>6, <1>8, <1>13, <2>2, LinesJoined, LinesOfTexts DEF Text
    <3>2. Associate(Content(s), LinesOf(part), Content(q))
      BY <3>1, TextsAssociate
    <3>3. (Content(s) \o LinesOf(part)) \o Content(q)
            = Content(s) \o (LinesOf(part) \o Content(q))
      BY <3>2 DEF Associate
    <3> QED BY <1>16, <2>1, <2>3, <3>3
  <2>5. FirstLines(b)' = FirstLines(b)
    BY <1>1, SameReport
  <2>6. Content(Sheets)' = Content(t) /\ Content(parts)' = Content(q)
    BY <1>12, <2>2
  <2>7. (Content(Sheets) \o Content(parts) = FirstLines(at))'
    BY <1>1, <1>4, <2>4, <2>5, <2>6
  <2> QED BY <1>1, <2>7 DEF NothingIsMissing
<1> QED BY <1>17, <1>18, <1>19, <1>20, <1>21 DEF LaidOutInv

LEMMA SplitLineKeeps ==
    ASSUME LaidOutInv, SplitLine
    PROVE  LaidOutInv'
<1>1. /\ phase = "split" /\ line <= Len(report[at].lines) /\ line' = line + 1
      /\ report' = report /\ at' = at /\ current' = current /\ pages' = pages /\ phase' = phase
  BY DEF SplitLine
<1>2. Progress /\ PartsFit /\ SheetsFit(Sheets) /\ BlocksArePlaced /\ SheetsAreFilled(Sheets) /\ NothingIsMissing
  BY <1>1 DEF LaidOutInv
<1>3. /\ report \in Reports /\ at \in 1..Len(report) /\ Len(report) \in Nat
      /\ parts \in Seq(Text) /\ taken \in Text /\ line \in 1..(Len(report[at].lines) + 1)
  BY <1>1, <1>2, ReportFacts DEF Progress
<1>4. PICK b : b = at
  OBVIOUS
<1>5. PICK n : n = Len(report[at].lines)
  OBVIOUS
<1>6. PICK next : next = Line(at, line)
  OBVIOUS
<1>7. PICK lines : lines = Lines(at)
  OBVIOUS
<1>8. /\ n \in Nat /\ line \in 1..n /\ line \in Nat /\ line' - 1 = line
      /\ lines \in Text /\ Len(lines) = n /\ lines[line] = next
      /\ next \in LineRecord /\ next.block = b /\ IsLine(next)
      /\ report[at].header + 1 + next.len <= Budget /\ report[at].header \in Nat
  <2>1. n \in Nat
    BY <1>3, <1>5, BlockLines, TextLines
  <2>2. line \in 1..n /\ line \in Nat /\ line' - 1 = line
    BY <1>1, <1>3, <1>5, <2>1
  <2>3. /\ lines \in Text /\ Len(lines) = n /\ lines[line] = next
        /\ next \in LineRecord /\ next.block = b /\ IsLine(next)
        /\ next.len = report[at].lines[line]
    BY <1>3, <1>4, <1>5, <1>6, <1>7, <2>2, BlockLines
  <2>4. report[at].header + 1 + report[at].lines[line] <= Budget /\ report[at].header \in Nat
    BY <1>3, <1>5, <2>2, ReportFacts
  <2> QED BY <2>1, <2>2, <2>3, <2>4
<1>9. PICK more : more = Append(taken, next)
  OBVIOUS
<1>10. more \in Text /\ <<next>> \in Text /\ more # <<>> /\ <<next>> # <<>> /\ more = taken \o <<next>>
  <2>1. more \in Text /\ more # <<>>
    BY <1>3, <1>8, <1>9, AppendProperties DEF Text
  <2>2. <<next>> \in Text /\ <<next>> # <<>>
    BY <1>8 DEF Text
  <2>3. more = taken \o <<next>>
    BY <1>3, <1>8, <1>9, AppendIsConcat DEF Text
  <2> QED BY <2>1, <2>2, <2>3
<1>11. PICK built : built = RenderBlock(at, taken)
  OBVIOUS
<1>12. \/ /\ taken # <<>> /\ parts' = Append(parts, built) /\ taken' = <<next>>
       \/ /\ taken = <<>> \/ ~(TextLen(RenderBlock(at, more)) > Budget)
          /\ parts' = parts /\ taken' = more
  BY <1>6, <1>9, <1>11 DEF SplitLine, Room
<1>13. /\ TextLen(RenderBlock(at, Lines(at))) > Budget
       /\ taken = <<>> => line = 1 /\ parts = <<>>
       /\ taken # <<>> => IsPart(b, built)
       /\ \A k \in 1..Len(taken) : IsLine(taken[k])
       /\ \A i \in 1..Len(parts) : IsPart(b, parts[i])
  BY <1>1, <1>2, <1>4, <1>11 DEF PartsFit
<1>14. /\ built \in Text /\ LinesOf(built) = taken
       /\ taken # <<>> => \A k \in 1..Len(taken) : taken[k].block = b
  <2>1. /\ built \in Text /\ LinesOf(built) = LinesOf(taken) /\ Len(built) = Len(taken) + 1
        /\ \A k \in 1..Len(taken) : built[k + 1] = taken[k]
    BY <1>3, <1>11, Rendered
  <2>2. LinesOf(taken) = taken
    BY <1>3, <1>13, OnlyLines
  <2>3. ASSUME taken # <<>>, NEW k \in 1..Len(taken) PROVE taken[k].block = b
    <3>1. k + 1 \in 1..Len(built) /\ built[k + 1] = taken[k]
      BY <1>3, <2>1, TextLines
    <3> QED BY <1>13, <2>3, <3>1 DEF IsPart
  <2> QED BY <2>1, <2>2, <2>3
<1>15. Sheets' = Sheets /\ SheetsFit(Sheets)' /\ SheetsAreFilled(Sheets)'
  BY <1>1, <1>2, SheetsStand
<1>16. parts' \in Seq(Text) /\ taken' \in Text /\ taken' # <<>>
  <2>1. Append(parts, built) \in Seq(Text)
    BY <1>3, <1>14
  <2> QED BY <1>3, <1>10, <1>12, <2>1
<1>17. Progress'
  <2>1. line' \in 1..(Len(report'[at'].lines) + 1)
    BY <1>1, <1>5, <1>8
  <2> QED BY <1>1, <1>2, <1>3, <1>16, <2>1 DEF Progress
<1>18. PartsFit'
  <2>1. ASSUME NEW i \in 1..Len(parts') PROVE IsPart(b, parts'[i])
    <3>1. CASE taken # <<>> /\ parts' = Append(parts, built)
      <4>1. CASE i = Len(parts) + 1
        BY <1>3, <1>13, <3>1, <4>1
      <4>2. CASE i \in 1..Len(parts)
        BY <1>3, <1>13, <3>1, <4>2
      <4>3. i \in 1..(Len(parts) + 1) /\ Len(parts) \in Nat
        BY <1>3, <3>1
      <4> QED BY <4>1, <4>2, <4>3
    <3>2. CASE parts' = parts
      BY <1>13, <3>2
    <3> QED BY <1>12, <3>1, <3>2
  <2>2. PICK q : q = parts'
    OBVIOUS
  <2>3. ASSUME NEW i \in 1..Len(q) PROVE IsPart(b, q[i])'
    <3>1. PICK x : x = q[i]
      OBVIOUS
    <3>2. IsPart(b, x)
      BY <2>1, <2>2, <3>1
    <3>3. IsPart(b, x)'
      BY <1>1, <3>2, SameReport
    <3> QED BY <3>1, <3>3
  <2>4. PICK t : t = taken'
    OBVIOUS
  <2>5. t \in Text /\ t # <<>> /\ (t = <<next>> \/ t = more)
    BY <1>10, <1>12, <2>4
  <2>6. ASSUME NEW k \in 1..Len(t) PROVE t[k].block = b /\ IsLine(t[k])
    <3>1. CASE t = <<next>>
      BY <1>8, <2>6, <3>1
    <3>2. CASE t = more
      <4>1. k = Len(taken) + 1 \/ k \in 1..Len(taken)
        BY <1>3, <1>9, <2>6, <3>2 DEF Text
      <4>2. CASE k = Len(taken) + 1
        <5>1. t[k] = next
          BY <1>3, <1>8, <1>9, <3>2, <4>2, AppendProperties DEF Text
        <5> QED BY <1>8, <5>1
      <4>3. CASE k \in 1..Len(taken)
        <5>1. t[k] = taken[k]
          BY <1>3, <1>8, <1>9, <3>2, <4>3, AppendProperties DEF Text
        <5>2. taken # <<>>
          BY <4>3
        <5> QED BY <1>13, <1>14, <4>3, <5>1, <5>2
      <4> QED BY <4>1, <4>2, <4>3
    <3> QED BY <2>5, <3>1, <3>2
  <2>7. TextLen(RenderBlock(b, t)) <= Budget
    <3>1. TextLen(RenderBlock(b, <<next>>)) <= Budget
      <4>1. TextLen(RenderBlock(b, <<next>>)) = report[at].header + 1 + TextLen(<<next>>)
        BY <1>3, <1>4, <1>10, Rendered
      <4>2. TextLen(<<next>>) = next.len
        BY <1>8, ShortTexts
      <4> QED BY <1>8, <4>1, <4>2
    <3>2. ASSUME taken = <<>> PROVE more = <<next>>
      <4>1. <<>> \o <<next>> = <<next>>
        BY <1>8 DEF Text
      <4> QED BY <1>10, <3>2, <4>1
    <3>3. ASSUME ~(TextLen(RenderBlock(at, more)) > Budget) PROVE TextLen(RenderBlock(b, more)) <= Budget
      <4>1. PICK r : r = RenderBlock(at, more)
        OBVIOUS
      <4>2. TextLen(r) \in Nat
        BY <1>3, <1>10, <4>1, Rendered, ShortTexts
      <4> QED BY <1>4, <3>3, <4>1, <4>2, BudgetIsANumber
    <3> QED BY <1>12, <2>4, <3>1, <3>2, <3>3
  <2>8. IsPart(b, RenderBlock(b, t))
    BY <1>3, <1>4, <2>5, <2>6, <2>7, WholePart
  <2>9. IsPart(b, RenderBlock(b, t))'
    <3>1. PICK r : r = RenderBlock(b, t)
      OBVIOUS
    <3>2. IsPart(b, r)'
      BY <1>1, <2>8, <3>1, SameReport
    <3>3. RenderBlock(b, t)' = r
      BY <1>1, <3>1, SameReport
    <3> QED BY <3>2, <3>3
  <2>10. (TextLen(RenderBlock(at, Lines(at))) > Budget)'
    <3>1. PICK r : r = RenderBlock(at, Lines(at))
      OBVIOUS
    <3>2. RenderBlock(at, Lines(at))' = r
      BY <1>1, <3>1 DEF RenderBlock, Lines, Header, Line
    <3>3. TextLen(r) > Budget
      BY <1>13, <3>1
    <3>4. (TextLen(r) > Budget)'
      BY <3>3 DEF Budget
    <3> QED BY <3>2, <3>4
  <2> QED BY <1>1, <1>4, <2>2, <2>3, <2>4, <2>5, <2>6, <2>9, <2>10 DEF PartsFit
<1>19. BlocksArePlaced'
  <2>1. \A c : FitsAPage(c)' <=> FitsAPage(c)
    BY <1>1, SameReport
  <2> QED BY <1>1, <1>2, <1>15, <2>1 DEF BlocksArePlaced
<1>20. NothingIsMissing'
  <2>1. /\ Content(Sheets) = FirstLines(b - 1)
        /\ Content(parts) \o taken = SubSeq(lines, 1, line - 1)
    BY <1>1, <1>2, <1>4, <1>7 DEF NothingIsMissing
  <2>2. SubSeq(lines, 1, line) = SubSeq(lines, 1, line - 1) \o <<next>>
    <3>1. lines \in Seq(LineRecord) /\ 1 \in 1..Len(lines) /\ line \in 1..Len(lines)
      BY <1>8 DEF Text
    <3> QED BY <1>8, <3>1, SubSeqRecursiveSecond
  <2>3. Content(parts)' \o taken' = SubSeq(lines, 1, line)
    <3> DEFINE x == Content(parts)
    <3>1. x \in Text /\ taken \in Text /\ <<next>> \in Text /\ taken \o <<next>> \in Text
      BY <1>3, <1>10, LinesOfTexts DEF Text
    <3>2. (x \o taken) \o <<next>> = x \o (taken \o <<next>>)
      <4>1. Associate(x, taken, <<next>>)
        BY <3>1, TextsAssociate
      <4> QED BY <4>1 DEF Associate
    <3>3. CASE parts' = Append(parts, built) /\ taken' = <<next>>
      <4>1. Append(parts, built) = parts \o <<built>> /\ <<built>> \in Seq(Text)
        BY <1>3, <1>14, AppendIsConcat
      <4>2. Content(Append(parts, built)) = x \o Content(<<built>>)
        BY <1>3, <4>1, ContentJoined
      <4>3. Content(<<built>>) = taken
        BY <1>14, ContentOfOne
      <4>4. Content(parts)' = x \o taken
        BY <3>3, <4>2, <4>3
      <4> HIDE DEF x
      <4> QED BY <2>1, <2>2, <3>3, <4>4 DEF x
    <3>4. CASE parts' = parts /\ taken' = more
      <4>1. Content(parts)' = x
        BY <3>4
      <4> QED BY <1>10, <2>1, <2>2, <3>2, <3>4, <4>1
    <3> QED BY <1>12, <3>3, <3>4
  <2>4. PICK t : t = FirstLines(b - 1)
    OBVIOUS
  <2>5. FirstLines(b - 1)' = t /\ Lines(b)' = Lines(b)
    BY <1>1, <2>4, SameReport
  <2>6. (Content(Sheets) = FirstLines(at - 1))'
    BY <1>1, <1>4, <1>15, <2>1, <2>4, <2>5
  <2>7. (Content(parts) \o taken = SubSeq(Lines(at), 1, line - 1))'
    BY <1>1, <1>4, <1>7, <1>8, <2>3, <2>5
  <2> QED BY <1>1, <2>6, <2>7 DEF NothingIsMissing
<1> QED BY <1>15, <1>17, <1>18, <1>19, <1>20 DEF LaidOutInv

LEMMA SplitEndsKeeps ==
    ASSUME LaidOutInv, SplitEnds
    PROVE  LaidOutInv'
<1>1. /\ phase = "split" /\ line > Len(report[at].lines) /\ phase' = "place" /\ taken' = <<>>
      /\ parts' = (IF taken # <<>> THEN Append(parts, RenderBlock(at, taken)) ELSE parts)
      /\ report' = report /\ at' = at /\ line' = line /\ current' = current /\ pages' = pages
  BY DEF SplitEnds
<1>2. Progress /\ PartsFit /\ SheetsFit(Sheets) /\ BlocksArePlaced /\ SheetsAreFilled(Sheets) /\ NothingIsMissing
  BY <1>1 DEF LaidOutInv
<1>3. /\ report \in Reports /\ at \in 1..Len(report) /\ Len(report) \in Nat
      /\ parts \in Seq(Text) /\ taken \in Text /\ line \in 1..(Len(report[at].lines) + 1)
  BY <1>1, <1>2, ReportFacts DEF Progress
<1>4. PICK b : b = at
  OBVIOUS
<1>5. PICK n : n = Len(report[at].lines)
  OBVIOUS
<1>6. PICK built : built = RenderBlock(at, taken)
  OBVIOUS
<1>7. PICK lines : lines = Lines(at)
  OBVIOUS
<1>8. /\ n \in Nat /\ n # 0 /\ line = n + 1 /\ lines \in Text /\ Len(lines) = n
  <2>1. n \in Nat /\ lines \in Text /\ Len(lines) = n /\ lines # <<>>
    BY <1>3, <1>5, <1>7, BlockLines, TextLines
  <2>2. line = n + 1
    BY <1>1, <1>3, <1>5, <2>1
  <2>3. n # 0
    BY <2>1, EmptySeq DEF Text
  <2> QED BY <2>1, <2>2, <2>3
<1>9. /\ TextLen(RenderBlock(at, Lines(at))) > Budget
      /\ taken # <<>> /\ IsPart(b, built)
      /\ \A k \in 1..Len(taken) : IsLine(taken[k])
      /\ \A i \in 1..Len(parts) : IsPart(b, parts[i])
  BY <1>1, <1>2, <1>4, <1>6, <1>8 DEF PartsFit
<1>10. built \in Text /\ LinesOf(built) = taken /\ parts' = Append(parts, built)
  <2>1. built \in Text /\ LinesOf(built) = LinesOf(taken)
    BY <1>3, <1>6, Rendered
  <2>2. LinesOf(taken) = taken
    BY <1>3, <1>9, OnlyLines
  <2> QED BY <1>1, <1>6, <1>9, <2>1, <2>2
<1>11. Sheets' = Sheets /\ SheetsFit(Sheets)' /\ SheetsAreFilled(Sheets)'
  BY <1>1, <1>2, SheetsStand
<1>12. Progress'
  <2>1. parts' \in Seq(Text) /\ <<>> \in Text
    BY <1>3, <1>10 DEF Text
  <2> QED BY <1>1, <1>2, <1>3, <2>1 DEF Progress
<1>13. PartsFit'
  <2>1. PICK q : q = parts'
    OBVIOUS
  <2>2. ASSUME NEW i \in 1..Len(q) PROVE IsPart(b, q[i])'
    <3>1. PICK x : x = q[i]
      OBVIOUS
    <3>2. i \in 1..Len(parts) \/ i = Len(parts) + 1
      BY <1>3, <1>10, <2>1
    <3>3. IsPart(b, x)
      <4>1. CASE i = Len(parts) + 1
        BY <1>3, <1>9, <1>10, <2>1, <3>1, <4>1
      <4>2. CASE i \in 1..Len(parts)
        BY <1>3, <1>9, <1>10, <2>1, <3>1, <4>2
      <4> QED BY <3>2, <4>1, <4>2
    <3>4. IsPart(b, x)'
      BY <1>1, <3>3, SameReport
    <3> QED BY <3>1, <3>4
  <2> QED BY <1>1, <1>4, <2>1, <2>2 DEF PartsFit
<1>14. BlocksArePlaced'
  <2>1. \A c : FitsAPage(c)' <=> FitsAPage(c)
    BY <1>1, SameReport
  <2>2. ~FitsAPage(at)
    <3>1. PICK r : r = RenderBlock(at, Lines(at))
      OBVIOUS
    <3>2. TextLen(r) \in Nat
      BY <1>3, <1>7, <1>8, <3>1, Rendered, ShortTexts
    <3> QED BY <1>9, <3>1, <3>2, BudgetIsANumber DEF FitsAPage
  <2> QED BY <1>1, <1>2, <1>11, <2>1, <2>2 DEF BlocksArePlaced
<1>15. NothingIsMissing'
  <2>1. /\ Content(Sheets) = FirstLines(b - 1)
        /\ Content(parts) \o taken = SubSeq(lines, 1, line - 1)
    BY <1>1, <1>2, <1>4, <1>7 DEF NothingIsMissing
  <2>2. SubSeq(lines, 1, line - 1) = lines
    <3>1. line - 1 = Len(lines)
      BY <1>8
    <3> QED BY <1>8, <3>1, SubSeqFull DEF Text
  <2>3. Content(Append(parts, built)) = lines
    <3>1. Append(parts, built) = parts \o <<built>> /\ <<built>> \in Seq(Text)
      BY <1>3, <1>10, AppendIsConcat
    <3>2. Content(Append(parts, built)) = Content(parts) \o Content(<<built>>)
      BY <1>3, <3>1, ContentJoined
    <3> QED BY <1>10, <2>1, <2>2, <3>2, ContentOfOne
  <2>4. FirstLines(b) = FirstLines(b - 1) \o lines
    <3>1. b \in 0..Len(report) /\ b > 0
      BY <1>3, <1>4
    <3> QED BY <1>3, <1>4, <1>7, <3>1, FirstLinesGrow
  <2>5. FirstLines(b)' = FirstLines(b)
    BY <1>1, SameReport
  <2>6. Content(parts)' = lines /\ Content(Sheets)' = Content(Sheets)
    BY <1>10, <1>11, <2>3
  <2>7. (Content(Sheets) \o Content(parts) = FirstLines(at))'
    BY <1>1, <1>4, <2>1, <2>4, <2>5, <2>6
  <2> QED BY <1>1, <2>7 DEF NothingIsMissing
<1> QED BY <1>11, <1>12, <1>13, <1>14, <1>15 DEF LaidOutInv

-----------------------------------------------------------------------------
(* The messages: the pages, the last of them shortened for the notice. *)
LEMMA SuffixOfAppend ==
    ASSUME NEW s \in Text, NEW e \in LineRecord
    PROVE  IsSuffix(<<e>>, Append(s, e))
<1> DEFINE t == Append(s, e)
           n == Len(t)
<1>1. t \in Text /\ n \in Nat /\ n > 0 /\ t[n] = e
  BY AppendProperties DEF Text
<1> HIDE DEF t
<1>2. PICK r : r = Reverse(t)
  OBVIOUS
<1>3. r = [i \in 1..n |-> t[(n - i) + 1]]
  BY <1>2 DEF Reverse
<1>4. r \in Seq(LineRecord) /\ Len(r) = n /\ r[1] = e
  <2>1. \A i \in 1..n : (n - i) + 1 \in 1..n
    BY <1>1
  <2>2. \A i \in 1..n : t[(n - i) + 1] \in LineRecord
    BY <1>1, <2>1, TextLines
  <2>3. 1 \in 1..n /\ (n - 1) + 1 = n
    BY <1>1
  <2> HIDE DEF n
  <2> QED BY <1>1, <1>3, <2>2, <2>3
<1>5. PICK q : q = Reverse(<<e>>)
  OBVIOUS
<1>6. q = <<e>>
  BY <1>5 DEF Reverse
<1>7. Len(q) <= Len(r) /\ SubSeq(q, 1, Len(q)) = SubSeq(r, 1, Len(q))
  <2>1. Len(q) = 1 /\ q[1] = e /\ q \in Seq(LineRecord) /\ Len(r) \in Nat /\ Len(r) > 0
    BY <1>1, <1>4, <1>6
  <2>2. Len(SubSeq(q, 1, 1)) = 1 /\ Len(SubSeq(r, 1, 1)) = 1
        /\ SubSeq(q, 1, 1) \in Seq(LineRecord) /\ SubSeq(r, 1, 1) \in Seq(LineRecord)
        /\ SubSeq(q, 1, 1)[1] = e /\ SubSeq(r, 1, 1)[1] = e
    BY <1>4, <2>1
  <2>3. SubSeq(q, 1, 1) = SubSeq(r, 1, 1)
    BY <2>2, SeqEqual
  <2> QED BY <2>1, <2>3
<1> QED BY <1>2, <1>5, <1>7 DEF IsSuffix, IsPrefix, t

LEMMA NoticeFits ==
    ASSUME report \in Reports, NEW page, IsSheet(page), NEW dropped \in Nat,
           NEW w, w = WithNotice(page, dropped)
    PROVE  /\ w \in Text /\ TextLen(w) <= Budget /\ Headed(w)
           /\ IsSuffix(<<Notice(dropped)>>, w)
           /\ \E rest \in Text : LinesOf(page) = LinesOf(w) \o rest
<1> DEFINE enough == {n \in 2..Len(page) :
                         TextLen(SubSeq(page, 1, n)) + SeparatorLen + NoticeLen <= Budget}
           kept == CHOOSE n \in enough \cup {1} : \A m \in enough : m <= n
           size == Len(page)
<1>1. page \in Text /\ size \in Nat /\ size > 0 /\ Headed(page)
  BY DEF IsSheet, Text
<1>2. \E n \in enough \cup {1} : \A m \in enough : m <= n
  <2> DEFINE S == {size - m : m \in enough \cup {1}}
  <2>1. S \in SUBSET Nat /\ S # {}
    BY <1>1
  <2>2. PICK x \in S : \A y \in S : x <= y
    BY <2>1, LeastNumber
  <2>3. PICK n \in enough \cup {1} : x = size - n
    OBVIOUS
  <2>4. ASSUME NEW m \in enough PROVE m <= n
    <3>1. size - m \in S
      OBVIOUS
    <3>2. size - n <= size - m
      BY <2>2, <2>3, <3>1
    <3>3. m \in Nat /\ n \in Nat
      BY <1>1
    <3> QED BY <1>1, <3>2, <3>3
  <2> QED BY <2>4
<1>3. kept \in enough \cup {1}
  BY <1>2
<1>4. kept \in 1..size
  <2>1. \A n \in enough \cup {1} : n \in 1..size
    BY <1>1
  <2> HIDE DEF enough, kept
  <2> QED BY <1>3, <2>1
<1>5. PICK k : k = kept
  OBVIOUS
<1>6. k \in 1..size /\ (k = 1 \/ TextLen(SubSeq(page, 1, k)) + SeparatorLen + NoticeLen <= Budget)
  BY <1>3, <1>4, <1>5
<1>7. PICK notice : notice = Notice(dropped)
  OBVIOUS
<1>8. notice \in LineRecord /\ notice.len = NoticeLen /\ ~IsLine(notice)
  BY <1>7, LengthsAssumption DEF Notice, LineRecord, IsLine
<1>9. PICK s : s = SubSeq(page, 1, k)
  OBVIOUS
<1>10. w = s \o <<Blank, notice>>
  BY <1>5, <1>7, <1>9 DEF WithNotice
<1> HIDE DEF enough, kept
<1>11. s \in Text /\ Len(s) = k /\ k \in Nat /\ s # <<>> /\ s[1] = page[1]
  BY <1>1, <1>6, <1>9 DEF Text
<1>12. TextLen(s) \in Nat /\ TextLen(s) + SeparatorLen + NoticeLen <= Budget
  <2>1. TextLen(s) \in Nat
    BY <1>11, ShortTexts
  <2>2. CASE k = 1
    <3>1. PICK c \in 1..Len(report) : page[1] = Header(c)[1]
      BY ReportFacts DEF IsSheet
    <3>2. Header(c)[1] \in LineRecord /\ Header(c)[1].len = report[c].header
      BY BlockLines
    <3>3. s = <<page[1]>>
      BY <1>1, <1>11, <2>2 DEF Text
    <3>4. TextLen(s) = report[c].header
      BY <3>1, <3>2, <3>3, ShortTexts
    <3> QED BY <2>1, <3>4, ReportFacts
  <2> QED BY <1>6, <1>9, <2>1, <2>2
<1>13. PICK t : t = <<notice>>
  OBVIOUS
<1>14. t \in Text /\ t # <<>> /\ TextLen(t) = NoticeLen /\ LinesOf(t) = <<>> /\ Headed(t)
  <2>1. t \in Text /\ t # <<>> /\ TextLen(t) = NoticeLen /\ LinesOf(t) = <<>>
    BY <1>8, <1>13, ShortTexts, LinesOfOne DEF Text
  <2>2. Headed(t)
    BY <1>8, <1>13 DEF Headed
  <2> QED BY <2>1, <2>2
<1>15. w = s \o <<Blank>> \o t
  BY <1>8, <1>10, <1>11, <1>13, BlankLine DEF Text
<1>16. w \in Text /\ TextLen(w) = TextLen(s) + SeparatorLen + TextLen(t)
       /\ LinesOf(w) = LinesOf(s) \o LinesOf(t)
  BY <1>11, <1>14, <1>15, Stacked
<1>17. LinesOf(w) = LinesOf(s)
  <2>1. LinesOf(s) \o <<>> = LinesOf(s)
    BY <1>11, LinesJoined, ConcatEmptySeq DEF Text
  <2> QED BY <1>14, <1>16, <2>1
<1>18. Headed(w)
  <2>1. Headed(s)
    BY <1>1, <1>6, <1>9, HeadedBeginning
  <2> QED BY <1>11, <1>14, <1>15, <2>1, HeadedStacked
<1>19. IsSuffix(<<notice>>, w)
  <2>1. PICK sb : sb = s \o <<Blank>>
    OBVIOUS
  <2>2. sb \in Text
    BY <1>11, <2>1, BlankLine DEF Text
  <2>3. w = Append(sb, notice)
    BY <1>8, <1>13, <1>15, <2>1, <2>2, AppendIsConcat DEF Text
  <2> QED BY <1>8, <2>2, <2>3, SuffixOfAppend
<1>20. \E rest \in Text : LinesOf(page) = LinesOf(w) \o rest
  <2>1. PICK cut : cut = SubSeq(page, k + 1, size)
    OBVIOUS
  <2>2. page = s \o cut
    <3>1. page \in Seq(LineRecord) /\ 1 \in 1..(Len(page) + 1) /\ k \in (1 - 1)..Len(page)
          /\ size \in k..Len(page)
      BY <1>1, <1>6 DEF Text
    <3>2. SubSeq(page, 1, k) \o SubSeq(page, k + 1, size) = SubSeq(page, 1, size)
      BY <3>1, ConcatAdjacentSubSeq
    <3>3. SubSeq(page, 1, size) = page
      BY <3>1, SubSeqFull
    <3> QED BY <1>9, <2>1, <3>2, <3>3
  <2>3. cut \in Text
    BY <1>1, <1>6, <2>1 DEF Text
  <2>4. LinesOf(page) = LinesOf(s) \o LinesOf(cut) /\ LinesOf(cut) \in Text
    BY <1>11, <2>2, <2>3, LinesJoined
  <2> QED BY <1>17, <2>4
<1>21. TextLen(w) <= Budget
  BY <1>12, <1>14, <1>16
<1> QED BY <1>7, <1>16, <1>18, <1>19, <1>20, <1>21

LEMMA CappedPages ==
    ASSUME report \in Reports, NEW all \in Seq(Text), Len(all) > 0,
           \A p \in 1..Len(all) : Headed(all[p]) /\ TextLen(all[p]) <= Budget,
           Len(all) > 1 => \A p \in 1..Len(all) : IsSheet(all[p]),
           NEW res, res = Capped(all)
    PROVE  /\ res \in Seq(Text) /\ Len(res) \in 1..MaxPages
           /\ \A n \in 1..Len(res) : Headed(res[n]) /\ TextLen(res[n]) <= Budget
           /\ Len(all) <= MaxPages => res = all
           /\ Len(all) > MaxPages => IsSuffix(<<Notice(Len(all) - Len(res))>>, res[Len(res)])
           /\ \E rest \in Text : Content(all) = Content(res) \o rest
<1> DEFINE max == MaxPages
           size == Len(all)
<1>1. max \in Nat /\ max > 0 /\ size \in Nat
  BY PagesAssumption
<1>2. CASE size <= max
  <2>1. res = all
    BY <1>2 DEF Capped
  <2>2. Content(all) = Content(all) \o <<>> /\ <<>> \in Text
    BY LinesOfTexts, ConcatEmptySeq DEF Text
  <2>3. \E rest \in Text : Content(all) = Content(res) \o rest
    BY <2>1, <2>2
  <2>4. Len(res) \in 1..max
    BY <1>1, <1>2, <2>1
  <2>5. ~(size > max)
    BY <1>1, <1>2
  <2> QED BY <2>1, <2>3, <2>4, <2>5
<1>3. CASE ~(size <= max)
  <2>1. PICK page : page = all[max]
    OBVIOUS
  <2>2. max \in 1..size /\ size - max \in Nat /\ size > 1
    BY <1>1, <1>3
  <2>3. page \in Text /\ IsSheet(page)
    BY <2>1, <2>2
  <2>4. PICK w : w = WithNotice(page, size - max)
    OBVIOUS
  <2>5. PICK front : front = SubSeq(all, 1, max - 1)
    OBVIOUS
  <2>6. res = Append(front, w)
    BY <1>3, <2>1, <2>4, <2>5 DEF Capped, Dropped
  <2>7. /\ w \in Text /\ TextLen(w) <= Budget /\ Headed(w)
        /\ IsSuffix(<<Notice(size - max)>>, w)
        /\ \E rest \in Text : LinesOf(page) = LinesOf(w) \o rest
    BY <2>2, <2>3, <2>4, NoticeFits
  <2>8. front \in Seq(Text) /\ Len(front) = max - 1 /\ \A p \in 1..(max - 1) : front[p] = all[p]
    BY <1>1, <2>2, <2>5
  <2>9. res \in Seq(Text) /\ Len(res) = max /\ res[max] = w /\ \A p \in 1..(max - 1) : res[p] = all[p]
    <3>1. (max - 1) + 1 = max
      BY <1>1
    <3> HIDE DEF max
    <3> QED BY <2>6, <2>7, <2>8, <3>1, AppendProperties
  <2>10. ASSUME NEW n \in 1..Len(res) PROVE Headed(res[n]) /\ TextLen(res[n]) <= Budget
    <3>1. n = max \/ n \in 1..(max - 1)
      BY <1>1, <2>9
    <3>2. n \in 1..size
      BY <1>1, <1>3, <2>9
    <3>3. Headed(all[n]) /\ TextLen(all[n]) <= Budget
      BY <3>2
    <3>4. CASE n = max
      BY <2>7, <2>9, <3>4
    <3>5. CASE n \in 1..(max - 1)
      BY <2>9, <3>3, <3>5
    <3> QED BY <3>1, <3>4, <3>5
  <2>11. IsSuffix(<<Notice(size - Len(res))>>, res[Len(res)])
    BY <2>7, <2>9
  <2>12. \E rest \in Text : Content(all) = Content(res) \o rest
    <3>1. PICK more \in Text : LinesOf(page) = LinesOf(w) \o more
      BY <2>7
    <3>2. PICK tail : tail = SubSeq(all, max + 1, size)
      OBVIOUS
    <3>3. PICK begin : begin = SubSeq(all, 1, max)
      OBVIOUS
    <3>4. all = begin \o tail /\ begin = front \o <<page>>
      <4>1. SubSeq(all, 1, max) \o SubSeq(all, max + 1, size) = SubSeq(all, 1, size)
        <5>1. 1 \in 1..(Len(all) + 1) /\ max \in (1 - 1)..Len(all) /\ size \in max..Len(all)
          BY <1>1, <2>2
        <5> QED BY <5>1, ConcatAdjacentSubSeq
      <4>2. SubSeq(all, 1, size) = all
        BY SubSeqFull
      <4>3. SubSeq(all, 1, max) = SubSeq(all, 1, max - 1) \o <<all[max]>>
        <5>1. 1 \in 1..Len(all) /\ max \in 1..Len(all)
          BY <1>1, <2>2
        <5> QED BY <5>1, SubSeqRecursiveSecond
      <4> QED BY <2>1, <2>5, <3>2, <3>3, <4>1, <4>2, <4>3
    <3>5. tail \in Seq(Text) /\ begin \in Seq(Text) /\ <<page>> \in Seq(Text) /\ <<w>> \in Seq(Text)
      BY <1>1, <2>2, <2>3, <2>7, <3>2, <3>3
    <3>6. Content(all) = Content(begin) \o Content(tail)
      BY <3>4, <3>5, ContentJoined
    <3>7. Content(begin) = Content(front) \o LinesOf(page)
      <4>1. begin = front \o <<page>>
        BY <3>4
      <4>2. Content(front \o <<page>>) = Content(front) \o Content(<<page>>)
        BY <2>8, <3>5, ContentJoined
      <4>3. Content(<<page>>) = LinesOf(page)
        BY <2>3, ContentOfOne
      <4> QED BY <4>1, <4>2, <4>3
    <3>8. Content(res) = Content(front) \o LinesOf(w)
      <4>1. res = front \o <<w>>
        BY <2>6, <2>7, <2>8, AppendIsConcat
      <4> QED BY <2>7, <2>8, <3>5, <4>1, ContentJoined, ContentOfOne
    <3> DEFINE a == Content(front)
               b == LinesOf(w)
               d == Content(tail)
    <3>9. a \in Text /\ b \in Text /\ d \in Text
      BY <2>7, <2>8, <3>5, LinesJoined, LinesOfTexts
    <3> HIDE DEF a, b, d
    <3>10. (a \o (b \o more)) \o d = (a \o b) \o (more \o d)
      <4>1. Associate(a, b, more)
        BY <3>9, TextsAssociate
      <4>2. a \o b \in Text
        BY <3>9 DEF Text
      <4>3. Associate(a \o b, more, d)
        BY <3>9, <4>2, TextsAssociate
      <4> QED BY <4>1, <4>3 DEF Associate
    <3>11. more \o d \in Text
      BY <3>9 DEF Text
    <3>12. Content(all) = (a \o (b \o more)) \o d /\ Content(res) = a \o b
      BY <3>1, <3>6, <3>7, <3>8 DEF a, b, d
    <3>13. Content(all) = Content(res) \o (more \o d)
      BY <3>10, <3>12
    <3> QED BY <3>11, <3>13
  <2>13. Len(res) \in 1..max
    BY <1>1, <2>9
  <2> QED BY <1>3, <2>9, <2>10, <2>11, <2>12, <2>13
<1> QED BY <1>2, <1>3

-----------------------------------------------------------------------------
(* The last step makes the messages. *)
Promised ==
    /\ EveryMessageFits /\ NothingLostSilently /\ LinesKeepTheirHeader
    /\ BlocksStayWhole /\ PagesAreFilled

LEMMA FirstPartIsOne ==
    ASSUME NEW sheet \in Text, NEW m, NEW n, FirstPart(sheet, m), FirstPart(sheet, n)
    PROVE  m = n
<1>1. Len(sheet) \in Nat /\ m \in 1..Len(sheet) /\ n \in 1..Len(sheet)
  BY TextLines DEF FirstPart
<1>2. ASSUME m < n PROVE FALSE
  <2>1. m + 1 \in 1..n /\ m < Len(sheet)
    BY <1>1, <1>2
  <2> QED BY <2>1 DEF FirstPart
<1>3. ASSUME n < m PROVE FALSE
  <2>1. n + 1 \in 1..m /\ n < Len(sheet)
    BY <1>1, <1>3
  <2> QED BY <2>1 DEF FirstPart
<1> QED BY <1>1, <1>2, <1>3

LEMMA PrefixOfJoined ==
    ASSUME NEW s \in Text, NEW t \in Text
    PROVE  IsPrefix(s, s \o t)
<1>1. PICK st : st = s \o t
  OBVIOUS
<1> DEFINE n == Len(s)
<1>2. st \in Seq(LineRecord) /\ s \in Seq(LineRecord) /\ n \in Nat /\ Len(st) \in Nat /\ n <= Len(st)
      /\ \A i \in 1..n : st[i] = s[i]
  BY <1>1 DEF Text
<1> HIDE DEF n
<1>3. /\ SubSeq(s, 1, n) \in Seq(LineRecord) /\ SubSeq(st, 1, n) \in Seq(LineRecord)
      /\ Len(SubSeq(s, 1, n)) = n /\ Len(SubSeq(st, 1, n)) = n
      /\ \A i \in 1..n : SubSeq(s, 1, n)[i] = s[i]
      /\ \A i \in 1..n : SubSeq(st, 1, n)[i] = st[i]
  BY <1>2 DEF n
<1>4. SubSeq(s, 1, n) = SubSeq(st, 1, n)
  BY <1>2, <1>3, SeqEqual
<1> QED BY <1>1, <1>2, <1>4 DEF IsPrefix, n

LEMMA FinishKeeps ==
    ASSUME LaidOutInv, Finish
    PROVE  LaidOutInv' /\ Promised'
<1>1. /\ phase = "block" /\ at > Len(report) /\ phase' = "done"
      /\ pages' = LaidOut /\ result' = Capped(LaidOut)
      /\ report' = report /\ at' = at /\ line' = line /\ taken' = taken /\ parts' = parts
      /\ current' = <<>>
  BY DEF Finish
<1>2. Progress /\ SheetsFit(Sheets) /\ BlocksArePlaced /\ SheetsAreFilled(Sheets) /\ NothingIsMissing
  BY <1>1 DEF LaidOutInv
<1>3. /\ report \in Reports /\ Len(report) \in Nat /\ at = Len(report) + 1 /\ DOMAIN report = 1..Len(report)
  BY <1>1, <1>2, ReportFacts DEF Progress
<1>4. Sheets \in Seq(Text)
  BY <1>2 DEF Progress, Sheets, Flushed
<1>5. PICK all : all = LaidOut
  OBVIOUS
<1>6. PICK res : res = Capped(all)
  OBVIOUS
<1>7. Sheets # <<>> => all = Sheets
  BY <1>5 DEF LaidOut, Sheets
<1>8. Sheets = <<>> => all = <<<<>>>>
  BY <1>5 DEF LaidOut, Sheets
<1>9. <<>> \in Text /\ Headed(<<>>) /\ TextLen(<<>>) <= Budget
  BY LengthsAssumption, ShortTexts DEF Text, Headed
<1>10. /\ all \in Seq(Text) /\ Len(all) \in Nat /\ Len(all) > 0
       /\ \A p \in 1..Len(all) : Headed(all[p]) /\ TextLen(all[p]) <= Budget
       /\ Len(all) > 1 => Sheets # <<>> /\ \A p \in 1..Len(all) : IsSheet(all[p])
  <2>1. CASE Sheets = <<>>
    <3>1. all = <<<<>>>>
      BY <1>8, <2>1
    <3>2. all \in Seq(Text) /\ Len(all) = 1 /\ all[1] = <<>>
      BY <1>9, <3>1
    <3> QED BY <1>9, <3>2
  <2>2. CASE Sheets # <<>>
    <3>1. all = Sheets /\ all \in Seq(Text) /\ Len(all) \in Nat /\ Len(all) > 0
      BY <1>4, <1>7, <2>2
    <3>2. \A p \in 1..Len(all) : IsSheet(all[p])
      BY <1>2, <3>1 DEF SheetsFit
    <3>3. \A text : IsSheet(text) => Headed(text) /\ TextLen(text) <= Budget
      BY DEF IsSheet
    <3> QED BY <2>2, <3>1, <3>2, <3>3
  <2> QED BY <2>1, <2>2
<1>11. /\ res \in Seq(Text) /\ Len(res) \in 1..MaxPages
       /\ \A n \in 1..Len(res) : Headed(res[n]) /\ TextLen(res[n]) <= Budget
       /\ Len(all) <= MaxPages => res = all
       /\ Len(all) > MaxPages => IsSuffix(<<Notice(Len(all) - Len(res))>>, res[Len(res)])
       /\ \E rest \in Text : Content(all) = Content(res) \o rest
  BY <1>3, <1>6, <1>10, CappedPages
<1>12. pages' = all /\ result' = res
  BY <1>1, <1>5, <1>6
<1>13. Content(all) = AllLines
  <2>1. Content(Sheets) = FirstLines(Len(report))
    <3>1. at - 1 = Len(report)
      BY <1>3
    <3> QED BY <1>1, <1>2, <3>1 DEF NothingIsMissing
  <2>2. FirstLines(Len(report)) = AllLines
    <3>1. Len(report) \in 0..Len(report)
      BY <1>3
    <3> QED BY <1>3, <3>1, FirstLinesGrow
  <2>3. Content(all) = Content(Sheets)
    <3>1. Content(<<<<>>>>) = <<>> /\ Content(<<>>) = <<>>
      BY <1>9, ContentOfOne, LinesOfOne
    <3> QED BY <1>7, <1>8, <3>1
  <2> QED BY <2>1, <2>2, <2>3
<1>14. AllLines' = AllLines
  BY <1>1 DEF AllLines, Lines, Line
<1>15. EveryMessageFits'
  <2>1. ASSUME NEW n \in 1..Len(res) PROVE MessageLen(n)' <= Limit
    <3>1. PICK heading : heading = IF Len(res) > 1 THEN HeadingLen(n) ELSE TitleLen
      OBVIOUS
    <3>2. PICK len : len = TextLen(res[n])
      OBVIOUS
    <3>3. len \in Nat /\ len <= Budget
      BY <1>11, <2>1, <3>2, ShortTexts
    <3>4. MessageLen(n)' = heading + SeparatorLen + len
      BY <1>12, <3>1, <3>2 DEF MessageLen
    <3>5. heading \in Nat /\ heading <= HeadingLen(MaxPages)
      <4>1. n \in 1..MaxPages /\ MaxPages \in 1..MaxPages
        BY <1>11, PagesAssumption
      <4>2. HeadingLen(n) \in Nat /\ HeadingLen(n) <= HeadingLen(MaxPages)
        BY <4>1, BudgetIsANumber
      <4>3. TitleLen \in Nat /\ TitleLen <= HeadingLen(MaxPages)
        <5>1. Digits(MaxPages) \in Nat
          BY DEF Digits
        <5> QED BY <5>1, LengthsAssumption DEF HeadingLen
      <4> QED BY <3>1, <4>2, <4>3
    <3>6. HeadingLen(MaxPages) \in Nat
      BY PagesAssumption, BudgetIsANumber
    <3> QED BY <3>3, <3>4, <3>5, <3>6, LengthsAssumption DEF Budget, SeparatorLen
  <2>2. DOMAIN res = 1..Len(res)
    BY <1>11
  <2> QED BY <1>12, <2>1, <2>2 DEF EveryMessageFits
<1>16. NothingLostSilently'
  <2>1. PICK rest \in Text : AllLines = Content(res) \o rest
    BY <1>11, <1>13
  <2>2. IsPrefix(Content(res), AllLines)
    BY <1>11, <2>1, LinesOfTexts, PrefixOfJoined
  <2>3. Content(res) = AllLines \/ IsSuffix(<<Notice(Len(all) - Len(res))>>, Last(res))
    <3>1. MaxPages \in Nat
      BY PagesAssumption
    <3>2. Len(all) <= MaxPages \/ Len(all) > MaxPages
      BY <1>10, <3>1
    <3> QED BY <1>11, <1>13, <3>2 DEF Last
  <2>4. Len(all) <= MaxPages => Content(res) = AllLines
    BY <1>11, <1>13
  <2> QED BY <1>11, <1>12, <1>14, <2>2, <2>3, <2>4 DEF NothingLostSilently
<1>17. LinesKeepTheirHeader'
  <2>1. ASSUME NEW n \in 1..Len(res), NEW l \in 1..Len(res[n]), IsLine(res[n][l])
        PROVE  \E h \in 1..(l - 1) :
                  res[n][h].index = 0 /\ \A k \in h..l : res[n][k].block = res[n][l].block
    BY <1>11, <2>1 DEF Headed, UnderHeader
  <2>2. ASSUME NEW n \in DOMAIN res, NEW l \in DOMAIN res[n] PROVE n \in 1..Len(res) /\ l \in 1..Len(res[n])
    <3>1. n \in 1..Len(res)
      BY <1>11
    <3>2. PICK text \in Text : text = res[n]
      BY <1>11, <3>1
    <3>3. DOMAIN text = 1..Len(text)
      BY TextLines
    <3> QED BY <3>1, <3>2, <3>3
  <2> QED BY <1>12, <2>1, <2>2 DEF LinesKeepTheirHeader
<1>18. BlocksStayWhole'
  <2>1. ASSUME NEW b \in 1..Len(report), FitsAPage(b)
        PROVE  Cardinality(PagesOf(b)') = 1
    <3>1. b < at
      BY <1>3
    <3>2. OnePlace(b, Sheets)
      BY <1>2, <2>1, <3>1 DEF BlocksArePlaced
    <3>3. Sheets # <<>>
      BY <3>2 DEF OnePlace
    <3>4. PICK p \in 1..Len(all) : \A q \in 1..Len(all) : Stands(b, all[q]) <=> q = p
      BY <1>7, <3>2, <3>3 DEF OnePlace
    <3>5. PagesOf(b)' = {q \in 1..Len(all) : Stands(b, all[q])}
      <4>1. \A q \in 1..Len(all) : DOMAIN all[q] = 1..Len(all[q])
        BY <1>10, TextLines
      <4>2. DOMAIN all = 1..Len(all)
        BY <1>10
      <4> QED BY <1>12, <4>1, <4>2 DEF PagesOf, Stands
    <3>6. PagesOf(b)' = {p}
      BY <3>4, <3>5
    <3> QED BY <3>6, FS_Singleton
  <2>2. \A b : (TextLen(RenderBlock(b, Lines(b))) <= Budget)' <=> FitsAPage(b)
    <3>1. \A b : FitsAPage(b)' <=> FitsAPage(b)
      BY <1>1, SameReport
    <3> QED BY <3>1 DEF FitsAPage
  <2> QED BY <1>1, <1>3, <2>1, <2>2 DEF BlocksStayWhole
<1>19. PagesAreFilled'
  <2>1. ASSUME NEW p \in 1..(Len(all) - 1)
        PROVE  LET next == all[p + 1]
                   part == CHOOSE n \in 1..Len(next) :
                               /\ \A k \in 1..n : next[k].block = next[1].block
                               /\ n < Len(next) => next[n + 1].block # next[1].block
               IN  TextLen(all[p]) + SeparatorLen + TextLen(SubSeq(next, 1, part)) > Budget
    <3>1. Len(all) > 1 /\ p + 1 \in 1..Len(all)
      BY <1>10
    <3>2. FilledBefore(all[p], all[p + 1])
      BY <1>2, <1>7, <1>10, <3>1 DEF SheetsAreFilled
    <3>3. PICK next \in Text : next = all[p + 1]
      BY <1>10, <3>1
    <3>4. PICK n \in 1..Len(next) :
            /\ FirstPart(next, n)
            /\ TextLen(all[p]) + SeparatorLen + TextLen(SubSeq(next, 1, n)) > Budget
      BY <3>2, <3>3 DEF FilledBefore
    <3> DEFINE Is(i) == /\ \A k \in 1..i : next[k].block = next[1].block
                        /\ i < Len(next) => next[i + 1].block # next[1].block
               part == CHOOSE i \in 1..Len(next) : Is(i)
    <3>5. \A i \in 1..Len(next) : Is(i) <=> FirstPart(next, i)
      BY DEF FirstPart
    <3> HIDE DEF Is
    <3>6. part \in 1..Len(next) /\ Is(part)
      BY <3>4, <3>5
    <3>7. part = n
      <4> HIDE DEF part
      <4>1. FirstPart(next, part)
        BY <3>5, <3>6
      <4> QED BY <3>4, <4>1, FirstPartIsOne
    <3> QED BY <3>3, <3>4, <3>7 DEF Is
  <2> QED BY <1>12, <2>1 DEF PagesAreFilled
<1>20. LaidOutInv'
  <2>1. Progress'
    BY <1>1, <1>2, <1>9, <1>10, <1>12 DEF Progress
  <2> QED BY <1>1, <2>1 DEF LaidOutInv
<1> QED BY <1>15, <1>16, <1>17, <1>18, <1>19, <1>20 DEF Promised

PagesInv == LaidOutInv /\ Promised

LEMMA PagesInvariant == Spec => []PagesInv
<1>1. Init => PagesInv
  <2>1. Init => Promised
    BY DEF Init, Promised, EveryMessageFits, NothingLostSilently, LinesKeepTheirHeader,
           BlocksStayWhole, PagesAreFilled
  <2> QED BY <2>1, LaidOutAtFirst DEF PagesInv
<1>2. PagesInv /\ [Next]_vars => PagesInv'
  <2> SUFFICES ASSUME PagesInv, [Next]_vars PROVE PagesInv'
    OBVIOUS
  <2>1. LaidOutInv /\ Promised
    BY DEF PagesInv
  <2>2. phase' # "done" => Promised'
    BY DEF Promised, EveryMessageFits, NothingLostSilently, LinesKeepTheirHeader,
           BlocksStayWhole, PagesAreFilled
  <2>3. CASE TakeBlock
    <3>1. phase' # "done"
      BY <2>3 DEF TakeBlock
    <3> QED BY <2>1, <2>2, <2>3, <3>1, TakeBlockKeeps DEF PagesInv
  <2>4. CASE SplitLine
    <3>1. phase' # "done"
      BY <2>4 DEF SplitLine
    <3> QED BY <2>1, <2>2, <2>4, <3>1, SplitLineKeeps DEF PagesInv
  <2>5. CASE SplitEnds
    <3>1. phase' # "done"
      BY <2>5 DEF SplitEnds
    <3> QED BY <2>1, <2>2, <2>5, <3>1, SplitEndsKeeps DEF PagesInv
  <2>6. CASE Place
    <3>1. phase' # "done"
      BY <2>6 DEF Place
    <3> QED BY <2>1, <2>2, <2>6, <3>1, PlaceKeeps DEF PagesInv
  <2>7. CASE NextBlock
    <3>1. phase' # "done"
      BY <2>7 DEF NextBlock
    <3> QED BY <2>1, <2>2, <2>7, <3>1, NextBlockKeeps DEF PagesInv
  <2>8. CASE Finish
    BY <2>1, <2>8, FinishKeeps DEF PagesInv
  <2>9. CASE UNCHANGED vars
    <3>1. LaidOutInv'
      <4>1. Sheets' = Sheets /\ (SheetsFit(Sheets) => SheetsFit(Sheets)')
            /\ (SheetsAreFilled(Sheets) => SheetsAreFilled(Sheets)')
        BY <2>9, SheetsStand DEF vars
      <4>2. Progress'
        BY <2>1, <2>9 DEF LaidOutInv, Progress, vars
      <4>3. PartsFit => PartsFit'
        BY <2>9 DEF PartsFit, IsPart, RenderBlock, Header, Lines, Line, vars
      <4>4. BlocksArePlaced => BlocksArePlaced'
        <5>1. \A c : FitsAPage(c)' <=> FitsAPage(c)
          BY <2>9, SameReport DEF vars
        <5> QED BY <2>9, <4>1, <5>1 DEF BlocksArePlaced, vars
      <4>5. NothingIsMissing => NothingIsMissing'
        BY <2>9, <4>1 DEF NothingIsMissing, FirstLines, Lines, Line, vars
      <4> QED BY <2>1, <2>9, <4>1, <4>2, <4>3, <4>4, <4>5 DEF LaidOutInv, vars
    <3>2. Promised'
      <4>1. Promised
        BY <2>1
      <4> QED BY <2>9, <4>1 DEF vars, Promised, EveryMessageFits, MessageLen, NothingLostSilently,
                 AllLines, LinesKeepTheirHeader, BlocksStayWhole, RenderBlock, Header, Lines, Line,
                 PagesOf, PagesAreFilled
    <3> QED BY <3>1, <3>2 DEF PagesInv
  <2> QED BY <2>3, <2>4, <2>5, <2>6, <2>7, <2>8, <2>9 DEF Next, Terminating
<1> QED BY <1>1, <1>2, PTL DEF Spec

(* No message is longer than Telegram accepts, with its heading, whatever    *)
(* its number, and with the notice on it: splitBlock and place never build   *)
(* more than the budget, and the heading of the last page is the longest.    *)
THEOREM MessagesFit == Spec => []EveryMessageFits
<1>1. PagesInv => EveryMessageFits
  BY DEF PagesInv, Promised
<1> QED BY <1>1, PagesInvariant, PTL

(* The messages hold every line of the report once and in order; what the    *)
(* cap cuts off is an end of it, and the last message says how many pages    *)
(* are missing.                                                              *)
THEOREM LinesAreNotLost == Spec => []NothingLostSilently
<1>1. PagesInv => NothingLostSilently
  BY DEF PagesInv, Promised
<1> QED BY <1>1, PagesInvariant, PTL

(* Every line stands on its message under the header of its own block, also  *)
(* where splitBlock continued the block on the next message.                 *)
THEOREM LinesStandUnderHeaders == Spec => []LinesKeepTheirHeader
<1>1. PagesInv => LinesKeepTheirHeader
  BY DEF PagesInv, Promised
<1> QED BY <1>1, PagesInvariant, PTL

(* A block that fits a page is on one page. *)
THEOREM ShortBlocksStayWhole == Spec => []BlocksStayWhole
<1>1. PagesInv => BlocksStayWhole
  BY DEF PagesInv, Promised
<1> QED BY <1>1, PagesInvariant, PTL

(* A page ends only where the next part did not fit on it any more. *)
THEOREM NoPageEndsEarly == Spec => []PagesAreFilled
<1>1. PagesInv => PagesAreFilled
  BY DEF PagesInv, Promised
<1> QED BY <1>1, PagesInvariant, PTL
=============================================================================
