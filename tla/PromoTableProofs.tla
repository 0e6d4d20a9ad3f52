-------------------------- MODULE PromoTableProofs --------------------------
(***************************************************************************)
(* What an admin sees of the promo table is right, for any table, page size *)
(* and number of presses that are served at once.  ORDER BY allows only one *)
(* sequence of the matching codes, since code breaks every tie; a list      *)
(* shows one page of that sequence, for some state of the table; so a       *)
(* code's place is the number of codes before it, and the pages that an     *)
(* admin goes through follow on each other.                                 *)
(***************************************************************************)
EXTENDS PromoTable, FiniteSetTheorems, SequenceTheorems, TLAPS

-----------------------------------------------------------------------------
(* Keys are numbers, and Precedes is a strict total order of the codes.      *)
LEMMA KeysAreNumbers ==
    ASSUME NEW table \in Table, NEW sort \in Sorts, NEW c \in Codes, table[c] # None
    PROVE  c \in Nat /\ Key(table, c, sort) \in Nat
<1>1. table[c] \in [Columns -> Values]
    BY DEF Table
<1>2. Codes \subseteq Nat /\ Values \subseteq Nat
    BY PromoTableAssumption
<1> QED BY <1>1, <1>2 DEF Key, Sorts

LEMMA PrecedesIsAnOrder ==
    ASSUME NEW table \in Table, NEW b \in Button,
           NEW c \in Matching(table, b.filtered), NEW d \in Matching(table, b.filtered)
    PROVE  /\ ~(Precedes(table, b, c, d) /\ Precedes(table, b, d, c))
           /\ c # d => Precedes(table, b, c, d) \/ Precedes(table, b, d, c)
<1>1. b.sort \in Sorts /\ b.descending \in BOOLEAN
    BY DEF Button
<1>2. /\ c \in Nat /\ Key(table, c, b.sort) \in Nat
      /\ d \in Nat /\ Key(table, d, b.sort) \in Nat
    BY <1>1, KeysAreNumbers DEF Matching
<1> QED BY <1>2 DEF Precedes, InSortOrder

(* What ORDER BY returns has every matching code once, in order. *)
Listing(table, b, s) ==
    /\ IsFiniteSet(Matching(table, b.filtered))
    /\ s \in Seq(Matching(table, b.filtered))
    /\ Len(s) = Cardinality(Matching(table, b.filtered))
    /\ Len(s) \in Nat /\ DOMAIN s = 1..Len(s)
    /\ \A i, j \in 1..Len(s) : s[i] = s[j] => i = j
    /\ \A i, j \in 1..Len(s) : i < j => Precedes(table, b, s[i], s[j])
    /\ \A c \in Matching(table, b.filtered) : \E i \in 1..Len(s) : s[i] = c

LEMMA OrderingsAreComplete ==
    ASSUME NEW table \in Table, NEW b \in Button, NEW s \in Orderings(table, b)
    PROVE  Listing(table, b, s)
<1> DEFINE M == Matching(table, b.filtered)
           n == Cardinality(M)
<1>1. IsFiniteSet(M)
    <2>1. M \in SUBSET Codes
        BY DEF Matching
    <2> QED BY <2>1, FS_Subset, PromoTableAssumption
<1>2. n \in Nat
    BY <1>1, FS_CardinalityType
<1>3. s \in [1..n -> M] /\ \A i, j \in 1..n : i # j => s[i] # s[j]
    BY DEF Orderings, SetToSeqs
<1> HIDE DEF M, n
<1>4. s \in Seq(M) /\ Len(s) = n /\ DOMAIN s = 1..n
    BY <1>2, <1>3
<1>5. s \in Injection(1..n, M)
    BY <1>3 DEF Injection, IsInjective
<1>6. Cardinality(1..n) = n
    BY <1>2, FS_Interval
<1>7. s \in Surjection(1..n, M)
    BY <1>1, <1>5, <1>6, FS_Injection DEF n
<1>8. \A c \in M : \E i \in 1..n : s[i] = c
    BY <1>7 DEF Surjection
<1>9. \A i, j \in 1..n : i < j => Precedes(table, b, s[i], s[j])
    BY <1>4 DEF Orderings
<1> QED BY <1>1, <1>2, <1>3, <1>4, <1>8, <1>9 DEF M, n, Listing

(* A code's place is one more than the number of codes before it. *)
LEMMA PlaceIsRank ==
    ASSUME NEW table \in Table, NEW b \in Button, NEW s \in Orderings(table, b),
           NEW k \in 1..Len(s)
    PROVE  k = 1 + Cardinality({c \in Matching(table, b.filtered) : Precedes(table, b, c, s[k])})
<1> DEFINE M == Matching(table, b.filtered)
           before == {c \in M : Precedes(table, b, c, s[k])}
<1>0. Listing(table, b, s)
    BY OrderingsAreComplete
<1>1. /\ IsFiniteSet(M) /\ s \in Seq(M) /\ Len(s) \in Nat /\ DOMAIN s = 1..Len(s)
      /\ \A i, j \in 1..Len(s) : s[i] = s[j] => i = j
      /\ \A i, j \in 1..Len(s) : i < j => Precedes(table, b, s[i], s[j])
      /\ \A c \in M : \E i \in 1..Len(s) : s[i] = c
    BY <1>0 DEF Listing
<1>2. \A i \in 1..Len(s) : s[i] \in M
    BY <1>1
<1>3. \A i \in 1..Len(s) : Precedes(table, b, s[i], s[k]) <=> i < k
    <2> SUFFICES ASSUME NEW i \in 1..Len(s)
                 PROVE  Precedes(table, b, s[i], s[k]) <=> i < k
        OBVIOUS
    <2>1. i \in Nat /\ k \in Nat
        BY <1>1
    <2>2. CASE i < k
        BY <1>1, <2>2
    <2>3. CASE k < i
        <3>1. Precedes(table, b, s[k], s[i])
            BY <1>1, <2>3
        <3> QED BY <1>2, <2>1, <2>3, <3>1, PrecedesIsAnOrder
    <2>4. CASE i = k
        BY <1>2, <2>1, <2>4, PrecedesIsAnOrder
    <2> QED BY <2>1, <2>2, <2>3, <2>4
<1> HIDE DEF M
<1> DEFINE f == [i \in 1..(k - 1) |-> s[i]]
<1>4. 1..(k - 1) \subseteq 1..Len(s) /\ \A i \in 1..(k - 1) : i < k
    BY <1>1
<1>5. f \in [1..(k - 1) -> before]
    BY <1>2, <1>3, <1>4
<1>6. \A i, j \in 1..(k - 1) : f[i] = f[j] => i = j
    BY <1>1, <1>4
<1>7. ASSUME NEW c \in before
      PROVE  \E i \in 1..(k - 1) : f[i] = c
    <2>1. PICK i \in 1..Len(s) : s[i] = c
        BY <1>1
    <2>2. i < k
        BY <1>3, <2>1
    <2>3. i \in 1..(k - 1)
        BY <1>1, <2>2
    <2> QED BY <2>1, <2>3
<1>8. f \in Bijection(1..(k - 1), before)
    <2>1. DOMAIN f = 1..(k - 1)
        OBVIOUS
    <2> HIDE DEF f, before
    <2>2. f \in Injection(1..(k - 1), before)
        BY <1>5, <1>6, <2>1 DEF Injection, IsInjective
    <2>3. f \in Surjection(1..(k - 1), before)
        BY <1>5, <1>7 DEF Surjection
    <2> QED BY <2>2, <2>3 DEF Bijection
<1> HIDE DEF f, before
<1>9. k \in Nat /\ k >= 1 /\ IsFiniteSet(1..(k - 1)) /\ Cardinality(1..(k - 1)) = k - 1
    <2>1. k \in Nat /\ k >= 1
        BY <1>1
    <2> QED BY <2>1, FS_Interval
<1>10. Cardinality(before) = k - 1
    BY <1>8, <1>9, FS_Bijection DEF ExistsBijection
<1> QED BY <1>9, <1>10 DEF before, M

(* There is one ordering for all pages of a list. *)
LEMMA OrderingIsUnique ==
    ASSUME NEW table \in Table, NEW a \in Button, NEW b \in Button,
           a.sort = b.sort, a.descending = b.descending, a.filtered = b.filtered,
           NEW s \in Orderings(table, a), NEW t \in Orderings(table, b)
    PROVE  s = t
<1>1. Orderings(table, a) = Orderings(table, b)
    BY DEF Orderings, Precedes, InSortOrder
<1>0. Listing(table, b, s) /\ Listing(table, b, t)
    BY <1>1, OrderingsAreComplete
<1> DEFINE M == Matching(table, b.filtered)
<1>2. /\ s \in Seq(M) /\ t \in Seq(M) /\ Len(s) = Len(t) /\ Len(s) \in Nat
      /\ DOMAIN s = 1..Len(s) /\ DOMAIN t = 1..Len(s)
    BY <1>0 DEF Listing
<1>3. \A c \in M : \E i \in 1..Len(s) : t[i] = c
    BY <1>0, <1>2 DEF Listing
<1>4. ASSUME NEW i \in 1..Len(s)
      PROVE  s[i] = t[i]
    <2>1. s[i] \in M
        BY <1>2
    <2>2. PICK j \in 1..Len(s) : t[j] = s[i]
        BY <1>3, <2>1
    <2>3. i = 1 + Cardinality({c \in M : Precedes(table, b, c, s[i])})
        BY <1>1, PlaceIsRank
    <2>4. j = 1 + Cardinality({c \in M : Precedes(table, b, c, t[j])})
        BY <1>2, PlaceIsRank
    <2>5. i = j
        BY <2>2, <2>3, <2>4
    <2> QED BY <2>2, <2>5
<1> HIDE DEF M
<1> QED BY <1>2, <1>4, SeqEqual

-----------------------------------------------------------------------------
(* PagesOf rounds up: the last page is not empty, and nothing is behind it.  *)
LEMMA PagesRoundUp ==
    ASSUME NEW n \in Nat
    PROVE  /\ PagesOf(n) \in Int
           /\ (PagesOf(n) - 1) * PageSize < n
           /\ n <= PagesOf(n) * PageSize
<1> DEFINE p == PagesOf(n)
<1>1. PageSize \in Nat /\ PageSize > 0
    BY PromoTableAssumption
<1>2. \A m, d \in Int : d > 0 => /\ m \div d \in Int /\ d * (m \div d) <= m
                                /\ m < d * (m \div d + 1)
    OBVIOUS
<1>3. /\ p \in Int /\ PageSize * p <= n + PageSize - 1
      /\ n + PageSize - 1 < PageSize * (p + 1)
    BY <1>1, <1>2 DEF PagesOf
<1> HIDE DEF p
<1>4. /\ PageSize * p \in Int /\ PageSize * p = p * PageSize
      /\ (p - 1) * PageSize = PageSize * p - PageSize
      /\ PageSize * (p + 1) = PageSize * p + PageSize
    BY <1>1, <1>3
<1>5. (p - 1) * PageSize < n /\ n <= p * PageSize
    BY <1>1, <1>3, <1>4
<1> QED BY <1>3, <1>5 DEF p

LEMMA PagesAreInOrder ==
    ASSUME NEW p \in Int, NEW q \in Int
    PROVE  p * PageSize < q * PageSize <=> p < q
<1>1. PageSize \in Nat /\ PageSize > 0
    BY PromoTableAssumption
<1>2. p < q => p * PageSize < q * PageSize
    BY <1>1
<1>3. q <= p => q * PageSize <= p * PageSize
    BY <1>1
<1>4. p * PageSize \in Int /\ q * PageSize \in Int
    BY <1>1
<1> QED BY <1>2, <1>3, <1>4

(* A page within a list of n codes that begins before their end. *)
LEMMA PageBounds ==
    ASSUME NEW b \in Button, NEW n \in Nat, Offset(b) < n
    PROVE  /\ Offset(b) \in Nat /\ PagesOf(n) \in Int /\ b.page < PagesOf(n)
           /\ Offset(b) + PageSize < n <=> b.page + 1 < PagesOf(n)
           /\ b.page + 1 < PagesOf(n) => Offset(b) + PageSize < n
<1>1. PageSize \in Nat /\ PageSize > 0 /\ b.page \in Nat
    BY PromoTableAssumption DEF Button
<1>2. Offset(b) = b.page * PageSize /\ Offset(b) \in Nat
      /\ (b.page + 1) * PageSize = Offset(b) + PageSize
    BY <1>1 DEF Offset
<1>3. /\ PagesOf(n) \in Int /\ (PagesOf(n) - 1) * PageSize < n
      /\ n <= PagesOf(n) * PageSize
    BY PagesRoundUp
<1>4. b.page < PagesOf(n)
    <2>1. b.page * PageSize < PagesOf(n) * PageSize
        <3>1. PagesOf(n) * PageSize \in Int
            BY <1>1, <1>3
        <3> QED BY <1>2, <1>3, <3>1
    <2> QED BY <1>1, <1>3, <2>1, PagesAreInOrder
<1>5. Offset(b) + PageSize < n => b.page + 1 < PagesOf(n)
    <2> SUFFICES ASSUME Offset(b) + PageSize < n PROVE b.page + 1 < PagesOf(n)
        OBVIOUS
    <2>1. (b.page + 1) * PageSize < PagesOf(n) * PageSize
        <3>1. PagesOf(n) * PageSize \in Int
            BY <1>1, <1>3
        <3> QED BY <1>1, <1>2, <1>3, <3>1
    <2>2. b.page + 1 \in Int
        BY <1>1
    <2> QED BY <1>3, <2>1, <2>2, PagesAreInOrder
<1>6. b.page + 1 < PagesOf(n) => Offset(b) + PageSize < n
    <2> SUFFICES ASSUME b.page + 1 < PagesOf(n) PROVE Offset(b) + PageSize < n
        OBVIOUS
    <2>1. b.page + 1 \in Int /\ PagesOf(n) - 1 \in Int /\ b.page + 1 <= PagesOf(n) - 1
        BY <1>1, <1>3
    <2>2. ~((PagesOf(n) - 1) * PageSize < (b.page + 1) * PageSize)
        BY <2>1, PagesAreInOrder
    <2>3. (PagesOf(n) - 1) * PageSize \in Int
        BY <1>1, <2>1
    <2> QED BY <1>1, <1>2, <1>3, <2>2, <2>3
<1> QED BY <1>2, <1>3, <1>4, <1>5, <1>6

(* The rows LIMIT and OFFSET leave. *)
LEMMA SliceIsPart ==
    ASSUME NEW S, NEW s \in Seq(S), NEW offset \in Nat
    PROVE  /\ Slice(s, offset) \in Seq(S)
           /\ Slice(s, offset) # <<>> <=> offset < Len(s)
           /\ offset < Len(s) =>
                  Len(Slice(s, offset)) = IF offset + PageSize < Len(s) THEN PageSize
                                          ELSE Len(s) - offset
           /\ \A i \in DOMAIN Slice(s, offset) :
                  offset + i \in 1..Len(s) /\ Slice(s, offset)[i] = s[offset + i]
<1> DEFINE end == IF offset + PageSize < Len(s) THEN offset + PageSize ELSE Len(s)
<1>1. PageSize \in Nat /\ PageSize > 0 /\ Len(s) \in Nat /\ end \in Nat /\ end <= Len(s)
    BY PromoTableAssumption
<1>2. Slice(s, offset) = SubSeq(s, offset + 1, end)
    BY DEF Slice
<1>3. offset < Len(s) <=> offset + 1 <= end
    BY <1>1
<1>4. offset < Len(s) => end - offset = IF offset + PageSize < Len(s) THEN PageSize
                                        ELSE Len(s) - offset
    BY <1>1
<1>5. \A i \in (offset + 1)..end : s[i] \in S
    BY <1>1
<1> HIDE DEF end
<1>6. /\ SubSeq(s, offset + 1, end) \in Seq(S)
      /\ Len(SubSeq(s, offset + 1, end)) = IF offset + 1 <= end THEN end - (offset + 1) + 1 ELSE 0
      /\ \A i \in 1..(end - (offset + 1) + 1) :
             SubSeq(s, offset + 1, end)[i] = s[offset + 1 + i - 1]
    BY <1>1, <1>5, SubSeqProperties
<1>7. Len(Slice(s, offset)) = IF offset + 1 <= end THEN end - offset ELSE 0
    BY <1>1, <1>2, <1>6
<1>8. Slice(s, offset) # <<>> <=> offset < Len(s)
    <2>1. Slice(s, offset) \in Seq(S)
        BY <1>2, <1>6
    <2>2. Slice(s, offset) = <<>> <=> Len(Slice(s, offset)) = 0
        BY <2>1
    <2>3. offset + 1 <= end => end - offset > 0
        BY <1>1
    <2> QED BY <1>1, <1>3, <1>7, <2>2, <2>3
<1>9. ASSUME NEW i \in DOMAIN Slice(s, offset)
      PROVE  offset + i \in 1..Len(s) /\ Slice(s, offset)[i] = s[offset + i]
    <2>1. i \in 1..Len(Slice(s, offset))
        BY <1>2, <1>6
    <2>2. i \in 1..(end - offset) /\ offset + i \in 1..Len(s)
        BY <1>1, <1>7, <2>1
    <2>3. end - (offset + 1) + 1 = end - offset /\ offset + 1 + i - 1 = offset + i
        BY <1>1, <2>2
    <2> QED BY <1>2, <1>6, <2>2, <2>3
<1> QED BY <1>2, <1>3, <1>4, <1>6, <1>7, <1>8, <1>9

-----------------------------------------------------------------------------
(* A list is one page of the ordering of some state of the table. *)
ListOf(table, b, s) ==
    [kind |-> "list", at |-> b, items |-> Slice(s, Offset(b)),
     first |-> Offset(b) + 1, pages |-> PagesOf(Len(s)), total |-> Len(s),
     buttons |-> SortButtons(b) \cup Navigation(b, PagesOf(Len(s))),
     asOf |-> table]

IsPage(v, table, b, s) ==
    /\ s \in Orderings(table, b)
    /\ Offset(b) < Len(s)
    /\ v = ListOf(table, b, s)

View(v) ==
    \/ v = EmptyList
    \/ \E table \in Table, b \in Button : \E s \in Orderings(table, b) : IsPage(v, table, b, s)

(* What renderPage returns, but for errInvalidPromoPage. *)
LEMMA ViewsAreViews ==
    ASSUME rows \in Table, NEW b \in Button, NEW v \in Views(b) \ {Expired}
    PROVE  \/ v = EmptyList
           \/ \E s \in Orderings(rows, b) : IsPage(v, rows, b, s)
<1>1. PICK s \in Orderings(rows, b) :
          v = IF TotalOf(s, Offset(b)) = 0 THEN EmptyList
              ELSE IF b.page >= PagesOf(TotalOf(s, Offset(b))) THEN Expired
              ELSE ListView(b, s)
    BY DEF Views
<1>2. Listing(rows, b, s)
    BY OrderingsAreComplete
<1>3. s \in Seq(Matching(rows, b.filtered)) /\ Len(s) \in Nat
    BY <1>2 DEF Listing
<1>4. Offset(b) \in Nat
    BY PromoTableAssumption DEF Button, Offset
<1>5. Slice(s, Offset(b)) # <<>> <=> Offset(b) < Len(s)
    BY <1>3, <1>4, SliceIsPart
<1>6. CASE Slice(s, Offset(b)) = <<>>
    BY <1>1, <1>6 DEF TotalOf
<1>7. CASE Slice(s, Offset(b)) # <<>>
    <2>1. v = ListView(b, s)
        <3>1. TotalOf(s, Offset(b)) = Len(s) /\ Len(s) # 0
            BY <1>3, <1>4, <1>5, <1>7 DEF TotalOf
        <3>2. v # Expired
            OBVIOUS
        <3> QED BY <1>1, <3>1, <3>2
    <2>2. ListView(b, s) = ListOf(rows, b, s)
        BY DEF ListView, ListOf
    <2> QED BY <1>5, <1>7, <2>1, <2>2 DEF IsPage
<1> QED BY <1>6, <1>7

(* The fields of a list. *)
LEMMA PageFields ==
    ASSUME NEW table, NEW b, NEW s
    PROVE  LET v == ListOf(table, b, s)
           IN  /\ v.kind = "list" /\ v.at = b /\ v.items = Slice(s, Offset(b))
               /\ v.first = Offset(b) + 1 /\ v.pages = PagesOf(Len(s)) /\ v.total = Len(s)
               /\ v.buttons = SortButtons(b) \cup Navigation(b, PagesOf(Len(s)))
               /\ v.asOf = table
BY DEF ListOf

LEMMA PagesAreLists ==
    ASSUME NEW v, NEW table, NEW b, NEW s, IsPage(v, table, b, s)
    PROVE  /\ v.kind = "list" /\ v.at = b /\ v.items = Slice(s, Offset(b))
           /\ v.first = Offset(b) + 1 /\ v.pages = PagesOf(Len(s)) /\ v.total = Len(s)
           /\ v.buttons = SortButtons(b) \cup Navigation(b, PagesOf(Len(s)))
           /\ v.asOf = table
BY PageFields DEF IsPage

LEMMA ListsArePages ==
    ASSUME NEW v, View(v), v.kind = "list"
    PROVE  \E table \in Table, b \in Button : \E s \in Orderings(table, b) : IsPage(v, table, b, s)
BY DEF View, EmptyList

(* A button keeps to the words of the list it is under. *)
LEMMA ButtonsAreButtons ==
    ASSUME NEW v, View(v), v.kind = "list", NEW a \in v.buttons
    PROVE  a \in Button /\ a.filtered = v.at.filtered
<1>1. PICK table \in Table, b \in Button : \E s \in Orderings(table, b) : IsPage(v, table, b, s)
    BY ListsArePages
<1>2. PICK s \in Orderings(table, b) : IsPage(v, table, b, s)
    BY <1>1
<1>3. v.at = b /\ a \in SortButtons(b) \cup Navigation(b, PagesOf(Len(s)))
    BY <1>2, PagesAreLists
<1>4. CASE a \in SortButtons(b)
    <2>1. PICK sort \in Sorts :
              a = [page |-> 0, sort |-> sort, filtered |-> b.filtered,
                   descending |-> (sort = b.sort /\ ~b.descending)]
        BY <1>4 DEF SortButtons
    <2>2. b.filtered \in BOOLEAN /\ (sort = b.sort /\ ~b.descending) \in BOOLEAN /\ 0 \in Nat
        BY DEF Button
    <2> QED BY <1>3, <2>1, <2>2 DEF Button
<1>5. CASE a \in Navigation(b, PagesOf(Len(s)))
    <2>1. PICK p \in {q \in {b.page - 1, b.page + 1} : 0 <= q /\ q < PagesOf(Len(s))} :
              a = [b EXCEPT !.page = p]
        BY <1>5 DEF Navigation
    <2>2. p \in Nat
        BY <2>1 DEF Button
    <2> QED BY <1>3, <2>1, <2>2 DEF Button
<1> QED BY <1>3, <1>4, <1>5

-----------------------------------------------------------------------------
(* What is said of one list. *)
PlacesRight(v) ==
    LET matching == Matching(v.asOf, v.at.filtered)
    IN  /\ v.total = Cardinality(matching)
        /\ \A i \in DOMAIN v.items :
              v.first + i - 1 =
                  1 + Cardinality({c \in matching : Precedes(v.asOf, v.at, c, v.items[i])})
        /\ Len(v.items) = PageSize \/ v.at.page + 1 = v.pages

ButtonsRight(v) ==
    LET pages == PagesOf(Cardinality(Matching(v.asOf, v.at.filtered)))
    IN  /\ \A b \in v.buttons : b.page \in 0..(pages - 1)
        /\ \A p \in 0..(pages - 1) : p \in {v.at.page - 1, v.at.page + 1} =>
               \E b \in v.buttons : b = [v.at EXCEPT !.page = p]

LEMMA ListPlaces ==
    ASSUME NEW v, View(v), v.kind = "list"
    PROVE  PlacesRight(v)
<1>1. PICK table \in Table, b \in Button : \E s \in Orderings(table, b) : IsPage(v, table, b, s)
    BY ListsArePages
<1>2. PICK s \in Orderings(table, b) : IsPage(v, table, b, s)
    BY <1>1
<1>3. /\ v.at = b /\ v.items = Slice(s, Offset(b)) /\ v.first = Offset(b) + 1
      /\ v.pages = PagesOf(Len(s)) /\ v.total = Len(s) /\ v.asOf = table
    BY <1>2, PagesAreLists
<1>4. Offset(b) < Len(s)
    BY <1>2 DEF IsPage
<1>5. Listing(table, b, s)
    BY OrderingsAreComplete
<1> DEFINE M == Matching(table, b.filtered)
<1>6. s \in Seq(M) /\ Len(s) = Cardinality(M) /\ Len(s) \in Nat
    BY <1>5 DEF Listing
<1>7. /\ Offset(b) \in Nat /\ PagesOf(Len(s)) \in Int /\ b.page < PagesOf(Len(s))
      /\ b.page + 1 < PagesOf(Len(s)) => Offset(b) + PageSize < Len(s)
    BY <1>4, <1>6, PageBounds
<1>8. /\ Slice(s, Offset(b)) \in Seq(M)
      /\ Len(Slice(s, Offset(b))) = IF Offset(b) + PageSize < Len(s) THEN PageSize
                                    ELSE Len(s) - Offset(b)
      /\ \A i \in DOMAIN Slice(s, Offset(b)) :
             Offset(b) + i \in 1..Len(s) /\ Slice(s, Offset(b))[i] = s[Offset(b) + i]
    BY <1>4, <1>6, <1>7, SliceIsPart
<1>9. ASSUME NEW i \in DOMAIN Slice(s, Offset(b))
      PROVE  Offset(b) + 1 + i - 1
                 = 1 + Cardinality({c \in M : Precedes(table, b, c, Slice(s, Offset(b))[i])})
    <2>1. Offset(b) + i \in 1..Len(s) /\ Slice(s, Offset(b))[i] = s[Offset(b) + i]
        BY <1>8
    <2>2. Offset(b) + i = 1 + Cardinality({c \in M : Precedes(table, b, c, s[Offset(b) + i])})
        BY <2>1, PlaceIsRank
    <2>3. i \in Nat
        BY <1>8
    <2>4. Offset(b) + 1 + i - 1 = Offset(b) + i
        BY <1>7, <2>3
    <2> QED BY <2>1, <2>2, <2>4
<1>10. Len(Slice(s, Offset(b))) = PageSize \/ b.page + 1 = PagesOf(Len(s))
    <2>1. b.page \in Nat
        BY DEF Button
    <2>2. b.page + 1 = PagesOf(Len(s)) \/ b.page + 1 < PagesOf(Len(s))
        BY <1>7, <2>1
    <2> QED BY <1>7, <1>8, <2>2
<1> HIDE DEF M
<1>11. v.total = Cardinality(M)
    BY <1>3, <1>6
<1>12. \A i \in DOMAIN v.items :
          v.first + i - 1 = 1 + Cardinality({c \in M : Precedes(v.asOf, v.at, c, v.items[i])})
    BY <1>3, <1>9
<1>13. Len(v.items) = PageSize \/ v.at.page + 1 = v.pages
    BY <1>3, <1>10
<1>14. M = Matching(v.asOf, v.at.filtered)
    BY <1>3 DEF M
<1> QED BY <1>11, <1>12, <1>13, <1>14 DEF PlacesRight

LEMMA ListButtons ==
    ASSUME NEW v, View(v), v.kind = "list"
    PROVE  ButtonsRight(v)
<1>1. PICK table \in Table, b \in Button : \E s \in Orderings(table, b) : IsPage(v, table, b, s)
    BY ListsArePages
<1>2. PICK s \in Orderings(table, b) : IsPage(v, table, b, s)
    BY <1>1
<1>3. Listing(table, b, s)
    BY OrderingsAreComplete
<1>4. Len(s) = Cardinality(Matching(table, b.filtered)) /\ Len(s) \in Nat
    BY <1>3 DEF Listing
<1>5. Offset(b) < Len(s)
    BY <1>2 DEF IsPage
<1> DEFINE pages == PagesOf(Len(s))
<1>6. pages \in Int /\ b.page \in Nat /\ b.page < pages
    BY <1>4, <1>5, PageBounds DEF Button
<1>7. /\ v.at = b /\ v.asOf = table
      /\ v.buttons = SortButtons(b) \cup Navigation(b, pages)
    BY <1>2, PagesAreLists
<1> HIDE DEF pages
<1>8. ASSUME NEW a \in v.buttons PROVE a.page \in 0..(pages - 1)
    <2>1. CASE a \in SortButtons(b)
        <3>1. a.page = 0
            BY <2>1 DEF SortButtons
        <3> QED BY <1>6, <3>1
    <2>2. CASE a \in Navigation(b, pages)
        <3>1. PICK p \in {q \in {b.page - 1, b.page + 1} : 0 <= q /\ q < pages} :
                  a = [b EXCEPT !.page = p]
            BY <2>2 DEF Navigation
        <3>2. a.page = p
            BY <3>1 DEF Button
        <3> QED BY <1>6, <3>1, <3>2
    <2> QED BY <1>7, <2>1, <2>2
<1>9. ASSUME NEW p \in 0..(pages - 1), p \in {b.page - 1, b.page + 1}
      PROVE  [b EXCEPT !.page = p] \in v.buttons
    <2>1. 0 <= p /\ p < pages
        BY <1>6
    <2> QED BY <1>7, <1>9, <2>1 DEF Navigation
<1>10. pages = PagesOf(Cardinality(Matching(v.asOf, v.at.filtered)))
    BY <1>4, <1>7 DEF pages
<1> QED BY <1>7, <1>8, <1>9, <1>10 DEF ButtonsRight

-----------------------------------------------------------------------------
(* The bot's message and the lists about to replace it are lists, and they   *)
(* and the buttons being served keep to the words of the command.            *)
FilterRight(v) == v.kind = "list" => (v.at.filtered <=> command = "words")

ViewInv ==
    /\ rows \in Table
    /\ \A w \in Presses : serving[w] # None =>
           serving[w] \in Button /\ (serving[w].filtered <=> command = "words")
    /\ message # None => View(message) /\ FilterRight(message)
    /\ \A w \in Presses : rendered[w] # None => View(rendered[w]) /\ FilterRight(rendered[w])
    /\ DOMAIN serving = Presses /\ DOMAIN rendered = Presses

LEMMA ShownViews ==
    ASSUME rows \in Table, NEW b \in Button, b.filtered <=> command = "words",
           NEW v \in Views(b) \ {Expired}
    PROVE  View(v) /\ FilterRight(v)
<1>2. v = EmptyList \/ \E s \in Orderings(rows, b) : IsPage(v, rows, b, s)
    BY ViewsAreViews
<1>3. CASE v = EmptyList
    BY <1>3 DEF View, FilterRight, EmptyList
<1>4. CASE \E s \in Orderings(rows, b) : IsPage(v, rows, b, s)
    <2>1. PICK s \in Orderings(rows, b) : IsPage(v, rows, b, s)
        BY <1>4
    <2>2. v.at = b
        BY <2>1, PagesAreLists
    <2> QED BY <2>1, <2>2 DEF View, FilterRight
<1> QED BY <1>2, <1>3, <1>4

(* The first page exists, if only as an empty list. *)
LEMMA FirstPage ==
    ASSUME ViewInv, Get
    PROVE  View(message') /\ FilterRight(message')
<1> DEFINE b == [page |-> 0, sort |-> DefaultSort, descending |-> FALSE,
                 filtered |-> command = "words"]
<1>1. b \in Button /\ (b.filtered <=> command = "words") /\ b.page = 0
    <2>1. DefaultSort \in Sorts /\ 0 \in Nat /\ (command = "words") \in BOOLEAN
        BY PromoTableAssumption DEF Sorts
    <2> QED BY <2>1 DEF Button
<1>2. message' \in Views(b)
    BY DEF Get
<1> HIDE DEF b
<1>3. message' # Expired
    <2>1. PICK s \in Orderings(rows, b) :
              message' = IF TotalOf(s, Offset(b)) = 0 THEN EmptyList
                         ELSE IF b.page >= PagesOf(TotalOf(s, Offset(b))) THEN Expired
                         ELSE ListView(b, s)
        BY <1>2 DEF Views
    <2>2. Listing(rows, b, s)
        BY <1>1, OrderingsAreComplete DEF ViewInv
    <2>3. s \in Seq(Matching(rows, b.filtered)) /\ Len(s) \in Nat
        BY <2>2 DEF Listing
    <2>4. Offset(b) = 0
        BY <1>1, PromoTableAssumption DEF Offset
    <2>5. Slice(s, 0) # <<>> <=> 0 < Len(s)
        BY <2>3, SliceIsPart
    <2>6. CASE TotalOf(s, Offset(b)) = 0
        BY <2>1, <2>6 DEF EmptyList, Expired
    <2>7. CASE TotalOf(s, Offset(b)) # 0
        <3>1. Slice(s, 0) # <<>> /\ TotalOf(s, Offset(b)) = Len(s)
            BY <2>4, <2>7 DEF TotalOf
        <3>2. b.page < PagesOf(Len(s)) /\ PagesOf(Len(s)) \in Int
            BY <1>1, <2>3, <2>4, <2>5, <3>1, PageBounds
        <3>3. message' = ListView(b, s)
            BY <1>1, <2>1, <2>7, <3>1, <3>2
        <3> QED BY <3>3 DEF ListView, Expired
    <2> QED BY <2>6, <2>7
<1> QED BY <1>1, <1>2, <1>3, ShownViews DEF ViewInv

THEOREM ViewsAreRight == Spec => []ViewInv
<1>1. Init => ViewInv
    BY DEF Init, ViewInv
<1>2. ViewInv /\ [Next]_vars => ViewInv'
    <2> SUFFICES ASSUME ViewInv, [Next]_vars PROVE ViewInv'
        OBVIOUS
    <2>1. CASE Get
        <3>1. View(message') /\ FilterRight(message')
            BY <2>1, FirstPage
        <3>2. UNCHANGED <<rows, command, serving, rendered>>
            BY <2>1 DEF Get
        <3> QED BY <3>1, <3>2 DEF ViewInv, FilterRight
    <2>2. ASSUME NEW w \in Presses, Press(w) PROVE ViewInv'
        <3>1. UNCHANGED <<rows, command, message, rendered>>
            BY <2>2 DEF Press
        <3>2. PICK b \in message.buttons : serving' = [serving EXCEPT ![w] = b]
            BY <2>2 DEF Press
        <3>3. View(message) /\ message.kind = "list" /\ FilterRight(message)
            BY <2>2 DEF Press, ViewInv
        <3>4. b \in Button /\ (b.filtered <=> command = "words")
            BY <3>3, ButtonsAreButtons DEF FilterRight
        <3> QED BY <3>1, <3>2, <3>4 DEF ViewInv, FilterRight
    <2>3. ASSUME NEW w \in Presses, Query(w) PROVE ViewInv'
        <3>1. UNCHANGED <<rows, command, message, serving>>
            BY <2>3 DEF Query
        <3>2. PICK v \in Views(serving[w]) \ {Expired} : rendered' = [rendered EXCEPT ![w] = v]
            BY <2>3 DEF Query
        <3>3. serving[w] \in Button /\ (serving[w].filtered <=> command = "words")
            BY <2>3 DEF Query, ViewInv
        <3>4. View(v) /\ FilterRight(v)
            BY <3>3, ShownViews DEF ViewInv
        <3> QED BY <3>1, <3>2, <3>4 DEF ViewInv, FilterRight
    <2>4. ASSUME NEW w \in Presses, PaginationExpired(w) \/ QueryFails(w) PROVE ViewInv'
        <3>1. UNCHANGED <<rows, command, message>>
              /\ serving' = [serving EXCEPT ![w] = None]
              /\ rendered' = [rendered EXCEPT ![w] = None]
            BY <2>4 DEF PaginationExpired, QueryFails, Answer
        <3> QED BY <3>1 DEF ViewInv, FilterRight
    <2>5. ASSUME NEW w \in Presses, Edit(w) PROVE ViewInv'
        <3>1. /\ UNCHANGED <<rows, command>>
              /\ rendered[w] # None /\ message' = rendered[w]
              /\ serving' = [serving EXCEPT ![w] = None]
              /\ rendered' = [rendered EXCEPT ![w] = None]
            BY <2>5 DEF Edit, Answer
        <3> QED BY <3>1 DEF ViewInv, FilterRight
    <2>6. CASE TableChanges
        <3>1. PICK c \in Codes, row \in [Columns -> Values] \cup {None} :
                  rows' = [rows EXCEPT ![c] = row]
            BY <2>6 DEF TableChanges
        <3>2. rows' \in Table
            BY <3>1 DEF ViewInv, Table
        <3>3. UNCHANGED <<command, message, serving, rendered>>
            BY <2>6 DEF TableChanges
        <3> QED BY <3>2, <3>3 DEF ViewInv, FilterRight
    <2>7. CASE DeleteCommand \/ Terminating \/ UNCHANGED vars
        <3>1. UNCHANGED <<rows, command, message, serving, rendered>>
            BY <2>7 DEF DeleteCommand, Terminating, vars
        <3> QED BY <3>1 DEF ViewInv, FilterRight
    <2> QED BY <2>1, <2>2, <2>3, <2>4, <2>5, <2>6, <2>7 DEF Next
<1> QED BY <1>1, <1>2, PTL DEF Spec

LEMMA ListsAreViews ==
    ASSUME ViewInv, NEW v \in Lists
    PROVE  View(v) /\ v.kind = "list" /\ FilterRight(v)
BY DEF ViewInv, Lists

(* Every number in front of a code is its place in the table the list is of, *)
(* and every page but the last is full: FormatPromoTablePage counts from the *)
(* OFFSET the rows were fetched with.                                        *)
THEOREM PlacesCount == Spec => []PlacesAreRight
<1>1. ViewInv => PlacesAreRight
    BY ListsAreViews, ListPlaces DEF PlacesAreRight, PlacesRight
<1> QED BY <1>1, ViewsAreRight, PTL

(* The keyboard leads to every page next to this one that exists, and to no  *)
(* page that does not.                                                       *)
THEOREM ButtonsLeadToPages == Spec => []ButtonsLeadSomewhere
<1>1. ViewInv => ButtonsLeadSomewhere
    BY ListsAreViews, ListButtons DEF ButtonsLeadSomewhere, ButtonsRight
<1> QED BY <1>1, ViewsAreRight, PTL

(* A button that lost the mark of the words would turn the answer to         *)
(* "/get words" into one about all codes.                                    *)
THEOREM WordsAreKept == Spec => []FilterIsKept
<1>1. ViewInv => FilterIsKept
    BY ListsAreViews DEF FilterIsKept, FilterRight
<1> QED BY <1>1, ViewsAreRight, PTL

-----------------------------------------------------------------------------
(* The pages that were gone through are the list up to the end of the last.  *)
UpTo(s, b) ==
    SubSeq(s, 1, IF Offset(b) + PageSize < Len(s) THEN Offset(b) + PageSize ELSE Len(s))

WalkIsOf(table, b, s) ==
    IsPage(walk.from, table, b, s) /\ walk.seen = UpTo(s, b)

WalkInv ==
    walk = NoWalk \/ \E table \in Table, b \in Button : \E s \in Orderings(table, b) : WalkIsOf(table, b, s)

LEMMA WalksGoOn ==
    ASSUME WalkInv, NEW v, View(v), walk' = Walked(v)
    PROVE  WalkInv'
<1>1. CASE v.kind # "list"
    BY <1>1 DEF Walked, WalkInv, NoWalk
<1>2. CASE v.kind = "list"
    <2>1. PICK table \in Table, b \in Button : \E s \in Orderings(table, b) : IsPage(v, table, b, s)
        BY <1>2, ListsArePages
    <2>2. PICK s \in Orderings(table, b) : IsPage(v, table, b, s)
        BY <2>1
    <2>3. v.at = b /\ v.items = Slice(s, Offset(b)) /\ v.asOf = table
        BY <2>2, PagesAreLists
    <2>4. Offset(b) < Len(s)
        BY <2>2 DEF IsPage
    <2>5. Listing(table, b, s)
        BY OrderingsAreComplete
    <2>6. s \in Seq(Matching(table, b.filtered)) /\ Len(s) \in Nat
        BY <2>5 DEF Listing
    <2>7. PageSize \in Nat /\ PageSize > 0 /\ b.page \in Nat
        BY PromoTableAssumption DEF Button
    <2>8. SUFFICES ASSUME walk' # NoWalk
                   PROVE  walk'.from = v /\ walk'.seen = UpTo(s, b)
        BY <2>2 DEF WalkInv, WalkIsOf, NoWalk
    <2>9. CASE b.page = 0
        <3>1. walk' = [seen |-> v.items, from |-> v]
            BY <1>2, <2>3, <2>9 DEF Walked
        <3>2. Offset(b) = 0
            BY <2>7, <2>9 DEF Offset
        <3>3. Slice(s, 0) = UpTo(s, b)
            BY <3>2 DEF Slice, UpTo
        <3> QED BY <2>3, <3>1, <3>2, <3>3
    <2>10. CASE b.page # 0
        <3>1. /\ walk.from # None /\ walk.from.asOf = table
              /\ b = [walk.from.at EXCEPT !.page = @ + 1]
              /\ walk' = [seen |-> walk.seen \o v.items, from |-> v]
            BY <1>2, <2>3, <2>8, <2>10 DEF Walked
        <3>2. walk # NoWalk
            BY <3>1 DEF NoWalk
        <3>3. PICK before \in Table, a \in Button : \E t \in Orderings(before, a) : WalkIsOf(before, a, t)
            BY <3>2 DEF WalkInv
        <3>4. PICK t \in Orderings(before, a) : WalkIsOf(before, a, t)
            BY <3>3
        <3>5. walk.from.at = a /\ walk.from.asOf = before /\ walk.seen = UpTo(t, a)
            BY <3>4, PagesAreLists DEF WalkIsOf
        <3>6. before = table /\ b = [a EXCEPT !.page = @ + 1]
            BY <3>1, <3>5
        <3>7. /\ b.page = a.page + 1 /\ a.page \in Nat
              /\ a.sort = b.sort /\ a.descending = b.descending /\ a.filtered = b.filtered
            BY <3>6 DEF Button
        <3>8. s = t
            <4>1. t \in Orderings(table, a)
                BY <3>6
            <4> QED BY <3>7, <4>1, OrderingIsUnique
        <3>9. Offset(b) = Offset(a) + PageSize /\ Offset(a) \in Nat
            BY <2>7, <3>7 DEF Offset
        <3>10. UpTo(t, a) = SubSeq(s, 1, Offset(b))
            BY <2>4, <3>8, <3>9 DEF UpTo
        <3>11. PICK end : end = IF Offset(b) + PageSize < Len(s) THEN Offset(b) + PageSize ELSE Len(s)
            OBVIOUS
        <3>12. Offset(b) \in 1..Len(s) /\ end \in Nat /\ Offset(b) <= end /\ end <= Len(s)
            BY <2>4, <2>6, <2>7, <3>9, <3>11
        <3>13. SubSeq(s, 1, Offset(b)) \o SubSeq(s, Offset(b) + 1, end) = SubSeq(s, 1, end)
            <4>1. 1 \in 1..Len(s) + 1 /\ Offset(b) \in (1 - 1)..Len(s) /\ end \in Offset(b)..Len(s)
                BY <2>6, <3>12
            <4> QED BY <2>6, <4>1, ConcatAdjacentSubSeq
        <3>14. Slice(s, Offset(b)) = SubSeq(s, Offset(b) + 1, end) /\ UpTo(s, b) = SubSeq(s, 1, end)
            BY <3>11 DEF Slice, UpTo
        <3>15. walk.seen = SubSeq(s, 1, Offset(b)) /\ v.items = SubSeq(s, Offset(b) + 1, end)
            BY <2>3, <3>5, <3>10, <3>14
        <3>16. walk.seen \o v.items = UpTo(s, b)
            BY <3>13, <3>14, <3>15
        <3>17. walk'.seen = walk.seen \o v.items /\ walk'.from = v
            <4>1. PICK seen : seen = walk.seen \o v.items
                OBVIOUS
            <4>2. walk' = [seen |-> seen, from |-> v]
                BY <3>1, <4>1
            <4> QED BY ONLY <4>1, <4>2
        <3> QED BY <3>16, <3>17
    <2> QED BY <2>9, <2>10
<1> QED BY <1>1, <1>2

(* code ASC behind the column that is asked for makes the order total, so    *)
(* LIMIT and OFFSET cut one sequence into pages that follow on each other.   *)
THEOREM PagesCoverTheList == Spec => []WalkSeesEachCodeOnce
<1>1. Init => WalkInv
    BY DEF Init, WalkInv
<1>2. ViewInv /\ ViewInv' /\ WalkInv /\ [Next]_vars => WalkInv'
    <2> SUFFICES ASSUME ViewInv, ViewInv', WalkInv, [Next]_vars PROVE WalkInv'
        OBVIOUS
    <2>1. CASE walk' = walk
        BY <2>1 DEF WalkInv, WalkIsOf
    <2>2. CASE Get
        <3>1. View(message') /\ walk' = Walked(message')
            BY <2>2, FirstPage DEF Get
        <3> QED BY <3>1, WalksGoOn
    <2>3. ASSUME NEW w \in Presses, Edit(w) PROVE WalkInv'
        <3>1. rendered[w] # None /\ walk' = Walked(rendered[w])
            BY <2>3 DEF Edit
        <3> QED BY <3>1, WalksGoOn DEF ViewInv
    <2>4. ASSUME NEW w \in Presses, Press(w) \/ Query(w) \/ PaginationExpired(w) \/ QueryFails(w)
          PROVE  walk' = walk
        BY <2>4 DEF Press, Query, PaginationExpired, QueryFails
    <2>5. TableChanges \/ DeleteCommand \/ Terminating \/ UNCHANGED vars => walk' = walk
        BY DEF TableChanges, DeleteCommand, Terminating, vars
    <2> QED BY <2>1, <2>2, <2>3, <2>4, <2>5 DEF Next
<1>3. WalkInv => WalkSeesEachCodeOnce
    <2> SUFFICES ASSUME WalkInv, walk.from # None, walk.from.at.page + 1 = walk.from.pages
                 PROVE  /\ Len(walk.seen) = walk.from.total
                        /\ ToSet(walk.seen) = Matching(walk.from.asOf, walk.from.at.filtered)
        BY DEF WalkSeesEachCodeOnce
    <2>1. walk # NoWalk
        BY DEF NoWalk
    <2>2. PICK table \in Table, b \in Button : \E s \in Orderings(table, b) : WalkIsOf(table, b, s)
        BY <2>1 DEF WalkInv
    <2>3. PICK s \in Orderings(table, b) : WalkIsOf(table, b, s)
        BY <2>2
    <2>4. /\ walk.from.at = b /\ walk.from.asOf = table /\ walk.from.pages = PagesOf(Len(s))
          /\ walk.from.total = Len(s) /\ walk.seen = UpTo(s, b) /\ Offset(b) < Len(s)
        BY <2>3, PagesAreLists DEF WalkIsOf, IsPage
    <2>5. Listing(table, b, s)
        BY OrderingsAreComplete
    <2> DEFINE M == Matching(table, b.filtered)
    <2>6. /\ s \in Seq(M) /\ Len(s) \in Nat /\ DOMAIN s = 1..Len(s)
          /\ \A c \in M : \E i \in 1..Len(s) : s[i] = c
        BY <2>5 DEF Listing
    <2>7. ~(Offset(b) + PageSize < Len(s))
        BY <2>4, <2>6, PageBounds, PagesRoundUp DEF Button
    <2>8. walk.seen = s
        <3>1. walk.seen = SubSeq(s, 1, Len(s))
            BY <2>4, <2>7 DEF UpTo
        <3> QED BY <2>6, <3>1, SubSeqFull
    <2>9. ToSet(s) = M
        BY <2>6 DEF ToSet
    <2> QED BY <2>4, <2>8, <2>9
<1> QED BY <1>1, <1>2, <1>3, ViewsAreRight, PTL DEF Spec
=============================================================================
