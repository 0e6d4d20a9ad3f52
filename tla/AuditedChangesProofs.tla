------------------------ MODULE AuditedChangesProofs ------------------------
(***************************************************************************)
(* What a write-ahead trail guarantees, whoever implements it.              *)
(* PromoServiceProofs shows that the service is one.                        *)
(***************************************************************************)
EXTENDS AuditedChanges, TLAPS

(* Types. *)
LEMMA TrailTypes ==
    ASSUME TypeOK, [Next]_<<trail, applied>>
    PROVE  TypeOK'
<1> USE DEF TypeOK
<1>1. CASE \E e \in Entry : Record(e)
  BY <1>1 DEF Record
<1>2. CASE Tear
  BY <1>2 DEF Tear
<1>3. CASE \E i \in DOMAIN trail : Apply(i)
  <2> SUFFICES ASSUME NEW i \in DOMAIN trail, Apply(i) PROVE TypeOK'
    BY <1>3
  <2>1. trail[i] \in Entry
    BY DEF Apply, IsRecord
  <2> QED BY <2>1 DEF Apply
<1>4. CASE UNCHANGED <<trail, applied>>
  BY <1>4
<1> QED BY <1>1, <1>2, <1>3, <1>4 DEF Next

(* Nothing is applied without a record, and nothing twice: Apply(i) takes an *)
(* entry of the trail whose identity was not applied before.                 *)
LEMMA OnceRecordedStep ==
    ASSUME TypeOK, AppliedOnceRecorded, [Next]_<<trail, applied>>
    PROVE  AppliedOnceRecorded'
<1> USE DEF TypeOK, AppliedOnceRecorded
<1>1. CASE \E e \in Entry : Record(e)
  <2> PICK e \in Entry : trail' = Append(trail, e) /\ applied' = applied
    BY <1>1 DEF Record
  <2>1. \A i \in DOMAIN trail : i \in DOMAIN trail' /\ trail'[i] = trail[i]
    OBVIOUS
  <2> QED BY <2>1
<1>2. CASE Tear
  <2>1. \A i \in DOMAIN trail : i \in DOMAIN trail' /\ trail'[i] = trail[i]
    BY <1>2 DEF Tear
  <2> QED BY <2>1, <1>2 DEF Tear
<1>3. CASE \E i \in DOMAIN trail : Apply(i)
  <2> PICK i \in DOMAIN trail : Apply(i)
    BY <1>3
  <2>1. applied' = Append(applied, trail[i]) /\ trail' = trail /\ trail[i] \in Entry
    BY DEF Apply, IsRecord
  <2>2. /\ DOMAIN applied = 1..Len(applied) /\ Len(applied) \in Nat
        /\ DOMAIN applied' = 1..(Len(applied) + 1)
    BY <2>1
  <2>3. \A h \in DOMAIN applied : applied'[h] = applied[h]
    BY <2>1
  <2>4. applied'[Len(applied) + 1] = trail[i]
    BY <2>1
  <2>5. \A h \in DOMAIN applied' : h \in DOMAIN applied \/ h = Len(applied) + 1
    BY <2>2
  <2>6. \A h \in DOMAIN applied : applied[h].id # trail[i].id
    BY DEF Apply, NotAppliedYet
  <2>7. \A h \in DOMAIN applied' : \E j \in DOMAIN trail' : trail'[j] = applied'[h]
    BY <2>1, <2>3, <2>4, <2>5
  <2>8. \A g, h \in DOMAIN applied' : applied'[g].id = applied'[h].id => g = h
    BY <2>3, <2>4, <2>5, <2>6
  <2> QED BY <2>7, <2>8
<1>4. CASE UNCHANGED <<trail, applied>>
  BY <1>4
<1> QED BY <1>1, <1>2, <1>3, <1>4 DEF Next

(* No change has two records: Record(e) refuses one. *)
LEMMA RecordedOnceStep ==
    ASSUME TypeOK, RecordedOnce, [Next]_<<trail, applied>>
    PROVE  RecordedOnce'
<1> USE DEF TypeOK
<1>1. ASSUME NEW e \in Entry \cup {Torn}, trail' = Append(trail, e),
             e # Torn => \A i \in DOMAIN trail : trail[i] # Torn => trail[i].id # e.id
      PROVE  RecordedOnce'
  <2>1. \A k \in DOMAIN trail' :
            \/ k \in DOMAIN trail /\ trail'[k] = trail[k]
            \/ k = Len(trail) + 1 /\ trail'[k] = e
    BY <1>1
  <2> QED BY <1>1, <2>1 DEF RecordedOnce
<1>2. CASE \E e \in Entry : Record(e)
  BY <1>1, <1>2 DEF Record
<1>3. CASE Tear
  BY <1>1, <1>3 DEF Tear
<1>4. CASE \E i \in DOMAIN trail : Apply(i)
  BY <1>4 DEF Apply, RecordedOnce
<1>5. CASE UNCHANGED <<trail, applied>>
  BY <1>5 DEF RecordedOnce
<1> QED BY <1>2, <1>3, <1>4, <1>5 DEF Next

(* The order: a new record is of no applied change, and the change that is   *)
(* applied has the latest record of its code.                                *)
LEMMA TrailOrderStep ==
    ASSUME Torn \notin Entry, TypeOK, RecordedOnce, AppliedInTrailOrder, [Next]_<<trail, applied>>
    PROVE  AppliedInTrailOrder'
<1> USE DEF TypeOK
<1>1. ASSUME NEW e \in Entry \cup {Torn}, trail' = Append(trail, e), applied' = applied,
             \A h \in DOMAIN applied : applied[h] # e
      PROVE  AppliedInTrailOrder'
  <2> SUFFICES ASSUME NEW g \in DOMAIN applied, NEW h \in DOMAIN applied,
                      NEW i \in DOMAIN trail', NEW j \in DOMAIN trail',
                      g < h, applied[g].code = applied[h].code,
                      trail'[i] = applied[g], trail'[j] = applied[h]
               PROVE  i < j
    BY <1>1 DEF AppliedInTrailOrder
  <2>1. \A k \in DOMAIN trail' :
            \/ k \in DOMAIN trail /\ trail'[k] = trail[k]
            \/ trail'[k] = e
    BY <1>1
  <2>2. /\ i \in DOMAIN trail /\ trail[i] = applied[g]
        /\ j \in DOMAIN trail /\ trail[j] = applied[h]
    BY <1>1, <2>1
  <2> QED BY <2>2 DEF AppliedInTrailOrder
<1>2. CASE \E e \in Entry : Record(e)
  BY <1>1, <1>2 DEF Record
<1>3. CASE Tear
  <2>1. \A h \in DOMAIN applied : applied[h] # Torn
    OBVIOUS
  <2> QED BY <1>1, <1>3, <2>1 DEF Tear
<1>4. CASE \E i \in DOMAIN trail : Apply(i)
  <2> PICK k \in DOMAIN trail : Apply(k)
    BY <1>4
  <2>1. applied' = Append(applied, trail[k]) /\ trail' = trail /\ trail[k] \in Entry
    BY DEF Apply, IsRecord
  <2> SUFFICES ASSUME NEW g \in DOMAIN applied', NEW h \in DOMAIN applied',
                      NEW i \in DOMAIN trail, NEW j \in DOMAIN trail,
                      g < h, applied'[g].code = applied'[h].code,
                      trail[i] = applied'[g], trail[j] = applied'[h]
               PROVE  i < j
    BY <2>1 DEF AppliedInTrailOrder
  <2>2. g \in DOMAIN applied /\ applied'[g] = applied[g]
    BY <2>1
  <2>3. CASE h \in DOMAIN applied
    BY <2>1, <2>2, <2>3 DEF AppliedInTrailOrder
  <2>4. CASE h = Len(applied) + 1
    <3>1. trail[j] = trail[k]
      BY <2>1, <2>4
    <3>2. applied[g].id # trail[k].id
      BY <2>2 DEF Apply, NotAppliedYet
    <3>3. j = k
      BY <2>1, <3>1, Torn \notin Entry DEF RecordedOnce
    <3>4. trail[i] = applied[g] /\ trail[i].code = trail[k].code
      BY <2>1, <2>2, <2>4
    <3>5. trail[i] # Torn
      BY <2>2, <3>4, Torn \notin Entry
    <3>6. i <= k
      BY <3>4, <3>5 DEF Apply, LatestOfItsCode
    <3>7. i # k
      BY <3>2, <3>4
    <3> QED BY <3>3, <3>6, <3>7
  <2> QED BY <2>1, <2>3, <2>4
<1>5. CASE UNCHANGED <<trail, applied>>
  BY <1>5 DEF AppliedInTrailOrder
<1> QED BY <1>2, <1>3, <1>4, <1>5 DEF Next
(* The guarantees of a write-ahead trail: it can be replayed, code by code,  *)
(* and it tells of every change that was made, once.                         *)
THEOREM TrailGuarantees ==
    ASSUME Torn \notin Entry
    PROVE  Spec => [](AppliedInTrailOrder /\ AppliedOnceRecorded)
<1> DEFINE Inv == TypeOK /\ RecordedOnce /\ AppliedOnceRecorded /\ AppliedInTrailOrder
<1>1. Init => Inv
  BY DEF Init, TypeOK, RecordedOnce, AppliedOnceRecorded, AppliedInTrailOrder
<1>2. Inv /\ [Next]_<<trail, applied>> => Inv'
  BY TrailTypes, RecordedOnceStep, OnceRecordedStep, TrailOrderStep
<1> QED BY <1>1, <1>2, PTL DEF Spec
=============================================================================
