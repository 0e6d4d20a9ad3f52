--------------------------- MODULE AuditedChanges ---------------------------
(***************************************************************************)
(* What the service promises about its two stores, without transactions,    *)
(* locks or requests: the audit trail is written ahead of the changes.  A   *)
(* change is applied once, only after its record, and while that record is  *)
(* still the latest of its code.  A record whose change is never applied    *)
(* may stay in the trail, and so may a line that holds no record (Torn).    *)
(***************************************************************************)
EXTENDS Naturals, Sequences

CONSTANTS
    Changes,   \* the changes somebody may ask for
    Codes,     \* the promo codes they are about
    Torn       \* a line of the trail that is no record, and no Entry

Entry == [id: Changes, code: Codes]

VARIABLES
    trail,     \* what was written, in order
    applied    \* what was done, in order

Init == trail = <<>> /\ applied = <<>>

Record(e) ==
    /\ \A i \in DOMAIN trail : trail[i] # Torn => trail[i].id # e.id
    /\ \A i \in DOMAIN applied : applied[i].id # e.id
    /\ trail' = Append(trail, e)
    /\ UNCHANGED applied

Tear ==
    /\ trail' = Append(trail, Torn)
    /\ UNCHANGED applied

LatestOfItsCode(i) ==
    \A j \in DOMAIN trail : trail[j] # Torn /\ trail[j].code = trail[i].code => j <= i

IsRecord(i) == trail[i] # Torn

NotAppliedYet(i) == \A k \in DOMAIN applied : applied[k].id # trail[i].id

Apply(i) ==
    /\ IsRecord(i)
    /\ LatestOfItsCode(i)
    /\ NotAppliedYet(i)
    /\ applied' = Append(applied, trail[i])
    /\ UNCHANGED trail

Next ==
    \/ \E e \in Entry : Record(e)
    \/ Tear
    \/ \E i \in DOMAIN trail : Apply(i)

Spec == Init /\ [][Next]_<<trail, applied>>

-----------------------------------------------------------------------------
TypeOK == trail \in Seq(Entry \cup {Torn}) /\ applied \in Seq(Entry)

(* Replaying the trail tells in which order a code was changed: the changes  *)
(* of one code were applied in the order of their records.                   *)
AppliedInTrailOrder ==
    \A g, h \in DOMAIN applied : \A i, j \in DOMAIN trail :
        (/\ g < h /\ applied[g].code = applied[h].code
         /\ trail[i] = applied[g] /\ trail[j] = applied[h]) => i < j

(* No change has two records. *)
RecordedOnce ==
    \A i, j \in DOMAIN trail :
        (trail[i] # Torn /\ trail[j] # Torn /\ trail[i].id = trail[j].id) => i = j

(* Nothing is applied without a record, and nothing twice. *)
AppliedOnceRecorded ==
    /\ \A h \in DOMAIN applied : \E i \in DOMAIN trail : trail[i] = applied[h]
    /\ \A g, h \in DOMAIN applied : applied[g].id = applied[h].id => g = h
=============================================================================
