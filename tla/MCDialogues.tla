---------------------------- MODULE MCDialogues ----------------------------
(* Words for TLC. *)
EXTENDS Dialogues

LengthWords == {Number(2)}
CapacityWords == {Number(1), Text("other")}
DateWords == {Number(1), Date(1), Moment(2), Text("other")}
ManyDays == {Number(9)}
=============================================================================
