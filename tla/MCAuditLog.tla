----------------------------- MODULE MCAuditLog -----------------------------
(* Instances of AuditLog for TLC. *)
EXTENDS AuditLog

Creations == {{"create"}}
TwoActions == {"create", "delete"}
=============================================================================
