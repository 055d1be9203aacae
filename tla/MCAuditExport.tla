--------------------------- MODULE MCAuditExport ---------------------------
(* Small instances of AuditExport for TLC.                                 *)
EXTENDS AuditExport

=============================================================================
