------------------------------- MODULE MCAudit -------------------------------
(* Instances of Audit for TLC: the small programs and tags. *)
EXTENDS Audit
=============================================================================
