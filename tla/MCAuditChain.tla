---------------------------- MODULE MCAuditChain ----------------------------
(* AuditChain for TLC, with definitions the configurations use.  Sessions   *)
(* are interchangeable; entities are not, Idle names one of them.           *)
EXTENDS AuditChain, TLC

Symmetry == Permutations(Sessions)
=============================================================================
