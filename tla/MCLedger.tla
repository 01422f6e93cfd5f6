------------------------------ MODULE MCLedger ------------------------------
(***************************************************************************)
(* Constants for model-checking Ledger: two processes at one console.      *)
(***************************************************************************)
EXTENDS Ledger

CONSTANTS p1, p2, e1, e2, l1, l2, c1, c2, t1

MCOneEndpoint == [p \in Procs |-> e1]
MCSlug == [e \in Endpoints |-> IF e = e1 THEN l1 ELSE l2]
MCConsoleOf == [e \in Endpoints |-> IF e = e1 THEN c1 ELSE c2]
MCTargetOf == [p \in Procs |-> t1]
MCSteps == {-1, 0, 1}
=============================================================================
