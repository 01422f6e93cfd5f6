--------------------------- MODULE MCInstanceLock ---------------------------
(***************************************************************************)
(* Constants for model-checking InstanceLock: two processes configured for *)
(* one console and a third for another.                                    *)
(***************************************************************************)
EXTENDS InstanceLock

CONSTANTS p1, p2, p3, e1, e2, l1, l2, c1, c2

MCEndpointOf == [p \in Procs |-> IF p = p3 THEN e2 ELSE e1]
MCSlug == [e \in Endpoints |-> IF e = e1 THEN l1 ELSE l2]
MCConsoleOf == [e \in Endpoints |-> IF e = e1 THEN c1 ELSE c2]
=============================================================================
