--------------------------- MODULE MCPreMetadata ---------------------------
(* An instance of PreMetadata: t1 and t2 are of one version, t3 and t4
   of two others. *)
EXTENDS PreMetadata, TLC

CONSTANTS t1, t2, t3, t4

\* A whole chunk and the shorter last one.
LastIsShort == [t \in Tid |-> (0 :> 2) @@ (1 :> 1)]
TwoOfOne == (t1 :> 1) @@ (t2 :> 1) @@ (t3 :> 2) @@ (t4 :> 3)
=============================================================================
