----------------------------- MODULE MCDevInstall -----------------------------
(* Three installations, one of a bundle that has the compiler and two of   *)
(* bundles that lack it: one may leave a root.previous that a second, past *)
(* its checks, takes over, and a third starts from what that one leaves.   *)
EXTENDS DevInstall

CONSTANTS p1, cc

MCProvides == [p \in Installers |-> IF p = p1 THEN {cc} ELSE {}]
=============================================================================
