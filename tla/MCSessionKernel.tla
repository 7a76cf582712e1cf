-------------------------- MODULE MCSessionKernel ---------------------------
(* Instances of SessionKernel for TLC: three verbs of which one is not     *)
(* served, and the asks that reach every rung of the admission ladder.     *)
EXTENDS SessionKernel

CONSTANTS c1, c2, alice, bob

MCAsk(verbs, persistence, expiry) ==
    [verbs |-> verbs, persistence |-> persistence, expiry |-> expiry, plain |-> TRUE]

(* An arranging grant with a deadline, a pointer grant without one, and a  *)
(* request that names a verb this core does not serve.                     *)
MCAsks ==
    {MCAsk({"arrange"}, "WhileRunning", {1}),
     MCAsk({"pointer"}, "Once", None),
     MCAsk({"pointer", "unserved"}, "Always", None)}

=============================================================================
