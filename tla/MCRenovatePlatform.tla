------------------------- MODULE MCRenovatePlatform -------------------------
(* A small instance of RenovatePlatform.                                     *)
EXTENDS RenovatePlatform

CONSTANTS p1, s1, s2

(* Users switch between the two kinds of auth, which want different things of *)
(* the same Secret, and move to another Secret.                               *)
MixedSpecs ==
    {[platformType |-> "github", auth |-> "githubApp", ref |-> s1],
     [platformType |-> "forgejo", auth |-> "token", ref |-> s1],
     [platformType |-> "forgejo", auth |-> "token", ref |-> s2]}
=============================================================================
