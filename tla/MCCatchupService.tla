------------------------- MODULE MCCatchupService -------------------------
(***************************************************************************)
(* Small instance of CatchupService: an interactive session of agent kai,  *)
(* which posts most, and a background session of agent eva, which posts    *)
(* once.  The administrator switches kai off and on; in the liveness run   *)
(* also the master switch, and saves a policy the sidecar cannot read.     *)
(***************************************************************************)
EXTENDS CatchupService, TLC

CONSTANTS kai, eva, main, background

MCAgentOf == [s \in Sessions |-> IF s = main THEN kai ELSE eva]

MCPosts == [s \in Sessions |-> IF s = main THEN MaxGeneration ELSE 1]

Everybody == [on |-> TRUE, disabled |-> {}, readable |-> TRUE]
Nobody == [on |-> FALSE, disabled |-> {}, readable |-> TRUE]
NotKai == [on |-> TRUE, disabled |-> {kai}, readable |-> TRUE]
Malformed == [on |-> TRUE, disabled |-> {kai}, readable |-> FALSE]

MCSettings == {Everybody, NotKai}
MCAllSettings == {Everybody, Nobody, NotKai, Malformed}

HashSymmetry == Permutations(Hashes)

=============================================================================
