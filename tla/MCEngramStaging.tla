-------------------------- MODULE MCEngramStaging --------------------------
(***************************************************************************)
(* Small instance of EngramStaging: a request whose prompt holds an image  *)
(* token and takes several chunks, and one that soon generates, on two     *)
(* ranks.                                                                  *)
(***************************************************************************)
EXTENDS EngramStaging, TLC

CONSTANTS long, short

MCPromptLength == (long :> MaxPrompt) @@ (short :> 1)

MCSentinels == {<<long, 0>>}

RankSymmetry == Permutations(Ranks)

=============================================================================
