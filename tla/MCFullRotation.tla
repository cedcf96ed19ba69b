--------------------------- MODULE MCFullRotation ---------------------------
(***************************************************************************)
(* Calls of rotate-all.sh for TLC: its defaults, the one lane of its list  *)
(* that spark-lane still knows with several ends, and one lane only.       *)
(***************************************************************************)
EXTENDS FullRotation

Retired == {"creative-engine", "dsv41-tp3", "dsv41-tp4"}

Call(skip, only, end) == [skip |-> skip, only |-> only, end |-> end]

MCCalls ==
    {Call({}, None, "dsv41-tp4"), Call(Retired, None, "glm53-tp3"),
     Call(Retired, None, "dsv41-tf4-ablit"), Call(Retired \ {"dsv41-tp4"}, None, "comfy-engine"),
     Call({}, "comfy-studio-4x", "dsv41-tp4"), Call({}, "glm53-tf2", "dsv41-tp4")}

(* The call of the run in which everything may fail. *)
MCEndCall == {Call(Retired \union {"glm53-tp3"}, None, "dsv41-tf4-ablit")}

=============================================================================
