---------------------------- MODULE LaneRegistry ----------------------------
(***************************************************************************)
(* The lane tables of ops/spark-lane: which nodes a lane needs, what each  *)
(* of its commands looks at, and what rotate parks.  A lane is an engine   *)
(* (or the ComfyUI, or the Studio app) on one to four of the Sparks.       *)
(***************************************************************************)
EXTENDS Sequences, Naturals

Nodes == {"spark1", "spark2", "spark3", "spark4"}

HeadNode == "spark3"

AllNodes == <<"spark1", "spark2", "spark3", "spark4">>

ThreeNodeLanes == {"glm53-tp3", "dsv41-tf3"}
TwoNodeLanes == {"glm53-tf2", "dsv41-tf2"}
SpareNodeLanes == {"comfy-engine", "studio-2"}
FourNodeLanes == {"comfy-studio-4x", "dsv41-native", "dsv41-tf4", "dsv41-tf4-ablit",
                  "glm53-tp4", "glm53-tp4-ablit", "glm53-gr8"}

(* Every lane that up and down accept, but studio-12 and the retired       *)
(* glm53-vllm4.                                                            *)
AllLanes == FourNodeLanes \union ThreeNodeLanes \union TwoNodeLanes \union SpareNodeLanes

LaneNodes(lane) ==
    CASE lane \in SpareNodeLanes -> <<"spark2">>
      [] lane \in TwoNodeLanes -> <<"spark3", "spark4">>
      [] lane \in ThreeNodeLanes -> <<"spark1", "spark3", "spark4">>
      [] OTHER -> AllNodes

(* The Studio is a Python app: the container probe does not show it. *)
Hidden == {"studio-2"}

(* Of the GLM lanes on a node the probe names only the first of these.     *)
GlmPrecedence == <<"glm53-gr8", "glm53-tp4", "glm53-tp4-ablit", "glm53-tp3", "glm53-tf2">>

Outranks(l, m) ==
    \E i, j \in DOMAIN GlmPrecedence : i < j /\ GlmPrecedence[i] = l /\ GlmPrecedence[j] = m

(* Lanes whose up asks nothing about other tenants of its nodes: the one   *)
(* looks at free memory, the other at its own app only.                    *)
Unchecked == {"comfy-studio-4x", "studio-2"}

CoTenants == {{"comfy-studio-4x", "dsv41-tf4"}, {"comfy-studio-4x", "dsv41-tf4-ablit"}}

(* Lanes whose up first asks whether the port answers; those that ask      *)
(* after the occupancy check; the other lanes do not ask.                  *)
AsksFirst == {"comfy-engine", "comfy-studio-4x", "studio-2"}
AsksLater == {"glm53-tp3", "glm53-tp4", "glm53-tp4-ablit", "glm53-gr8", "glm53-tf2"}

(* Lanes whose start script runs on by itself on the head; the start of    *)
(* the others ends with the command that runs it.                          *)
Detached == {"glm53-tp3", "glm53-tp4", "glm53-tp4-ablit", "glm53-tf2", "studio-2"}

(* Ports: the ComfyUI's is each node's own, the others are the head's or   *)
(* the Studio leader's.  Lanes on one port also serve under the same name. *)
ComfyPort == 8188
SmallPort == 8000
StudioPort == 7870
EnginePort == 8888

Port(lane) ==
    CASE lane \in {"comfy-engine", "comfy-studio-4x"} -> ComfyPort
      [] lane \in {"dsv41-tf2", "dsv41-tf3"} -> SmallPort
      [] lane = "studio-2" -> StudioPort
      [] OTHER -> EnginePort

(* Lanes whose up counts its own ranks on all nodes before it passes. *)
CountsRanks == {"glm53-tp4", "glm53-tp4-ablit", "glm53-gr8"}

(* Two lanes run the same container with other weights. *)
Kin(lane) ==
    CASE lane \in {"dsv41-tf4", "dsv41-tf4-ablit"} -> {"dsv41-tf4", "dsv41-tf4-ablit"}
      [] lane \in {"glm53-tp4", "glm53-tp4-ablit"} -> {"glm53-tp4", "glm53-tp4-ablit"}
      [] OTHER -> {lane}

(* Lanes that down stops node by node.  A script on the head stops the     *)
(* others; whatever it says, some are then stopped on each node as well.   *)
StoppedPerNode == {"comfy-engine", "comfy-studio-4x", "studio-2"}
Swept == {"glm53-gr8"}

(* What rotate parks, in this order. *)
ParkList == <<"comfy-engine", "comfy-studio-4x", "dsv41-tf4-ablit", "dsv41-tf4",
              "dsv41-native", "glm53-tp3", "glm53-tp4", "glm53-tf2">>

=============================================================================
