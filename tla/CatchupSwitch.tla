--------------------------- MODULE CatchupSwitch ---------------------------
(***************************************************************************)
(* The sidecar's cached copy of eva-core's admin switch, and the one       *)
(* thread that polls it (catchup/switch.py).                               *)
(*                                                                         *)
(* eva-core owns the settings; they are the external variable admin.  The  *)
(* poller copies them into the switch under the switch's own lock, then    *)
(* calls the listeners outside that lock: for a moment the new policy is   *)
(* already visible to every reader and not yet applied.  poller records    *)
(* where in poll_once the thread is; its listener, and with it the next-   *)
(* state relation, is CatchupService's.                                    *)
(***************************************************************************)
EXTENDS Naturals

CONSTANTS
    Agents,            \* the agents eva-core can turn off one by one
    Settings           \* bound: the settings its administrator may save

VARIABLES
    admin,             \* eva-core's settings, as its health endpoint serves them
    switchedOn,        \* last reported master switch: "unknown", "on" or "off"
    disabledAgents,    \* last reported agents that are turned off
    policyError,       \* the last body's disabledAgents was malformed
    poller             \* "idle", "notify" (policy stored, listeners not called yet) or "applying"

adminVars == <<admin>>
policyVars == <<switchedOn, disabledAgents, policyError>>
switchVars == <<admin, switchedOn, disabledAgents, policyError, poller>>

(* What the health endpoint can answer.  readable is FALSE when            *)
(* disabledAgents is missing, not a list or has an entry that is no name.  *)
HealthBody == [on : BOOLEAN, disabled : SUBSET Agents, readable : BOOLEAN]

ASSUME SwitchAssumption == Settings \subseteq HealthBody

SwitchTypeOK ==
    /\ admin \in Settings
    /\ switchedOn \in {"unknown", "on", "off"}
    /\ disabledAgents \in SUBSET Agents
    /\ policyError \in BOOLEAN
    /\ poller \in {"idle", "notify", "applying"}

SwitchInit ==
    /\ admin \in Settings
    /\ switchedOn = "unknown"
    /\ disabledAgents = {}
    /\ policyError = FALSE
    /\ poller = "idle"

----------------------------------------------------------------------------
(* Readers.  A switch that was never read is on; a policy that cannot be   *)
(* read turns everybody off.                                               *)

(* Mutant: an unreadable policy is reported but not enforced. *)
OnIgnoringPolicyError == switchedOn # "off"

On == switchedOn # "off" /\ ~policyError

AllowsAgent(a) == On /\ a \notin disabledAgents

----------------------------------------------------------------------------
(* parse_disabled_agents: the agents to turn off, none when unreadable.    *)
ParsedAgents(body) == IF body.readable THEN body.disabled ELSE {}

(* eva-core's administrator saves other settings.                          *)
AdminSaves ==
    /\ \E new \in Settings \ {admin} : admin' = new
    /\ UNCHANGED <<policyVars, poller>>

(* A poll that fails (refused, timed out, HTTP error, a body without a     *)
(* boolean switchedOn) keeps the last-known state.                         *)
PollFails ==
    /\ poller = "idle"
    /\ UNCHANGED switchVars

(* Mutants of PollSucceeds: the policy error is never cleared; only a      *)
(* changed master switch is notified; nothing is.                          *)
PollSucceedsKeepingError ==
    /\ poller = "idle"
    /\ switchedOn' = IF admin.on THEN "on" ELSE "off"
    /\ disabledAgents' = ParsedAgents(admin)
    /\ policyError' = (policyError \/ ~admin.readable)
    /\ poller' = IF On' # On \/ disabledAgents' # disabledAgents THEN "notify" ELSE "idle"
    /\ UNCHANGED admin

PollSucceedsNotifyingMasterOnly ==
    /\ poller = "idle"
    /\ switchedOn' = IF admin.on THEN "on" ELSE "off"
    /\ disabledAgents' = ParsedAgents(admin)
    /\ policyError' = ~admin.readable
    /\ poller' = IF On' # On THEN "notify" ELSE "idle"
    /\ UNCHANGED admin

PollSucceedsSilently ==
    /\ poller = "idle"
    /\ switchedOn' = IF admin.on THEN "on" ELSE "off"
    /\ disabledAgents' = ParsedAgents(admin)
    /\ policyError' = ~admin.readable
    /\ UNCHANGED <<admin, poller>>

(* A poll that succeeds stores the whole policy at once, and goes on to    *)
(* the listeners only if the effective switch or the agent list changed.   *)
PollSucceeds ==
    /\ poller = "idle"
    /\ switchedOn' = IF admin.on THEN "on" ELSE "off"
    /\ disabledAgents' = ParsedAgents(admin)
    /\ policyError' = ~admin.readable
    /\ poller' = IF On' # On \/ disabledAgents' # disabledAgents THEN "notify" ELSE "idle"
    /\ UNCHANGED admin

----------------------------------------------------------------------------
(* An agent that was not allowed becomes allowed only on a poll that read  *)
(* a well-formed policy in which the admin allows it: neither a failed     *)
(* poll nor an unreadable policy re-enables an agent the admin turned off  *)
(* (switch.py 7-14, poll_once).                                            *)
ReenabledOnlyByAdmin ==
    [][\A a \in Agents :
          ~AllowsAgent(a) /\ AllowsAgent(a)' =>
              admin.on /\ admin.readable /\ a \notin admin.disabled]_switchVars

(* If eva-core keeps answering now and then and its settings stop          *)
(* changing, the sidecar ends up allowing exactly the agents the settings  *)
(* allow, whatever unreadable or contrary bodies it saw before.            *)
PolicyConverges ==
    \A s \in Settings :
        <>[](admin = s) =>
            <>[](\A a \in Agents : AllowsAgent(a) <=> s.on /\ s.readable /\ a \notin s.disabled)

=============================================================================
