---------------------------- MODULE WarmLedger ----------------------------
(***************************************************************************)
(* What the catch-up sidecar promises the harness about a session, with no *)
(* queue, slots, threads, generations or switch: the snapshot the session  *)
(* wants warm and what the sidecar says of it.  CatchupService implements  *)
(* it.                                                                     *)
(***************************************************************************)
CONSTANTS Sessions, Hashes, NoHash

VARIABLES
    want,          \* the snapshot posted last
    view           \* "idle", "warming", "warm", "error" or "off"

LedgerInit ==
    /\ want = [s \in Sessions |-> NoHash]
    /\ view = [s \in Sessions |-> "idle"]

(* The harness posts a snapshot: it is accepted, or parked while catch-up  *)
(* is off.  Only the very snapshot the session is warm for stays warm.     *)
Post(s, h) ==
    /\ want' = [want EXCEPT ![s] = h]
    /\ \/ \E v \in {"warming", "off"} : view' = [view EXCEPT ![s] = v]
       \/ view[s] = "warm" /\ want[s] = h /\ UNCHANGED view

(* A session that waits is settled by its warm or parked by the switch.    *)
Settle(s) ==
    /\ view[s] = "warming"
    /\ \E v \in {"warm", "error", "off"} : view' = [view EXCEPT ![s] = v]
    /\ UNCHANGED want

(* The switch goes off: any number of sessions that wait are parked.       *)
Park ==
    /\ \A s \in Sessions : view'[s] # view[s] => view[s] = "warming" /\ view'[s] = "off"
    /\ view' \in [Sessions -> {"idle", "warming", "warm", "error", "off"}]
    /\ UNCHANGED want

LedgerNext ==
    \/ \E s \in Sessions, h \in Hashes : Post(s, h)
    \/ \E s \in Sessions : Settle(s)
    \/ Park

LedgerSpec == LedgerInit /\ [][LedgerNext]_<<want, view>>

=============================================================================
