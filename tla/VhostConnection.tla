-------------------------- MODULE VhostConnection --------------------------
(***************************************************************************)
(* What a vhost-user server device promises about its connections (spec    *)
(* sections 3 and 4.4), without the protocol: it serves one master at a    *)
(* time; a master's requests change the session only while it is           *)
(* connected; when the master goes away the session is torn down (not     *)
(* owned, no vring enabled, no guest memory mapped) before the device      *)
(* listens again, or it ends up watching nothing; uninit disables every     *)
(* vring and the device is gone.  Before that, creating the device either  *)
(* starts it listening or fails, leaving no device.                        *)
(***************************************************************************)
CONSTANT Queues

VARIABLES
    phase,      \* "INIT", "LISTENING", "CONNECTED", "DETACHED" (watching nothing) or "FREED"
    owned,      \* the session's master has sent SET_OWNER
    enabled,    \* the vrings the session has started
    mapped      \* the session has guest memory mapped

vars == <<phase, owned, enabled, mapped>>

Init ==
    /\ phase = "INIT"
    /\ owned = FALSE
    /\ enabled = {}
    /\ mapped = FALSE

\* The device is created and starts listening.
Start ==
    /\ phase = "INIT"
    /\ phase' = "LISTENING"
    /\ UNCHANGED <<owned, enabled, mapped>>

\* A master connects to a listening device.
Connect ==
    /\ phase = "LISTENING"
    /\ phase' = "CONNECTED"
    /\ UNCHANGED <<owned, enabled, mapped>>

\* A request of the connected master changes the session.
Serve ==
    /\ phase = "CONNECTED"
    /\ owned' \in BOOLEAN
    /\ enabled' \in SUBSET Queues
    /\ mapped' \in BOOLEAN
    /\ UNCHANGED phase

\* The master goes away: the session is torn down, and the device listens
\* again or, if it cannot watch its listen socket, nothing.
Close ==
    /\ phase = "CONNECTED"
    /\ phase' \in {"LISTENING", "DETACHED"}
    /\ owned' = FALSE
    /\ enabled' = {}
    /\ mapped' = FALSE

\* The device is destroyed, or its creation fails: every vring is
\* disabled first.
Free ==
    /\ phase # "FREED"
    /\ phase' = "FREED"
    /\ enabled' = {}
    /\ UNCHANGED <<owned, mapped>>

Next == Start \/ Connect \/ Serve \/ Close \/ Free

Spec == Init /\ [][Next]_vars
=============================================================================
