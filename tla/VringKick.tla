----------------------------- MODULE VringKick -----------------------------
(***************************************************************************)
(* One vring as three concurrent actors see it (src/vdev.c):               *)
(*  - the guest, which publishes requests in the avail ring and kicks the  *)
(*    kick eventfd;                                                        *)
(*  - the request-queue loop, which polls the eventfd while it is attached *)
(*    as an event source and runs vring_io_event on it: check is_enabled,  *)
(*    clear the eventfd, dispatch everything available;                    *)
(*  - the vhost loop, which enables and disables the vring                 *)
(*    (vring_set_enable) on SET_VRING_ENABLE, SET_VRING_KICK,              *)
(*    GET_VRING_BASE or disconnect.                                        *)
(* The event loop (event.c) is not in this repository: a poll step takes   *)
(* a readable eventfd of an attached source, and the callback runs in a    *)
(* later step, as epoll_wait followed by the handler loop does.            *)
(* vhd_detach_event removes the source from the epoll set and does not     *)
(* wait for a callback already taken by the loop.                          *)
(***************************************************************************)
EXTENDS Integers

CONSTANT MaxRequests    \* requests the guest publishes in one behaviour

ASSUME MaxRequests \in Nat \ {0}

VARIABLES
    availIdx,       \* avail ring index written by the guest
    lastAvail,      \* vq.last_avail: requests taken by dispatch
    kickPending,    \* the kick eventfd is readable
    guestPc,        \* "idle" or "kick": published, not yet kicked
    rqPc,           \* request loop: "idle", "fired" (event taken), "dispatch", "return"
    isEnabled,      \* vring->is_enabled
    attached,       \* vring->vq is attached (virtio_virtq_attach/release)
    registered,     \* kickfd is an event source of the request queue loop
    memMapped,      \* the guest memory the rings lie in is mapped
    vhostPc,        \* vhost loop inside a handler: "idle", "unmapped"
                    \* (conn_close between unmap_all and the vring
                    \* uninit loop) or "based" (GET_VRING_BASE between
                    \* reading last_avail and disabling the vring)
    vqBase,         \* vq_base, the last_avail GET_VRING_BASE read
    protoNeg,       \* VHOST_USER_F_PROTOCOL_FEATURES is negotiated
    reportedBase,   \* the base the master was told for a stopped vring
    ringsSet        \* vring->client_info holds ring addresses map_uva found

vhostVars == <<memMapped, vhostPc, vqBase, protoNeg, reportedBase, ringsSet>>

vars == <<availIdx, lastAvail, kickPending, guestPc, rqPc, isEnabled,
          attached, registered, vhostVars>>

\* No base has been reported for the vring as it is now.
NoBase == -1

-----------------------------------------------------------------------------
(* Guest                                                                   *)

PublishRequest ==
    /\ guestPc = "idle"
    /\ availIdx < MaxRequests
    /\ availIdx' = availIdx + 1
    /\ guestPc' = "kick"
    /\ UNCHANGED <<lastAvail, kickPending, rqPc, isEnabled, attached, registered, vhostVars>>

Kick ==
    /\ guestPc = "kick"
    /\ kickPending' = TRUE
    /\ guestPc' = "idle"
    /\ UNCHANGED <<availIdx, lastAvail, rqPc, isEnabled, attached, registered, vhostVars>>

-----------------------------------------------------------------------------
(* Request-queue loop                                                      *)

\* epoll_wait reports the readable kick fd of an attached source.
PollKick ==
    /\ rqPc = "idle"
    /\ registered /\ kickPending
    /\ rqPc' = "fired"
    /\ UNCHANGED <<availIdx, lastAvail, kickPending, guestPc, isEnabled,
                   attached, registered, vhostVars>>

\* vring_io_event: a disabled vring is an error; otherwise the eventfd is
\* cleared before the requests are dispatched.
vring_io_event ==
    /\ rqPc = "fired"
    /\ IF isEnabled
       THEN /\ kickPending' = FALSE
            /\ rqPc' = "dispatch"
       ELSE /\ rqPc' = "idle"
            /\ UNCHANGED kickPending
    /\ UNCHANGED <<availIdx, lastAvail, guestPc, isEnabled, attached, registered, vhostVars>>

\* Mutant: the walk counts one request past the avail index.
dispatch_past_avail ==
    /\ rqPc = "dispatch"
    /\ lastAvail' = availIdx + 1
    /\ rqPc' = "return"
    /\ UNCHANGED <<availIdx, kickPending, guestPc, isEnabled, attached, registered, vhostVars>>

\* vhd_vdev_dispatch_requests: the device type walks every available
\* descriptor and enqueues it.
vhd_vdev_dispatch_requests ==
    /\ rqPc = "dispatch"
    /\ lastAvail' = availIdx
    /\ rqPc' = "return"
    /\ UNCHANGED <<availIdx, kickPending, guestPc, isEnabled, attached, registered, vhostVars>>

\* Mutant: the eventfd is cleared when the callback returns, after the walk.
io_event_return_clears ==
    /\ rqPc = "return"
    /\ kickPending' = FALSE
    /\ rqPc' = "idle"
    /\ UNCHANGED <<availIdx, lastAvail, guestPc, isEnabled, attached, registered, vhostVars>>

\* vring_io_event returns the result of the dispatch to the loop; the guest
\* may publish and kick between the walk's last read and this return.
io_event_return ==
    /\ rqPc = "return"
    /\ rqPc' = "idle"
    /\ UNCHANGED <<availIdx, lastAvail, kickPending, guestPc, isEnabled,
                   attached, registered, vhostVars>>

-----------------------------------------------------------------------------
(* Vhost loop: vring_set_enable                                            *)

\* Mutant: the vring is enabled without attaching its kick fd as a source.
VringEnableNoSource ==
    /\ vhostPc = "idle" /\ ringsSet
    /\ ~isEnabled
    /\ isEnabled' = TRUE
    /\ attached' = TRUE
    /\ reportedBase' = NoBase
    /\ UNCHANGED <<availIdx, lastAvail, kickPending, guestPc, rqPc, registered,
                   memMapped, vhostPc, vqBase, protoNeg, ringsSet>>

\* Enable (SET_VRING_ENABLE 1, or the first SET_VRING_KICK in legacy mode):
\* attach the virtqueue, which needs the ring addresses SET_VRING_ADDR
\* stored (whether the memory they point into is still mapped is not
\* checked), set the notify fd, attach the kick fd as a source.
\* last_avail is kept: the master passes back the base it read.
VringEnable ==
    /\ vhostPc = "idle" /\ ringsSet
    /\ ~isEnabled
    /\ isEnabled' = TRUE
    /\ attached' = TRUE
    /\ registered' = TRUE
    /\ reportedBase' = NoBase
    /\ UNCHANGED <<availIdx, lastAvail, kickPending, guestPc, rqPc,
                   memMapped, vhostPc, vqBase, protoNeg, ringsSet>>

\* The disable branch of vring_set_enable: detach the kick source, release
\* the virtqueue, clear the flag.
VringSetDisabled ==
    /\ registered' = FALSE
    /\ attached' = FALSE
    /\ isEnabled' = FALSE

\* vhd_vring_uninit: disable an enabled vring, leave a disabled one alone.
vhd_vring_uninit ==
    IF isEnabled THEN VringSetDisabled
    ELSE UNCHANGED <<registered, attached, isEnabled>>

\* SET_VRING_ENABLE 0.  (A second SET_VRING_KICK in legacy mode calls
\* vring_set_enable(true), which returns at once on an enabled vring.)
VringDisable ==
    /\ vhostPc = "idle"
    /\ isEnabled
    /\ VringSetDisabled
    /\ UNCHANGED <<availIdx, lastAvail, kickPending, guestPc, rqPc, vhostVars>>

\* vhost_set_vring_addr on a disabled vring: map_uva translates the three
\* ring addresses through the memory mapped now; if one is not found it
\* is EINVAL and client_info keeps what it held.  Nothing ever clears
\* client_info: it outlives an unmap and a disconnect.
vhost_set_vring_addr ==
    /\ vhostPc = "idle"
    /\ ~isEnabled
    /\ ringsSet' = (ringsSet \/ memMapped)
    /\ UNCHANGED <<availIdx, lastAvail, kickPending, guestPc, rqPc, isEnabled,
                   attached, registered, memMapped, vhostPc, vqBase, protoNeg,
                   reportedBase>>

\* vhost_set_mem_table: the table maps, or a region fails (EBUSY for a
\* live slot with another gpa or size, EINVAL, a failed mmap) and
\* error_unmap unmaps all guest memory, whatever vrings are enabled.
SetMemTable ==
    /\ vhostPc = "idle"
    /\ memMapped' \in BOOLEAN
    /\ UNCHANGED <<availIdx, lastAvail, kickPending, guestPc, rqPc, isEnabled,
                   attached, registered, vhostPc, vqBase, protoNeg, reportedBase, ringsSet>>

\* conn_close, change_device_state from CONNECTED: unmap all guest memory
\* (and drop ownership), then the vring uninit loop.  The request loop
\* runs between the two.
DisconnectUnmap ==
    /\ vhostPc = "idle"
    /\ memMapped' = FALSE
    /\ vhostPc' = "unmapped"
    /\ reportedBase' = NoBase
    /\ UNCHANGED <<availIdx, lastAvail, kickPending, guestPc, rqPc, isEnabled,
                   attached, registered, vqBase, protoNeg, ringsSet>>

DisconnectUninit ==
    /\ vhostPc = "unmapped"
    /\ vhd_vring_uninit
    /\ vhostPc' = "idle"
    /\ UNCHANGED <<availIdx, lastAvail, kickPending, guestPc, rqPc,
                   memMapped, vqBase, protoNeg, reportedBase, ringsSet>>

\* vhost_get_vring_base: read vq.last_avail.  With F_PROTOCOL_FEATURES the
\* reply follows at once and stops nothing: the master stops the vring
\* with SET_VRING_ENABLE 0 first, so the base it gets is final only if
\* the vring is disabled.  Without it the vring is disabled next.
GetVringBaseRead ==
    /\ vhostPc = "idle"
    /\ IF protoNeg
       THEN /\ reportedBase' = IF isEnabled THEN NoBase ELSE lastAvail
            /\ UNCHANGED <<vhostPc, vqBase>>
       ELSE /\ vqBase' = lastAvail
            /\ vhostPc' = "based"
            /\ UNCHANGED reportedBase
    /\ UNCHANGED <<availIdx, lastAvail, kickPending, guestPc, rqPc, isEnabled,
                   attached, registered, memMapped, protoNeg, ringsSet>>

\* Legacy GET_VRING_BASE: vring_set_enable(vring, false), then the reply
\* carrying the vq_base read before.
GetVringBaseDisable ==
    /\ vhostPc = "based"
    /\ vhd_vring_uninit
    /\ reportedBase' = vqBase
    /\ vqBase' = 0
    /\ vhostPc' = "idle"
    /\ UNCHANGED <<availIdx, lastAvail, kickPending, guestPc, rqPc,
                   memMapped, protoNeg, ringsSet>>

-----------------------------------------------------------------------------

Init ==
    /\ availIdx = 0
    /\ lastAvail = 0
    /\ kickPending = FALSE
    /\ guestPc = "idle"
    /\ rqPc = "idle"
    /\ isEnabled = FALSE
    /\ attached = FALSE
    /\ registered = FALSE
    /\ memMapped = FALSE
    /\ vhostPc = "idle"
    /\ vqBase = 0
    /\ protoNeg \in BOOLEAN
    /\ reportedBase = NoBase
    /\ ringsSet = FALSE

VhostLoop ==
    \/ VringEnable \/ VringDisable \/ SetMemTable \/ vhost_set_vring_addr
    \/ DisconnectUnmap \/ DisconnectUninit
    \/ GetVringBaseRead \/ GetVringBaseDisable

RequestLoop ==
    PollKick \/ vring_io_event \/ vhd_vdev_dispatch_requests \/ io_event_return

Next ==
    \/ PublishRequest \/ Kick
    \/ RequestLoop
    \/ VhostLoop

\* The request loop runs whatever is ready; a guest that published a
\* request goes on to kick; a vhost-loop handler, once started, runs to
\* its end.  Publishing and the master's messages are the environment's
\* choice.
Fairness ==
    /\ WF_vars(Kick)
    /\ WF_vars(PollKick)
    /\ WF_vars(vring_io_event)
    /\ WF_vars(vhd_vdev_dispatch_requests)
    /\ WF_vars(io_event_return)
    /\ WF_vars(DisconnectUninit)
    /\ WF_vars(GetVringBaseDisable)

Spec == Init /\ [][Next]_vars /\ Fairness

-----------------------------------------------------------------------------
(* Properties                                                              *)

TypeOK ==
    /\ availIdx \in 0 .. MaxRequests
    /\ lastAvail \in 0 .. availIdx
    /\ kickPending \in BOOLEAN
    /\ guestPc \in {"idle", "kick"}
    /\ rqPc \in {"idle", "fired", "dispatch", "return"}
    /\ {isEnabled, attached, registered, memMapped, protoNeg, ringsSet} \subseteq BOOLEAN
    /\ vhostPc \in {"idle", "unmapped", "based"}
    /\ vqBase \in 0 .. MaxRequests
    /\ reportedBase \in {NoBase} \cup 0 .. MaxRequests

\* No kick is lost: whenever the guest has kicked everything it published
\* and the request loop is idle with nothing pending on an enabled vring,
\* every published request has been dispatched.  This is what clearing the
\* eventfd before dispatching (not after) buys.
NoStrandedRequest ==
    (guestPc = "idle" /\ rqPc = "idle" /\ ~kickPending /\ isEnabled)
        => lastAvail = availIdx

\* Every published and kicked request is eventually dispatched, unless the
\* vring is disabled meanwhile.
DispatchEventually ==
    \A n \in 1 .. MaxRequests :
        (availIdx >= n /\ guestPc = "idle") ~> (lastAvail >= n \/ ~isEnabled)

\* Spec 5: memory a vring uses is not revoked until the vring is disabled:
\* whenever vring_io_event finds the vring enabled and goes on to dispatch,
\* the guest memory its rings lie in is mapped.  conn_close unmaps all
\* memory before the vring uninit loop, and a failing SET_MEM_TABLE unmaps
\* it with vrings enabled.
IoEventOnMappedMemory ==
    [][rqPc = "fired" /\ rqPc' = "dispatch" => memMapped]_vars

\* The base GET_VRING_BASE reports for a stopped vring is where the
\* backend stopped: no request is taken from the avail ring after it, so
\* a master resuming from that base processes none twice.  Broken by the
\* legacy path reading last_avail before disabling, and by a dispatch
\* still in flight when SET_VRING_ENABLE 0 returns.
StoppedBaseFinal == reportedBase # NoBase => lastAvail = reportedBase

=============================================================================
