---------------------------- MODULE VhostDevice ----------------------------
(***************************************************************************)
(* One vhost-user server device (struct vhd_vdev, src/vdev.c) as seen by   *)
(* the vhost event loop: the connection state machine, the protocol engine *)
(* (one action per vhost-user request, the REPLY_ACK reply included), the  *)
(* guest memory map, the vring records and the inflight region.           *)
(*                                                                         *)
(* Every handler runs to completion on the vhost loop (spec section 5), so *)
(* each request is one atomic action.  The master is the environment: it   *)
(* may send any request with any small payload, attach fds or not, and     *)
(* close the connection at any time.                                       *)
(*                                                                         *)
(* File descriptors are numbers 1..MaxFd handed out fresh as the master    *)
(* passes them; NoFd stands for the -1 that net_recv_msg's poisoned        *)
(* control buffer leaves where no fd was passed.  A mapping is identified  *)
(* by the fd it was made from, so a vring address (a host pointer in the   *)
(* code) is the identity of the mapping it points into.                    *)
(***************************************************************************)
EXTENDS Integers, Sequences, SequencesExt

CONSTANTS
    MaxQueues,      \* vdev->max_queues (= num_queues: SET_CONFIG is ENOTSUP)
    MaxRegions,     \* VHOST_USER_MEM_REGIONS_MAX, scaled down
    MaxFd,          \* bound on fds the master may pass in one behaviour
    RegionDescs,    \* memory region descriptors the master may send
    VringUvas,      \* master addresses it may give in SET_VRING_ADDR
    VringNums,      \* values of SET_VRING_NUM
    VringBases,     \* values of SET_VRING_BASE
    DevFeatures,    \* what the device type's get_features() adds
    SupportedProtocolFeatures,  \* g_default_protocol_features
    EventLoopCanFail,   \* vhd_add_vhost_event may return an error
    SunPathLen,     \* sizeof(sockaddr.sun_path), scaled down
    PathLens,       \* strlen() of the socket paths the caller may pass
    MasterOmitsFds  \* the master may send a request that takes fds without any

ASSUME MaxQueues \in Nat \ {0} /\ MaxRegions \in Nat \ {0} /\ MaxFd \in Nat
ASSUME RegionDescs \subseteq
         [gpa : Nat, uva : Nat, pages : Nat \ {0}, aligned : BOOLEAN]
ASSUME EventLoopCanFail \in BOOLEAN /\ MasterOmitsFds \in BOOLEAN

VARIABLES
    state,          \* vdev->state
    vhostSources,   \* which of listenfd ("listen") / connfd ("conn") the vhost loop watches
    isOwned,        \* vdev->is_owned
    supportedFeatures,          \* vdev->supported_features
    negotiatedFeatures,         \* vdev->negotiated_features
    negotiatedProtocolFeatures, \* vdev->negotiated_protocol_features
    memmap,         \* vdev->guest_memmap.regions
    vrings,         \* vdev->vrings[]
    rqSources,      \* <<vring id, fd>> event sources attached to the request queue loop
    inflight,       \* vdev->inflightfd / inflight_mem
    openFds,        \* fds this process owns (received or created) and has not closed
    nextFd,         \* the next fd number the master or memfd_create hands out
    lastReq,        \* replies sent to the last request, and how many it should get
    inRegistry,     \* the device is on g_vdevs: not yet vhd_vdev_uninit'ed
    path, pathLen, createPc, listenFd,  \* the listen socket (ListenSocket)
    initRet         \* what vhd_vdev_init_server returned, or "pending"

vars == <<state, vhostSources, isOwned, supportedFeatures, negotiatedFeatures,
          negotiatedProtocolFeatures, memmap, vrings, rqSources, inflight,
          openFds, nextFd, lastReq, inRegistry,
          path, pathLen, createPc, listenFd, initRet>>

listenVars == <<path, pathLen, createPc, listenFd, initRet>>

\* sock_create_server and prepare_server_sock_path, on the same variables.
Listen == INSTANCE ListenSocket

States == {"INITIALIZED", "LISTENING", "CONNECTED"}
NoFd == -1
NULL == 0
OK == "OK"      \* a handler return value of 0
Queues == 0 .. MaxQueues - 1
Regions == 0 .. MaxRegions - 1
Fds == 1 .. MaxFd

F_PROTOCOL_FEATURES == "F_PROTOCOL_FEATURES"
REPLY_ACK == "REPLY_ACK"

\* g_default_features
DefaultFeatures == {F_PROTOCOL_FEATURES}

\* Requests whose successful explicit reply replaces the REPLY_ACK ack
\* (the case list of vhost_ack_request_if_needed).
AckSuppressed == {"GET_FEATURES", "GET_PROTOCOL_FEATURES", "GET_CONFIG",
                  "GET_QUEUE_NUM", "GET_VRING_BASE"}

has_feature(features, bit) == bit \in features

-----------------------------------------------------------------------------
(* Guest memory map                                                        *)

EmptyRegion == [gpa |-> 0, uva |-> 0, pages |-> 0, hva |-> NULL, fd |-> 0]

is_region_mapped(reg) == reg.hva # NULL

region_size_bytes(reg) == reg.pages   \* in pages: PAGE_SIZE is the unit

\* Mutant: the idempotent remap closes the mapped fd instead of the new one.
map_guest_region_closes_mapped(reg, d, fd) ==
    CASE ~d.aligned ->
            [region |-> reg, ret |-> "EINVAL", closed |-> {}]
      [] is_region_mapped(reg) /\ reg.gpa = d.gpa /\ reg.pages = d.pages ->
            [region |-> reg, ret |-> OK, closed |-> {reg.fd}]
      [] is_region_mapped(reg) ->
            [region |-> reg, ret |-> "EBUSY", closed |-> {}]
      [] fd = NoFd ->
            [region |-> reg, ret |-> "EBADF", closed |-> {}]
      [] OTHER ->
            [region |-> [gpa |-> d.gpa, uva |-> d.uva, pages |-> d.pages,
                         hva |-> fd, fd |-> fd],
             ret |-> OK, closed |-> {}]

\* map_guest_region on one slot: the new slot, the result and the fds closed.
map_guest_region(reg, d, fd) ==
    CASE ~d.aligned ->
            [region |-> reg, ret |-> "EINVAL", closed |-> {}]
      [] is_region_mapped(reg) /\ reg.gpa = d.gpa /\ reg.pages = d.pages ->
            [region |-> reg, ret |-> OK, closed |-> {fd}]
      [] is_region_mapped(reg) ->
            [region |-> reg, ret |-> "EBUSY", closed |-> {}]
      [] fd = NoFd ->     \* mmap(-1) fails with EBADF
            [region |-> reg, ret |-> "EBADF", closed |-> {}]
      [] OTHER ->
            [region |-> [gpa |-> d.gpa, uva |-> d.uva, pages |-> d.pages,
                         hva |-> fd, fd |-> fd],
             ret |-> OK, closed |-> {}]

\* vhd_guest_memory_unmap_all: the emptied map and the fds it closes.
MappedFds(mm) == {mm[r].fd : r \in {x \in DOMAIN mm : is_region_mapped(mm[x])}}
UnmapAll(mm) == [r \in DOMAIN mm |-> EmptyRegion]

\* The loop of vhost_set_mem_table from region i (1-based in the table,
\* slot i-1 in the map): stops at the first error and closes the fds of
\* the regions not yet processed, the failing one included.
RECURSIVE MapRegionsFrom(_, _, _, _)
MapRegionsFrom(mm, table, fds, i) ==
    IF i > Len(table) THEN [map |-> mm, ret |-> OK, closed |-> {}]
    ELSE LET r == map_guest_region(mm[i - 1], table[i], fds[i])
         IN IF r.ret # OK
            THEN [map |-> mm, ret |-> r.ret,
                  closed |-> {fds[j] : j \in i .. Len(table)}]
            ELSE LET rest == MapRegionsFrom([mm EXCEPT ![i - 1] = r.region],
                                            table, fds, i + 1)
                 IN [rest EXCEPT !.closed = @ \cup r.closed]

\* map_uva: the mapping of the first live region containing uva, or NULL.
map_uva(mm, uva) ==
    LET hits == {r \in DOMAIN mm : is_region_mapped(mm[r])
                                   /\ uva >= mm[r].uva
                                   /\ uva - mm[r].uva < region_size_bytes(mm[r])}
    IN IF hits = {} THEN NULL ELSE mm[Min(hits)].hva

-----------------------------------------------------------------------------
(* Vrings                                                                  *)

\* vhd_vring_init on a calloc'ed record: errfd is left 0, not -1.
vhd_vring_init == [enabled |-> FALSE, kickfd |-> NoFd, callfd |-> NoFd,
                   errfd |-> 0, desc |-> NULL, num |-> 0, base |-> 0,
                   attached |-> FALSE, notify |-> NoFd]

\* virtio_virtq_attach (virtio/virt_queue.c, not in this repository):
\* needs the ring addresses and a ring size.
virtio_virtq_attach_ok(vr) == vr.desc # NULL /\ vr.num # 0

\* vhd_attach_event: adding an fd to the request queue's epoll set fails for
\* -1 (EBADF) and for an fd already in the set (EEXIST).
vhd_attach_event_ok(rq, fd) == fd # NoFd /\ ~\E s \in rq : s[2] = fd

\* vring_set_enable: the new vring record, request-queue sources and result.
vring_set_enable(i, vr, rq, doEnable) ==
    CASE doEnable = vr.enabled ->
            [vring |-> vr, rq |-> rq, ret |-> OK]
      [] doEnable /\ ~virtio_virtq_attach_ok(vr) ->
            [vring |-> vr, rq |-> rq, ret |-> "EINVAL"]
      [] doEnable /\ ~vhd_attach_event_ok(rq, vr.kickfd) ->
            \* virtq_set_notify_fd, then virtio_virtq_release
            [vring |-> [vr EXCEPT !.attached = FALSE, !.notify = NoFd],
             rq |-> rq, ret |-> "EBADF"]
      [] doEnable ->
            [vring |-> [vr EXCEPT !.enabled = TRUE, !.attached = TRUE,
                                  !.notify = vr.callfd],
             rq |-> rq \cup {<<i, vr.kickfd>>}, ret |-> OK]
      [] OTHER ->
            \* vhd_detach_event removes the source by fd, then release
            [vring |-> [vr EXCEPT !.enabled = FALSE, !.attached = FALSE,
                                  !.notify = NoFd],
             rq |-> {s \in rq : s[2] # vr.kickfd}, ret |-> OK]



-----------------------------------------------------------------------------
(* Replies and passed fds                                                  *)

\* vhost_ack_request_if_needed: 1 if an ack carrying ret is sent.  It reads
\* the protocol features as the handler left them.
vhost_ack_request_if_needed(op, ack, ret, proto) ==
    IF has_feature(proto, REPLY_ACK) /\ ack /\ ~(ret = OK /\ op \in AckSuppressed)
    THEN 1 ELSE 0

\* The requests the spec's table gives an explicit reply.
Getters == AckSuppressed \cup {"GET_INFLIGHT_FD"}

\* Replies the spec (section 4.2) says a request gets: one for a getter
\* (its explicit reply, or the ack carrying its error), one for a setter
\* when REPLY_ACK is negotiated and asked for, none otherwise.
ExpectedReplies(op, ack, proto) ==
    IF op \in Getters \/ (has_feature(proto, REPLY_ACK) /\ ack) THEN 1 ELSE 0

\* The tail of vhost_handle_request: the replies the request was sent (its
\* explicit reply and the ack) next to those it should have been sent.
Handled(op, ack, ret, explicit) ==
    lastReq' = [sent |-> explicit + vhost_ack_request_if_needed(
                            op, ack, ret, negotiatedProtocolFeatures'),
                expected |-> ExpectedReplies(op, ack, negotiatedProtocolFeatures')]

\* Whether the master attaches an fd to a request whose handler ignores it:
\* a fresh one, or none.
FdChoices == IF nextFd <= MaxFd THEN {nextFd, NoFd} ELSE {NoFd}
Got(fd) == IF fd = NoFd THEN {} ELSE {fd}

\* conn_read's fds[] is not initialised, and net_recv_msg writes it only
\* when the message carries SCM_RIGHTS; the poisoned control buffer then
\* gives -1 to the slots past the fds passed.  A handler reading fds[i] of
\* a message without fds reads what the stack slot held: NoFd stands for a
\* value that is no fd of this process, an open fd for one it holds (such
\* as the memfd GET_INFLIGHT_FD left in fds[0], or a previous message's fd).
UninitFdSlot == {NoFd} \cup openFds

\* fds[0] as a handler that takes one fd reads it: the fd the master
\* passed, or the uninitialised slot when it passed none.
SlotChoices ==
    (IF nextFd <= MaxFd THEN {nextFd} ELSE {})
      \cup (IF MasterOmitsFds THEN UninitFdSlot ELSE {})

\* The fd a request brings into the process: only a fresh one is new.
Received(fd) == IF fd >= nextFd THEN {fd} ELSE {}
Consume(fd) == nextFd' = IF fd >= nextFd THEN nextFd + 1 ELSE nextFd

\* conn_read is only called while the connection fd is watched.  A callback
\* on a device already vhd_vdev_uninit'ed would run on freed memory; the
\* model stops there (UninitReleases flags the states where it can).
Connected == "conn" \in vhostSources /\ inRegistry

\* vhd_add_vhost_event: 0 (TRUE) on success or a negative error code
\* (epoll_ctl failing) when the event loop can fail.
AddVhostEventOk == IF EventLoopCanFail THEN BOOLEAN ELSE {TRUE}

connVars == <<state, vhostSources, isOwned, inRegistry>>
featVars == <<supportedFeatures, negotiatedFeatures, negotiatedProtocolFeatures>>

\* vhd_vring_uninit on every vring: disable the enabled ones.
VringsUninit ==
    LET off(i) == vring_set_enable(i, vrings[i], rqSources, FALSE)
    IN [vrings |-> [i \in Queues |-> off(i).vring],
        rq |-> {s \in rqSources : \A i \in Queues : s \in off(i).rq}]

-----------------------------------------------------------------------------
(* Connection state machine: server_read, conn_close, change_device_state *)

\* Mutant: the listen fd is not removed from the vhost loop on accept.
AcceptKeepsListening ==
    /\ "listen" \in vhostSources /\ inRegistry
    /\ state = "LISTENING"
    /\ state' = "CONNECTED"
    /\ vhostSources' = {"listen", "conn"}
    /\ UNCHANGED <<isOwned, featVars, memmap, vrings, rqSources, inflight,
                   openFds, nextFd, lastReq, inRegistry>>

\* server_read: accept, then LISTENING -> CONNECTED.  accept/fcntl failures
\* close the new socket and change nothing, so they are not actions.
Accept ==
    /\ "listen" \in vhostSources /\ inRegistry
    /\ state = "LISTENING"
    /\ state' = "CONNECTED"
    /\ vhostSources' = {"conn"}
    /\ UNCHANGED <<isOwned, featVars, memmap, vrings, rqSources, inflight,
                   openFds, nextFd, lastReq, inRegistry>>

\* Mutant: the vrings are not uninitialised on disconnect.
DisconnectKeepsVrings ==
    /\ Connected
    /\ state = "CONNECTED"
    /\ \E addOk \in AddVhostEventOk :
         /\ state' = IF addOk THEN "LISTENING" ELSE state
         /\ vhostSources' = IF addOk THEN {"listen"} ELSE {}
    /\ memmap' = UnmapAll(memmap)
    /\ openFds' = openFds \ MappedFds(memmap)
    /\ isOwned' = FALSE
    /\ UNCHANGED <<featVars, vrings, rqSources, inflight, nextFd, lastReq, inRegistry>>

\* Mutant: the owner flag survives the connection.
DisconnectKeepsOwner ==
    /\ Connected
    /\ state = "CONNECTED"
    /\ \E addOk \in AddVhostEventOk :
         /\ state' = IF addOk THEN "LISTENING" ELSE state
         /\ vhostSources' = IF addOk THEN {"listen"} ELSE {}
    /\ memmap' = UnmapAll(memmap)
    /\ openFds' = openFds \ MappedFds(memmap)
    /\ vrings' = VringsUninit.vrings
    /\ rqSources' = VringsUninit.rq
    /\ UNCHANGED <<isOwned, featVars, inflight, nextFd, lastReq, inRegistry>>

\* conn_close: CONNECTED -> LISTENING.  Everything up to re-adding the
\* listen fd is done before that can fail; on failure the state stays.
Disconnect ==
    /\ Connected
    /\ state = "CONNECTED"
    /\ \E addOk \in AddVhostEventOk :
         /\ state' = IF addOk THEN "LISTENING" ELSE state
         /\ vhostSources' = IF addOk THEN {"listen"} ELSE {}
    /\ memmap' = UnmapAll(memmap)
    /\ openFds' = openFds \ MappedFds(memmap)
    /\ isOwned' = FALSE
    /\ vrings' = VringsUninit.vrings
    /\ rqSources' = VringsUninit.rq
    /\ UNCHANGED <<featVars, inflight, nextFd, lastReq, inRegistry>>

-----------------------------------------------------------------------------
(* Feature negotiation and ownership                                       *)

GetFeatures(ack) ==
    /\ Connected
    /\ supportedFeatures' = DefaultFeatures \cup DevFeatures
    /\ UNCHANGED <<connVars, negotiatedFeatures, negotiatedProtocolFeatures,
                   memmap, vrings, rqSources, inflight, openFds, nextFd>>
    /\ Handled("GET_FEATURES", ack, OK, 1)

\* Mutant: the requested features are stored without the supported mask.
SetFeaturesUnmasked(ack, requested) ==
    /\ Connected
    /\ negotiatedFeatures' = requested
    /\ UNCHANGED <<connVars, supportedFeatures, negotiatedProtocolFeatures,
                   memmap, vrings, rqSources, inflight, openFds, nextFd>>
    /\ Handled("SET_FEATURES", ack, OK, 0)

SetFeatures(ack, requested) ==
    /\ Connected
    /\ negotiatedFeatures' = requested \cap supportedFeatures
    /\ UNCHANGED <<connVars, supportedFeatures, negotiatedProtocolFeatures,
                   memmap, vrings, rqSources, inflight, openFds, nextFd>>
    /\ Handled("SET_FEATURES", ack, OK, 0)

SetProtocolFeatures(ack, requested) ==
    /\ Connected
    /\ negotiatedProtocolFeatures' = requested \cap SupportedProtocolFeatures
    /\ UNCHANGED <<connVars, supportedFeatures, negotiatedFeatures,
                   memmap, vrings, rqSources, inflight, openFds, nextFd>>
    /\ Handled("SET_PROTOCOL_FEATURES", ack, OK, 0)

SetOwner(ack) ==
    /\ Connected
    /\ isOwned' = TRUE
    /\ UNCHANGED <<state, vhostSources, inRegistry, featVars, memmap, vrings,
                   rqSources, inflight, openFds, nextFd>>
    /\ Handled("SET_OWNER", ack, OK, 0)

\* Getters that only reply: GET_PROTOCOL_FEATURES, GET_CONFIG, GET_QUEUE_NUM.
ReplyOnly == {"GET_PROTOCOL_FEATURES", "GET_CONFIG", "GET_QUEUE_NUM"}
GetterOnly(ack, op) ==
    /\ Connected
    /\ UNCHANGED <<connVars, featVars, memmap, vrings, rqSources, inflight,
                   openFds, nextFd>>
    /\ Handled(op, ack, OK, 1)

\* RESET_OWNER, SET_CONFIG and the listed unsupported requests return
\* ENOTSUP, an unknown request EINVAL.  An fd passed with any of them (as
\* SET_LOG_FD and SET_SLAVE_REQ_FD do) is kept open and referenced nowhere.
Rejected == {"RESET_OWNER", "SET_CONFIG", "SET_SLAVE_REQ_FD", "NONE"}
Reject(ack, op, fd) ==
    /\ Connected
    /\ openFds' = openFds \cup Got(fd)
    /\ Consume(fd)
    /\ UNCHANGED <<connVars, featVars, memmap, vrings, rqSources, inflight>>
    /\ Handled(op, ack, IF op = "NONE" THEN "EINVAL" ELSE "ENOTSUP", 0)


-----------------------------------------------------------------------------
(* SET_MEM_TABLE                                                           *)

\* fds[] as vhost_set_mem_table reads it for n regions: one fresh fd per
\* region; or, from a master that omits fds, k < n fresh ones and the -1
\* poison after them, or no SCM_RIGHTS at all and the uninitialised slots.
MemTableFds(n) ==
    LET passed(k) == [j \in 1 .. n |-> IF j <= k THEN nextFd + j - 1 ELSE NoFd]
    IN {passed(n)}
         \cup (IF MasterOmitsFds
               THEN {passed(k) : k \in 1 .. n - 1} \cup [1 .. n -> UninitFdSlot]
               ELSE {})

\* vhost_set_mem_table: map region i with fds[i]; on an error the fds not
\* yet used are closed and the whole map unmapped.  mmap of a value that
\* is no open fd fails with EBADF.
SetMemTable(ack, table, fds) ==
    LET n    == Len(table)
        got  == {fds[j] : j \in 1 .. n} \ (openFds \cup {NoFd})
        r    == MapRegionsFrom(memmap, table, fds, 1)
    IN /\ Connected
       /\ \A j \in 1 .. n : fds[j] <= MaxFd
       /\ nextFd' = nextFd + Cardinality(got)
       /\ IF r.ret = OK
          THEN /\ memmap' = r.map
               /\ openFds' = (openFds \cup got) \ r.closed
          ELSE /\ memmap' = UnmapAll(r.map)
               /\ openFds' = (openFds \cup got) \ (r.closed \cup MappedFds(r.map))
       /\ UNCHANGED <<connVars, featVars, vrings, rqSources, inflight>>
       /\ Handled("SET_MEM_TABLE", ack, r.ret, 0)

\* nregions > VHOST_USER_MEM_REGIONS_MAX: EINVAL before any fd is looked at.
SetMemTableTooMany(ack, fd) ==
    /\ Connected
    /\ openFds' = openFds \cup Got(fd)
    /\ Consume(fd)
    /\ UNCHANGED <<connVars, featVars, memmap, vrings, rqSources, inflight>>
    /\ Handled("SET_MEM_TABLE", ack, "EINVAL", 0)

-----------------------------------------------------------------------------
(* Vring requests                                                          *)

\* Indices the master may name: every vring and one past the last.
Indices == 0 .. MaxQueues

\* get_vring / get_vring_not_enabled
get_vring_ok(idx) == idx \in Queues
get_vring_not_enabled_ok(idx) == idx \in Queues /\ ~vrings[idx].enabled

\* Mutant: a new call fd is not passed on to an enabled vring's virtqueue.
VringFdSwitchNoNotify(op, idx, vr, fd) ==
    CASE op = "SET_VRING_KICK" ->
            LET vr1 == [vr EXCEPT !.kickfd = fd]
            IN IF ~has_feature(negotiatedFeatures, F_PROTOCOL_FEATURES)
               THEN vring_set_enable(idx, vr1, rqSources, TRUE)
               ELSE [vring |-> vr1, rq |-> rqSources, ret |-> OK]
      [] op = "SET_VRING_CALL" ->
            [vring |-> [vr EXCEPT !.callfd = fd], rq |-> rqSources, ret |-> OK]
      [] op = "SET_VRING_ERR" ->
            [vring |-> [vr EXCEPT !.errfd = fd], rq |-> rqSources, ret |-> OK]

\* The switch of vhost_set_vring_fd_common: the new vring record, sources
\* and result.  A kick fd starts the vring right away without
\* F_PROTOCOL_FEATURES; a call fd is passed on to an enabled virtqueue.
VringFdSwitch(op, idx, vr, fd) ==
    CASE op = "SET_VRING_KICK" ->
            LET vr1 == [vr EXCEPT !.kickfd = fd]
            IN IF ~has_feature(negotiatedFeatures, F_PROTOCOL_FEATURES)
               THEN vring_set_enable(idx, vr1, rqSources, TRUE)
               ELSE [vring |-> vr1, rq |-> rqSources, ret |-> OK]
      [] op = "SET_VRING_CALL" ->
            [vring |-> [vr EXCEPT !.callfd = fd,
                                  !.notify = IF vr.enabled THEN fd ELSE @],
             rq |-> rqSources, ret |-> OK]
      [] op = "SET_VRING_ERR" ->
            [vring |-> [vr EXCEPT !.errfd = fd], rq |-> rqSources, ret |-> OK]

\* vhost_set_vring_fd_common and its three callers: the
\* VHOST_VRING_INVALID_FD flag (the master may still attach an fd), the
\* index, then the switch.  The fd is owned from receipt whatever happens.
VringFdCommon(op, ack, idx, invalid, fd) ==
    /\ Connected
    /\ openFds' = openFds \cup Received(fd)
    /\ Consume(fd)
    /\ UNCHANGED <<connVars, featVars, memmap, inflight>>
    /\ CASE invalid ->
               /\ UNCHANGED <<vrings, rqSources>>
               /\ Handled(op, ack, "ENOTSUP", 0)
          [] ~get_vring_ok(idx) ->
               /\ UNCHANGED <<vrings, rqSources>>
               /\ Handled(op, ack, "EINVAL", 0)
          [] OTHER ->
               LET r == VringFdSwitch(op, idx, vrings[idx], fd)
               IN /\ vrings' = [vrings EXCEPT ![idx] = r.vring]
                  /\ rqSources' = r.rq
                  /\ Handled(op, ack, r.ret, 0)

\* Requests that change client_info of a disabled vring only.
ClientInfoRequest(op, ack, idx, ok, newVring) ==
    /\ Connected
    /\ vrings' = IF ok THEN [vrings EXCEPT ![idx] = newVring] ELSE vrings
    /\ UNCHANGED <<connVars, featVars, memmap, rqSources, inflight, openFds, nextFd>>
    /\ Handled(op, ack, IF ok THEN OK ELSE "EINVAL", 0)

SetVringNum(ack, idx, num) ==
    ClientInfoRequest("SET_VRING_NUM", ack, idx, get_vring_not_enabled_ok(idx),
                      [vrings[idx] EXCEPT !.num = num])

SetVringBase(ack, idx, base) ==
    ClientInfoRequest("SET_VRING_BASE", ack, idx, get_vring_not_enabled_ok(idx),
                      [vrings[idx] EXCEPT !.base = base])

\* vhost_set_vring_addr: desc, used and avail are given as one master
\* address here; each must translate through map_uva.
SetVringAddr(ack, idx, uva) ==
    ClientInfoRequest("SET_VRING_ADDR", ack, idx,
                      get_vring_not_enabled_ok(idx) /\ map_uva(memmap, uva) # NULL,
                      [vrings[idx] EXCEPT !.desc = map_uva(memmap, uva)])

\* vhost_get_vring_base: without F_PROTOCOL_FEATURES the vring also stops.
GetVringBase(ack, idx) ==
    /\ Connected
    /\ UNCHANGED <<connVars, featVars, memmap, inflight, openFds, nextFd>>
    /\ IF get_vring_ok(idx)
       THEN LET r == IF ~has_feature(negotiatedFeatures, F_PROTOCOL_FEATURES)
                     THEN vring_set_enable(idx, vrings[idx], rqSources, FALSE)
                     ELSE [vring |-> vrings[idx], rq |-> rqSources, ret |-> OK]
            IN /\ vrings' = [vrings EXCEPT ![idx] = r.vring]
               /\ rqSources' = r.rq
               /\ Handled("GET_VRING_BASE", ack, OK, 1)
       ELSE /\ UNCHANGED <<vrings, rqSources>>
            /\ Handled("GET_VRING_BASE", ack, "EINVAL", 0)

SetVringEnable(ack, idx, num) ==
    /\ Connected
    /\ UNCHANGED <<connVars, featVars, memmap, inflight, openFds, nextFd>>
    /\ IF get_vring_ok(idx)
       THEN LET r == vring_set_enable(idx, vrings[idx], rqSources, num = 1)
            IN /\ vrings' = [vrings EXCEPT ![idx] = r.vring]
               /\ rqSources' = r.rq
               /\ Handled("SET_VRING_ENABLE", ack, r.ret, 0)
       ELSE /\ UNCHANGED <<vrings, rqSources>>
            /\ Handled("SET_VRING_ENABLE", ack, "EINVAL", 0)


-----------------------------------------------------------------------------
(* Inflight region                                                         *)

\* vhd_vdev_inflight_cleanup: the fds it closes.
InflightCleanupCloses == Got(inflight)

\* vhost_get_inflight_fd: cleanup, memfd_create (fails once no fd is left),
\* ftruncate, mmap, then the reply carrying the fd.  A failed reply unmaps
\* and closes the new region.
GetInflightFd(ack, sendOk) ==
    /\ Connected
    /\ UNCHANGED <<connVars, featVars, memmap, vrings, rqSources>>
    /\ IF nextFd > MaxFd
       THEN /\ inflight' = NoFd
            /\ openFds' = openFds \ InflightCleanupCloses
            /\ UNCHANGED nextFd
            /\ Handled("GET_INFLIGHT_FD", ack, "EMFILE", 0)
       ELSE /\ nextFd' = nextFd + 1
            /\ inflight' = IF sendOk THEN nextFd ELSE NoFd
            /\ openFds' = IF sendOk
                           THEN (openFds \ InflightCleanupCloses) \cup {nextFd}
                           ELSE openFds \ InflightCleanupCloses
            /\ Handled("GET_INFLIGHT_FD", ack, IF sendOk THEN OK ELSE "EIO",
                       IF sendOk THEN 1 ELSE 0)

\* vhost_set_inflight_fd: cleanup, then inflight_mmap_region(fds[0]) and
\* on its failure close(fds[0]).  The mmap fails with EBADF for a value
\* that is no open fd (-1, or the inflight fd the cleanup just closed),
\* and fails on an open fd when the master's mmap_size does not fit it
\* (mmapOk FALSE); the close then closes that fd.
SetInflightFd(ack, fd, mmapOk) ==
    LET open == (openFds \ InflightCleanupCloses) \cup Received(fd)
        ok   == fd \in open /\ mmapOk
    IN /\ Connected
       /\ UNCHANGED <<connVars, featVars, memmap, vrings, rqSources>>
       /\ inflight' = IF ok THEN fd ELSE NoFd
       /\ openFds' = IF ok THEN open ELSE open \ {fd}
       /\ Consume(fd)
       /\ Handled("SET_INFLIGHT_FD", ack,
                   CASE ok -> OK [] fd \in open -> "EINVAL" [] OTHER -> "EBADF", 0)

-----------------------------------------------------------------------------
(* Device creation and teardown                                            *)

\* A step of sock_create_server, or of another process using the same
\* path, while vhd_vdev_init_server waits for it; the vdev is untouched.
CreateListenSocket ==
    /\ initRet = "pending"
    /\ Listen!CreateStep \/ Listen!Other
    /\ UNCHANGED <<connVars, featVars, memmap, vrings, rqSources, inflight,
                   openFds, nextFd, lastReq, initRet>>

\* Mutant: a failure to watch the listen fd returns without the uninit.
vhd_vdev_init_server_no_uninit ==
    /\ initRet = "pending"
    /\ \/ /\ createPc = "failed"
          /\ initRet' = "error"
          /\ UNCHANGED <<state, vhostSources, inRegistry, path, listenFd>>
       \/ /\ createPc = "created"
          /\ \E addOk \in AddVhostEventOk :
               /\ state' = IF addOk THEN "LISTENING" ELSE state
               /\ vhostSources' = IF addOk THEN {"listen"} ELSE {}
               /\ inRegistry' = TRUE
               /\ initRet' = IF addOk THEN OK ELSE "error"
          /\ UNCHANGED <<path, listenFd>>
    /\ UNCHANGED <<isOwned, featVars, memmap, vrings, rqSources, inflight,
                   openFds, nextFd, lastReq, pathLen, createPc>>

\* vhd_vdev_init_server once sock_create_server has returned.  On -1 it
\* returns at once, the vdev still zeroed.  Otherwise it sets the vdev up
\* (every vring vhd_vring_init'ed, no inflight fd), puts it on g_vdevs and
\* moves INITIALIZED -> LISTENING; if the listen fd cannot be watched it
\* calls vhd_vdev_uninit, which closes the listen fd, uninits the vrings
\* (none enabled) and takes the vdev off g_vdevs again.
vhd_vdev_init_server ==
    /\ initRet = "pending"
    /\ \/ /\ createPc = "failed"
          /\ initRet' = "error"
          /\ UNCHANGED <<state, vhostSources, inRegistry, path, listenFd>>
       \/ /\ createPc = "created"
          /\ \E addOk \in AddVhostEventOk :
               IF addOk
               THEN /\ state' = "LISTENING"
                    /\ vhostSources' = {"listen"}
                    /\ inRegistry' = TRUE
                    /\ initRet' = OK
                    /\ UNCHANGED <<path, listenFd>>
               ELSE /\ Listen!CloseListenFd
                    /\ initRet' = "error"
                    /\ UNCHANGED <<state, vhostSources, inRegistry>>
    /\ UNCHANGED <<isOwned, featVars, memmap, vrings, rqSources, inflight,
                   openFds, nextFd, lastReq, pathLen, createPc>>

\* vhd_vdev_uninit of a device vhd_vdev_init_server created, in any state:
\* close the listen fd (which drops it from the vhost loop's epoll set and
\* leaves its socket file behind), uninit every vring, release the
\* inflight region, leave g_vdevs.  The connection fd stays watched and
\* open, and the guest memory stays mapped.
vhd_vdev_uninit ==
    /\ inRegistry
    /\ inRegistry' = FALSE
    /\ Listen!CloseListenFd
    /\ vhostSources' = vhostSources \ {"listen"}
    /\ vrings' = VringsUninit.vrings
    /\ rqSources' = VringsUninit.rq
    /\ inflight' = NoFd
    /\ openFds' = openFds \ InflightCleanupCloses
    /\ UNCHANGED <<state, isOwned, featVars, memmap, nextFd, lastReq,
                   pathLen, createPc, initRet>>

-----------------------------------------------------------------------------
(* The specification                                                       *)

NoReq == [sent |-> 0, expected |-> 0]

\* The vdev as vhd_vdev_init_server's memset leaves it (state 0 is
\* VDEV_INITIALIZED), the listen socket not yet created.
Init ==
    /\ state = "INITIALIZED"
    /\ vhostSources = {}
    /\ isOwned = FALSE
    /\ supportedFeatures = {}
    /\ negotiatedFeatures = {}
    /\ negotiatedProtocolFeatures = {}
    /\ memmap = [r \in Regions |-> EmptyRegion]
    /\ vrings = [i \in Queues |-> vhd_vring_init]
    /\ rqSources = {}
    /\ inflight = NoFd
    /\ openFds = {}
    /\ nextFd = 1
    /\ lastReq = NoReq
    /\ inRegistry = FALSE
    /\ Listen!Init
    /\ initRet = "pending"

\* One message from the master, dispatched as in vhost_handle_request.
Request ==
    \E ack \in BOOLEAN :
      \/ GetFeatures(ack)
      \/ \E f \in SUBSET (DefaultFeatures \cup DevFeatures) : SetFeatures(ack, f)
      \/ \E p \in SUBSET SupportedProtocolFeatures : SetProtocolFeatures(ack, p)
      \/ SetOwner(ack)
      \/ \E op \in ReplyOnly : GetterOnly(ack, op)
      \/ \E op \in Rejected, fd \in FdChoices : Reject(ack, op, fd)
      \/ \E t \in BoundedSeq(RegionDescs, MaxRegions) :
            \E fds \in MemTableFds(Len(t)) : SetMemTable(ack, t, fds)
      \/ \E fd \in FdChoices : SetMemTableTooMany(ack, fd)
      \/ \E idx \in Indices, inv \in BOOLEAN :
          \E fd \in IF inv THEN FdChoices ELSE SlotChoices :
            \E op \in {"SET_VRING_KICK", "SET_VRING_CALL", "SET_VRING_ERR"} :
               VringFdCommon(op, ack, idx, inv, fd)
      \/ \E idx \in Indices :
            \/ \E n \in VringNums : SetVringNum(ack, idx, n)
            \/ \E b \in VringBases : SetVringBase(ack, idx, b)
            \/ \E uva \in VringUvas : SetVringAddr(ack, idx, uva)
            \/ GetVringBase(ack, idx)
            \/ \E n \in {0, 1} : SetVringEnable(ack, idx, n)
      \/ \E ok \in BOOLEAN : GetInflightFd(ack, ok)
      \/ \E fd \in SlotChoices, mmapOk \in BOOLEAN : SetInflightFd(ack, fd, mmapOk)

Next ==
    \/ CreateListenSocket
    \/ vhd_vdev_init_server
    \/ (Accept \/ Disconnect \/ Request) /\ UNCHANGED listenVars
    \/ vhd_vdev_uninit

\* No fairness: every step is the master's choice.
Spec == Init /\ [][Next]_vars

-----------------------------------------------------------------------------
(* Properties                                                              *)

TypeOK ==
    /\ state \in States
    /\ vhostSources \subseteq {"listen", "conn"}
    /\ isOwned \in BOOLEAN /\ inRegistry \in BOOLEAN
    /\ supportedFeatures \subseteq DefaultFeatures \cup DevFeatures
    /\ negotiatedFeatures \subseteq supportedFeatures
    /\ negotiatedProtocolFeatures \subseteq SupportedProtocolFeatures
    /\ \A r \in Regions : memmap[r].hva \in {NULL} \cup Fds
    /\ \A i \in Queues :
         /\ vrings[i].enabled \in BOOLEAN /\ vrings[i].attached \in BOOLEAN
         /\ {vrings[i].kickfd, vrings[i].callfd, vrings[i].notify} \subseteq Fds \cup {NoFd}
         /\ vrings[i].desc \in {NULL} \cup Fds
    /\ rqSources \subseteq Queues \X Fds
    /\ inflight \in Fds \cup {NoFd}
    /\ openFds \subseteq Fds
    /\ nextFd \in 1 .. MaxFd + 1
    /\ Listen!TypeOK
    /\ initRet \in {"pending", OK, "error"}


\* A vring is only ever enabled while a master is connected: conn_close
\* disables every vring (all max_queues of them) before it goes back to
\* listening, and only requests on the connection enable one.
EnabledOnlyConnected ==
    \A i \in Queues : vrings[i].enabled => state = "CONNECTED"

\* change_device_state keeps the vhost loop's watch in step with the state:
\* the listen fd is watched exactly while LISTENING (so a second master is
\* never accepted) and the connection fd only while CONNECTED, for as long
\* as the device is registered.
SocketSourcesMatchState ==
    inRegistry =>
        /\ ("listen" \in vhostSources) <=> (state = "LISTENING")
        /\ ("conn" \in vhostSources) => (state = "CONNECTED")

\* The fds the device received and keeps: behind a guest mapping, the
\* inflight region and the vrings' kick, call and err eventfds (not the
\* 0 vhd_vring_init leaves in errfd, which is no fd the master passed).
HeldFds ==
    (MappedFds(memmap) \cup Got(inflight)
      \cup UNION {{vrings[i].kickfd, vrings[i].callfd, vrings[i].errfd} : i \in Queues})
      \cap Fds

\* No fd the device still uses is closed: the fd behind every live guest
\* mapping, the inflight fd and every vring eventfd are open (no double
\* close through the SET_MEM_TABLE rollback, the idempotent remap, the
\* inflight cleanup or the vring fd switch).
HeldFdsOpen == HeldFds \subseteq openFds

\* An enabled vring's virtqueue is attached and notifies through the
\* current call fd, however SET_VRING_CALL and enabling were interleaved.
NotifyTargetCurrent ==
    \A i \in Queues : vrings[i].enabled =>
        vrings[i].attached /\ vrings[i].notify = vrings[i].callfd

\* The device implements the abstract connection life cycle: the phase is
\* the state while the device is registered and watches a socket; the
\* session is the owner flag, the enabled vrings and the live mappings.
Connection == INSTANCE VhostConnection WITH
    phase   <- IF initRet = "pending" THEN "INIT"
               ELSE IF ~inRegistry THEN "FREED"
               ELSE IF vhostSources = {} THEN "DETACHED" ELSE state,
    owned   <- isOwned,
    enabled <- {i \in Queues : vrings[i].enabled},
    mapped  <- MappedFds(memmap) # {}

\* conn_close, server_read, vhd_vdev_uninit and every request handler keep
\* to VhostConnection: requests change the session only while a master is
\* connected, and the session is torn down before the device listens again.
ConnectionRefinement == Connection!Spec

\* vhd_vdev_init_server returning -1 leaves nothing behind, whichever
\* step failed: sock_create_server's close_fd path and the uninit after a
\* failed vhd_add_vhost_event leave no listen fd open, the vdev off g_vdevs
\* and no fd of it watched by the vhost loop.
InitFailureReleases ==
    initRet = "error" => ~listenFd /\ ~inRegistry /\ vhostSources = {}

\* A registered device listens at the path its caller gave: its listen fd
\* is open and the socket file at that path is the one it bound, so a
\* master connecting to the path reaches this device (the length check,
\* the stat/unlink of an old socket and bind() together make it so).
ListenerAtSocketPath ==
    inRegistry => listenFd /\ path = "ours"

-----------------------------------------------------------------------------
(* What spec.md promises and the code is checked against                   *)

\* Spec 8.5 and 3: a vring is enabled iff its current kick fd is an event
\* source on the request queue, and every such source belongs to an enabled
\* vring (so vring_io_event never meets a disabled vring).
KickSourcesMatchEnabled ==
    /\ \A i \in Queues : vrings[i].enabled => <<i, vrings[i].kickfd>> \in rqSources
    /\ \A s \in rqSources : vrings[s[1]].enabled /\ vrings[s[1]].kickfd = s[2]

\* Spec 4.2: every request gets the replies the reply policy promises, so
\* the master neither waits forever for a reply that never comes nor reads
\* a second reply as the answer to its next request ("a getter suppresses
\* the ack reply when its own explicit reply was emitted successfully").
RepliesAsSpecified == lastReq.sent = lastReq.expected

\* Spec 9 ("handlers that reject an fd must close it") and the poisoned
\* control buffer of spec 3 ("a short fd array is detectable"): the fds
\* the device keeps are exactly the fds it has open, so no passed fd
\* leaks and no fd the device keeps was closed under it, whatever fds the
\* master attaches to its requests.
FdOwnership == openFds = HeldFds

\* Spec 3: vhd_vdev_uninit destroys the device and "must ... unmap all
\* memory": after it no fd of the device is watched by the vhost loop,
\* whose callbacks would otherwise run on the freed vdev, and no guest
\* memory stays mapped.
UninitReleases ==
    ~inRegistry => vhostSources = {} /\ MappedFds(memmap) = {}

\* What belongs to a master's session lives only within it.  Spec 3: "no
\* vring is enabled unless the device is CONNECTED and has is_owned =
\* true"; spec S5: when "the master closes its socket.  Slave transitions
\* to LISTENING: every mapped region is unmapped, every vring is disabled,
\* is_owned = false, listenfd is re-registered.  A subsequent accept
\* restores CONNECTED with a clean slate."  So a registered device without
\* a master listens on its listen fd with nothing of the last session left
\* (not owned, no vring enabled, no memory mapped, nothing negotiated), and
\* an enabled vring belongs to a connected master that owns the device.
SessionScopedState ==
    inRegistry =>
        /\ "conn" \notin vhostSources =>
             /\ state = "LISTENING" /\ "listen" \in vhostSources
             /\ ~isOwned
             /\ \A i \in Queues : ~vrings[i].enabled
             /\ MappedFds(memmap) = {}
             /\ negotiatedFeatures = {} /\ negotiatedProtocolFeatures = {}
        /\ \A i \in Queues : vrings[i].enabled => "conn" \in vhostSources /\ isOwned

=============================================================================
