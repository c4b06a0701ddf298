# TLA+ models of the vhost-user server device (src/vdev.c)

This directory holds TLC-checkable TLA+ models of `src/vdev.c`, the
vhost-user server side of the device library. The models cover the connection
state machine, the creation of the listen socket and of the device, the
request handlers, the guest memory map, the vrings and the kick path between
the guest, the request-queue loop and the vhost loop.
`PROJECT.json` records four things:

- which module models which source lines (`map`);
- the runs and the mutants that show each property can fail;
- what the violated runs show (`findings`);
- the hazards the code is exposed to.

## The system

A `struct vhd_vdev` is one device served over a UNIX socket. Three parts act
on it:

- **The vhost event loop.** It runs `server_read` (accept), `conn_read`
  (one message, then `vhost_handle_request`) and `conn_close`. Every handler
  runs to completion on this loop.
- **The request-queue loop.** Its epoll set holds each enabled vring's kick
  eventfd, with the callback `vring_io_event`. That callback clears the
  eventfd and calls `vhd_vdev_dispatch_requests` (vdev.h:200).
- **The master (qemu) and the guest.** The master sends vhost-user messages,
  passes fds (SCM_RIGHTS) and may disconnect at any time. The guest publishes
  requests in the avail ring and kicks the eventfd.

The device's state:

- `state`: INITIALIZED, LISTENING or CONNECTED;
- which socket the vhost loop watches;
- `is_owned`;
- the feature words: supported, negotiated and protocol;
- the guest memory map;
- `max_queues` vring records: `client_info`, the kick/call/err fds,
  `is_enabled` and the virtqueue;
- the inflight region.

The vhost loop and the request loop share the vrings. The vhost loop enables
a vring with `vring_set_enable`, which attaches the virtqueue and the kick
source. It disables one on SET_VRING_ENABLE 0, on GET_VRING_BASE in legacy
mode, and on disconnect. A second SET_VRING_KICK in legacy mode calls
`vring_set_enable(true)`, which returns at once on an enabled vring
(vdev.c:1354). The old kick source stays attached, and nothing disables
the vring.

## Inventory

| Part | Code | Module | Status |
|---|---|---|---|
| Connection state machine | `server_read`, `conn_close`, `change_device_state` | VhostDevice, VhostConnection | modelled |
| Protocol engine | `vhost_handle_request` and every handler, `vhost_ack_request_if_needed` | VhostDevice | partly (framing not modelled) |
| Guest memory map | `map_guest_region`, `unmap_*`, `map_uva`, `map_gpa_len`, the SET_MEM_TABLE loop | GuestMemoryMap, VhostDevice, VringKick | modelled |
| Vrings | `vhd_vring_init/uninit`, `vring_set_enable`, fd/num/base/addr setters | VhostDevice, VringKick | modelled |
| Kick dispatch | `vring_io_event`, `vhd_vdev_dispatch_requests` | VringKick | modelled |
| Inflight region | GET/SET_INFLIGHT_FD, `vhd_vdev_inflight_cleanup` | VhostDevice | partly (fd ownership only) |
| Socket I/O | `net_recv_msg`, `net_send_msg_fds` | VhostDevice | partly (fd passing, send failure) |
| Listen socket creation | `prepare_server_sock_path`, `sock_create_server` | ListenSocket, VhostDevice | modelled |
| Device lifecycle | `vhd_vdev_init_server`, `vhd_vdev_uninit`, `g_vdevs` | VhostDevice | modelled (from the zeroed vdev) |
| Event loops, virtqueue, request queue | event.c, virt_queue.c (not in the repository) | — | contract only, from spec.md |

## Modules

### VhostDevice.tla (with MCVhostDevice.tla)

This module models one device as the vhost loop sees it. Every master
message is one atomic action, because handlers run to completion. Its
action, guard and primed variables come from the handler.

- **Fds.** An fd is a number 1..MaxFd handed out fresh when the master passes
  one. `NoFd` (-1) is the value that `net_recv_msg`'s poisoned control buffer
  leaves when no fd was passed. `openFds` is the set of fds the process owns
  and has not closed.
- **The fd slot.** `conn_read`'s `int fds[]` is not initialised, and
  `net_recv_msg` writes it only when the message carries SCM_RIGHTS. A
  handler that reads `fds[i]` of a message without fds reads whatever the
  stack slot holds. That is undefined behaviour, and `UninitFdSlot` is the
  set of outcomes: `NoFd` (a value that is no fd of the process) or any fd
  the process has open, such as the memfd GET_INFLIGHT_FD stores in
  `fds[0]` (vdev.c:804) or an earlier message's fd. The constant
  `MasterOmitsFds` selects the master. FALSE is a conforming master: it
  attaches one fresh fd to every request that takes one, and one per region
  to SET_MEM_TABLE. TRUE is a master that may omit them: `SlotChoices` and
  `MemTableFds` then add the uninitialised slot and a short fd array (the
  poisoned -1 after the fds passed).
- **Memory.** A mapping is identified by the fd it was made from. A vring's
  ring address is therefore the identity of the mapping it points into, or
  NULL.
- **Replies.** `lastReq` holds the replies the last request got, next to the
  number spec.md 4.2 says it should get.

The actions:

- Creation: Init is the vdev as `vhd_vdev_init_server`'s memset leaves it
  (state 0 is VDEV_INITIALIZED, nothing watched, not on `g_vdevs`).
  `CreateListenSocket` is a step of `sock_create_server` (ListenSocket, on
  the same variables, with the other process on the path).
  `vhd_vdev_init_server` is the rest: on -1 it returns; otherwise it puts
  the vdev on `g_vdevs` and moves it to LISTENING. If the listen fd cannot
  be watched (`AddVhostEventOk`, the result of `vhd_add_vhost_event`), it
  calls `vhd_vdev_uninit`, which closes the listen fd and unregisters.
  `initRet` records what init returned.
- Connection: `Accept` (`server_read` and `change_device_state` to CONNECTED)
  and `Disconnect` (`conn_close`). `Disconnect` closes the connection,
  unmaps all memory, clears `is_owned` and disables every vring. Only then
  does it re-add the listen fd, which can fail. On failure the state stays
  CONNECTED with nothing watched.
- Features and ownership: `GetFeatures`, `SetFeatures`,
  `SetProtocolFeatures` and `SetOwner`.
- Other requests: `GetterOnly` (the getters that only reply), `Reject` (the
  ENOTSUP and EINVAL requests, fd included), and `SetMemTable` (the
  `MapRegionsFrom` loop with its rollback) with `SetMemTableTooMany`.
- Vrings: `VringFdCommon` (SET_VRING_KICK/CALL/ERR, with the handler's
  `switch` as `VringFdSwitch`), `SetVringNum`, `SetVringBase`,
  `SetVringAddr`, `GetVringBase` and `SetVringEnable`.
- Inflight region: `GetInflightFd` (memfd exhaustion and a failed send
  included) and `SetInflightFd`. `SetInflightFd` includes an mmap that
  fails on a valid fd, after which `close(fds[0])` runs.
- A SET_VRING_KICK/CALL/ERR with VHOST_VRING_INVALID_FD may still carry
  an fd. The handler returns ENOTSUP and never closes that fd.
- Teardown: `vhd_vdev_uninit`. It closes the listen fd (its socket file
  stays on disk), uninitialises
  every vring (`VringsUninit`, the `vhd_vring_uninit` loop), cleans up the
  inflight region and leaves `g_vdevs` (`inRegistry` becomes FALSE). Like
  the code, it leaves the connection fd watched and the memory mapped.
  `Connected`, the guard of every request, requires `inRegistry`: a
  callback on a freed device is where the model stops.

Each request action ends in `Handled`, the tail of `vhost_handle_request`
with `vhost_ack_request_if_needed`.

The code outside this repository is modelled from spec.md:

- `virtio_virtq_attach` succeeds only with ring addresses and a non-zero
  size.
- `vhd_attach_event` fails for -1 and for an fd already in the set.

There is no fairness: every step is the master's choice.

**Refinement.** `VhostConnection.tla` is the abstract lifecycle of one
device: INIT, LISTENING, CONNECTED, DETACHED (no socket watched) and FREED.

- Start takes INIT to LISTENING; a failed creation is a Free from INIT.

- While CONNECTED, ownership, the set of enabled vrings and whether memory
  is mapped change freely.
- Close returns to LISTENING (or DETACHED) with the device not owned,
  nothing enabled and nothing mapped.
- Free can happen in any phase.

`VhostDevice` instantiates it as `Connection`. The mapping:

- `phase` is INIT until init returns, then FREED whenever `inRegistry` is
  FALSE, DETACHED when `vhostSources` is empty, and `state` otherwise;
- `owned` is `isOwned`;
- `enabled` is the set of enabled vrings;
- `mapped` says whether any region is mapped.

`ConnectionRefinement` (`Connection!Spec`) is a property of the
vhost_device run. It shows that every handler is a stutter or a Serve step
of the abstract spec. It also shows that `conn_close` is a Close: owner
cleared, vrings disabled, memory unmapped.

### ListenSocket.tla (with MCListenSocket.tla)

This module is `sock_create_server` with `prepare_server_sock_path`, one
system call per step. `createPc` is the next step: `CheckPathLen` (the
`strlen >= sizeof(sun_path)` check), `StatPath`, `UnlinkPath`,
`CreateSocket`, `BindSocket`, `ListenBacklog` and `SetNonBlocking`. Every
call may fail with an errno the model does not name; a failure after
`socket()` goes through `close_fd` (`CloseListenFd`).

- `path` is what is at the caller's socket path: nothing, a regular file,
  a stale socket file, or the socket this server bound. `pathLen` is
  `strlen(path)` against the scaled `SunPathLen`.
- `BindSocket` binds the path `strncpy`'d to `SunPathLen - 1` bytes. At
  the whole path it succeeds only if nothing is there (else EADDRINUSE).
  At a truncated prefix it binds some other path, which the model does not
  follow. The length check makes truncation unreachable; a mutant without
  it reaches it.
- `OtherCreatesFile` and `OtherRemoves` are another process using the
  same path while the server is being created. Nobody removes a socket
  the server listens on.

Its Init is whatever an earlier run or another program left at the path.
VhostDevice instantiates the module as `Listen` over its own variables.

### VringKick.tla (with MCVringKick.tla)

This module models one vring with three actors.

- **The guest:** `PublishRequest`, then `Kick`.
- **The request loop.** `PollKick` is epoll reporting the readable eventfd of
  an attached source. `vring_io_event` checks `is_enabled` and clears the
  eventfd. `vhd_vdev_dispatch_requests` walks the avail ring.
  `io_event_return` is the callback returning.
- **The vhost loop,** with its handlers split where the request loop can run
  in between:
  - `vhost_set_vring_addr` stores ring addresses only if `map_uva` finds
    them in the memory mapped at that moment. `ringsSet` records that it
    has. Nothing clears `client_info`, so the addresses survive a failed
    SET_MEM_TABLE and a disconnect.
  - `VringEnable` needs `ringsSet`. `virtio_virtq_attach` checks that the
    addresses are set; it never checks that their memory is still mapped.
    `VringDisable` is SET_VRING_ENABLE 0. Both go through
    `vring_set_enable`.
  - The model has no SET_VRING_KICK on an enabled vring. If one replaced
    the kick fd (vdev.c:586), the guest would kick an fd that nobody polls.
    DispatchEventually therefore does not cover that path.
    `kick_source_replaced` covers it instead.
  - `SetMemTable` either maps the memory or fails and unmaps all of it
    (`error_unmap`).
  - Disconnect is `DisconnectUnmap` (`vhd_guest_memory_unmap_all`,
    vdev.c:1013), then `DisconnectUninit` (the `vhd_vring_uninit` loop).
  - GET_VRING_BASE is `GetVringBaseRead` (`vq_base = last_avail`,
    vdev.c:677). Without F_PROTOCOL_FEATURES, `GetVringBaseDisable` follows
    (the disable at vdev.c:683, then the reply).

  `reportedBase` is a ghost variable: the base the master holds for a
  stopped vring. Enabling again clears it, because the master resumes from
  it.

The poll and the callback are separate steps, as `epoll_wait` and the handler
loop are. The dispatch walk and the return are also separate, because the
guest can publish and kick between them. `vhd_detach_event` does not wait for
a callback the loop has already taken. Whether F_PROTOCOL_FEATURES is
negotiated is fixed per behaviour; Init takes both values.

Fairness is weak fairness on these steps:

- `Kick`, because a guest that has published goes on to kick;
- the four request-loop steps, because the request loop always runs what
  is ready;
- the second half of each split vhost-loop handler, because a handler
  runs to completion.

Publishing and the master's messages get no fairness.

### GuestMemoryMap.tla (with MCGuestMemoryMap.tla)

This module is the memory map with its fixed-width arithmetic. The
translation functions are pure operators.

- `map_uva` is used by SET_VRING_ADDR.
- `map_gpa_len` is used by the virtqueue code through
  `virtio_map_guest_phys_range`.
- `Hits` is the loop condition the two share.

The two actions are `vhost_set_mem_table` (the `MapTableFrom` loop over
`map_guest_region`, with the rollback through `vhd_guest_memory_unmap_all`)
and the unmap-all of a disconnect.

- **Widths are scaled down.** AddrBits stands for the 64 bits of
  `vhd_paddr_t`, `vhd_uaddr_t` and `size_t`; U32Bits stands for `uint32_t`
  (the page count, `map_gpa_len`'s len); PageShift stands for PAGE_SHIFT.
  The model keeps `U32Bits + PageShift < AddrBits`. That relation is why
  the `gpa + len - 1` wrap (vdev.c:310) is harmless: `len` is below
  2^U32Bits and a region holds fewer bytes than 2^(U32Bits+PageShift), so
  a wrapped `last_gpa - reg->gpa` always comes out at least the region
  size. Computing `last` in 4 bits instead of 5 makes GpaTranslationInBounds
  fail.
- **PAGE_SIZE's type** is not in src/. `munmap(hva, pages * PAGE_SIZE)` is
  therefore computed in `PageSizeBits`, which is either width; both cfgs
  use the 64-bit one. The mutant `Munmap32` computes it in 32 bits. It
  breaks MappingsMatchSlots: a 12-byte region unmaps only 4 bytes.
- **The kernel's view.** `hostMap` holds, per fd, the byte range `[lo, hi)`
  the kernel still maps. A pointer is `[base |-> fd, off |-> n]`.
- **The master's view.** `memTable` is the last table the master was told
  succeeded.

`vhd_guest_memory_unmap` (one region) has no caller in src/ and is not an
action.

## Runs

| Run | Config | Expect | What it shows |
|---|---|---|---|
| vhost_device | VhostDevice.cfg | pass | EnabledOnlyConnected, SocketSourcesMatchState, HeldFdsOpen (with a conforming master, no fd the device keeps for a mapping, the inflight region or a vring is closed by the mem-table rollback, the idempotent remap or the inflight cleanup), NotifyTargetCurrent, InitFailureReleases (a failed init leaves no listen fd, registration or watch), ListenerAtSocketPath (a registered device listens at its caller's path), and ConnectionRefinement: the device implements VhostConnection |
| kick_source_replaced | VhostDevice_KickSourcesMatchEnabled.cfg | violation | a second SET_VRING_KICK leaves the old kick fd a request-loop source (vdev.c:586) |
| reply_policy | VhostDevice_RepliesAsSpecified.cfg | violation | GET_VRING_BASE with a bad index and no REPLY_ACK gets no reply; GET_INFLIGHT_FD with REPLY_ACK, missing from the suppression list (vdev.c:869), gets two |
| fd_ownership | VhostDevice_FdOwnership.cfg | violation | FdOwnership, that the open fds are exactly the kept ones, fails with MasterOmitsFds = TRUE. The trace shows fds passed with rejected or superseding requests never being closed (vdev.c:971). Checking HeldFdsOpen under the same cfg also finds the other half (vdev.c:1127): after a SET_MEM_TABLE, a repeat of it without fds reads the old fd from `fds[0]`. The idempotent remap then closes that fd under the mapping that uses it. |
| session_scoped_state | VhostDevice_SessionScopedState.cfg | violation | session state outlives or precedes its session: the listen fd re-add fails after teardown and the device watches nothing (vdev.c:1028, in the trace); the negotiated features survive a disconnect (vdev.c:1010); a vring is enabled without SET_OWNER (vdev.c:723) |
| uninit_leaves_device_live | VhostDevice_UninitReleases.cfg | violation | `vhd_vdev_uninit` leaves the connection fd watched (callbacks on the freed vdev) and the guest memory mapped |
| listen_path_toctou | ListenSocket_UnlinkOnlySockets.cfg | violation | the stale socket at the path is replaced by a regular file between `stat` and `unlink`, and the server deletes that file (vdev.c:1172) |
| vring_kick | VringKick.cfg | pass | NoStrandedRequest and DispatchEventually: clearing the eventfd before the walk loses no kick, with the vhost loop's disconnect, SET_MEM_TABLE and GET_VRING_BASE interleaved |
| unmap_before_disable | VringKick_IoEventOnMappedMemory.cfg | violation | `vring_io_event` finds the vring enabled and dispatches after its memory is unmapped, by a failed SET_MEM_TABLE (vdev.c:508) or by `conn_close` unmapping before the vring uninit loop (vdev.c:1013) |
| stale_vring_base | VringKick_StoppedBaseFinal.cfg | violation | GET_VRING_BASE reports a base the request loop then goes past: a dispatch taken before SET_VRING_ENABLE 0 is still running (vdev.c:1390), and the legacy path reads `last_avail` before disabling (vdev.c:677) |
| guest_memory_map | GuestMemoryMap.cfg | pass | GpaTranslationInBounds and UvaTranslationInBounds: every pointer `map_gpa_len` and `map_uva` return lies in a live mapping, for every gpa/uva and uint32 len, with the 64-bit wrap. MappingsMatchSlots: for page counts that fit uint32, after any sequence of tables, failed tables and disconnects, each live slot's fd maps exactly `region_size_bytes` and no other fd maps anything. The rollback and `munmap` release what was mapped. |
| mem_table_mismatch | GuestMemoryMap_MemTableExact.cfg | violation | a region of 2^32 pages or more truncates its page count (vdev.c:201), and the munmap (vdev.c:259) leaves the mapping; the idempotent remap's stale uva (vdev.c:206) and the surplus slots of a shorter table (vdev.c:487) break the same property |

The traces shown are TLC's; where a run's property is broken by more than
one code path, `PROJECT.json`'s finding names the one in the trace and the
others that were seen while modelling.

Each property of a passing run has a mutant in `PROJECT.json`: a plausible
bug in a mapped definition that TLC must catch. The mutants are:

- masking dropped in SET_FEATURES;
- vrings not uninitialised on disconnect;
- the listen fd kept on accept;
- the idempotent remap closing the wrong fd;
- the call fd not passed to the virtqueue (`VringFdSwitchNoNotify`);
- ownership kept on disconnect (`DisconnectKeepsOwner`, caught by the
  refinement);
- dispatch running one past the avail index;
- the eventfd cleared after the walk;
- enabling without attaching the kick source;
- munmap's length `pages * PAGE_SIZE` computed in 32 bits (`Munmap32`);
- `map_gpa_len` not checking the range's last byte;
- `map_uva` including the byte one past the region;
- init returning on a failed listen-fd watch without `vhd_vdev_uninit`;
- the path length check with `>` for `>=` (`CheckPathLenOffByOne`), which
  binds a truncated path.

### Bounds

VhostDevice.cfg uses these bounds:

- **One vring.** Every handler acts on one index, and the index one past the
  last exercises the EINVAL paths.
- **One memory region.** Three descriptors cover an aligned region, the same
  base resized (the EBUSY path and the idempotent remap) and a misaligned one
  (EINVAL).
- **MaxFd = 3.** This is enough for a mapping fd, a kick or call fd and an
  inflight fd to coexist, and for GET_INFLIGHT_FD to run out of fds.
- **Two ring addresses,** one inside every region and one only in the larger
  one.
- **REPLY_ACK** is the only protocol feature; **EventLoopCanFail = TRUE**.
- **MasterOmitsFds = FALSE** in every cfg except VhostDevice_FdOwnership.cfg,
  so the pass run's HeldFdsOpen is about the device's own fd handling.
- **SunPathLen = 2, PathLens = {1, 2}:** a path that fits and one exactly
  `sizeof(sun_path)` long, the boundary of the length check. Whatever the
  path held before, a successful init leaves one listen state, so the
  device's state space is not multiplied.

The run reaches 137,612 distinct states in about 30 s. CHECK_DEADLOCK
is FALSE because the device really stops: after a failed init, after a
failed re-add of the listen fd, and after `vhd_vdev_uninit`.

ListenSocket_UnlinkOnlySockets.cfg (MCListenSocket) uses SunPathLen = 3 and
paths of 1, 2 and 3 bytes.

VringKick.cfg uses three requests. That is enough for one request to be
published while another is being walked, and for a kick to arrive between
the walk and the callback's return. The run reaches 2,382 distinct states.
Its two violation cfgs use two requests.

GuestMemoryMap.cfg uses these bounds:

- **Widths.** 5-bit addresses, a 3-bit uint32 and 2-byte pages
  (PageShift = 1).
- **Two slots and three fds.** A table of two entries can fail halfway,
  and a later table can be shorter than an earlier one.
- **Descriptors.** gpa and uva are each 0 or 28 (near the 32-byte top).
  Sizes are 0, 3 (misaligned), 4, 12 and 16. Offsets are 0 and 1.
  - 16 bytes is 8 pages: the uint32 count truncates to 0. Only
    GuestMemoryMap_MemTableExact.cfg uses this size. The pass run takes
    `MCSizesInRange`, which drops it, because a truncated region leaves
    its mapping behind in the code itself (the mem_table_mismatch
    finding).
  - 12 bytes at 28 reaches past the top of the address space.

The pass run reaches 736 distinct states. CHECK_DEADLOCK is FALSE because the master
runs out of fds.

## Not modelled

- **Stale negotiation, behaviourally.** A legacy master's first
  SET_VRING_KICK does not auto-start a vring when a previous master left
  F_PROTOCOL_FEATURES negotiated. `session_scoped_state` covers the stale
  state.
  The consequence follows from the legacy branch of `VringFdSwitch` and is
  not checked separately.
- **The file at a truncated bind path,** and the callers of
  `vhd_vdev_init_server`/`vhd_vdev_uninit`, which are outside src/ (a
  caller that uninits after a failed init releases the device twice).
- **Reply send failures** of the plain getters and of GET_VRING_BASE. Only
  GET_INFLIGHT_FD's failed send is modelled, because it changes state:
  it unmaps the region and closes the memfd.
- **Byte-level message framing and logging.** This includes the payload
  read at vdev.c:103: `msg->size` is never checked against the payload
  union, so a large size overflows `conn_read`'s stack. The model
  abstracts the payload to the request's fields.
- **The inflight region's layout.** It is data; only fd ownership is
  modelled.
- **The event loop, virtqueue and request queue implementations.** They
  are not in this repository. Their contract is modelled from spec.md:
  - attach and detach of event sources;
  - `virtio_virtq_attach` needs addresses and a size;
  - `virtio_map_guest_phys_range` is the only way memory is read.

Next steps that would add most:

- Compose GuestMemoryMap's arithmetic with the virtqueue's descriptor walk.
  This needs a model of virt_queue.c, which is not in the repository.
- Give VringKick more than one vring. That is needed to see a disconnect
  unmap while another vring is mid-dispatch.
