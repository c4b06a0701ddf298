--------------------------- MODULE GuestMemoryMap ---------------------------
(***************************************************************************)
(* The guest memory map of src/vdev.c with its fixed-width arithmetic:     *)
(* map_guest_region, unmap_guest_region, vhd_guest_memory_unmap(_all),    *)
(* map_uva and map_gpa_len (virtio_map_guest_phys_range).                  *)
(*                                                                         *)
(* Widths are scaled down: AddrBits stands for the 64 bits of vhd_paddr_t, *)
(* vhd_uaddr_t and size_t, U32Bits for uint32_t (the page count and the    *)
(* len of map_gpa_len), PageShift for PAGE_SHIFT.  The ratios that matter  *)
(* are kept: U32Bits + PageShift < AddrBits.                               *)
(*                                                                         *)
(* A host pointer is [base |-> fd, off |-> n]: the mapping made from fd    *)
(* and an offset into it.  hostMap is the kernel's view, the byte range    *)
(* [lo, hi) of each fd's mapping still mapped.                            *)
(***************************************************************************)
EXTENDS Integers, Sequences, SequencesExt

CONSTANTS
    MaxRegions,     \* VHOST_USER_MEM_REGIONS_MAX, scaled down
    AddrBits,       \* width of vhd_paddr_t / vhd_uaddr_t / size_t
    U32Bits,        \* width of uint32_t
    PageShift,      \* PAGE_SHIFT
    PageSizeBits,   \* width of pages * PAGE_SIZE: PAGE_SIZE's type is not in src/
    MaxFd,          \* fds the master may pass in one behaviour
    Gpas, Uvas, Sizes, Offsets  \* what SET_MEM_TABLE descriptors may carry

ASSUME U32Bits + PageShift < AddrBits
ASSUME PageSizeBits \in {U32Bits, AddrBits}

VARIABLES
    regions,    \* guest_memmap.regions
    hostMap,    \* per fd: the byte range [lo, hi) of its mapping the kernel still maps
    nextFd,     \* the next fd the master passes
    memTable    \* the last table SET_MEM_TABLE accepted, as the master sees it

vars == <<regions, hostMap, nextFd, memTable>>

Idx == 0 .. MaxRegions - 1
Fds == 1 .. MaxFd
Addrs == 0 .. 2^AddrBits - 1
Lens == 0 .. 2^U32Bits - 1
PageSize == 2^PageShift

\* Unsigned arithmetic of a given width.
Wrap(x, bits) == x % 2^bits

NULL == [base |-> 0, off |-> 0]
EmptyRegion == [gpa |-> 0, uva |-> 0, pages |-> 0, hva |-> 0, fd |-> 0]

is_region_mapped(reg) == reg.hva # 0

\* (size_t)pages << PAGE_SHIFT
region_size_bytes(reg) == Wrap(reg.pages * PageSize, AddrBits)

\* VHD_IS_ALIGNED
Aligned(x) == x % PageSize = 0

-----------------------------------------------------------------------------
(* Translation                                                              *)

\* Regions whose [start, start + size) contains a, in the code's order.
Hits(a, field) ==
    {i \in Idx : /\ is_region_mapped(regions[i])
                 /\ a >= regions[i][field]
                 /\ Wrap(a - regions[i][field], AddrBits) < region_size_bytes(regions[i])}

\* Mutant: the end of the region is included.
map_uva_inclusive(uva) ==
    LET hits == {i \in Idx : /\ is_region_mapped(regions[i])
                             /\ uva >= regions[i].uva
                             /\ uva - regions[i].uva <= region_size_bytes(regions[i])}
    IN IF hits = {} THEN NULL
       ELSE [base |-> regions[Min(hits)].hva, off |-> uva - regions[Min(hits)].uva]

\* map_uva: the first live region containing uva.
map_uva(uva) ==
    LET hits == Hits(uva, "uva")
    IN IF hits = {} THEN NULL
       ELSE [base |-> regions[Min(hits)].hva, off |-> uva - regions[Min(hits)].uva]

\* Mutant: the length is not checked against the region.
map_gpa_len_unchecked(gpa, len) ==
    LET hits == Hits(gpa, "gpa")
    IN IF len = 0 \/ hits = {} THEN NULL
       ELSE [base |-> regions[Min(hits)].hva, off |-> gpa - regions[Min(hits)].gpa]

\* map_gpa_len: the first live region containing gpa; NULL if the range's
\* last byte, computed as gpa + len - 1 in 64 bits, is not in it as well.
map_gpa_len(gpa, len) ==
    LET last == Wrap(gpa + len - 1, AddrBits)
        hits == Hits(gpa, "gpa")
        reg  == regions[Min(hits)]
    IN IF len = 0 \/ hits = {} THEN NULL
       ELSE IF Wrap(last - reg.gpa, AddrBits) >= region_size_bytes(reg) THEN NULL
       ELSE [base |-> reg.hva, off |-> gpa - reg.gpa]

-----------------------------------------------------------------------------
(* Mapping and unmapping                                                    *)

\* map_guest_region on one slot with the descriptor d and a fresh fd:
\* misaligned size or offset is EINVAL; a live slot with the same gpa and
\* page count is kept as it is (the duplicate fd is closed), another live
\* slot is EBUSY; mmap of length 0 fails.  The page count is
\* size >> PAGE_SHIFT cast to uint32_t.
map_guest_region(reg, d, fd) ==
    LET pages == Wrap(d.size \div PageSize, U32Bits)
    IN CASE ~Aligned(d.size) \/ ~Aligned(d.offset) -> [region |-> reg, ok |-> FALSE]
         [] is_region_mapped(reg) /\ reg.gpa = d.gpa /\ reg.pages = pages ->
               [region |-> reg, ok |-> TRUE]
         [] is_region_mapped(reg) \/ d.size = 0 -> [region |-> reg, ok |-> FALSE]
         [] OTHER -> [region |-> [gpa |-> d.gpa, uva |-> d.uva, pages |-> pages,
                                  hva |-> fd, fd |-> fd], ok |-> TRUE]

\* Mutant: pages * PAGE_SIZE computed in 32 bits, as it is when PAGE_SIZE
\* is an int or unsigned int constant.
Munmap32(hm, reg) ==
    LET len == Wrap(reg.pages * PageSize, U32Bits)
    IN IF len = 0 THEN hm
       ELSE [hm EXCEPT ![reg.hva].lo = @ + len]

\* munmap(hva, pages * PAGE_SIZE): a length of 0 fails with EINVAL;
\* otherwise the first len bytes of the mapping go.
Munmap(hm, reg) ==
    LET len == Wrap(reg.pages * PageSize, PageSizeBits)
    IN IF len = 0 THEN hm
       ELSE [hm EXCEPT ![reg.hva].lo = @ + len]

\* unmap_guest_region on every live slot (vhd_guest_memory_unmap_all):
\* munmap, close the fd, zero the slot.
UnmapAllHost(regs, hm) ==
    [f \in Fds |-> IF \E i \in Idx : regs[i].hva = f
                   THEN Munmap(hm, regs[CHOOSE i \in Idx : regs[i].hva = f])[f]
                   ELSE hm[f]]

\* The loop of vhost_set_mem_table from entry j (slot j - 1): the slots and
\* the kernel's mappings after it, and whether every entry mapped.
RECURSIVE MapTableFrom(_, _, _, _)
MapTableFrom(regs, hm, table, j) ==
    IF j > Len(table) THEN [regions |-> regs, hostMap |-> hm, ok |-> TRUE]
    ELSE LET fd == nextFd + j - 1
             r  == map_guest_region(regs[j - 1], table[j], fd)
             hm1 == IF r.region.hva = fd
                    THEN [hm EXCEPT ![fd] = [lo |-> 0, hi |-> table[j].size]]
                    ELSE hm
         IN IF r.ok THEN MapTableFrom([regs EXCEPT ![j - 1] = r.region], hm1, table, j + 1)
            ELSE [regions |-> regs, hostMap |-> hm, ok |-> FALSE]

\* vhost_set_mem_table: map every entry with its own fd; on the first
\* error unmap everything.  memTable records what the master was told.
vhost_set_mem_table(table) ==
    LET r == MapTableFrom(regions, hostMap, table, 1)
    IN /\ nextFd + Len(table) - 1 <= MaxFd
       /\ nextFd' = nextFd + Len(table)
       /\ IF r.ok
          THEN /\ regions' = r.regions
               /\ hostMap' = r.hostMap
               /\ memTable' = table
          ELSE /\ regions' = [i \in Idx |-> EmptyRegion]
               /\ hostMap' = UnmapAllHost(r.regions, r.hostMap)
               /\ memTable' = <<>>

\* vhd_guest_memory_unmap_all on disconnect.
vhd_guest_memory_unmap_all ==
    /\ \E i \in Idx : is_region_mapped(regions[i])
    /\ hostMap' = UnmapAllHost(regions, hostMap)
    /\ regions' = [i \in Idx |-> EmptyRegion]
    /\ memTable' = <<>>
    /\ UNCHANGED nextFd

-----------------------------------------------------------------------------

Descs == [gpa : Gpas, uva : Uvas, size : Sizes, offset : Offsets]

Init ==
    /\ regions = [i \in Idx |-> EmptyRegion]
    /\ hostMap = [f \in Fds |-> [lo |-> 0, hi |-> 0]]
    /\ nextFd = 1
    /\ memTable = <<>>

Next ==
    \/ \E t \in BoundedSeq(Descs, MaxRegions) \ {<<>>} : vhost_set_mem_table(t)
    \/ vhd_guest_memory_unmap_all

Spec == Init /\ [][Next]_vars

-----------------------------------------------------------------------------
(* Properties                                                              *)

\* The host bytes [p.off, p.off + len) lie in what the kernel still maps
\* for p's fd.
InMapping(p, len) == hostMap[p.base].lo <= p.off /\ p.off + len <= hostMap[p.base].hi

\* Every pointer map_gpa_len hands to the virtqueue code covers len bytes
\* of a live mapping, for every gpa and uint32 len, although gpa + len - 1
\* can wrap around 64 bits ("TODO: sanitize for overflow") and regions may
\* reach past the top of the guest address space.
GpaTranslationInBounds ==
    \A gpa \in Addrs, len \in Lens :
        LET p == map_gpa_len(gpa, len) IN p # NULL => InMapping(p, len)

\* Every pointer map_uva hands to SET_VRING_ADDR points into a live mapping.
UvaTranslationInBounds ==
    \A uva \in Addrs :
        LET p == map_uva(uva) IN p # NULL => InMapping(p, 1)

\* Spec 3 and 4.1: the map is "populated on SET_MEM_TABLE ... cleared on a
\* fresh SET_MEM_TABLE", and unmapping releases a region's mapping.  After
\* every step the live slots are exactly the entries of the table the
\* master was last told succeeded, with their gpa and uva, and the kernel
\* maps nothing that no live slot refers to.
MemTableExact ==
    /\ \A i \in Idx :
         /\ is_region_mapped(regions[i]) <=> i < Len(memTable)
         /\ i < Len(memTable) => /\ regions[i].gpa = memTable[i + 1].gpa
                                 /\ regions[i].uva = memTable[i + 1].uva
    /\ \A f \in Fds : hostMap[f].lo < hostMap[f].hi =>
         \E i \in Idx : regions[i].hva = f

\* unmap_guest_region and the SET_MEM_TABLE rollback release exactly what
\* map_guest_region mapped: every live slot's fd still maps the slot's
\* region_size_bytes, and the kernel maps nothing for an fd no live slot
\* refers to, after any sequence of tables, failed tables and disconnects.
\* It needs the munmap length pages * PAGE_SIZE not to wrap.
MappingsMatchSlots ==
    \A f \in Fds :
        IF \E i \in Idx : regions[i].hva = f
        THEN LET reg == regions[CHOOSE i \in Idx : regions[i].hva = f]
             IN hostMap[f] = [lo |-> 0, hi |-> region_size_bytes(reg)]
        ELSE hostMap[f].lo >= hostMap[f].hi

=============================================================================
