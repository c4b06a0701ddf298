-------------------------- MODULE MCGuestMemoryMap --------------------------
(* GuestMemoryMap for TLC: 5-bit addresses, 3-bit uint32_t, 2-byte pages.  *)
(* A region of 16 bytes has 8 pages, which uint32_t truncates to 0; one of *)
(* 12 bytes at gpa 28 reaches past the top of the address space.           *)
EXTENDS GuestMemoryMap

MCGpas == {0, 28}
MCUvas == {0, 28}
MCSizes == {0, 3, 4, 12, 16}

\* The sizes whose page count fits the scaled uint32_t.
MCSizesInRange == {0, 3, 4, 12}
MCOffsets == {0, 1}
=============================================================================
