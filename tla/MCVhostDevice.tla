--------------------------- MODULE MCVhostDevice ---------------------------
(* Small instances of VhostDevice for TLC.                                 *)
EXTENDS VhostDevice

\* Region descriptors: one page at gpa/uva 0, the same base grown to two
\* pages (qemu resizing a region), and a misaligned one.
MCRegionDescs ==
    { [gpa |-> 0, uva |-> 0, pages |-> 1, aligned |-> TRUE],
      [gpa |-> 0, uva |-> 0, pages |-> 2, aligned |-> TRUE],
      [gpa |-> 4, uva |-> 4, pages |-> 1, aligned |-> FALSE] }

\* Address 0 lies in every region above, 1 only in the two-page one.
MCVringUvas == {0, 1}
=============================================================================
