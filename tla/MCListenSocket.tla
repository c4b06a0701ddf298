--------------------------- MODULE MCListenSocket ---------------------------
(* sock_create_server alone, with a path that fits sun_path with one byte *)
(* to spare, one that just fits, and one a byte too long.                 *)
EXTENDS ListenSocket

MCSunPathLen == 3
MCPathLens == {1, 2, 3}

=============================================================================
