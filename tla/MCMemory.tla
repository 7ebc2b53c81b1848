------------------------------- MODULE MCMemory -------------------------------
(***************************************************************************)
(* Controllers configured at the addresses the decoders know, with the     *)
(* smallest and the largest size; and addresses on both sides of each      *)
(* boundary.  The card is one byte: its nibbles 0 and 1.                   *)
(***************************************************************************)
EXTENDS MemoryController

MCAddrs == {\h00000, \h00100, \h0013f, \h00140, \h40000, \h4ffff, \h7e000, \h7f000, \h7f042,
            \h80000, \h81fff, \h82000, \h84000, \h90000, \h90042, \h91000,
            \ha0000, \ha0001, \hb0000, \hb0001, \hc0000, \hc0001, \hc4000, \hd0000, \hfffff}

MCConfs(i, n) ==
    CASE i = 0 -> {\h100, \h90000}
      [] i = 1 -> IF n = 2 THEN {\hfe000, \hc0000} ELSE {\h40000, \h80000, \hc0000}
      [] i = 2 -> IF n = 2 THEN {\hff000} ELSE {\h7f000, \h90000}
      [] i = 3 -> IF n = 2 THEN {\hc0000} ELSE {\ha0000, \hc0000}
      [] i = 4 -> IF n = 2 THEN {\hc0000} ELSE {\hb0000, \hc0000}

=============================================================================
