----------------------------- MODULE MCDisplay -----------------------------
(***************************************************************************)
(* A small screen: four rows, of which a program uses two or all four as   *)
(* the main area; one menu row is watched by the write hook.  A program    *)
(* flips between two pages and three distances of rows, of which one wraps *)
(* to 0, and writes two main addresses, the first menu row and the second  *)
(* one.                                                                    *)
(***************************************************************************)
EXTENDS DisplayController
MCStarts == {0, 2}
MCLineOffsets == {0, 1, 3}
MCLineCounts == {0, 1}
MCMenus == {8}
MCWritten == {0, 1, 8, 9}
=============================================================================
