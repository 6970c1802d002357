---------------------------- MODULE CellClients ----------------------------
(***************************************************************************)
(* The clients of the kernel's shared cells.                               *)
(***************************************************************************)
CONSTANTS Threads,
          Values   \* what a cell, or a word of it, may hold
=============================================================================
