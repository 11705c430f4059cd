------------------------------ MODULE MCServer ------------------------------
(***************************************************************************)
(* An instance of Server for TLC.                                          *)
(***************************************************************************)
EXTENDS Server

CONSTANTS r1, r2

OffByOne == {-1, 1}
=============================================================================
