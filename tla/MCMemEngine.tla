----------------------------- MODULE MCMemEngine -----------------------------
(* Instantiation of MemEngine for TLC.                                     *)
EXTENDS MemEngine, TLC

(* Two puts: one creates the entry, the second overwrites it under a       *)
(* reader's Slice.                                                         *)
MCMaxPuts == 2
=============================================================================
