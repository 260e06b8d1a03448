---------------------------- MODULE MCRegionMeta ----------------------------
(* Instantiation of RegionMeta for TLC: two numeric region ids, two descriptors   *)
(* an id can be added with, one crash.                                     *)
EXTENDS RegionMeta, TLC

MCMaxCrashes == 2

(* The region prefix, one character long, and 4-bit ids: the ids 2 and 10 *)
(* give keys of one and two digits.                                        *)
MCPrefix == <<"r">>
MCWidth == 4
=============================================================================
