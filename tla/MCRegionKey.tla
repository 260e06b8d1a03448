----------------------------- MODULE MCRegionKey -----------------------------
(* ParseRegionId applied to every key the region-prefix scan can return,  *)
(* bounded in length: MetaReader::Scan returns every key in               *)
(* [prefix, Increment(prefix)), not only the keys GenKey writes.  One      *)
(* state per key; the key never changes.                                   *)
EXTENDS RegionKey, TLC

VARIABLE key

MCPrefix == <<"r">>
MCWidth == 4

(* Characters after the prefix: the separator, digits below and above the *)
(* 4-bit range, a sign, a blank and a letter; at most three of them.        *)
KeyChars == {"_", "1", "9", "-", " ", "x"}
ScannedKeys == {Prefix \o s : s \in BoundedSeq(KeyChars, 3)}

Init == key \in ScannedKeys
Next == UNCHANGED key

(* Loading the region directory never ends the process: spec, Region Meta *)
(* Store: a malformed key is logged and its record skipped, "it must never *)
(* crash the load".  ParseRegionId lets std::out_of_range escape.          *)
ParseNeverAborts == ParseRegionId(key) # Abort
=============================================================================
