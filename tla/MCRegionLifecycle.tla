-------------------------- MODULE MCRegionLifecycle --------------------------
(* Bounds for checking RegionLifecycle with TLC.                           *)
EXTENDS RegionLifecycle, TLC

(* Three incarnations: a first node, one created while a DestroyRegion of  *)
(* it is still joining, and one after a restart or a second destroy.       *)
MCMaxGen == 3
MCMaxCrashes == 1
====
