---------------------------- MODULE MCWritePath ----------------------------
(* Instantiation of WritePath for TLC: one RPC writer, one synchronous    *)
(* writer and entries replicated from another leader, on one key with two *)
(* values, so that writes to the same key race and a later write can be   *)
(* rolled back by a replay.                                                *)
EXTENDS WritePath, TLC

\* Two log entries: a request's own and one that competes with it (the
\* other request's or a foreign leader's); one re-election, so that a
\* step-down and a new term both happen; one crash, so that a replay
\* happens.
MCMaxLog == 2
MCMaxElections == 1
MCMaxCrashes == 1
=============================================================================
