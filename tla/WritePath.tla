----------------------------- MODULE WritePath -----------------------------
(***************************************************************************)
(* The write path of one region hosted on one store node.                  *)
(*                                                                         *)
(*  - StoreServiceImpl::KvPut / KvPutIfAbsent validate a request, build a  *)
(*    Context that owns the RPC `done` closure and call Storage, which     *)
(*    calls RaftKvEngine::AsyncWrite with a write callback;                *)
(*  - RaftKvEngine::Write is the synchronous variant: it proposes, enables *)
(*    sync mode on the Context and blocks on the Context's counting        *)
(*    condition (BthreadCond::IncreaseWait);                               *)
(*  - RaftNode::Commit hands the serialized command to braft with a        *)
(*    StoreClosure attached;                                               *)
(*  - braft (abstracted: a log, a commit index, leadership, step-down,     *)
(*    entries replicated from another leader) commits entries, and the     *)
(*    StoreStateMachine applies them to the storage engine in log order    *)
(*    and runs the entry's StoreClosure, which signals the sync waiter or  *)
(*    calls the write callback and runs `done`;                            *)
(*  - the process may crash: contexts and closures are lost, the braft log *)
(*    and the storage engine are durable, and braft replays the log from   *)
(*    its first entry because no snapshot is ever taken.                   *)
(***************************************************************************)
EXTENDS Naturals, Sequences, SequencesExt

CONSTANTS
    AsyncReqs,     \* RPC requests served by KvPut / KvPutIfAbsent
    SyncReqs,      \* callers of RaftKvEngine::Write
    Keys,          \* non-empty keys of the region
    EmptyKey,      \* the empty key "" a client may send
    Vals,          \* values
    NoVal,         \* a key that is absent from the storage engine
    NoReq,         \* tag of an entry proposed by another replica's leader
    MaxLog,        \* bound on the length of the braft log
    MaxElections,  \* bound on the number of times this replica becomes leader
    MaxCrashes     \* bound on the number of process crashes

ASSUME AsyncReqs \cap SyncReqs = {}
ASSUME EmptyKey \notin Keys /\ NoVal \notin Vals
ASSUME MaxLog \in Nat /\ MaxElections \in Nat /\ MaxCrashes \in Nat

Reqs == AsyncReqs \cup SyncReqs
Ops == {"put", "putIfAbsent"}
Entry == [req : Reqs \cup {NoReq}, op : Ops, key : Keys, val : Vals]
EmptyKV == [k \in Keys |-> NoVal]

VARIABLES
    pc,            \* where each request's thread is
    status,        \* Context::Status(): "ok" until a closure reports an error
    respErr,       \* the RPC response carries an error field
    doneRuns,      \* how many times the RPC `done` closure has run
    syncMode,      \* Context::IsSyncMode()
    writeCb,       \* Context holds a write callback (SetWriteCb)
    cond,          \* counter of the Context's BthreadCond
    closure,       \* the StoreClosure of the request inside braft
    log,           \* braft log of the region (durable)
    commitIndex,   \* braft commit index
    appliedIndex,  \* last index applied by the state machine in this process
    appliedHW,     \* history: highest index ever applied to the engine
    leader,        \* this replica is the region's leader
    node,          \* RaftNodeManager holds a RaftNode for the region
    kv,            \* the data column family of the storage engine (durable)
    elections,     \* times this replica became leader
    crashes        \* crashes so far

vars == <<pc, status, respErr, doneRuns, syncMode, writeCb, cond, closure,
          log, commitIndex, appliedIndex, appliedHW, leader, node,
          kv, elections, crashes>>

TypeOK ==
    /\ pc \in [Reqs -> {"idle", "inflight", "committed", "waiting", "done", "lost"}]
    /\ status \in [Reqs -> {"ok", "err"}]
    /\ respErr \in [Reqs -> BOOLEAN]
    /\ doneRuns \in [Reqs -> 0..2]
    /\ syncMode \in [Reqs -> BOOLEAN]
    /\ writeCb \in [Reqs -> BOOLEAN]
    /\ cond \in [Reqs -> -1..0]
    /\ closure \in [Reqs -> {"none", "pending", "failed", "run"}]
    /\ log \in Seq(Entry) /\ Len(log) <= MaxLog
    /\ commitIndex \in 0..Len(log)
    /\ appliedIndex \in 0..MaxLog
    /\ appliedHW \in 0..MaxLog
    /\ leader \in BOOLEAN /\ node \in BOOLEAN
    /\ kv \in [Keys -> Vals \cup {NoVal}]
    /\ elections \in 0..MaxElections /\ crashes \in 0..MaxCrashes

Init ==
    /\ pc = [r \in Reqs |-> "idle"]
    /\ status = [r \in Reqs |-> "ok"]
    /\ respErr = [r \in Reqs |-> FALSE]
    /\ doneRuns = [r \in Reqs |-> 0]
    /\ syncMode = [r \in Reqs |-> FALSE]
    /\ writeCb = [r \in Reqs |-> FALSE]
    /\ cond = [r \in Reqs |-> 0]
    /\ closure = [r \in Reqs |-> "none"]
    /\ log = <<>> /\ commitIndex = 0 /\ appliedIndex = 0 /\ appliedHW = 0
    /\ leader \in BOOLEAN
    /\ node \in BOOLEAN
    /\ kv = EmptyKV
    /\ elections = 0 /\ crashes = 0

-----------------------------------------------------------------------------
(* The storage engine side of StoreStateMachine::on_apply: a PutDatum      *)
(* overwrites, a PutIfAbsentDatum writes only an absent key.               *)
ApplyEntry(s, e) ==
    IF e.op = "put" \/ s[e.key] = NoVal THEN [s EXCEPT ![e.key] = e.val] ELSE s

(* The engine contents after applying a sequence of entries to an empty   *)
(* region, one after another.                                              *)
ApplyLog(seq) == FoldLeft(ApplyEntry, EmptyKV, seq)

(* Mutant: a write callback that drops the failed status.               *)
WriteCbIgnoresStatus(r, st) == UNCHANGED respErr

(* The write callback Storage::KvPut and Storage::KvPutIfAbsent install:  *)
(* on a failed status it puts the error into the RPC response.             *)
WriteCb(r, st) ==
    respErr' = [respErr EXCEPT ![r] = @ \/ st = "err"]

(* Mutant: a closure that braft may run again (not released after Run).   *)
RunClosureKeepsClosure(r, st) ==
    /\ UNCHANGED closure
    /\ status' = [status EXCEPT ![r] = IF st = "err" THEN "err" ELSE @]
    /\ IF syncMode[r]
         THEN /\ cond' = [cond EXCEPT ![r] = @ - 1]
              /\ UNCHANGED <<respErr, doneRuns, pc>>
         ELSE /\ IF writeCb[r] THEN WriteCb(r, st) ELSE UNCHANGED respErr
              /\ doneRuns' = [doneRuns EXCEPT ![r] = IF r \in AsyncReqs THEN @ + 1 ELSE @]
              /\ pc' = [pc EXCEPT ![r] = IF r \in AsyncReqs THEN "done" ELSE @]
              /\ UNCHANGED cond

(* StoreClosure::Run: record a failure in the Context, then wake the sync *)
(* waiter if the Context is in sync mode, otherwise call the write         *)
(* callback (if any) and run `done` (if any).                              *)
RunClosure(r, st) ==
    /\ closure' = [closure EXCEPT ![r] = "run"]
    /\ status' = [status EXCEPT ![r] = IF st = "err" THEN "err" ELSE @]
    /\ IF syncMode[r]
         THEN /\ cond' = [cond EXCEPT ![r] = @ - 1]
              /\ UNCHANGED <<respErr, doneRuns, pc>>
         ELSE /\ IF writeCb[r] THEN WriteCb(r, st) ELSE UNCHANGED respErr
              /\ doneRuns' = [doneRuns EXCEPT ![r] = IF r \in AsyncReqs THEN @ + 1 ELSE @]
              /\ pc' = [pc EXCEPT ![r] = IF r \in AsyncReqs THEN "done" ELSE @]
              /\ UNCHANGED cond

(* braft accepts a task only up to the log bound of the model.             *)
CanCommit == ~leader \/ Len(log) < MaxLog

(* RaftNode::Commit: node_->apply(task) with a new StoreClosure.  A leader *)
(* appends the entry; a non-leader fails the closure (EPERM), which braft  *)
(* runs later on its own thread.                                           *)
Commit(r, e) ==
    IF leader
      THEN /\ log' = Append(log, e)
           /\ closure' = [closure EXCEPT ![r] = "pending"]
      ELSE /\ closure' = [closure EXCEPT ![r] = "failed"]
           /\ UNCHANGED log

(* ValidateKvPutRequest / ValidateKvPutIfAbsentRequest.  The region is in *)
(* the StoreMetaManager in this module (the directory is RegionMeta's), so *)
(* the check that remains is the one on the key.                          *)
Valid(k) == k # EmptyKey

(* The part of KvPut / KvPutIfAbsent after validation: Storage::KvPut or  *)
(* Storage::KvPutIfAbsent calls RaftKvEngine::AsyncWrite.  With no raft   *)
(* node it returns ERAFT_NOTNODE and the handler's second ClosureGuard     *)
(* runs `done`; otherwise it sets the write callback and commits, and the  *)
(* released `done` is left to the StoreClosure.                            *)
AsyncWrite(r, op, k, v) ==
    IF ~node
      THEN /\ respErr' = [respErr EXCEPT ![r] = TRUE]
           /\ doneRuns' = [doneRuns EXCEPT ![r] = @ + 1]
           /\ pc' = [pc EXCEPT ![r] = "done"]
           /\ UNCHANGED <<writeCb, closure, log>>
      ELSE /\ writeCb' = [writeCb EXCEPT ![r] = TRUE]
           /\ Commit(r, [req |-> r, op |-> op, key |-> k, val |-> v])
           /\ pc' = [pc EXCEPT ![r] = "inflight"]
           /\ UNCHANGED <<respErr, doneRuns>>

(* One RPC handler, StoreServiceImpl::KvPut (op "put") or KvPutIfAbsent   *)
(* (op "putIfAbsent"): a request failing validation gets an error and     *)
(* `done` runs from the handler's ClosureGuard.                            *)
Handle(r, op, k, v) ==
    /\ pc[r] = "idle"
    /\ CanCommit
    /\ IF ~Valid(k)
         THEN /\ respErr' = [respErr EXCEPT ![r] = TRUE]
              /\ doneRuns' = [doneRuns EXCEPT ![r] = @ + 1]
              /\ pc' = [pc EXCEPT ![r] = "done"]
              /\ UNCHANGED <<writeCb, closure, log>>
         ELSE AsyncWrite(r, op, k, v)
    /\ UNCHANGED <<status, syncMode, cond, commitIndex, appliedIndex, appliedHW,
                   leader, node, kv, elections, crashes>>

(* StoreServiceImpl::KvPut: one kv, a PutDatum.                           *)
KvPut(r, k, v) == Handle(r, "put", k, v)

(* StoreServiceImpl::KvPutIfAbsent: one kv, a PutIfAbsentDatum.           *)
KvPutIfAbsent(r, k, v) == Handle(r, "putIfAbsent", k, v)

(* RaftKvEngine::Write up to the return of node->Commit.                   *)
WriteCommit(r, op, k, v) ==
    /\ pc[r] = "idle"
    /\ CanCommit
    /\ IF ~node
         THEN /\ status' = [status EXCEPT ![r] = "err"]
              /\ pc' = [pc EXCEPT ![r] = "done"]
              /\ UNCHANGED <<closure, log>>
         ELSE /\ Commit(r, [req |-> r, op |-> op, key |-> k, val |-> v])
              /\ pc' = [pc EXCEPT ![r] = "committed"]
              /\ UNCHANGED status
    /\ UNCHANGED <<respErr, doneRuns, syncMode, writeCb, cond, commitIndex,
                   appliedIndex, appliedHW, leader, node, kv,
                   elections, crashes>>

(* RaftKvEngine::Write: ctx->EnableSyncMode(), after the commit.           *)
EnableSyncMode(r) ==
    /\ pc[r] = "committed"
    /\ syncMode' = [syncMode EXCEPT ![r] = TRUE]
    /\ pc' = [pc EXCEPT ![r] = "waiting"]
    /\ UNCHANGED <<status, respErr, doneRuns, writeCb, cond, closure, log,
                   commitIndex, appliedIndex, appliedHW, leader, node,
                   kv, elections, crashes>>

(* Mutant: Cond()->Increase() in place of IncreaseWait(), no wait.        *)
IncreaseNoWait(r) ==
    /\ pc[r] = "waiting"
    /\ cond' = [cond EXCEPT ![r] = @ + 1]
    /\ pc' = [pc EXCEPT ![r] = "done"]
    /\ UNCHANGED <<status, respErr, doneRuns, syncMode, writeCb, closure, log,
                   commitIndex, appliedIndex, appliedHW, leader, node, kv,
                   elections, crashes>>

(* RaftKvEngine::Write: ctx->Cond()->IncreaseWait() blocks while          *)
(* count + 1 > 0, then increments the count; Write returns ctx->Status().  *)
IncreaseWait(r) ==
    /\ pc[r] = "waiting"
    /\ cond[r] + 1 <= 0
    /\ cond' = [cond EXCEPT ![r] = @ + 1]
    /\ pc' = [pc EXCEPT ![r] = "done"]
    /\ UNCHANGED <<status, respErr, doneRuns, syncMode, writeCb, closure, log,
                   commitIndex, appliedIndex, appliedHW, leader, node,
                   kv, elections, crashes>>

-----------------------------------------------------------------------------
(* braft, abstracted.  A quorum acknowledges the next entry.               *)
RaftCommit ==
    /\ node
    /\ commitIndex < Len(log)
    /\ commitIndex' = commitIndex + 1
    /\ UNCHANGED <<pc, status, respErr, doneRuns, syncMode, writeCb, cond,
                   closure, log, appliedIndex, appliedHW, leader, node,
                   kv, elections, crashes>>

(* Mutant: stepping down without failing the pending closures.            *)
StepDownKeepsClosures ==
    /\ node /\ leader
    /\ leader' = FALSE
    /\ \E n \in commitIndex..Len(log) : log' = SubSeq(log, 1, n)
    /\ UNCHANGED <<pc, status, respErr, doneRuns, syncMode, writeCb, cond,
                   closure, commitIndex, appliedIndex, appliedHW, node, kv,
                   elections, crashes>>

(* The replica loses leadership: braft fails the closures of the entries  *)
(* it has not committed (clear_pending_tasks); a new leader keeps or       *)
(* overwrites the uncommitted suffix of the log.                           *)
StepDown ==
    /\ node /\ leader
    /\ leader' = FALSE
    /\ closure' = [r \in Reqs |->
                     IF /\ closure[r] = "pending"
                        /\ \A i \in 1..commitIndex : log[i].req # r
                     THEN "failed" ELSE closure[r]]
    /\ \E n \in commitIndex..Len(log) : log' = SubSeq(log, 1, n)
    /\ UNCHANGED <<pc, status, respErr, doneRuns, syncMode, writeCb, cond,
                   commitIndex, appliedIndex, appliedHW, node, kv, elections, crashes>>

(* The replica wins an election (StoreStateMachine::on_leader_start).     *)
BecomeLeader ==
    /\ node /\ ~leader
    /\ elections < MaxElections
    /\ leader' = TRUE
    /\ elections' = elections + 1
    /\ UNCHANGED <<pc, status, respErr, doneRuns, syncMode, writeCb, cond,
                   closure, log, commitIndex, appliedIndex, appliedHW, node,
                   kv, crashes>>

(* A follower receives an entry proposed through another replica.          *)
ReplicateForeign(op, k, v) ==
    /\ node /\ ~leader
    /\ Len(log) < MaxLog
    /\ log' = Append(log, [req |-> NoReq, op |-> op, key |-> k, val |-> v])
    /\ UNCHANGED <<pc, status, respErr, doneRuns, syncMode, writeCb, cond,
                   closure, commitIndex, appliedIndex, appliedHW, leader, node,
                   kv, elections, crashes>>

(* StoreStateMachine::on_apply for the next committed entry: apply it to  *)
(* the engine, then run its closure if this replica proposed it and braft *)
(* still holds the closure (iter.done() is NULL otherwise).                *)
Apply ==
    /\ node
    /\ appliedIndex < commitIndex
    /\ LET e == log[appliedIndex + 1] IN
       /\ kv' = ApplyEntry(kv, e)
       /\ appliedIndex' = appliedIndex + 1
       /\ appliedHW' = IF appliedIndex + 1 > appliedHW THEN appliedIndex + 1 ELSE appliedHW
       /\ IF e.req # NoReq /\ closure[e.req] = "pending"
            THEN RunClosure(e.req, "ok")
            ELSE UNCHANGED <<closure, status, cond, respErr, doneRuns, pc>>
    /\ UNCHANGED <<syncMode, writeCb, log, commitIndex, leader, node,
                   elections, crashes>>

(* braft runs a failed closure (not leader, or leadership lost).           *)
RunFailed(r) ==
    /\ closure[r] = "failed"
    /\ RunClosure(r, "err")
    /\ UNCHANGED <<syncMode, writeCb, log, commitIndex, appliedIndex, appliedHW,
                   leader, node, kv, elections, crashes>>

(* Mutant: a restart that takes the commit index for the applied index.    *)
CrashResumesAtCommit ==
    /\ crashes < MaxCrashes
    /\ crashes' = crashes + 1
    /\ pc' = [r \in Reqs |-> IF pc[r] \in {"inflight", "committed", "waiting"}
                               THEN "lost" ELSE pc[r]]
    /\ closure' = [r \in Reqs |-> IF closure[r] \in {"pending", "failed"}
                                    THEN "none" ELSE closure[r]]
    /\ leader' = FALSE
    /\ appliedIndex' = commitIndex
    /\ UNCHANGED <<status, respErr, doneRuns, syncMode, writeCb, cond, log,
                   commitIndex, appliedHW, node, kv, elections>>

(* The process crashes and restarts.  Contexts, closures and waiting       *)
(* threads are gone; the braft log, its commit point and the engine's data *)
(* survive.  RaftNode::Init sets snapshot_interval_s = 100000 and no       *)
(* snapshot exists, so braft replays the log from index 1 into the engine. *)
Crash ==
    /\ crashes < MaxCrashes
    /\ crashes' = crashes + 1
    /\ pc' = [r \in Reqs |-> IF pc[r] \in {"inflight", "committed", "waiting"}
                               THEN "lost" ELSE pc[r]]
    /\ closure' = [r \in Reqs |-> IF closure[r] \in {"pending", "failed"}
                                    THEN "none" ELSE closure[r]]
    /\ leader' = FALSE
    /\ appliedIndex' = 0
    /\ UNCHANGED <<status, respErr, doneRuns, syncMode, writeCb, cond, log,
                   commitIndex, appliedHW, node, kv, elections>>

-----------------------------------------------------------------------------
Next ==
    \/ \E r \in AsyncReqs, k \in Keys \cup {EmptyKey}, v \in Vals :
          KvPut(r, k, v) \/ KvPutIfAbsent(r, k, v)
    \/ \E r \in SyncReqs, op \in Ops, k \in Keys, v \in Vals : WriteCommit(r, op, k, v)
    \/ \E r \in SyncReqs : EnableSyncMode(r) \/ IncreaseWait(r)
    \/ RaftCommit
    \/ StepDown
    \/ BecomeLeader
    \/ \E op \in Ops, k \in Keys, v \in Vals : ReplicateForeign(op, k, v)
    \/ Apply
    \/ \E r \in Reqs : RunFailed(r)
    \/ Crash

(* The request threads run; braft's apply and closure threads run; a      *)
(* quorum of replicas is up, so a proposed entry eventually commits.       *)
Fairness ==
    /\ \A r \in SyncReqs : WF_vars(EnableSyncMode(r)) /\ WF_vars(IncreaseWait(r))
    /\ \A r \in Reqs : WF_vars(RunFailed(r))
    /\ WF_vars(RaftCommit)
    /\ WF_vars(Apply)

Spec == Init /\ [][Next]_vars

FairSpec == Spec /\ Fairness

-----------------------------------------------------------------------------
(* The entry request r proposed is in the committed prefix of the log.    *)
CommittedReq(r) == \E i \in 1..commitIndex : log[i].req = r

(* A request's RPC `done` closure runs at most once: on a validation or   *)
(* ERAFT_NOTNODE error from the handler's ClosureGuard, otherwise from the *)
(* StoreClosure, never from both.                                          *)
DoneAtMostOnce == \A r \in AsyncReqs : doneRuns[r] <= 1

(* A response without an error field, and a sync Write returning OK, mean *)
(* the write is in the committed prefix of the region's log.               *)
AckImpliesCommitted ==
    /\ \A r \in AsyncReqs : (doneRuns[r] > 0 /\ ~respErr[r]) => CommittedReq(r)
    /\ \A r \in SyncReqs : (pc[r] = "done" /\ status[r] = "ok") => CommittedReq(r)

(* Once the state machine has re-applied everything it had applied before *)
(* a restart, the engine holds exactly the applied prefix of the log.      *)
ReplayConverges ==
    appliedIndex >= appliedHW => kv = ApplyLog(SubSeq(log, 1, appliedIndex))

(* The engine never goes back to an older state: it always holds the      *)
(* effect of every entry ever applied, also while the log is replayed      *)
(* after a restart.                                                        *)
ReplayNeverRollsBack == kv = ApplyLog(SubSeq(log, 1, appliedHW))

(* Every accepted RPC write is eventually answered (or its process dies). *)
AsyncWriteAnswered ==
    \A r \in AsyncReqs : pc[r] = "inflight" ~> pc[r] \in {"done", "lost"}

(* A thread blocked in RaftKvEngine::Write is eventually woken.            *)
SyncWriteReturns ==
    \A r \in SyncReqs : pc[r] = "committed" ~> pc[r] \in {"done", "lost"}
=============================================================================
