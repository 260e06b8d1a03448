--------------------------- MODULE RegionLifecycle ---------------------------
(***************************************************************************)
(* The lifecycle of one region's consensus node in RaftKvEngine, and the   *)
(* writes that race with it.  RaftKvEngine keeps region id -> RaftNode in   *)
(* its RaftNodeManager; AddRegion creates and Inits a new RaftNode (a new   *)
(* incarnation, numbered here by a generation) and registers it,           *)
(* DestroyRegion looks the node up, shuts it down, joins it and then       *)
(* deletes whatever is registered under the id, ChangeRegion dereferences  *)
(* the lookup result, and AsyncWrite looks the node up and then commits to *)
(* the node it got, which may have been shut down in between.  Every       *)
(* incarnation opens the same braft log ("local://prefix/log", no          *)
(* snapshot) and applies into the same data column family, neither of      *)
(* which DestroyRegion removes.  braft is abstracted to one log, a commit  *)
(* index, and per incarnation an apply position; leadership is not        *)
(* modelled here (WritePath does), a running incarnation leads.            *)
(***************************************************************************)
EXTENDS Naturals, Sequences, FiniteSets

CONSTANTS
    Writers,   \* RPC threads issuing one KvPut each
    Admins,    \* RPC threads issuing AddRegion / DestroyRegion / ChangeRegion
    Keys,
    Vals,
    NoVal,     \* the key is absent from the data column family
    MaxGen,    \* bound on the number of RaftNode incarnations
    MaxCrashes \* bound on the number of process crashes

ASSUME NoVal \notin Vals /\ MaxGen \in Nat \ {0}

VARIABLES
    registry,    \* RaftNodeManager entry of the region: a generation, 0 = none
    nstate,      \* state of each RaftNode incarnation's braft node
    applied,     \* apply position of each incarnation's state machine
    nextGen,     \* the generation the next RaftNode will get
    born,        \* how each incarnation was created: by AddRegion or by Recover
    log,         \* the braft log at the shared log_uri: [key, val, gen, w]
    commitIndex,
    data,        \* the data column family
    wpc,         \* step of each writer's KvPut
    wkv,         \* the key and value the writer puts
    wnode,       \* the RaftNode the writer's GetNode returned
    widx,        \* log index of the writer's entry, 0 = none
    closure,     \* the writer's StoreClosure inside braft
    wresp,       \* the writer's RPC answer
    apc,         \* step of each admin thread
    agen,        \* the RaftNode an admin thread's DestroyRegion got
    aborted,     \* the process died of a null dereference
    up,          \* the process is running
    crashes,
    retired      \* auxiliary: incarnations whose DestroyRegion has returned

vars == <<registry, nstate, applied, nextGen, born, log, commitIndex, data, wpc, wkv,
          wnode, widx, closure, wresp, apc, agen, aborted, up, crashes, retired>>

Gens == 1..MaxGen
Entry == [key : Keys, val : Vals, gen : Gens, w : Writers]
EmptyData == [k \in Keys |-> NoVal]

TypeOK ==
    /\ registry \in 0..MaxGen
    /\ nstate \in [Gens -> {"unborn", "running", "stopped"}]
    /\ applied \in [Gens -> 0..Cardinality(Writers)]
    /\ nextGen \in 1..MaxGen + 1
    /\ born \in [Gens -> {"none", "add", "recover"}]
    /\ log \in Seq(Entry) /\ Len(log) <= Cardinality(Writers)
    /\ commitIndex \in 0..Len(log)
    /\ data \in [Keys -> Vals \cup {NoVal}]
    /\ wpc \in [Writers -> {"idle", "got", "inflight", "done"}]
    /\ wkv \in [Writers -> [key : Keys, val : Vals]]
    /\ wnode \in [Writers -> 0..MaxGen]
    /\ widx \in [Writers -> 0..Cardinality(Writers)]
    /\ closure \in [Writers -> {"none", "pending", "failed", "run"}]
    /\ wresp \in [Writers -> {"none", "ok", "err"}]
    /\ apc \in [Admins -> {"idle", "destroyJoin"}]
    /\ agen \in [Admins -> 0..MaxGen]
    /\ aborted \in BOOLEAN /\ up \in BOOLEAN
    /\ crashes \in 0..MaxCrashes
    /\ retired \subseteq Gens

Init ==
    /\ registry = 0
    /\ nstate = [g \in Gens |-> "unborn"]
    /\ applied = [g \in Gens |-> 0]
    /\ nextGen = 1
    /\ born = [g \in Gens |-> "none"]
    /\ log = <<>> /\ commitIndex = 0
    /\ data = EmptyData
    /\ wpc = [w \in Writers |-> "idle"]
    /\ wkv \in [Writers -> [key : Keys, val : Vals]]
    /\ wnode = [w \in Writers |-> 0]
    /\ widx = [w \in Writers |-> 0]
    /\ closure = [w \in Writers |-> "none"]
    /\ wresp = [w \in Writers |-> "none"]
    /\ apc = [a \in Admins |-> "idle"]
    /\ agen = [a \in Admins |-> 0]
    /\ aborted = FALSE /\ up = TRUE
    /\ crashes = 0
    /\ retired = {}

Live == up /\ ~aborted
Running(g) == nstate[g] = "running"

-----------------------------------------------------------------------------
(* RaftKvEngine::AddRegion: a new StoreStateMachine and RaftNode, then     *)
(* RaftNode::Init.  braft refuses to init a node of a group it still runs *)
(* (same group id, same peer) and may fail for other reasons; on failure   *)
(* the (empty) RaftNode::Destroy runs and ERAFT_INIT is returned, on       *)
(* success the node starts from the shared log, replaying from index 1,    *)
(* and RaftNodeManager::AddNode registers it under the region id.          *)
NewNode(ok, how) ==
    LET g == nextGen IN
    /\ nextGen' = g + 1
    /\ IF ok /\ \A h \in Gens : ~Running(h)
         THEN /\ nstate' = [nstate EXCEPT ![g] = "running"]
              /\ applied' = [applied EXCEPT ![g] = 0]
              /\ registry' = g
              /\ born' = [born EXCEPT ![g] = how]
         ELSE UNCHANGED <<nstate, applied, registry, born>>

AddRegion(a) ==
    /\ Live /\ apc[a] = "idle" /\ nextGen <= MaxGen
    /\ \E ok \in BOOLEAN : NewNode(ok, "add")
    /\ UNCHANGED <<log, commitIndex, data, wpc, wkv, wnode, widx, closure,
                   wresp, apc, agen, aborted, up, crashes, retired>>

(* Mutant: DestroyRegion without node->Shutdown: Join and DeleteNode only. *)
DestroySkipsShutdown(a) ==
    /\ Live /\ apc[a] = "idle" /\ registry # 0
    /\ agen' = [agen EXCEPT ![a] = registry]
    /\ apc' = [apc EXCEPT ![a] = "destroyJoin"]
    /\ UNCHANGED <<registry, nstate, applied, nextGen, born, log, commitIndex, data, wpc,
                   wkv, wnode, widx, closure, wresp, aborted, up, crashes, retired>>

(* RaftKvEngine::DestroyRegion up to Join: GetNode; ERAFT_NOTNODE (no     *)
(* change) when nothing is registered; else node->Shutdown, which fails    *)
(* the closures of the node's entries not yet applied.                     *)
DestroyRegion(a) ==
    /\ Live /\ apc[a] = "idle" /\ registry # 0
    /\ LET g == registry IN
         /\ nstate' = [nstate EXCEPT ![g] = "stopped"]
         /\ closure' = [w \in Writers |->
                          IF wnode[w] = g /\ closure[w] = "pending" /\ widx[w] > applied[g]
                            THEN "failed" ELSE closure[w]]
         /\ agen' = [agen EXCEPT ![a] = g]
    /\ apc' = [apc EXCEPT ![a] = "destroyJoin"]
    /\ UNCHANGED <<registry, applied, nextGen, born, log, commitIndex, data, wpc, wkv,
                   wnode, widx, wresp, aborted, up, crashes, retired>>

(* The rest of DestroyRegion: node->Join returns once braft's own threads *)
(* of the shut-down node have stopped; it does not wait for the bthreads   *)
(* that run the closures Shutdown failed.  Then                            *)
(* RaftNodeManager::DeleteNode(region_id) removes whatever is registered   *)
(* under the id by now.  The node is retired: DestroyRegion has returned.  *)
DestroyJoin(a) ==
    /\ Live /\ apc[a] = "destroyJoin"
    /\ registry' = 0
    /\ apc' = [apc EXCEPT ![a] = "idle"]
    /\ retired' = retired \cup {agen[a]}
    /\ UNCHANGED <<nstate, applied, nextGen, born, log, commitIndex, data, wpc, wkv,
                   wnode, widx, closure, wresp, agen, aborted, up, crashes>>

(* RaftKvEngine::ChangeRegion calls ChangePeers on GetNode(region_id)      *)
(* without a null check: with no node registered the process dies.  With  *)
(* a node, the membership change is braft's and is not modelled.           *)
ChangeRegion(a) ==
    /\ Live /\ apc[a] = "idle" /\ registry = 0
    /\ aborted' = TRUE
    /\ UNCHANGED <<registry, nstate, applied, nextGen, born, log, commitIndex, data, wpc,
                   wkv, wnode, widx, closure, wresp, apc, agen, up, crashes, retired>>

-----------------------------------------------------------------------------
(* RaftKvEngine::AsyncWrite, first half: GetNode.  With no node the write *)
(* fails with ERAFT_NOTNODE and KvPut answers at once; else the writer now *)
(* holds a reference to that RaftNode.                                     *)
AsyncWriteGetNode(w) ==
    /\ Live /\ wpc[w] = "idle"
    /\ IF registry = 0
         THEN /\ wpc' = [wpc EXCEPT ![w] = "done"]
              /\ wresp' = [wresp EXCEPT ![w] = "err"]
              /\ UNCHANGED wnode
         ELSE /\ wnode' = [wnode EXCEPT ![w] = registry]
              /\ wpc' = [wpc EXCEPT ![w] = "got"]
              /\ UNCHANGED wresp
    /\ UNCHANGED <<registry, nstate, applied, nextGen, born, log, commitIndex, data, wkv,
                   widx, closure, apc, agen, aborted, up, crashes, retired>>

(* Mutant: a task given to a node that was shut down is dropped, its      *)
(* closure never run.                                                      *)
CommitDropsOnStopped(w) ==
    /\ Live /\ wpc[w] = "got"
    /\ LET g == wnode[w] IN
         IF Running(g)
           THEN /\ log' = Append(log, [key |-> wkv[w].key, val |-> wkv[w].val, gen |-> g, w |-> w])
                /\ widx' = [widx EXCEPT ![w] = Len(log) + 1]
                /\ closure' = [closure EXCEPT ![w] = "pending"]
           ELSE UNCHANGED <<log, widx, closure>>
    /\ wpc' = [wpc EXCEPT ![w] = "inflight"]
    /\ UNCHANGED <<registry, nstate, applied, nextGen, born, commitIndex, data, wkv, wnode,
                   wresp, apc, agen, aborted, up, crashes, retired>>

(* Second half: SetWriteCb and RaftNode::Commit on the node obtained      *)
(* before, which may have been shut down since.  A running node appends    *)
(* the entry with its StoreClosure; a shut-down braft node fails the task, *)
(* running the closure with an error.                                      *)
AsyncWriteCommit(w) ==
    /\ Live /\ wpc[w] = "got"
    /\ LET g == wnode[w] IN
         IF Running(g)
           THEN /\ log' = Append(log, [key |-> wkv[w].key, val |-> wkv[w].val, gen |-> g, w |-> w])
                /\ widx' = [widx EXCEPT ![w] = Len(log) + 1]
                /\ closure' = [closure EXCEPT ![w] = "pending"]
           ELSE /\ closure' = [closure EXCEPT ![w] = "failed"]
                /\ UNCHANGED <<log, widx>>
    /\ wpc' = [wpc EXCEPT ![w] = "inflight"]
    /\ UNCHANGED <<registry, nstate, applied, nextGen, born, commitIndex, data, wkv, wnode,
                   wresp, apc, agen, aborted, up, crashes, retired>>
-----------------------------------------------------------------------------
(* braft commits the next entry of the log while some incarnation runs.   *)
RaftCommit ==
    /\ Live /\ \E g \in Gens : Running(g)
    /\ commitIndex < Len(log)
    /\ commitIndex' = commitIndex + 1
    /\ UNCHANGED <<registry, nstate, applied, nextGen, born, log, data, wpc, wkv,
                   wnode, widx, closure, wresp, apc, agen, aborted, up, crashes, retired>>

(* StoreStateMachine::on_apply of incarnation g: the next committed entry *)
(* is put into the data column family; if g itself proposed it, its        *)
(* StoreClosure runs: the write callback sees success and done runs.       *)
Apply(g) ==
    /\ Live /\ Running(g) /\ applied[g] < commitIndex
    /\ LET i == applied[g] + 1
           e == log[i]
           own == e.gen = g /\ closure[e.w] = "pending" /\ widx[e.w] = i
       IN /\ applied' = [applied EXCEPT ![g] = i]
          /\ data' = [data EXCEPT ![e.key] = e.val]
          /\ closure' = IF own THEN [closure EXCEPT ![e.w] = "run"] ELSE closure
          /\ wresp' = IF own THEN [wresp EXCEPT ![e.w] = "ok"] ELSE wresp
          /\ wpc' = IF own THEN [wpc EXCEPT ![e.w] = "done"] ELSE wpc
    /\ UNCHANGED <<registry, nstate, nextGen, born, log, commitIndex, wkv, wnode,
                   widx, apc, agen, aborted, up, crashes, retired>>

(* braft runs a failed StoreClosure: the write callback puts the error    *)
(* into the response and done runs.                                        *)
RunFailed(w) ==
    /\ Live /\ closure[w] = "failed"
    /\ closure' = [closure EXCEPT ![w] = "run"]
    /\ wresp' = [wresp EXCEPT ![w] = "err"]
    /\ wpc' = [wpc EXCEPT ![w] = "done"]
    /\ UNCHANGED <<registry, nstate, applied, nextGen, born, log, commitIndex, data,
                   wkv, wnode, widx, apc, agen, aborted, up, crashes, retired>>

(* The process dies: RaftNodes, closures and calls in progress are gone;  *)
(* the braft log and the data column family are on disk.                   *)
Crash ==
    /\ Live /\ crashes < MaxCrashes
    /\ up' = FALSE
    /\ crashes' = crashes + 1
    /\ registry' = 0
    /\ nstate' = [g \in Gens |-> IF Running(g) THEN "stopped" ELSE nstate[g]]
    /\ closure' = [w \in Writers |-> "none"]
    /\ wpc' = [w \in Writers |-> "done"]
    /\ apc' = [a \in Admins |-> "idle"]
    /\ UNCHANGED <<applied, nextGen, born, log, commitIndex, data, wkv, wnode, widx,
                   wresp, agen, aborted, retired>>

(* Restart: RaftKvEngine::Recover calls AddRegion for every region of the *)
(* recovered directory (its result ignored); whether this region is among  *)
(* them is the directory's (RegionMeta) business.                          *)
Recover ==
    /\ ~up /\ ~aborted
    /\ up' = TRUE
    /\ \/ /\ nextGen <= MaxGen
          /\ \E ok \in BOOLEAN : NewNode(ok, "recover")
       \/ UNCHANGED <<registry, nstate, applied, nextGen, born>>
    /\ UNCHANGED <<log, commitIndex, data, wpc, wkv, wnode, widx, closure, wresp,
                   apc, agen, aborted, crashes, retired>>

Next ==
    \/ \E a \in Admins : AddRegion(a) \/ DestroyRegion(a) \/ DestroyJoin(a) \/ ChangeRegion(a)
    \/ \E w \in Writers : AsyncWriteGetNode(w) \/ AsyncWriteCommit(w) \/ RunFailed(w)
    \/ RaftCommit
    \/ \E g \in Gens : Apply(g)
    \/ Crash
    \/ Recover

Spec == Init /\ [][Next]_vars

(* braft's apply and closure threads, the commit of a live quorum, and    *)
(* the threads of a started call keep running.  Administrative calls,     *)
(* crashes and new writes are not assumed to happen.                       *)
Fairness ==
    /\ \A w \in Writers : WF_vars(AsyncWriteCommit(w)) /\ WF_vars(RunFailed(w))
    /\ \A a \in Admins : WF_vars(DestroyJoin(a))
    /\ \A g \in Gens : WF_vars(Apply(g))
    /\ WF_vars(RaftCommit)

FairSpec == Spec /\ Fairness

-----------------------------------------------------------------------------
(* A KvPut that got a RaftNode from the registry is answered, also when   *)
(* DestroyRegion shuts that node down before or after the entry reaches    *)
(* it, unless the process dies first.                                      *)
WriteAnswered ==
    \A w \in Writers : wpc[w] \in {"got", "inflight"} ~> (wpc[w] = "done" \/ ~Live)

(* DestroyRegion halts the node: once it has returned, the destroyed     *)
(* incarnation never again appends an entry to the log nor applies one,   *)
(* although writers that took it from the registry before still hold it  *)
(* and commit to it.  node->Shutdown is what stops it; Join and DeleteNode *)
(* alone only unregister it.                                               *)
DestroyHaltsNode ==
    [][\A g \in retired :
         /\ applied'[g] = applied[g]
         /\ \A i \in Len(log) + 1 .. Len(log') : log'[i].gen # g]_vars

(* Every running incarnation is the one registered for the region, so     *)
(* that writes and DestroyRegion can reach it.                             *)
RunningNodeRegistered == \A g \in Gens : Running(g) => registry = g

(* Scenario D: a region that AddRegion hosts anew, and that has not been  *)
(* written to since, holds no data.                                       *)
FreshRegionEmpty ==
    (registry # 0 /\ born[registry] = "add" /\ \A i \in 1..Len(log) : log[i].gen # registry)
      => data = EmptyData
====
