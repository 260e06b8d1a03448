----------------------------- MODULE RegionMeta -----------------------------
(***************************************************************************)
(* The region directory of a store node: StoreRegionMeta's in-memory map   *)
(* region_id -> Region guarded by a shared_mutex, and StoreMetaManager,    *)
(* which mirrors every change into the meta column family through the      *)
(* MetaWriter and rebuilds the map from a MetaReader prefix scan at        *)
(* start-up.  Several RPC threads call AddRegion and DeleteRegion          *)
(* concurrently; each lock is held for one map operation only, so the      *)
(* steps of two calls interleave.  The process may crash between any two   *)
(* steps; the meta column family is durable, the map is not.               *)
(***************************************************************************)
EXTENDS Naturals, TLC, RegionKey

CONSTANTS
    Threads,     \* RPC threads calling the StoreMetaManager
    RegionIds,   \* region ids, numbers of 1..MaxU
    Descs,       \* region descriptors (peers, epoch, range) an id may carry
    None,        \* no region under that id
    MaxCrashes   \* bound on the number of process crashes

ASSUME None \notin Descs /\ MaxCrashes \in Nat /\ RegionIds \subseteq 1..MaxU

VARIABLES
    regions,   \* StoreRegionMeta::regions_
    durable,   \* meta column family: the record under GenKey(id), decoded
    pc,        \* step of each thread's current call
    arg,       \* the call's argument: region id and descriptor
    up,        \* the process is running and has recovered its directory
    crashes

vars == <<regions, durable, pc, arg, up, crashes>>

Steps == {"idle", "addInsert", "addPut", "delDelete"}

TypeOK ==
    /\ regions \in [RegionIds -> Descs \cup {None}]
    /\ durable \in [RegionIds -> Descs \cup {None}]
    /\ pc \in [Threads -> Steps]
    /\ arg \in [Threads -> [id : RegionIds, desc : Descs \cup {None}]]
    /\ up \in BOOLEAN
    /\ crashes \in 0..MaxCrashes

NoRegion == [id \in RegionIds |-> None]

Init ==
    /\ regions = NoRegion
    /\ durable = NoRegion
    /\ pc = [t \in Threads |-> "idle"]
    /\ arg = [t \in Threads |-> [id |-> CHOOSE id \in RegionIds : TRUE, desc |-> None]]
    /\ up = TRUE
    /\ crashes = 0

-----------------------------------------------------------------------------
(* StoreRegionMeta::IsExist, under the shared lock.                        *)
IsExist(id) == regions[id] # None

(* StoreMetaManager::AddRegion enters StoreRegionMeta::AddRegion, which    *)
(* checks IsExist and, for a known id, logs and returns; the manager then  *)
(* goes on to persist the region it was given either way.                  *)
AddRegion(t, id, d) ==
    /\ up /\ pc[t] = "idle"
    /\ arg' = [arg EXCEPT ![t] = [id |-> id, desc |-> d]]
    /\ pc' = [pc EXCEPT ![t] = IF IsExist(id) THEN "addPut" ELSE "addInsert"]
    /\ UNCHANGED <<regions, durable, up, crashes>>

(* Second half of StoreRegionMeta::AddRegion: under the unique lock,       *)
(* regions_.insert, which leaves an entry another thread inserted since    *)
(* the IsExist check as it is.                                             *)
AddInsert(t) ==
    /\ up /\ pc[t] = "addInsert"
    /\ LET id == arg[t].id IN
         regions' = IF regions[id] = None
                      THEN [regions EXCEPT ![id] = arg[t].desc] ELSE regions
    /\ pc' = [pc EXCEPT ![t] = "addPut"]
    /\ UNCHANGED <<durable, arg, up, crashes>>

(* meta_writer_->Put(TransformToKv(region)): the record under              *)
(* GenKey(region->id()) becomes the serialized argument.                   *)
AddPut(t) ==
    /\ up /\ pc[t] = "addPut"
    /\ durable' = [durable EXCEPT ![arg[t].id] = arg[t].desc]
    /\ pc' = [pc EXCEPT ![t] = "idle"]
    /\ UNCHANGED <<regions, arg, up, crashes>>

(* StoreMetaManager::DeleteRegion: StoreRegionMeta::DeleteRegion erases    *)
(* the entry under the unique lock.                                        *)
DeleteRegion(t, id) ==
    /\ up /\ pc[t] = "idle"
    /\ arg' = [arg EXCEPT ![t] = [id |-> id, desc |-> None]]
    /\ regions' = [regions EXCEPT ![id] = None]
    /\ pc' = [pc EXCEPT ![t] = "delDelete"]
    /\ UNCHANGED <<durable, up, crashes>>

(* meta_writer_->Delete(GenKey(region_id)).                                *)
DeleteDurable(t) ==
    /\ up /\ pc[t] = "delDelete"
    /\ durable' = [durable EXCEPT ![arg[t].id] = None]
    /\ pc' = [pc EXCEPT ![t] = "idle"]
    /\ UNCHANGED <<regions, arg, up, crashes>>

(* The process dies: the map and every call in progress are gone.          *)
Crash ==
    /\ up /\ crashes < MaxCrashes
    /\ up' = FALSE
    /\ regions' = NoRegion
    /\ pc' = [t \in Threads |-> "idle"]
    /\ crashes' = crashes + 1
    /\ UNCHANGED <<durable, arg>>

(* MetaReader::Scan(prefix_): a reader of the meta column family returns   *)
(* the records with keys in [prefix_, Increment(prefix_)), that is every   *)
(* record whose key starts with the prefix, as key and value.              *)
MetaScan ==
    {[key |-> GenKey(i), value |-> durable[i]] :
        i \in {j \in RegionIds : durable[j] # None /\ IsPrefix(Prefix, GenKey(j))}}

(* StoreRegionMeta::TransformFromKv, called by StoreRegionMeta::Recover:   *)
(* under the unique lock, each record's descriptor is insert_or_assigned  *)
(* under ParseRegionId of its key.  (Two keys parsing to one id would be   *)
(* resolved by scan order; distinct well-formed keys never do.)            *)
TransformFromKv(recs) ==
    LET idOf(r) == ParseRegionId(r.key)
    IN  [id \in {idOf(r) : r \in recs} |-> (CHOOSE r \in recs : idOf(r) = id).value]

(* StoreMetaManager::Recover at start-up.  If MetaReader::Scan fails it   *)
(* returns false and the process does not come up; it is started again.   *)
(* Otherwise the directory is rebuilt from the records; an out_of_range    *)
(* escaping ParseRegionId ends the process, which then never comes up.     *)
Recover ==
    /\ ~up
    /\ \/ /\ \A r \in MetaScan : ParseRegionId(r.key) # Abort
          /\ regions' = TransformFromKv(MetaScan) @@ NoRegion
          /\ up' = TRUE
          /\ UNCHANGED crashes
       \/ /\ crashes < MaxCrashes
          /\ crashes' = crashes + 1
          /\ UNCHANGED <<regions, up>>
    /\ UNCHANGED <<durable, pc, arg>>

Next ==
    \/ \E t \in Threads, id \in RegionIds, d \in Descs : AddRegion(t, id, d)
    \/ \E t \in Threads : AddInsert(t) \/ AddPut(t) \/ DeleteDurable(t)
    \/ \E t \in Threads, id \in RegionIds : DeleteRegion(t, id)
    \/ Crash
    \/ Recover

Spec == Init /\ [][Next]_vars

-----------------------------------------------------------------------------
(* No call is in progress and the directory has been recovered.            *)
Quiescent == up /\ \A t \in Threads : pc[t] = "idle"

(* Between calls, the meta column family mirrors the directory 1:1 (spec *)
(* §3: "durably mirrored 1:1 as a Metadata Store record"): a region is in  *)
(* the map exactly when it has a record, and with the descriptor the map   *)
(* serves, so that a restart hosts the same regions, configured the same.  *)
(* AddRegion and DeleteRegion update the map and then write the record.   *)
DirectoryMirrored == Quiescent => regions = durable

(* A successful start-up rebuilds exactly the directory the meta column   *)
(* family records: every record's key, GenKey of its id, is scanned and   *)
(* parses back to that id, and nothing else is loaded (spec: the round    *)
(* trip Region -> durable record -> Region keeps the id).                 *)
RecoverRestoresDirectory == [][~up /\ up' => regions' = durable]_vars
=============================================================================
