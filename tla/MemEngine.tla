------------------------------ MODULE MemEngine ------------------------------
(***************************************************************************)
(* MemEngine, the in-memory raw engine: a std::map<string, string> under a *)
(* std::shared_mutex.  KvGet finds the key under the shared lock and       *)
(* returns a Slice pointing into the map's value string; the lock is gone  *)
(* when the caller reads the Slice.  KvPut assigns a new value under the   *)
(* unique lock, which releases or rewrites the buffer an earlier Slice     *)
(* points to.  Reading through such a Slice is undefined behaviour; the    *)
(* model lets it produce any outcome the build can give: the old bytes     *)
(* still in place, the new value, bytes no put ever wrote, or a crash.     *)
(* Each call to KvGet/KvPut under its lock is one step: the lock makes it  *)
(* atomic with respect to the other.                                       *)
(***************************************************************************)
EXTENDS Naturals

CONSTANTS
    Readers,   \* threads calling KvGet
    Keys,
    Vals,      \* values KvPut may write
    NoVal,     \* no entry: KvGet returns Slice(), the empty slice
    Torn,      \* bytes read through a dangling Slice that no put wrote
    MaxPuts    \* bound on the number of KvPut calls

ASSUME {NoVal, Torn} \cap Vals = {} /\ NoVal # Torn /\ MaxPuts \in Nat

VARIABLES
    store,     \* MemEngine::store_
    buf,       \* per key, the buffer its value lives in (a new one per overwrite)
    puts,      \* KvPut calls so far
    rpc,       \* each reader: idle, holding a Slice, done
    rkey,      \* the key a reader asked for
    slice,     \* the Slice KvGet returned: the buffer and the bytes it held
    seen,      \* values rkey held from the KvGet call until the Slice was read
    rres,      \* the value the caller read through the Slice
    alive      \* the process has not crashed

vars == <<store, buf, puts, rpc, rkey, slice, seen, rres, alive>>

TypeOK ==
    /\ store \in [Keys -> Vals \cup {NoVal}]
    /\ buf \in [Keys -> 0..MaxPuts]
    /\ puts \in 0..MaxPuts
    /\ rpc \in [Readers -> {"idle", "holding", "done"}]
    /\ rkey \in [Readers -> Keys]
    /\ slice \in [Readers -> [buf : 0..MaxPuts, val : Vals \cup {NoVal}]]
    /\ seen \in [Readers -> SUBSET (Vals \cup {NoVal})]
    /\ rres \in [Readers -> Vals \cup {NoVal, Torn}]
    /\ alive \in BOOLEAN

Init ==
    /\ store = [k \in Keys |-> NoVal]
    /\ buf = [k \in Keys |-> 0]
    /\ puts = 0
    /\ rpc = [r \in Readers |-> "idle"]
    /\ rkey = [r \in Readers |-> CHOOSE k \in Keys : TRUE]
    /\ slice = [r \in Readers |-> [buf |-> 0, val |-> NoVal]]
    /\ seen = [r \in Readers |-> {}]
    /\ rres = [r \in Readers |-> NoVal]
    /\ alive = TRUE

-----------------------------------------------------------------------------
(* MemEngine::KvGet: under the shared lock, store_.find; a missing key     *)
(* gives Slice(), which the caller reads as empty at once; a present key   *)
(* gives Slice(it->second), a pointer into the value's buffer.             *)
KvGet(r, k) ==
    /\ alive /\ rpc[r] = "idle"
    /\ rkey' = [rkey EXCEPT ![r] = k]
    /\ seen' = [seen EXCEPT ![r] = {store[k]}]
    /\ IF store[k] = NoVal
         THEN /\ rpc' = [rpc EXCEPT ![r] = "done"]
              /\ rres' = [rres EXCEPT ![r] = NoVal]
              /\ UNCHANGED slice
         ELSE /\ rpc' = [rpc EXCEPT ![r] = "holding"]
              /\ slice' = [slice EXCEPT ![r] = [buf |-> buf[k], val |-> store[k]]]
              /\ UNCHANGED rres
    /\ UNCHANGED <<store, buf, puts, alive>>

(* MemEngine::KvPut: under the unique lock, store_[key] = value.ToString().*)
(* Assigning over an existing entry frees the old heap buffer (or, for a   *)
(* short string, rewrites the inline one): a Slice into it dangles.  A new *)
(* key gets a new map node and moves no other.                             *)
KvPut(k, v) ==
    /\ alive /\ puts < MaxPuts
    /\ store' = [store EXCEPT ![k] = v]
    /\ buf' = IF store[k] = NoVal THEN buf ELSE [buf EXCEPT ![k] = puts + 1]
    /\ puts' = puts + 1
    /\ seen' = [r \in Readers |-> IF rpc[r] = "holding" /\ rkey[r] = k
                                    THEN seen[r] \cup {v} ELSE seen[r]]
    /\ UNCHANGED <<rpc, rkey, slice, rres, alive>>

(* The caller reads the bytes of the Slice.  While the buffer is the one   *)
(* KvGet pointed into, these are the bytes KvGet saw.  Once a KvPut has    *)
(* replaced it, the read is undefined: old bytes, the new value, a mix of  *)
(* the two, or a fault that ends the process.                              *)
ReadSlice(r) ==
    /\ alive /\ rpc[r] = "holding"
    /\ LET k == rkey[r] IN
         IF slice[r].buf = buf[k]
           THEN /\ rres' = [rres EXCEPT ![r] = slice[r].val]
                /\ rpc' = [rpc EXCEPT ![r] = "done"]
                /\ UNCHANGED alive
           ELSE \/ /\ \E x \in {slice[r].val, store[k], Torn} :
                        rres' = [rres EXCEPT ![r] = x]
                   /\ rpc' = [rpc EXCEPT ![r] = "done"]
                   /\ UNCHANGED alive
                \/ /\ alive' = FALSE
                   /\ UNCHANGED <<rres, rpc>>
    /\ UNCHANGED <<store, buf, puts, rkey, slice, seen>>

Next ==
    \/ \E r \in Readers, k \in Keys : KvGet(r, k)
    \/ \E k \in Keys, v \in Vals : KvPut(k, v)
    \/ \E r \in Readers : ReadSlice(r)

Spec == Init /\ [][Next]_vars

-----------------------------------------------------------------------------
(* Reads are linearizable per key (spec, Raw Storage Engine: "concurrent   *)
(* reads and writes on disjoint or overlapping keys must be linearizable   *)
(* per key"), and a read does not end the process: the value a KvGet       *)
(* caller reads is one its key held at some instant between the call and   *)
(* the read.  MemEngine::KvGet returns a Slice that outlives its lock.     *)
KvGetLinearizable ==
    /\ alive
    /\ \A r \in Readers : rpc[r] = "done" => rres[r] \in seen[r]
=============================================================================
