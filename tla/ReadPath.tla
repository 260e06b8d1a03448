------------------------------ MODULE ReadPath ------------------------------
(***************************************************************************)
(* Batch writes and reads of one region.  The four write handlers of       *)
(* StoreServiceImpl (KvPut, KvBatchPut, KvPutIfAbsent, KvBatchPutIfAbsent) *)
(* validate the keys and propose the whole batch as one log entry, which   *)
(* on_apply applies to the data column family as one unit.  The read       *)
(* handlers (KvGet, KvBatchGet) go through Storage::KvGet, which bypasses  *)
(* consensus and reads the keys one after the other through a fresh        *)
(* Reader, with no snapshot (Storage::GetSnapshot returns nullptr): the    *)
(* apply thread may apply entries between two of those reads.  braft is    *)
(* reduced to a leader that appends and applies in log order; step-down,   *)
(* failures and crashes are WritePath's subject.                           *)
(***************************************************************************)
EXTENDS Naturals, Sequences, SequencesExt

CONSTANTS
    Writers,   \* RPC threads issuing one write request each
    Readers,   \* RPC threads issuing one read request each
    Keys,
    EmptyKey,  \* the empty string, rejected by validation
    Vals,
    NoVal      \* the key is absent

ASSUME EmptyKey \notin Keys /\ NoVal \notin Vals

VARIABLES
    log,       \* the braft log: [op, kvs, w]
    applied,   \* index of the last entry on_apply has applied
    data,      \* the data column family
    wpc,       \* step of each writer's handler
    wresp,     \* the writer's RPC answer
    widx,      \* log index of the writer's entry
    rpc,       \* step of each reader's handler
    rkeys,     \* the keys the reader asked for, in request order
    rres,      \* the values Storage::KvGet has collected so far
    rresp      \* the reader's RPC answer

vars == <<log, applied, data, wpc, wresp, widx, rpc, rkeys, rres, rresp>>

AnyKey == Keys \cup {EmptyKey}
(* A request's key-value list, as a function of its keys.                  *)
KVs(ks) == [ks -> Vals]
Batch == UNION {KVs(ks) : ks \in SUBSET AnyKey \ {{}}}
ReadKeys == {<<a, b>> : a, b \in AnyKey}
Entry == [op : {"put", "putIfAbsent"}, kvs : UNION {KVs(ks) : ks \in SUBSET Keys}, w : Writers]
EmptyData == [k \in Keys |-> NoVal]

TypeOK ==
    /\ log \in Seq(Entry) /\ Len(log) <= Cardinality(Writers)
    /\ applied \in 0..Len(log)
    /\ data \in [Keys -> Vals \cup {NoVal}]
    /\ wpc \in [Writers -> {"idle", "inflight", "done"}]
    /\ wresp \in [Writers -> {"none", "ok", "err"}]
    /\ widx \in [Writers -> 0..Cardinality(Writers)]
    /\ rpc \in [Readers -> {"idle", "reading", "done"}]
    /\ rkeys \in [Readers -> Seq(AnyKey)]
    /\ rres \in [Readers -> Seq(Vals \cup {NoVal})]
    /\ rresp \in [Readers -> {"none", "ok", "err"}]

Init ==
    /\ log = <<>> /\ applied = 0 /\ data = EmptyData
    /\ wpc = [w \in Writers |-> "idle"]
    /\ wresp = [w \in Writers |-> "none"]
    /\ widx = [w \in Writers |-> 0]
    /\ rpc = [r \in Readers |-> "idle"]
    /\ rkeys = [r \in Readers |-> <<>>]
    /\ rres = [r \in Readers |-> <<>>]
    /\ rresp = [r \in Readers |-> "none"]

-----------------------------------------------------------------------------
(* on_apply of one entry (PutDatum / PutIfAbsentDatum): every pair of the *)
(* batch at once; put-if-absent skips a key that holds a value.            *)
ApplyBatch(s, e) ==
    [k \in Keys |-> IF k \in DOMAIN e.kvs /\ (e.op = "put" \/ s[k] = NoVal)
                      THEN e.kvs[k] ELSE s[k]]

(* ValidateKv*PutRequest: a request with an empty key is rejected before   *)
(* it reaches consensus.  (The region-exists check passes: the region is   *)
(* hosted throughout.)                                                     *)
ValidKVs(kvs) == EmptyKey \notin DOMAIN kvs

(* Mutant: a write handler that skips key validation.                      *)
HandleNoValidate(w, op, kvs) ==
    /\ wpc[w] = "idle"
    /\ log' = Append(log, [op |-> op, kvs |-> kvs, w |-> w])
    /\ widx' = [widx EXCEPT ![w] = Len(log) + 1]
    /\ wpc' = [wpc EXCEPT ![w] = "inflight"]
    /\ UNCHANGED <<applied, data, wresp, rpc, rkeys, rres, rresp>>

(* A write handler after validation: Storage::KvPut or KvPutIfAbsent      *)
(* wraps the whole key-value list in one datum, AsyncWrite proposes it as  *)
(* one entry.  An invalid request is answered with EKEY_EMPTY at once.     *)
Handle(w, op, kvs) ==
    /\ wpc[w] = "idle"
    /\ IF ValidKVs(kvs)
         THEN /\ log' = Append(log, [op |-> op, kvs |-> kvs, w |-> w])
              /\ widx' = [widx EXCEPT ![w] = Len(log) + 1]
              /\ wpc' = [wpc EXCEPT ![w] = "inflight"]
              /\ UNCHANGED wresp
         ELSE /\ wpc' = [wpc EXCEPT ![w] = "done"]
              /\ wresp' = [wresp EXCEPT ![w] = "err"]
              /\ UNCHANGED <<log, widx>>
    /\ UNCHANGED <<applied, data, rpc, rkeys, rres, rresp>>

(* StoreServiceImpl::KvPut and KvPutIfAbsent carry one pair,              *)
(* KvBatchPut and KvBatchPutIfAbsent a list of pairs.                      *)
KvPut(w, k, v) == Handle(w, "put", [x \in {k} |-> v])
KvBatchPut(w, kvs) == Handle(w, "put", kvs)
KvPutIfAbsent(w, k, v) == Handle(w, "putIfAbsent", [x \in {k} |-> v])
KvBatchPutIfAbsent(w, kvs) == Handle(w, "putIfAbsent", kvs)

(* on_apply of the next entry, then its StoreClosure: the writer is        *)
(* answered with success.                                                  *)
Apply ==
    /\ applied < Len(log)
    /\ LET e == log[applied + 1] IN
         /\ data' = ApplyBatch(data, e)
         /\ wresp' = [wresp EXCEPT ![e.w] = "ok"]
         /\ wpc' = [wpc EXCEPT ![e.w] = "done"]
    /\ applied' = applied + 1
    /\ UNCHANGED <<log, widx, rpc, rkeys, rres, rresp>>

-----------------------------------------------------------------------------
(* KvGet / KvBatchGet up to Storage::KvGet: ValidateKvGetRequest or        *)
(* ValidateKvBatchGetRequest rejects an empty key; otherwise the handler   *)
(* builds the key list and Storage::KvGet opens a Reader on the data       *)
(* column family.                                                          *)
StartRead(r, ks) ==
    /\ rpc[r] = "idle"
    /\ IF EmptyKey \in Range(ks)
         THEN /\ rpc' = [rpc EXCEPT ![r] = "done"]
              /\ rresp' = [rresp EXCEPT ![r] = "err"]
              /\ UNCHANGED rkeys
         ELSE /\ rpc' = [rpc EXCEPT ![r] = "reading"]
              /\ rkeys' = [rkeys EXCEPT ![r] = ks]
              /\ UNCHANGED rresp
    /\ UNCHANGED <<log, applied, data, wpc, wresp, widx, rres>>

KvGet(r, k) == StartRead(r, <<k>>)
KvBatchGet(r, ks) == StartRead(r, ks)

(* RaftKvEngine::NewReader wraps the raw engine's reader of the column     *)
(* family, and RaftKvEngine::Reader::KvGet forwards to it: the value the    *)
(* applied entries left in the data column family, read now.               *)
ReaderKvGet(k) == data[k]

(* Mutant: the read loop fetches the first key on every iteration.         *)
StorageKvGetFirstKey(r) ==
    /\ rpc[r] = "reading"
    /\ LET i == Len(rres[r]) + 1 IN
         /\ rres' = [rres EXCEPT ![r] = Append(@, ReaderKvGet(rkeys[r][1]))]
         /\ IF i = Len(rkeys[r])
              THEN /\ rpc' = [rpc EXCEPT ![r] = "done"]
                   /\ rresp' = [rresp EXCEPT ![r] = "ok"]
              ELSE UNCHANGED <<rpc, rresp>>
    /\ UNCHANGED <<log, applied, data, wpc, wresp, widx, rkeys>>

(* One iteration of Storage::KvGet's loop: reader->KvGet of the next key   *)
(* reads the column family as it is now; after the last key the handler    *)
(* answers with the collected pairs.                                       *)
StorageKvGet(r) ==
    /\ rpc[r] = "reading"
    /\ LET i == Len(rres[r]) + 1 IN
         /\ rres' = [rres EXCEPT ![r] = Append(@, ReaderKvGet(rkeys[r][i]))]
         /\ IF i = Len(rkeys[r])
              THEN /\ rpc' = [rpc EXCEPT ![r] = "done"]
                   /\ rresp' = [rresp EXCEPT ![r] = "ok"]
              ELSE UNCHANGED <<rpc, rresp>>
    /\ UNCHANGED <<log, applied, data, wpc, wresp, widx, rkeys>>

Next ==
    \/ \E w \in Writers, k \in AnyKey, v \in Vals : KvPut(w, k, v) \/ KvPutIfAbsent(w, k, v)
    \/ \E w \in Writers, kvs \in Batch : KvBatchPut(w, kvs) \/ KvBatchPutIfAbsent(w, kvs)
    \/ Apply
    \/ \E r \in Readers, k \in AnyKey : KvGet(r, k)
    \/ \E r \in Readers, ks \in ReadKeys : KvBatchGet(r, ks)
    \/ \E r \in Readers : StorageKvGet(r)

Spec == Init /\ [][Next]_vars

-----------------------------------------------------------------------------
(* The region as its clients see it (KVAbstract): the store is the data   *)
(* column family, a write is pending from its handler to its answer, and   *)
(* a read's keys, values and answer are the handler's.                     *)
KV == INSTANCE KVAbstract WITH
        kv <- data,
        wst <- [w \in Writers |-> IF wpc[w] = "inflight" THEN "pending" ELSE wpc[w]],
        wreq <- [w \in Writers |-> IF widx[w] = 0 THEN [op |-> "put", kvs |-> <<>>]
                                   ELSE [op |-> log[widx[w]].op, kvs |-> log[widx[w]].kvs]],
        wres <- wresp,
        rst <- rpc, rks <- rkeys, rvals <- rres, rans <- rresp,
        MaxReadLen <- 2

(* The read and write handlers implement the abstract store: every write  *)
(* takes effect as one unit between its call and its answer, a rejected    *)
(* request has no effect, and every key read returns the key's current     *)
(* value.                                                                  *)
KVSpec == KV!ASpec
====
