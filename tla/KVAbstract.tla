------------------------------ MODULE KVAbstract ------------------------------
(***************************************************************************)
(* What a region promises its clients (spec sections 4.1, 4.5, 7, 8): a    *)
(* key-value store in which a write request (a list of pairs, put or       *)
(* put-if-absent) either is rejected at once without effect or takes      *)
(* effect as one unit at a single instant between its call and its         *)
(* success answer, and in which every single-key read returns the key's    *)
(* value at the instant of that read.  A multi-key read is a sequence of   *)
(* single-key reads.                                                       *)
(***************************************************************************)
EXTENDS Naturals, Sequences, SequencesExt

CONSTANTS Writers, Readers, Keys, EmptyKey, Vals, NoVal,
          MaxReadLen   \* bound on the number of keys of one read request

VARIABLES
    kv,       \* the store
    wst,      \* each write request: idle, pending, done
    wreq,     \* the request a writer called with: [op, kvs]
    wres,     \* the write's answer
    rst,      \* each read request: idle, reading, done
    rks,      \* the keys a reader asked for
    rvals,    \* the values returned so far
    rans      \* the read's answer

avars == <<kv, wst, wreq, wres, rst, rks, rvals, rans>>

AllKeys == Keys \cup {EmptyKey}
NoReq == [op |-> "put", kvs |-> <<>>]

AInit ==
    /\ kv = [k \in Keys |-> NoVal]
    /\ wst = [w \in Writers |-> "idle"]
    /\ wreq = [w \in Writers |-> NoReq]
    /\ wres = [w \in Writers |-> "none"]
    /\ rst = [r \in Readers |-> "idle"]
    /\ rks = [r \in Readers |-> <<>>]
    /\ rvals = [r \in Readers |-> <<>>]
    /\ rans = [r \in Readers |-> "none"]

(* A write called with an empty key is answered with an error at once and *)
(* has no effect; any other write becomes pending.                         *)
WriteCall(w, op, kvs) ==
    /\ wst[w] = "idle"
    /\ IF EmptyKey \in DOMAIN kvs
         THEN /\ wst' = [wst EXCEPT ![w] = "done"]
              /\ wres' = [wres EXCEPT ![w] = "err"]
              /\ UNCHANGED wreq
         ELSE /\ wst' = [wst EXCEPT ![w] = "pending"]
              /\ wreq' = [wreq EXCEPT ![w] = [op |-> op, kvs |-> kvs]]
              /\ UNCHANGED wres
    /\ UNCHANGED <<kv, rst, rks, rvals, rans>>

(* A pending write takes effect, all its pairs at once (put-if-absent      *)
(* leaves a present key alone), and is answered with success.              *)
WriteEffect(w) ==
    /\ wst[w] = "pending"
    /\ LET q == wreq[w] IN
         kv' = [k \in Keys |-> IF k \in DOMAIN q.kvs /\ (q.op = "put" \/ kv[k] = NoVal)
                                 THEN q.kvs[k] ELSE kv[k]]
    /\ wst' = [wst EXCEPT ![w] = "done"]
    /\ wres' = [wres EXCEPT ![w] = "ok"]
    /\ UNCHANGED <<wreq, rst, rks, rvals, rans>>

(* A read called with an empty key is answered with an error at once.      *)
ReadCall(r, ks) ==
    /\ rst[r] = "idle"
    /\ IF EmptyKey \in Range(ks)
         THEN /\ rst' = [rst EXCEPT ![r] = "done"]
              /\ rans' = [rans EXCEPT ![r] = "err"]
              /\ UNCHANGED rks
         ELSE /\ rst' = [rst EXCEPT ![r] = "reading"]
              /\ rks' = [rks EXCEPT ![r] = ks]
              /\ UNCHANGED rans
    /\ UNCHANGED <<kv, wst, wreq, wres, rvals>>

(* The next key of a read returns its value now; after the last key the   *)
(* read is answered.                                                       *)
ReadKey(r) ==
    /\ rst[r] = "reading"
    /\ LET i == Len(rvals[r]) + 1 IN
         /\ rvals' = [rvals EXCEPT ![r] = Append(@, kv[rks[r][i]])]
         /\ IF i = Len(rks[r])
              THEN /\ rst' = [rst EXCEPT ![r] = "done"]
                   /\ rans' = [rans EXCEPT ![r] = "ok"]
              ELSE UNCHANGED <<rst, rans>>
    /\ UNCHANGED <<kv, wst, wreq, wres, rks>>

ANext ==
    \/ \E w \in Writers, op \in {"put", "putIfAbsent"}, ks \in SUBSET AllKeys \ {{}} :
         \E kvs \in [ks -> Vals] : WriteCall(w, op, kvs)
    \/ \E w \in Writers : WriteEffect(w)
    \/ \E r \in Readers, ks \in BoundedSeq(AllKeys, MaxReadLen) : ReadCall(r, ks)
    \/ \E r \in Readers : ReadKey(r)

ASpec == AInit /\ [][ANext]_avars
================================================================================
