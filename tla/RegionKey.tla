------------------------------ MODULE RegionKey ------------------------------
(***************************************************************************)
(* The key under which StoreRegionMeta persists a region in the meta       *)
(* column family, and its parsing back at start-up: GenKey formats         *)
(* "<prefix>_<id>" with %lu, ParseRegionId skips prefix_.size() + 1        *)
(* characters and hands the rest to std::stoull.  A key is a sequence of   *)
(* one-character strings.  Region ids are unsigned integers of Width bits  *)
(* (64 in the code); keeping the width lets TLC reach the out_of_range     *)
(* case of stoull with short keys.                                         *)
(***************************************************************************)
EXTENDS Integers, Sequences, SequencesExt

CONSTANTS
    Prefix,   \* prefix_ of StoreRegionMeta, a non-empty sequence of characters
    Width     \* bit width of uint64_t / unsigned long long

ASSUME Prefix \in Seq(STRING) /\ Prefix # <<>> /\ Width \in Nat \ {0}

MaxU == 2^Width - 1

Digit == <<"0", "1", "2", "3", "4", "5", "6", "7", "8", "9">>
DigitVal(c) == CHOOSE n \in 0..9 : Digit[n + 1] = c
IsDigit(c) == c \in Range(Digit)

(* The process terminates: an exception nobody catches (no uint64 value). *)
Abort == -1

(* butil::StringPrintf("%lu", n): decimal digits, no leading zeros.        *)
RECURSIVE Decimal(_)
Decimal(n) ==
    IF n < 10 THEN <<Digit[n + 1]>>
              ELSE Decimal(n \div 10) \o <<Digit[(n % 10) + 1]>>

(* Mutant: "%s%lu", the separator forgotten.                              *)
GenKeyNoSeparator(id) == Prefix \o Decimal(id)

(* StoreRegionMeta::GenKey: StringPrintf("%s_%lu", prefix_, region_id).    *)
GenKey(id) == Prefix \o <<"_">> \o Decimal(id)

(* std::stoull(s, nullptr, 10), that is strtoull: leading white space is   *)
(* skipped, one '+' or '-' is accepted, then the longest run of digits is  *)
(* read.  No digit: invalid_argument.  A magnitude above ULLONG_MAX:       *)
(* out_of_range.  A '-' negates modulo 2^Width.                            *)
Stoull(s) ==
    LET i0   == SelectInSeq(s, LAMBDA c : c # " ")
        t    == IF i0 = 0 THEN <<>> ELSE SubSeq(s, i0, Len(s))
        neg  == t # <<>> /\ Head(t) = "-"
        u    == IF t # <<>> /\ Head(t) \in {"+", "-"} THEN Tail(t) ELSE t
        stop == SelectInSeq(u, LAMBDA c : ~IsDigit(c))
        ds   == IF stop = 0 THEN u ELSE SubSeq(u, 1, stop - 1)
        mag  == FoldLeft(LAMBDA a, c : 10 * a + DigitVal(c), 0, ds)
    IN  CASE ds = <<>>  -> [ex |-> "invalid_argument"]
          [] mag > MaxU -> [ex |-> "out_of_range"]
          [] OTHER      -> [ex |-> "none",
                            val |-> IF neg THEN (MaxU + 1 - mag) % (MaxU + 1) ELSE mag]

(* Mutant: skips prefix_.size() characters, so stoull sees "_<id>".       *)
ParseRegionIdSkipsPrefix(str) ==
    IF Len(str) <= Len(Prefix) THEN 0
    ELSE LET r == Stoull(SubSeq(str, Len(Prefix) + 1, Len(str))) IN
         CASE r.ex = "none"             -> r.val
           [] r.ex = "invalid_argument" -> 0
           [] OTHER                     -> Abort

(* StoreRegionMeta::ParseRegionId: 0 for a key no longer than the prefix   *)
(* and for invalid_argument, which is caught; out_of_range is not caught.  *)
ParseRegionId(str) ==
    IF Len(str) <= Len(Prefix) THEN 0
    ELSE LET r == Stoull(SubSeq(str, Len(Prefix) + 2, Len(str))) IN
         CASE r.ex = "none"             -> r.val
           [] r.ex = "invalid_argument" -> 0
           [] OTHER                     -> Abort
=============================================================================
