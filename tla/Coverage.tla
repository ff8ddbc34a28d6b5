------------------------------ MODULE Coverage ------------------------------
(***************************************************************************)
(* The coverage tables of go-fuzz (go-fuzz/cover.go, compare_amd64.s).     *)
(*                                                                         *)
(* A testee run fills a table of CoverSize one-byte hit counters.  The     *)
(* corpus is summarised by one table of QUANTIZED counters, and every      *)
(* question the fuzzer asks of an input ("is it new?", "is the minimized   *)
(* form still as good?") is one of the operators below.  They are pure:    *)
(* the modules that keep tables as state (Hub) take them from here.        *)
(***************************************************************************)
EXTENDS Integers, FiniteSets

CONSTANTS
  Lane,           \* bytes compared by one vector instruction: 16 SSE2, 32 AVX2
  Blocks,         \* iterations of the vector loop
  CoverCounters   \* the -covercounters flag

ASSUME CoverageAssumption ==
  /\ Lane \in Nat \ {0}
  /\ Blocks \in Nat \ {0}
  /\ CoverCounters \in BOOLEAN

CoverSize == Lane * Blocks    \* 64 << 10 in the code, a multiple of both lanes
Slot      == 0 .. CoverSize - 1
Byte      == 0 .. 255
Table     == [Slot -> Byte]
ZeroTable == [i \in Slot |-> 0]

-----------------------------------------------------------------------------
(* Quantization.  With counters off, any hit saturates the slot.           *)

Level == IF CoverCounters THEN (0 .. 5) \cup {8, 16, 32, 64, 255} ELSE {0, 255}

\* Faulty variant: rounds down to a level.
roundDownCover(x) ==
  CHOOSE l \in Level : l <= x /\ \A k \in Level : k <= x => k <= l

roundUpCover(x) ==
  IF ~CoverCounters /\ x > 0 THEN 255
  ELSE IF x <= 5 THEN x
  ELSE IF x <= 8 THEN 8
  ELSE IF x <= 16 THEN 16
  ELSE IF x <= 32 THEN 32
  ELSE IF x <= 64 THEN 64
  ELSE 255

-----------------------------------------------------------------------------
(* The portable comparison, and the vectorised one that replaces it on     *)
(* amd64: bytes are shifted by -128 modulo 2^8 so that the signed compare  *)
(* PCMPGTB orders them as unsigned; the loop advances Lane bytes a time.   *)

compareCoverDump(base, cur) == \E i \in Slot : cur[i] > base[i]

\* Faulty variant: no shift before the signed comparison.
Unbiased(b) == b

Biased(b) == (b - 128) % 256                        \* PSUBB
Signed(b) == IF b >= 128 THEN b - 256 ELSE b        \* how PCMPGTB reads a byte

compareCoverBody(base, cur) ==
  \E block \in 0 .. Blocks - 1 : \E lane \in 0 .. Lane - 1 :
     LET i == block * Lane + lane
     IN  Signed(Biased(cur[i])) > Signed(Biased(base[i]))

compareCover(base, cur) == compareCoverBody(base, cur)

-----------------------------------------------------------------------------
(* Folding a run into a table, and the tests minimization uses.            *)

\* Faulty variant: raw counters go into the table.
updateRaw(base, cur) ==
  [i \in Slot |-> IF base[i] < cur[i] THEN cur[i] ELSE base[i]]

updateMaxCover(base, cur) ==
  [i \in Slot |-> IF base[i] < roundUpCover(cur[i])
                  THEN roundUpCover(cur[i]) ELSE base[i]]

\* The number updateMaxCover returns: slots covered after the update.
updateMaxCoverCount(base, cur) ==
  Cardinality({i \in Slot : base[i] # 0 \/ roundUpCover(cur[i]) > 0})

findNewCover(base, cover) ==
  [i \in Slot |-> IF cover[i] > base[i] THEN cover[i] ELSE 0]

findNewCoverNotEmpty(base, cover) == \E i \in Slot : cover[i] > base[i]

\* Faulty variant: the comparison is the wrong way round.
betterCover(base, cover) == \E i \in Slot : cover[i] > base[i]

worseCover(base, cover) == \E i \in Slot : cover[i] < base[i]
=============================================================================
