--------------------------- MODULE Coverage_proofs ---------------------------
(***************************************************************************)
(* What the coverage functions promise, for every table size, lane width   *)
(* and setting of -covercounters.                                          *)
(***************************************************************************)
EXTENDS Coverage, TLAPS

\* Quantization is a closure on bytes: it lands in Level, never lowers a
\* counter, repeating it changes nothing, and zero stays zero (roundUpCover).
LEMMA RoundUpClosure ==
  \A x \in Byte : /\ roundUpCover(x) \in Level
                  /\ roundUpCover(x) \in Byte
                  /\ x \in Int /\ roundUpCover(x) \in Int
                  /\ roundUpCover(x) >= x
                  /\ roundUpCover(roundUpCover(x)) = roundUpCover(x)
                  /\ x > 0 <=> roundUpCover(x) > 0
  BY CoverageAssumption DEF CoverageAssumption, roundUpCover, Level, Byte

\* Quantization respects the order of the counters.
LEMMA RoundUpMonotone ==
  \A x, y \in Byte : x <= y => roundUpCover(x) <= roundUpCover(y)
  BY CoverageAssumption DEF CoverageAssumption, roundUpCover, Byte

\* A quantized level is a byte that quantization leaves alone.
LEMMA LevelFixed ==
  ASSUME NEW v \in Level
  PROVE  v \in Byte /\ roundUpCover(v) = v
  BY CoverageAssumption DEF CoverageAssumption, roundUpCover, Level, Byte

\* Comparing a raw counter with a level is comparing its quantized value.
LEMMA RawVersusLevel ==
  ASSUME NEW v \in Level, NEW c \in Byte
  PROVE  c > v <=> roundUpCover(c) > v
  <1>1. v \in Byte /\ roundUpCover(v) = v
    BY LevelFixed
  <1>2. c <= v => roundUpCover(c) <= v
    BY <1>1, RoundUpMonotone
  <1>3. roundUpCover(c) \in Byte /\ roundUpCover(c) >= c
    BY RoundUpClosure
  <1> QED  BY <1>1, <1>2, <1>3 DEF Byte

\* PSUBB of 128 followed by a signed compare orders bytes as unsigned.
LEMMA SignedOrdersBytes ==
  ASSUME NEW a \in Byte, NEW b \in Byte
  PROVE  Signed(Biased(a)) > Signed(Biased(b)) <=> a > b
  <1>1. Biased(a) = IF a >= 128 THEN a - 128 ELSE a + 128
    BY DEF Biased, Byte
  <1>2. Biased(b) = IF b >= 128 THEN b - 128 ELSE b + 128
    BY DEF Biased, Byte
  <1> QED  BY <1>1, <1>2 DEF Signed, Byte

\* The blocks of the vector loop visit exactly the slots of the table.
LEMMA BlocksCoverSlots ==
  /\ \A block \in 0 .. Blocks - 1, lane \in 0 .. Lane - 1 :
        block * Lane + lane \in Slot
  /\ \A i \in Slot : \E block \in 0 .. Blocks - 1, lane \in 0 .. Lane - 1 :
        i = block * Lane + lane
  <1>1. ASSUME NEW block \in 0 .. Blocks - 1, NEW lane \in 0 .. Lane - 1
        PROVE  block * Lane + lane \in Slot
    <2>1. Lane \in Nat /\ Blocks \in Nat /\ Lane > 0 /\ Blocks > 0
      BY CoverageAssumption DEF CoverageAssumption
    <2>2. block * Lane \in Nat /\ block * Lane <= (Blocks - 1) * Lane
      BY <2>1
    <2>3. (Blocks - 1) * Lane + Lane = Lane * Blocks
      BY <2>1
    <2> QED  BY <2>1, <2>2, <2>3 DEF Slot, CoverSize
  <1>2. ASSUME NEW i \in Slot
        PROVE  \E block \in 0 .. Blocks - 1, lane \in 0 .. Lane - 1 :
                  i = block * Lane + lane
    <2>1. Lane \in Nat /\ Blocks \in Nat /\ Lane > 0 /\ Blocks > 0
      BY CoverageAssumption DEF CoverageAssumption
    <2>2. i \in Nat /\ i < Lane * Blocks
      BY <2>1 DEF Slot, CoverSize
    <2> DEFINE block == i \div Lane
               lane  == i % Lane
    <2>3. /\ block \in Nat /\ lane \in 0 .. Lane - 1
          /\ i = block * Lane + lane
      BY <2>1, <2>2
    <2> HIDE DEF block, lane
    <2>4. block < Blocks
      <3>1. SUFFICES ASSUME block >= Blocks PROVE FALSE
        BY <2>1, <2>3
      <3>2. block * Lane >= Blocks * Lane
        BY <3>1, <2>1, <2>3
      <3> QED  BY <3>2, <2>1, <2>2, <2>3
    <2>5. block \in 0 .. Blocks - 1
      BY <2>1, <2>3, <2>4
    <2> QED  BY <2>3, <2>5
  <1> QED  BY <1>1, <1>2

-----------------------------------------------------------------------------
\* compare_amd64.s computes compareCoverDump: for any two tables of bytes,
\* whatever the lane width, the vector loop and the byte loop agree.
THEOREM VectorCompare ==
  ASSUME NEW b \in Table, NEW c \in Table
  PROVE  compareCoverBody(b, c) <=> compareCoverDump(b, c)
  <1>1. \A i \in Slot : Signed(Biased(c[i])) > Signed(Biased(b[i])) <=> c[i] > b[i]
    BY SignedOrdersBytes DEF Table
  <1>2. compareCoverBody(b, c)
          <=> \E i \in Slot : Signed(Biased(c[i])) > Signed(Biased(b[i]))
    BY BlocksCoverSlots DEF compareCoverBody
  <1> QED  BY <1>1, <1>2 DEF compareCoverDump

\* Folding a run into a quantized table keeps it quantized, puts it above the
\* old table and the quantized run, and adds nothing else (updateMaxCover).
LEMMA FoldIsJoin ==
  ASSUME NEW b \in [Slot -> Level], NEW c \in Table
  PROVE  /\ updateMaxCover(b, c) \in [Slot -> Level]
         /\ \A i \in Slot :
              /\ updateMaxCover(b, c)[i] >= b[i]
              /\ updateMaxCover(b, c)[i] >= roundUpCover(c[i])
              /\ updateMaxCover(b, c)[i] \in {b[i], roundUpCover(c[i])}
  <1>1. \A i \in Slot : /\ b[i] \in Level /\ b[i] \in Byte
                        /\ roundUpCover(c[i]) \in Level
                        /\ roundUpCover(c[i]) \in Byte
    BY LevelFixed, RoundUpClosure DEF Table
  <1>2. \A i \in Slot : updateMaxCover(b, c)[i]
                          = IF b[i] < roundUpCover(c[i])
                            THEN roundUpCover(c[i]) ELSE b[i]
    BY DEF updateMaxCover
  <1>3. updateMaxCover(b, c) \in [Slot -> Level]
    BY <1>1 DEF updateMaxCover
  <1>4. \A i \in Slot : b[i] \in Int /\ roundUpCover(c[i]) \in Int
    BY <1>1 DEF Byte
  <1> QED  BY <1>2, <1>3, <1>4

\* A run is new against a quantized table exactly when folding it changes the
\* table: what hub.updateMaxCover and the newInputC case rely on.
THEOREM NoveltyIsGrowth ==
  ASSUME NEW b \in [Slot -> Level], NEW c \in Table
  PROVE  compareCover(b, c) <=> updateMaxCover(b, c) # b
  <1>1. b \in Table
    BY LevelFixed DEF Table
  <1>2. compareCover(b, c) <=> \E i \in Slot : c[i] > b[i]
    BY <1>1, VectorCompare DEF compareCover, compareCoverDump
  <1>3. \A i \in Slot : c[i] > b[i] <=> roundUpCover(c[i]) > b[i]
    BY RawVersusLevel DEF Table
  <1>4. \A i \in Slot : b[i] \in Int /\ roundUpCover(c[i]) \in Int
    BY <1>1, RoundUpClosure DEF Table
  <1>5. \A i \in Slot : roundUpCover(c[i]) > b[i] <=> updateMaxCover(b, c)[i] # b[i]
    BY <1>4 DEF updateMaxCover
  <1>6. updateMaxCover(b, c) # b <=> \E i \in Slot : updateMaxCover(b, c)[i] # b[i]
    BY FoldIsJoin
  <1> QED  BY <1>2, <1>3, <1>5, <1>6

\* A candidate that minimization accepts (worker.go triageInput: it is not
\* worse than the new part of the cover) is itself new against that table.
THEOREM MinimizedNovelty ==
  ASSUME NEW b \in [Slot -> Level], NEW c \in Table, NEW cand \in Table,
         findNewCoverNotEmpty(b, c), ~worseCover(findNewCover(b, c), cand)
  PROVE  compareCover(b, cand)
  <1>1. b \in Table
    BY LevelFixed DEF Table
  <1>2. PICK i \in Slot : c[i] > b[i]
    BY DEF findNewCoverNotEmpty
  <1>3. /\ findNewCover(b, c)[i] = c[i]
        /\ ~(cand[i] < findNewCover(b, c)[i])
    BY <1>2 DEF findNewCover, worseCover
  <1>4. b[i] \in Int /\ c[i] \in Int /\ cand[i] \in Int
    BY <1>1 DEF Table, Byte
  <1>5. cand[i] > b[i]
    BY <1>2, <1>3, <1>4
  <1> QED  BY <1>1, <1>5, VectorCompare DEF compareCover, compareCoverDump
=============================================================================
