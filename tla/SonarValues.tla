---------------------------- MODULE SonarValues ----------------------------
(***************************************************************************)
(* What the worker makes of the sonar log of one input: it trims the       *)
(* operands of every sample (parseSonarData), evaluates the comparison     *)
(* again, and replaces one operand by relatives of the other wherever the  *)
(* input holds it, unless the site says to skip the sample or the same     *)
(* replacement was tried for an earlier one (processSonarData).  A number  *)
(* is a sequence of bytes, least first; a byte is a digit in base Base.    *)
(* That update makes a site skip a sample is a choice here; module         *)
(* SonarSites has the counters.                                            *)
(*                                                                         *)
(* Not here: the variants in upper and lower case, which are tried only    *)
(* where the input does not hold the operand as it is.                     *)
(***************************************************************************)
EXTENDS Integers, Sequences, FiniteSets
LOCAL INSTANCE SequencesExt

CONSTANTS
  Base,        \* values of a byte, 256
  Wide,        \* bytes of the widest integer, 8
  MaxHint,     \* CoverSize, the length hints are cut to
  HexDigit,    \* the characters of the digits
  HexBase,     \* 16
  Radix,       \* 10
  Separator,   \* what stands between the two sides of a key of checked
  Logs         \* the inputs run, with what was compared

AnyByte == 0 .. Base - 1

\* The bytes parseSonarData trims: an operand may be filled up with them.
Trimmable(b) == b \in {0, Base - 1}

\* What programs compare.  Integers have one width, but for constants, which were
\* converted to int: what one operand has beyond the other is a filling.  Strings
\* are short.
Comparisons ==
  {c \in [raw : Seq(AnyByte) \X Seq(AnyByte), constant : 0 .. 2,
          signed : BOOLEAN, string : BOOLEAN] :
     \A o \in 1 .. 2 :
       IF c.string THEN Len(c.raw[o]) < Base
       ELSE /\ Len(c.raw[o]) <= Wide
            /\ \A i \in Len(c.raw[3 - o]) + 1 .. Len(c.raw[o]) : Trimmable(c.raw[o][i])}

\* An input may be longer than a hint.
ASSUME SonarAssumption ==
  /\ Base \in Nat /\ Base % 2 = 0 /\ Base > 2
  /\ Wide \in Nat \ {0} /\ MaxHint \in Nat
  /\ HexBase \in Nat /\ HexBase * HexBase = Base /\ Radix \in 2 .. HexBase
  /\ HexDigit \in [0 .. HexBase - 1 -> AnyByte] /\ Separator \in Seq(AnyByte)
  /\ Logs \subseteq [input : Seq(AnyByte), smash : BOOLEAN,
                    samples : Seq(Comparisons) \ {<<>>}]

VARIABLES
  log,        \* the input, whether it is smashed, and the samples of its log
  current,    \* the sample at hand
  progress,   \* how far that sample is
  operands,   \* its operands after parseSonarData
  checked,    \* the replacements tried, with the kind of the sample
  hinted      \* the inputs tested
sonarVars == <<log, current, progress, operands, checked, hinted>>

compared == log.samples[current]

Ops == {"==", "!=", "<", ">", "<=", ">="}

Digit(v, i) == IF i \in DOMAIN v THEN v[i] ELSE 0
Prefix(v, k) == SubSeq(v, 1, IF k < Len(v) THEN k ELSE Len(v))
MaxLen(v) == IF Len(v[1]) > Len(v[2]) THEN Len(v[1]) ELSE Len(v[2])

-----------------------------------------------------------------------------
(* parseSonarData: trailing bytes that are 0x00 or 0xff in both operands   *)
(* (or beyond the end of one) are dropped from both.                       *)

kept(v) ==
  CHOOSE k \in 0 .. MaxLen(v) :
    /\ \A i \in k + 1 .. MaxLen(v) : \A o \in 1 .. 2 : Trimmable(Digit(v[o], i))
    /\ k > 0 => \E o \in 1 .. 2 : ~Trimmable(Digit(v[o], k))

trim(v) == <<Prefix(v[1], kept(v)), Prefix(v[2], kept(v))>>

-----------------------------------------------------------------------------
(* SonarSample.evaluate.                                                   *)

\* The number of the bytes v when all the bytes that follow them amount to rest.
Reading(v, rest) ==
  LET n[i \in 1 .. Len(v) + 1] == IF i > Len(v) THEN rest ELSE v[i] + Base * n[i + 1]
  IN  n[1]

Number(v) == Reading(v, 0)
Negative(v) == v # <<>> /\ v[Len(v)] >= Base \div 2

\* Faulty variant: operands are filled up with zeros.
zeroExtend(v) == [i \in 1 .. Wide |-> Digit(v, i)]

signExtend(v) ==
  [i \in 1 .. Wide |->
     IF i \in DOMAIN v THEN v[i] ELSE IF Negative(v) THEN Base - 1 ELSE 0]

Value(v, signed) == Reading(v, IF signed /\ Negative(v) THEN -1 ELSE 0)

Holds(op, x, y) ==
  CASE op = "==" -> x = y  [] op = "!=" -> x # y [] op = "<" -> x < y
    [] op = ">" -> x > y   [] op = "<=" -> x <= y [] op = ">=" -> x >= y

Before(s, t) ==
  \/ IsStrictPrefix(s, t)
  \/ \E i \in DOMAIN s \cap DOMAIN t : s[i] < t[i] /\ \A j \in 1 .. i - 1 : s[j] = t[j]

evaluate(v, op, signed, string) ==
  IF string
    THEN Holds(op, IF Before(v[1], v[2]) THEN 0 ELSE 1,
                   IF Before(v[2], v[1]) THEN 0 ELSE 1)
    ELSE /\ Len(v[1]) = Len(v[2]) /\ Len(v[1]) \in 1 .. Wide
         /\ Holds(op, Value(signExtend(v[1]), signed), Value(signExtend(v[2]), signed))

-----------------------------------------------------------------------------
(* Relatives of an operand.                                                *)

increment(v) ==
  [i \in DOMAIN v |->
     IF \A j \in 1 .. i - 1 : v[j] = Base - 1 THEN (v[i] + 1) % Base ELSE v[i]]
decrement(v) ==
  [i \in DOMAIN v |->
     IF \A j \in 1 .. i - 1 : v[j] = 0 THEN (v[i] - 1) % Base ELSE v[i]]

\* PutUvarint: groups of one bit less than a byte, that bit set in all but the last.
Group == Base \div 2
MaxUint == Number([i \in 1 .. Wide |-> Base - 1])
PutUvarint[u \in 0 .. MaxUint] ==
  IF u < Group THEN <<u>> ELSE <<(u % Group) + Group>> \o PutUvarint[u \div Group]
Wrap(u) == u % (MaxUint + 1)

\* In hexadecimal, two characters for a byte; in decimal.
Hex(v) == [i \in 1 .. 2 * Len(v) |->
             LET b == v[(i + 1) \div 2]
             IN  HexDigit[IF i % 2 = 1 THEN b \div HexBase ELSE b % HexBase]]
Decimal[u \in 0 .. MaxUint] ==
  IF u < Radix THEN <<HexDigit[u]>>
               ELSE Append(Decimal[u \div Radix], HexDigit[u % Radix])

\* What is looked for, and what it is replaced by.
encodings(v1, v2) ==
  {<<v1, increment(v2)>>, <<v1, decrement(v2)>>,
   <<Decimal[Number(v1)], Decimal[Number(v2)]>>}
  \cup (IF Len(v1) <= 1 THEN {} ELSE
         {<<Reverse(v1), Reverse(v2)>>, <<Reverse(v1), Reverse(increment(v2))>>,
          <<Reverse(v1), Reverse(decrement(v2))>>,
          <<v1, Reverse(increment(Reverse(v2)))>>, <<v1, Reverse(decrement(Reverse(v2)))>>})
  \cup (IF Number(v1) < Group /\ Number(v2) < Group THEN {} ELSE
         {<<PutUvarint[Wrap(Number(v1) + d)], PutUvarint[Wrap(Number(v2) + d)]>>
            : d \in {-1, 0, 1}})

replacements(v1, v2, string) ==
  {<<v1, v2>>, <<Hex(v1), Hex(v2)>>} \cup (IF string THEN {} ELSE encodings(v1, v2))

-----------------------------------------------------------------------------
(* check: every occurrence is replaced, one at a time; when that changes   *)
(* the length of a string, also with one of the five bytes before it       *)
(* adjusted by the difference.                                             *)

At(s, i) == {p \in 1 .. Len(s) + 1 - Len(i) : SubSeq(s, p, p + Len(i) - 1) = i}

Replaced(s, p, v1, v2) ==
  Prefix(SubSeq(s, 1, p - 1) \o v2 \o SubSeq(s, p + Len(v1), Len(s)), MaxHint)

lengthPlaces(p) == {q \in p - 5 .. p - 1 : q >= 1}

check(s, v1, v2, string) ==
  UNION {
    LET tmp == Replaced(s, p, v1, v2)
    IN  {tmp} \cup
        (IF string /\ Len(v1) # Len(v2) /\ Len(tmp) < MaxHint
           THEN {[tmp EXCEPT ![q] = (@ + Len(v2) - Len(v1)) % Base] : q \in lengthPlaces(p)}
           ELSE {})
    : p \in At(s, v1)}

\* The key of a replacement in checked.
Key(v1, v2) == v1 \o Separator \o v2

\* Both operands take turns, unless they are constants of the program.
relatives(c, v) ==
  (IF c.constant = 1 THEN {} ELSE replacements(v[1], v[2], c.string))
  \cup (IF c.constant = 2 THEN {} ELSE replacements(v[2], v[1], c.string))

\* Faulty variant: the key of a replacement is its old value alone.
freshByOld ==
  {r \in relatives(compared, operands) :
     /\ r[1] # <<>> /\ r[1] # r[2] /\ At(log.input, r[1]) # {}
     /\ \A c \in checked : c.old # r[1]}

\* Those that change the input and whose key is not in checked.
Fresh ==
  {r \in relatives(compared, operands) :
     /\ r[1] # <<>> /\ r[1] # r[2] /\ At(log.input, r[1]) # {}
     /\ \A c \in checked : Key(c.old, c.new) # Key(r[1], r[2])}

\* Of those with one key the first is tried; which one that is, is left open.
Clashing == {r \in Fresh : \E s \in Fresh \ {r} : Key(r[1], r[2]) = Key(s[1], s[2])}
Picks ==
  {T \in {Fresh \ dropped : dropped \in SUBSET Clashing} :
     /\ \A r \in Fresh : \E s \in T : Key(r[1], r[2]) = Key(s[1], s[2])
     /\ \A r, s \in T : Key(r[1], r[2]) = Key(s[1], s[2]) => r = s}

-----------------------------------------------------------------------------
SonarInit ==
  /\ log \in Logs
  /\ current = 1 /\ progress = "logged" /\ operands = <<>>
  /\ checked = {} /\ hinted = {}

parseSonarSample ==
  /\ progress = "logged"
  /\ operands' = IF compared.string THEN compared.raw ELSE trim(compared.raw)
  /\ progress' = "parsed"
  /\ UNCHANGED <<log, current, checked, hinted>>

\* While smashing all bytes are mutated anyway: equal operands need no hint.
Pointless == log.smash /\ operands[1] = operands[2]

\* update makes a site skip samples, though not while smashing.
skipSonarSample ==
  /\ progress = "parsed" /\ (~log.smash \/ Pointless)
  /\ progress' = "skipped"
  /\ UNCHANGED <<log, current, operands, checked, hinted>>

processSonarSample ==
  /\ progress = "parsed" /\ ~Pointless
  /\ \E T \in Picks :
       /\ checked' = checked \cup
                       {[old |-> r[1], new |-> r[2], string |-> compared.string] : r \in T}
       /\ hinted' = hinted \cup
                      UNION {check(log.input, r[1], r[2], compared.string) : r \in T}
  /\ progress' = "tried"
  /\ UNCHANGED <<log, current, operands>>

nextSonarSample ==
  /\ progress \in {"skipped", "tried"} /\ current < Len(log.samples)
  /\ current' = current + 1 /\ progress' = "logged" /\ operands' = <<>>
  /\ UNCHANGED <<log, checked, hinted>>

SonarNext ==
  parseSonarSample \/ skipSonarSample \/ processSonarSample \/ nextSonarSample
SonarSpec == SonarInit /\ [][SonarNext]_sonarVars

-----------------------------------------------------------------------------
Parsed == progress # "logged"
Tried  == progress = "tried"

\* The bytes parseSonarData dropped are the same in both.
SameTail == \A i \in MaxLen(operands) + 1 .. MaxLen(compared.raw) :
              Digit(compared.raw[1], i) = Digit(compared.raw[2], i)
\* What was dropped of the operand is the sign of what was kept.
Recoverable(o) ==
  LET v == operands[o]
  IN  /\ compared.signed \/ ~Negative(v)
      /\ \A i \in Len(v) + 1 .. Len(compared.raw[o]) :
           compared.raw[o][i] = IF Negative(v) THEN Base - 1 ELSE 0

\* The comparison comes out as in the program, for all six operators, although
\* bytes were dropped: when sign extension restores both operands, or the
\* comparison is unsigned and the dropped bytes are the same.
EvaluateExact ==
  /\ Parsed /\ ~compared.string /\ Len(operands[1]) > 0
  /\ (\A o \in 1 .. 2 : Recoverable(o)) \/ (~compared.signed /\ SameTail)
  => \A op \in Ops :
        evaluate(operands, op, compared.signed, FALSE)
          = Holds(op, Value(compared.raw[1], compared.signed),
                      Value(compared.raw[2], compared.signed))

\* The n low bytes of u.
Bytes(u, n) ==
  LET q[i \in 1 .. n] == IF i = 1 THEN u ELSE q[i - 1] \div Base
  IN  [i \in 1 .. n |-> q[i] % Base]

\* The other operand plus d, in the width of operand o.
Near(o, d) == LET w == Len(compared.raw[o])
              IN  Bytes(Number(Prefix(compared.raw[3 - o], w)) + d, w)

Variables == 1 .. 2 \ {compared.constant}

\* The input itself was the first one tested.
HintHas(p, s) == \E h \in hinted \cup {log.input} : p \in At(h, s)

\* The places where the input holds s and a hint is not cut.
Uncut(s) == {p \in At(log.input, s) : p + Len(s) - 1 <= MaxHint}

\* No other replacement has taken the key of this one.
OwnKey(v, w) ==
  \A c \in checked : Key(c.old, c.new) = Key(v, w) => c.old = v /\ c.new = w

\* Wherever the first MaxHint bytes of the input hold an operand in full, in
\* either byte order, some tested input holds the other operand there, its
\* successor and its predecessor, if they have the bytes that were dropped: every
\* outcome of the comparison is tried although only the bytes that were kept are
\* replaced, and although earlier samples may have tried the replacement.
ValueReached ==
  Tried /\ ~compared.string =>
    \A o \in Variables : \A d \in {-1, 0, 1} :
      LET x == compared.raw[o]
          t == Near(o, d)
          v == operands[o]
          w == Prefix(t, Len(v))
      IN  Len(v) > 0 /\ (\A i \in Len(v) + 1 .. Len(x) : x[i] = t[i]) =>
            /\ OwnKey(v, w) => \A p \in Uncut(x) : HintHas(p, t)
            /\ OwnKey(Reverse(v), Reverse(w)) =>
                 \A p \in Uncut(Reverse(x)) : HintHas(p, Reverse(t))

\* The number a shortest varint stands for, and all of those in the input.
IsVarint(s) == /\ \A i \in DOMAIN s : s[i] >= Group <=> i < Len(s)
               /\ Len(s) > 1 => s[Len(s)] > 0
Decoded(s) ==
  LET n[i \in 1 .. Len(s) + 1] ==
        IF i > Len(s) THEN 0 ELSE (s[i] % Group) + Group * n[i + 1]
  IN  n[1]
Parts(s) == {r \in (1 .. Len(s)) \X (1 .. Len(s)) : r[1] <= r[2]}

\* The same for base-128, in which a value may be longer or shorter than the one
\* it replaces; values of one group are left to the replacement of a byte.
VarintReached ==
  Tried /\ ~compared.string =>
    \A o \in Variables :
      LET u1 == Number(operands[o])
          u2 == Number(operands[3 - o])
      IN  u1 >= Group \/ u2 >= Group =>
            \A r \in Parts(log.input) :
              LET s == SubSeq(log.input, r[1], r[2])
              IN  /\ IsVarint(s) /\ Decoded(s) = u1
                  /\ OwnKey(s, PutUvarint[u2])
                  /\ r[1] - 1 + Len(PutUvarint[u2]) <= MaxHint
                  => \E h \in hinted \cup {log.input} : \E q \in r[1] .. Len(h) :
                       LET t == SubSeq(h, r[1], q)
                       IN  IsVarint(t) /\ Decoded(t) = u2

\* A string is replaced together with a length field in one of the five bytes
\* before it, unless the result is as long as a hint may be, or a sample of
\* numbers has tried the replacement before, which leaves length fields alone.
LengthFollows ==
  Tried /\ compared.string =>
    \A o \in Variables :
      LET v == operands[o]
          w == operands[3 - o]
      IN  /\ v # <<>> /\ Len(v) # Len(w) /\ OwnKey(v, w)
          /\ \A c \in checked : c.old = v /\ c.new = w => c.string
          => \A p \in At(log.input, v) : \A q \in 1 .. p - 1 :
              /\ p - q <= 5 /\ log.input[q] = Len(v)
              /\ Len(log.input) + Len(w) - Len(v) < MaxHint
              => \E h \in hinted : q \in At(h, <<Len(w)>>) /\ p \in At(h, w)

\* The hints for a sample that is not skipped are complete: whatever form the input
\* holds an operand in where hints are not cut, as bytes in either order, in base-128
\* or as a string behind its length, some tested input has the other operand in its
\* place, whatever samples of the log came before.
HintsComplete == ValueReached /\ VarintReached /\ LengthFollows
=============================================================================
