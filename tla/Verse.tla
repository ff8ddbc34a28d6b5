------------------------------- MODULE Verse -------------------------------
(***************************************************************************)
(* How the versifier finds structure in a text (versifier.go): the text is *)
(* cut into tokens, and five passes rewrite the sequence of nodes in place,*)
(* each with its own index arithmetic.  What is generated from the nodes   *)
(* later is random and not modelled; it prints the nodes in their order.   *)
(***************************************************************************)
EXTENDS Integers, Sequences, FiniteSets
LOCAL INSTANCE SequencesExt
LOCAL INSTANCE FiniteSetsExt

CONSTANT Texts      \* the inputs that reach BuildVerse

\* Characters, as far as the code tells them apart: a stands for the letters of
\* hexadecimal digits but e, z for all others and _, 0 and 1 for the digits, and
\* ' for the three quotes, which close themselves.
Letters   == {"a", "e", "x", "z"}
Digits    == {"0", "1"}
HexDigits == Digits \cup {"a", "e"}
Blanks    == {" ", "\t"}
Unprinted == {"\t", "\n", "\r", "\f"}
brackets  == [c \in {"<", "[", "(", "{", "'"} |->
               CASE c = "<" -> ">" [] c = "[" -> "]" [] c = "(" -> ")"
                 [] c = "{" -> "}" [] OTHER -> c]

VARIABLES text, pass, nodes
verseVars == <<text, pass, nodes>>

\* A node has its own characters and the blocks of nodes below it.
Node(kind, own, blocks) == [kind |-> kind, own |-> own, blocks |-> blocks]
Leaf(kind, own)   == Node(kind, own, <<>>)
IsControl(n, S)   == n.kind = "control" /\ n.own[1] \in S
Is(nn, i, kind)   == i \in DOMAIN nn /\ nn[i].kind = kind

\* Faulty variant: the rest is copied from one place too far.
CutTooFar(nn, i, j, by) == SubSeq(nn, 1, i - 1) \o by \o SubSeq(nn, j + 2, Len(nn))

\* nn with the nodes from i to j replaced.
Cut(nn, i, j, by) == SubSeq(nn, 1, i - 1) \o by \o SubSeq(nn, j + 1, Len(nn))

\* What a node prints when nothing is left to chance.
RECURSIVE Prints(_)
Prints(n) ==
  LET block(b) == FlattenSeq([i \in DOMAIN b |-> Prints(b[i])])
      joined == FlattenSeq([i \in DOMAIN n.blocks |->
                  IF i = 1 \/ n.kind \in {"bracket", "line"} THEN block(n.blocks[i])
                                         ELSE n.own \o block(n.blocks[i])])
  IN  CASE n.kind = "bracket" -> <<n.own[1]>> \o joined \o <<n.own[2]>>
        [] n.kind = "line" -> joined \o n.own
        [] n.kind \in {"keyval", "list"} -> joined
        [] OTHER -> n.own

-----------------------------------------------------------------------------
(* Tokens.  Blanks at the end of the text make no token.                   *)

RECURSIVE tokenize(_)
tokenize(s) ==
  IF s = <<>> THEN <<>> ELSE
  LET kindOf(c) == IF c \in Letters \cup Digits THEN "word"
                   ELSE IF c \in Blanks THEN "ws" ELSE "control"
      kind == kindOf(s[1])
      n    == IF kind = "control" THEN 1
              ELSE Max({k \in DOMAIN s : \A i \in 1 .. k : kindOf(s[i]) = kind})
      run  == SubSeq(s, 1, n)
      name == IF kind # "word" THEN kind
              ELSE IF ToSet(run) \subseteq Digits THEN "num" ELSE "alphanum"
  IN  IF kind = "ws" /\ n = Len(s) THEN <<>>
      ELSE <<Leaf(name, run)>> \o tokenize(SubSeq(s, n + 1, Len(s)))

-----------------------------------------------------------------------------
(* Numbers: a sweep applies a rule at every index of the shrinking         *)
(* sequence, and sweeps are repeated until nothing changes.                *)

Sweep(rule(_, _), nn) ==
  FoldLeft(LAMBDA acc, i : IF i > Len(acc) THEN acc ELSE rule(acc, i),
           nn, [i \in DOMAIN nn |-> i])

isDecNum(s) == s # <<>> /\ ToSet(s) \subseteq Digits
isHexNum(s) == s # <<>> /\ ToSet(s) \subseteq HexDigits

numberAt(nn, i) ==
  LET n == nn[i]
      v == n.own
      word == n.kind = "alphanum" /\ Len(v) >= 3
      e == IF "e" \in ToSet(v) THEN SelectInSeq(v, LAMBDA c : c = "e") ELSE 0
      dec == e # 0 /\ isDecNum(SubSeq(v, 1, e - 1)) /\ isDecNum(SubSeq(v, e + 1, Len(v)))
  IN  CASE word /\ v[1] = "0" /\ v[2] = "x" /\ isHexNum(SubSeq(v, 3, Len(v))) ->
             [nn EXCEPT ![i].kind = "num"]
        [] word /\ dec -> [nn EXCEPT ![i].kind = "num"]
        [] word /\ ~dec /\ e = Len(v) /\ Is(nn, i + 1, "num") ->
             Cut(nn, i, i + 1, <<Leaf("num", v \o nn[i + 1].own)>>)
        [] /\ IsControl(n, {"-"}) /\ Is(nn, i + 1, "num")
           /\ Is(nn, i - 1, "alphanum") =>
                Len(nn[i - 1].own) > 1 /\ Last(nn[i - 1].own) = "e" ->
             Cut(nn, i, i + 1, <<Leaf("num", v \o nn[i + 1].own)>>)
        [] IsControl(n, {"."}) /\ Is(nn, i - 1, "num") /\ Is(nn, i + 1, "num") ->
             Cut(nn, i - 1, i + 1, <<Leaf("num", nn[i - 1].own \o v \o nn[i + 1].own)>>)
        [] OTHER -> nn

RECURSIVE extractNumbers(_)
extractNumbers(nn) ==
  LET swept == Sweep(numberAt, nn)
  IN  IF swept = nn THEN nn ELSE extractNumbers(swept)

-----------------------------------------------------------------------------
(* Brackets: a closing character is matched with the innermost opener that *)
(* waits for it; openers inside that pair are given up.                    *)

\* Faulty variant: the first opener that waits for it.
outermost(S) == Min(S)

innermost(S) == Max(S)

RECURSIVE bracketsFrom(_, _, _)
bracketsFrom(nn, i, stk) ==
  IF i > Len(nn) THEN nn
  ELSE IF nn[i].kind # "control" THEN bracketsFrom(nn, i + 1, stk)
  ELSE LET c == nn[i].own[1]
           waiting == {s \in DOMAIN stk : brackets[nn[stk[s]].own[1]] = c}
       IN  IF waiting # {}
             THEN LET s == innermost(waiting)
                      p == stk[s]
                  IN  bracketsFrom(
                        Cut(nn, p, i, <<Node("bracket", <<nn[p].own[1], c>>,
                                             <<SubSeq(nn, p + 1, i - 1)>>)>>),
                        p + 1, SubSeq(stk, 1, s - 1))
             ELSE bracketsFrom(nn, i + 1, IF c \in DOMAIN brackets THEN Append(stk, i) ELSE stk)

structureBrackets(nn) == bracketsFrom(nn, 1, <<>>)

\* The other passes treat what is in brackets first.
Within(structured(_), nn) ==
  [i \in DOMAIN nn |->
     IF nn[i].kind = "bracket" THEN [nn[i] EXCEPT !.blocks = <<structured(@[1])>>] ELSE nn[i]]

keyValueAt(nn, i) ==
  IF /\ IsControl(nn[i], {"=", ":"})
     /\ Is(nn, i - 1, "alphanum") /\ Is(nn, i + 1, "alphanum")
    THEN Cut(nn, i - 1, i + 1,
             <<Node("keyval", nn[i].own, <<<<nn[i - 1]>>, <<nn[i + 1]>>>>)>>)
    ELSE nn

RECURSIVE structureKeyValue(_)
structureKeyValue(nn) == Sweep(keyValueAt, Within(structureKeyValue, nn))

-----------------------------------------------------------------------------
(* Lists: from the last delimiter to the first.  Looking at one more node  *)
(* on either side a time, until the control characters of one side include *)
(* those of the other, tells which ones elements consist of; the elements  *)
(* then reach to the first node with others, and so do further elements to *)
(* the left.                                                               *)

Delimiters == {",", ";"}
Chars(n) == CASE n.kind = "control" -> {n.own[1]}
              [] n.kind = "bracket" -> {n.own[1], n.own[2]}
              [] OTHER -> {}

listAt(nn, i) ==
  LET delim == Chars(nn[i])
      \* The first position from p on, in direction d, with a barrier or outside nn.
      stop(p, d, barrier(_)) ==
        CHOOSE q \in 0 .. Len(nn) + 1 :
          /\ q \notin DOMAIN nn \/ barrier(nn[q])
          /\ (q - p) * d >= 0
          /\ \A j \in DOMAIN nn : (j - p) * d >= 0 /\ (q - j) * d > 0 => ~barrier(nn[j])
      \* The k nodes next to i on side d, up to another delimiter.
      seen(d, k) ==
        LET next == stop(i + d, d, LAMBDA n : IsControl(n, delim))
        IN  {j \in DOMAIN nn : (j - i) * d \in 1 .. k /\ (next - j) * d > 0}
      tok(d, k) == UNION {Chars(nn[j]) : j \in seen(d, k)}
      done(d, k) == Cardinality(seen(d, k)) < k
      rounds == Min({k \in 1 .. Len(nn) : \/ done(-1, k) /\ done(1, k)
                                          \/ tok(-1, k) \subseteq tok(1, k)
                                          \/ tok(1, k) \subseteq tok(-1, k)})
      ofElements == tok(-1, rounds) \cup tok(1, rounds)
      other(n) == ~(Chars(n) \subseteq ofElements)
      end(d) == stop(i + d * (Cardinality(seen(d, rounds)) + 1), d, other)
      \* Further elements that end at p, and where the first begins.
      left[p \in 0 .. Len(nn)] ==
        IF p \in DOMAIN nn /\ IsControl(nn[p], delim)
          THEN LET q == stop(p - 1, -1, other)
               IN  [start |-> left[q].start,
                    blocks |-> Append(left[q].blocks, SubSeq(nn, q + 1, p - 1))]
          ELSE [start |-> p, blocks |-> <<>>]
      more == left[end(-1)]
  IN  [start |-> more.start,
       nn |-> Cut(nn, more.start + 1, end(1) - 1,
                  <<Node("list", nn[i].own,
                         more.blocks \o <<SubSeq(nn, end(-1) + 1, i - 1),
                                          SubSeq(nn, i + 1, end(1) - 1)>>)>>)]

RECURSIVE listsUpTo(_, _)
listsUpTo(nn, i) ==
  IF i = 0 THEN nn
  ELSE IF IsControl(nn[i], Delimiters)
         THEN LET r == listAt(nn, i) IN listsUpTo(r.nn, r.start)
         ELSE listsUpTo(nn, i - 1)

RECURSIVE structureLists(_)
structureLists(nn) == listsUpTo(Within(structureLists, nn), Len(nn))

-----------------------------------------------------------------------------
(* Lines, which end in a newline with or without a carriage return.        *)

RECURSIVE cutLines(_)
cutLines(nn) ==
  LET ends == {i \in DOMAIN nn : IsControl(nn[i], {"\n"})}
      i == Min(ends)
      r == i > 1 /\ IsControl(nn[i - 1], {"\r"})
  IN  IF ends = {} THEN nn
      ELSE <<Node("line", IF r THEN <<"\r", "\n">> ELSE <<"\n">>,
                  <<SubSeq(nn, 1, IF r THEN i - 2 ELSE i - 1)>>)>>
             \o cutLines(SubSeq(nn, i + 1, Len(nn)))

RECURSIVE structureLines(_)
structureLines(nn) == cutLines(Within(structureLines, nn))

-----------------------------------------------------------------------------
(* BuildVerse.  A text with less than nine printable bytes in ten is not   *)
(* looked at.                                                              *)

Printable(s) == Cardinality({i \in DOMAIN s : s[i] \notin Unprinted})

VerseInit == text \in Texts /\ pass = "text" /\ nodes = <<>>

Step(from, to, nn) == pass = from /\ pass' = to /\ nodes' = nn /\ UNCHANGED text

Refuse    == Printable(text) < (Len(text) * 9) \div 10 /\ Step("text", "refused", <<>>)
Tokenize  == Printable(text) >= (Len(text) * 9) \div 10 /\ Step("text", "tokens", tokenize(text))
Numbers   == Step("tokens", "numbers", extractNumbers(nodes))
Brackets  == Step("numbers", "brackets", structureBrackets(nodes))
KeyValues == Step("brackets", "keyvalues", structureKeyValue(nodes))
Lists     == Step("keyvalues", "lists", structureLists(nodes))
Lines     == Step("lists", "lines", structureLines(nodes))

VerseNext == Refuse \/ Tokenize \/ Numbers \/ Brackets \/ KeyValues \/ Lists \/ Lines
VerseSpec == VerseInit /\ [][VerseNext]_verseVars

-----------------------------------------------------------------------------
RECURSIVE WithoutBlanks(_)
WithoutBlanks(s) ==
  IF s # <<>> /\ Last(s) \in Blanks THEN WithoutBlanks(Front(s)) ELSE s

\* No pass loses, repeats or moves a piece of the text, although each edits the
\* sequence it walks over: what the nodes print is the text, up to blanks at its end.
TextKept ==
  pass \notin {"text", "refused"} =>
    Prints(Node("line", <<>>, <<nodes>>)) = WithoutBlanks(text)

\* Every block of nodes, and those that are not within a list.
RECURSIVE BlocksOf(_, _)
BlocksOf(b, kinds) ==
  {b} \cup UNION {UNION {BlocksOf(b[i].blocks[j], kinds) : j \in DOMAIN b[i].blocks}
                  : i \in {k \in DOMAIN b : b[k].kind \in kinds}}
Parents == {"bracket", "line", "keyval", "list"}
Has(b, c) == \E i \in DOMAIN b : IsControl(b[i], {c})

\* Brackets pair as far as their nesting allows: no block has an opener with its
\* closer after it, and what closes a pair closed the innermost opener it could.
BracketsPaired ==
  pass \in {"brackets", "keyvalues", "lists", "lines"} =>
    \A b \in BlocksOf(nodes, Parents) : \A i \in DOMAIN b :
      /\ IsControl(b[i], DOMAIN brackets) =>
           ~\E j \in i + 1 .. Len(b) : IsControl(b[j], {brackets[b[i].own[1]]})
      /\ b[i].kind = "bracket" =>
           \A c \in DOMAIN brackets : brackets[c] = b[i].own[2] =>
             ~Has(b[i].blocks[1], c) /\ ~Has(b[i].blocks[1], brackets[c])

\* The elements of a list do not hold its delimiter, and at the end no delimiter,
\* newline or pair of words around = or : is overlooked outside lists.
NothingOverlooked ==
  /\ \A b \in BlocksOf(nodes, Parents) : \A i \in DOMAIN b :
       b[i].kind = "list" => \A j \in DOMAIN b[i].blocks : ~Has(b[i].blocks[j], b[i].own[1])
  /\ pass = "lines" =>
       \A b \in BlocksOf(nodes, {"bracket", "line"}) :
         /\ \A c \in Delimiters \cup {"\n"} : ~Has(b, c)
         /\ \A i \in DOMAIN b : keyValueAt(b, i) = b

\* The structure of the text is found: brackets pair, and outside lists nothing
\* that could be structured is left.
StructureFound == BracketsPaired /\ NothingOverlooked
=============================================================================
