---------------------------- MODULE MCAlgorithms ----------------------------
(***************************************************************************)
(* The sequential algorithms side by side: part chooses which of them      *)
(* runs, the others stay in an initial state.                              *)
(***************************************************************************)
EXTENDS CoverageWalk, Scores, SonarLog, SonarValues, SonarSites, Verse

VARIABLE part
parts == {"coverage", "scores", "log", "values", "sites", "verse"}

allVars == <<vars, scoresVars, logVars, sonarVars, siteVars, verseVars, part>>

\* An algorithm that does not run stays in a fixed state.
CoverageIdle == base = ZeroTable /\ cur = ZeroTable /\ runs = {}
ValuesIdle   == /\ log = [input |-> <<>>, smash |-> FALSE, samples |-> <<>>]
                /\ current = 1 /\ progress = "logged" /\ operands = <<>>
                /\ checked = {} /\ hinted = {}
VerseIdle    == text = <<>> /\ pass = "text" /\ nodes = <<>>

AlgorithmsInit ==
  /\ part \in parts
  /\ ScoresInit /\ LogInit
  /\ SiteInit /\ (part # "sites" => constant = 0)
  /\ \/ part = "coverage" /\ Init      /\ ValuesIdle /\ VerseIdle
     \/ part = "values"   /\ SonarInit /\ CoverageIdle /\ VerseIdle
     \/ part = "verse"    /\ VerseInit /\ CoverageIdle /\ ValuesIdle
     \/ part \in {"scores", "log", "sites"} /\ CoverageIdle /\ ValuesIdle /\ VerseIdle

AlgorithmsNext ==
  \/ /\ part = "coverage" /\ Next
     /\ UNCHANGED <<scoresVars, logVars, sonarVars, siteVars, verseVars, part>>
  \/ /\ part = "scores" /\ ScoresNext
     /\ UNCHANGED <<vars, logVars, sonarVars, siteVars, verseVars, part>>
  \/ /\ part = "log" /\ LogNext
     /\ UNCHANGED <<vars, scoresVars, sonarVars, siteVars, verseVars, part>>
  \/ /\ part = "values" /\ SonarNext
     /\ UNCHANGED <<vars, scoresVars, logVars, siteVars, verseVars, part>>
  \/ /\ part = "sites" /\ SiteNext
     /\ UNCHANGED <<vars, scoresVars, logVars, sonarVars, verseVars, part>>
  \/ /\ part = "verse" /\ VerseNext
     /\ UNCHANGED <<vars, scoresVars, logVars, sonarVars, siteVars, part>>

AlgorithmsSpec == AlgorithmsInit /\ [][AlgorithmsNext]_allVars

-----------------------------------------------------------------------------
(* Coverage: both sides of the quantization edges and of the sign bit; one *)
(* slot of the second block live.                                          *)
Samples == {0, 5, 6, 9, 127, 128, 255}
MCObserved ==
  {[i \in Slot |-> IF i = 0 THEN x ELSE IF i = CoverSize - 1 THEN y ELSE 0]
     : <<x, y>> \in Samples \X {0, 6, 128}}

(* Scores: data, cover, time, depth and result of the inputs.              *)
Found(d, c, t, depth, r) ==
  [data |-> d, cover |-> [i \in Slot |-> c[i + 1]], execTime |-> t, depth |-> depth, res |-> r]
MCFinds ==
  {Found(1, <<1, 0, 0, 0>>, 1, 0, 0), Found(2, <<5, 1, 0, 0>>, 40, 10, 1),
   Found(3, <<1, 1, 7, 1>>, 1, 20, 0), Found(4, <<0, 9, 1, 0>>, 0, 40, 1),
   Found(5, <<5, 0, 0, 200>>, 9, 80, 1), Found(6, <<0, 9, 7, 0>>, 2, 0, 0),
   Found(7, <<1, 0, 0, 9>>, 200, 0, 0)}

(* Log: the main goroutine and two others.                                 *)
CONSTANTS main, g1, g2
MCGoroutines == {main, g1, g2}

(* Values: all numbers of one and two bytes and some of three, compared    *)
(* with variables, with constants of their type and with constants that    *)
(* were widened to int; strings up to three bytes.  A log has one of these *)
(* comparisons, or two: names, numbers with one operand in common, or a    *)
(* number and a string of the same bytes or its varints.  Inputs are       *)
(* shorter and longer than a hint; operands hold the separator.            *)
Widened(v, signed) ==
  [i \in 1 .. Wide |-> IF i \in DOMAIN v THEN v[i]
                       ELSE IF signed /\ Negative(v) THEN Base - 1 ELSE 0]
MCHexDigit == [d \in 0 .. HexBase - 1 |-> d + 1]
MCSeparator == <<2>>
Bits == 0 .. Base - 1
Words == {<<x>> : x \in Bits} \cup Bits \X Bits
         \cup {<<0, 0, 0>>, <<1, 0, 3>>, <<3, 3, 3>>, <<2, 3, 3>>, <<2, 0, 0>>, <<3, 3, 1>>}
Backwards(v) == [i \in DOMAIN v |-> v[Len(v) + 1 - i]]
Inputs(v) == <<v, Backwards(v) \o <<1>>, <<2>> \o v, PutUvarint[Number(v)],
               <<0, 1, 2, 0, 1>> \o v \o Backwards(v)>>
Comparison(v, const, signed, string) ==
  [raw |-> v, constant |-> const, signed |-> signed, string |-> string]
Log(in, smash, cs) == [input |-> in, smash |-> smash, samples |-> cs]
NumberPairs == {v \in Words \X Words : Len(v[1]) = Len(v[2])}
OfNumbers(v, c, g) ==
  Comparison(IF c = 0 THEN v ELSE [v EXCEPT ![c] = Widened(@, g)], c, g, FALSE)
MCNumberLogs ==
  {Log(Inputs(v[IF c = 1 THEN 2 ELSE 1])[i], v[1] = <<1>>, <<OfNumbers(v, c, g)>>)
     : <<v, c, g, i>> \in NumberPairs \X (0 .. 2) \X BOOLEAN \X (1 .. 5)}
Names == {<<>>, <<1>>, <<3, 1>>, <<1, 2, 1>>, <<2, 1, 3>>}
NamePairs == Names \X Names
NameInputs(v) == <<<<Len(v[1])>> \o v[1], <<Len(v[1]), 2>> \o v[1] \o <<1>>,
                   v[2] \o v[1], <<Len(v[1]), 0, 0, 0, 0>> \o v[1]>>
MCNameLogs ==
  {Log(NameInputs(v)[i], v[1] = <<1>>, <<Comparison(v, c, FALSE, TRUE)>>)
     : <<v, c, i>> \in NamePairs \X (0 .. 2) \X (1 .. 4)}
Unsigned(v) == Comparison(v, 0, FALSE, FALSE)
Named(v) == Comparison(v, 0, FALSE, TRUE)
Varints(v) == <<PutUvarint[Number(v[1])], PutUvarint[Number(v[2])]>>
SomePairs == {v \in NumberPairs : v[1] \in {<<1>>, <<3>>, <<2, 1>>, <<1, 2, 1>>}}
Respelled == {<<v, v>> : v \in SomePairs} \cup
             {<<v, Varints(v)>> : v \in {v \in SomePairs : MaxLen(Varints(v)) < Base}}
MCTwice ==
  {Log(NameInputs(v)[i], v[1] = <<3>>, <<Named(v), Named(w)>>)
     : <<v, w, i>> \in NamePairs \X NamePairs \X (1 .. 4)}
  \cup
  {Log(Inputs(v[1])[i], v[1] = <<3>>, <<Unsigned(v), Unsigned(w)>>)
     : <<v, w, i>> \in {p \in SomePairs \X SomePairs \X (1 .. 5) : p[1][1] = p[2][1]}}
  \cup
  {Log(NameInputs(n[2])[i], FALSE, <<Unsigned(n[1]), Named(n[2])>>)
     : <<n, i>> \in Respelled \X (1 .. 4)}
  \cup
  {Log(NameInputs(n[2])[i], FALSE, <<Named(n[2]), Unsigned(n[1])>>)
     : <<n, i>> \in Respelled \X (1 .. 4)}
MCLogs == MCNumberLogs \cup MCNameLogs \cup MCTwice

(* Verse: short texts over a few characters each; padding makes texts with *)
(* unprinted characters printable enough.                                  *)
Strings(A, n) == UNION {[1 .. k -> A] : k \in 0 .. n}
Padding == [i \in 1 .. 12 |-> "z"]
MCTexts ==
  Strings({"a", ",", ";", "(", ")"}, 5) \cup Strings({"a", ",", "<", "'", "="}, 4)
  \cup Strings({"e", "0", "-", ".", " "}, 5) \cup Strings({"0", "x", "e", "1"}, 4)
  \cup {s \o Padding : s \in Strings({"\n", "\r", ",", "(", ")", "a"}, 4)}
  \cup {Padding \o s : s \in Strings({"\n", " ", "\t", "="}, 3)}
=============================================================================
