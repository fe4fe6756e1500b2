---------------------------- MODULE Sniffer_proofs ----------------------------
(* Proofs about Sniffer, for any frames, snapshot length and bound.  A dump *)
(* is as long as the packet, so they go by induction: over the rounds of    *)
(* PrintData (what is printed after each), over the places of its output    *)
(* (which bytes they show), and over the sequences that are joined.         *)
(* The lemmas about digits and text serve TickTock too, at the end.         *)
EXTENDS Sniffer, WellFoundedInduction, TLAPS

\* Induction over the natural numbers, for a set: the library's rule takes
\* an operator; a set needs none.
LEMMA SetInduction ==
  ASSUME NEW T \in SUBSET Nat, 0 \in T, \A n \in T : n + 1 \in T
  PROVE  T = Nat
<1> DEFINE U == Nat \ T
<1>1. IsWellFoundedOn(OpToRel(<, Nat), Nat)
  BY NatLessThanWellFounded
<1>2. SUFFICES ASSUME U # {} PROVE FALSE
  OBVIOUS
<1>3. PICK x \in U : \A y \in U : ~(<<y, x>> \in OpToRel(<, Nat))
  BY ONLY <1>1, <1>2, WFMin, U \subseteq Nat
<1>4. x \in Nat /\ x # 0
  OBVIOUS
<1>5. x - 1 \in Nat /\ x - 1 < x
  BY <1>4
<1>6. <<x - 1, x>> \in OpToRel(<, Nat)
  BY <1>4, <1>5 DEF OpToRel
<1>7. x - 1 \notin U
  BY <1>3, <1>6
<1>8. (x - 1) + 1 \in T
  BY <1>7, <1>5
<1> QED
  BY <1>8, <1>4

-----------------------------------------------------------------------------
\* The function FlattenSeq is chosen for, and that there is one for every
\* length.
FlattenBody(s, n, g) == [i \in 1..n |-> IF i = 1 THEN s[i] ELSE g[i - 1] \o s[i]]

\* By induction over the length.
LEMMA FlattenExists ==
  ASSUME NEW s, NEW m \in Nat
  PROVE  \E g : g = FlattenBody(s, m, g)
<1> DEFINE T == {n \in Nat : \E g : g = FlattenBody(s, n, g)}
<1>1. 0 \in T
  <2>1. [i \in 1..0 |-> 0] = FlattenBody(s, 0, [i \in 1..0 |-> 0])
    BY DEF FlattenBody
  <2> QED
    BY <2>1
<1>2. ASSUME NEW n \in T PROVE n + 1 \in T
  <2>1. PICK g : g = FlattenBody(s, n, g)
    OBVIOUS
  <2> DEFINE h == [i \in 1..n + 1 |-> IF i <= n THEN g[i] ELSE
                                      IF i = 1 THEN s[i] ELSE g[i - 1] \o s[i]]
  <2>2. ASSUME NEW i \in 1..n + 1
        PROVE  h[i] = IF i = 1 THEN s[i] ELSE h[i - 1] \o s[i]
    <3>1. CASE i <= n
      <4>1. i \in 1..n /\ h[i] = g[i] /\ (i # 1 => i - 1 \in 1..n + 1 /\ h[i - 1] = g[i - 1])
        BY <3>1
      <4>2. g[i] = IF i = 1 THEN s[i] ELSE g[i - 1] \o s[i]
        BY <2>1, <4>1 DEF FlattenBody
      <4> QED
        BY <4>1, <4>2
    <3>2. CASE ~(i <= n)
      BY <3>2
    <3> QED
      BY <3>1, <3>2
  <2>3. h = [i \in 1..n + 1 |-> IF i = 1 THEN s[i] ELSE h[i - 1] \o s[i]]
    <3> HIDE DEF h
    <3>1. h = [i \in 1..n + 1 |-> h[i]]
      BY DEF h
    <3> QED
      BY <2>2, <3>1
  <2>4. h = FlattenBody(s, n + 1, h)
    BY <2>3 DEF FlattenBody
  <2> QED
    BY <2>4
<1>3. T = Nat
  <2> HIDE DEF T
  <2>1. T \in SUBSET Nat
    BY DEF T
  <2> QED
    BY <1>1, <1>2, <2>1, SetInduction
<1> QED
  BY <1>3

\* FlattenSeq joins the sequences one after the other.
LEMMA FlattenIsFold ==
  ASSUME NEW s, Len(s) \in Nat, Len(s) # 0
  PROVE  \E g : g = FlattenBody(s, Len(s), g) /\ FlattenSeq(s) = g[Len(s)]
<1> DEFINE G == CHOOSE g : g = FlattenBody(s, Len(s), g)
<1>1. G = FlattenBody(s, Len(s), G)
  BY FlattenExists
<1>2. FlattenSeq(s) = G[Len(s)]
  BY DEF FlattenSeq, FlattenBody
<1> QED
  BY <1>1, <1>2
-----------------------------------------------------------------------------
\* What PrintData writes: a byte in hex or as text, a line end, a gap.
Token == ({"hex", "text"} \X Int) \cup {NewLine, <<"   ">>}

\* Facts about sequences, in the form the proofs below cite.
LEMMA ConcatShape ==
  ASSUME NEW S, NEW s \in Seq(S), NEW t \in Seq(S)
  PROVE  /\ s \o t \in Seq(S)
         /\ Len(s \o t) = Len(s) + Len(t)
         /\ \A i \in 1..Len(s) : (s \o t)[i] = s[i]
         /\ \A i \in Len(s) + 1..Len(s) + Len(t) : (s \o t)[i] = t[i - Len(s)]
OBVIOUS

\* The same for a sequence that has a name.
LEMMA ConcatIs ==
  ASSUME NEW S, NEW s \in Seq(S), NEW t \in Seq(S), NEW u, u = s \o t
  PROVE  /\ u \in Seq(S) /\ Len(u) = Len(s) + Len(t)
         /\ \A i \in 1..Len(s) : u[i] = s[i]
         /\ \A i \in Len(s) + 1..Len(s) + Len(t) : u[i] = t[i - Len(s)]
BY ConcatShape

\* An element of the first part.
LEMMA ConcatLeft ==
  ASSUME NEW S, NEW s \in Seq(S), NEW t \in Seq(S), NEW u, u = s \o t, NEW i \in 1..Len(s)
  PROVE  u[i] = s[i]
BY ConcatShape

\* An element of the second part.
LEMMA ConcatRight ==
  ASSUME NEW S, NEW s \in Seq(S), NEW t \in Seq(S), NEW u, u = s \o t, NEW i \in 1..Len(t)
  PROVE  u[Len(s) + i] = t[i]
<1>1. PICK m \in Nat, n \in Nat : m = Len(s) /\ n = Len(t)
  OBVIOUS
<1>2. PICK j : j = Len(s) + i
  OBVIOUS
<1>3. j \in Len(s) + 1..Len(s) + Len(t) /\ j - Len(s) = i
  BY <1>1, <1>2
<1>4. u[j] = t[j - Len(s)]
  BY ONLY <1>3, ConcatShape, s \in Seq(S), t \in Seq(S), u = s \o t
<1> QED
  BY ONLY <1>2, <1>3, <1>4

\* A sequence and one more element.
LEMMA AppendShape ==
  ASSUME NEW S, NEW s \in Seq(S), NEW x \in S
  PROVE  /\ Append(s, x) \in Seq(S)
         /\ Len(Append(s, x)) = Len(s) + 1
         /\ \A i \in 1..Len(s) : Append(s, x)[i] = s[i]
         /\ Append(s, x)[Len(s) + 1] = x
OBVIOUS

\* What a sequence is.
LEMMA SeqShape ==
  ASSUME NEW S, NEW s \in Seq(S)
  PROVE  /\ Len(s) \in Nat /\ DOMAIN s = 1..Len(s)
         /\ \A i \in 1..Len(s) : s[i] \in S
OBVIOUS

\* Sequences are equal that agree everywhere.
LEMMA SeqEqual ==
  ASSUME NEW S, NEW s \in Seq(S), NEW t \in Seq(S), Len(s) = Len(t),
         \A i \in 1..Len(s) : s[i] = t[i]
  PROVE  s = t
OBVIOUS

\* A function on 1..n is a sequence.
LEMMA FunctionIsSeq ==
  ASSUME NEW S, NEW n \in Nat, NEW f \in [1..n -> S]
  PROVE  f \in Seq(S) /\ Len(f) = n
OBVIOUS

\* Joining is associative.
LEMMA ConcatAssoc ==
  ASSUME NEW S, NEW s \in Seq(S), NEW t \in Seq(S), NEW u \in Seq(S)
  PROVE  s \o (t \o u) = (s \o t) \o u
<1>1. Len(s) \in Nat /\ Len(t) \in Nat /\ Len(u) \in Nat
  BY SeqShape
<1>2. /\ s \o t \in Seq(S) /\ t \o u \in Seq(S) /\ Len(s \o t) = Len(s) + Len(t)
      /\ Len(t \o u) = Len(t) + Len(u)
  BY ConcatShape
<1>3. /\ s \o (t \o u) \in Seq(S) /\ (s \o t) \o u \in Seq(S)
      /\ Len(s \o (t \o u)) = Len(s) + Len(t) + Len(u)
      /\ Len((s \o t) \o u) = Len(s) + Len(t) + Len(u)
  BY <1>1, <1>2, ConcatShape
<1>4. ASSUME NEW i \in 1..Len(s) + Len(t) + Len(u)
      PROVE  (s \o (t \o u))[i] = ((s \o t) \o u)[i]
  <2>1. CASE i <= Len(s)
    <3>1. i \in 1..Len(s) /\ i \in 1..Len(s \o t)
      BY <1>1, <1>2, <2>1
    <3>2. (s \o (t \o u))[i] = s[i]
      BY ONLY <3>1, <1>2, ConcatShape, s \in Seq(S)
    <3>3. ((s \o t) \o u)[i] = (s \o t)[i]
      BY ONLY <3>1, <1>2, ConcatShape, u \in Seq(S)
    <3>4. (s \o t)[i] = s[i]
      BY ONLY <3>1, ConcatShape, s \in Seq(S), t \in Seq(S)
    <3> QED
      BY <3>2, <3>3, <3>4
  <2>2. CASE Len(s) < i /\ i <= Len(s) + Len(t)
    <3>1. /\ i \in Len(s) + 1..Len(s) + Len(t \o u) /\ i \in 1..Len(s \o t)
          /\ i \in Len(s) + 1..Len(s) + Len(t) /\ i - Len(s) \in 1..Len(t)
      BY <1>1, <1>2, <2>2
    <3>2. (s \o (t \o u))[i] = (t \o u)[i - Len(s)]
      BY ONLY <3>1, <1>2, ConcatShape, s \in Seq(S)
    <3>3. (t \o u)[i - Len(s)] = t[i - Len(s)]
      BY ONLY <3>1, ConcatShape, t \in Seq(S), u \in Seq(S)
    <3>4. ((s \o t) \o u)[i] = (s \o t)[i]
      BY ONLY <3>1, <1>2, ConcatShape, u \in Seq(S)
    <3>5. (s \o t)[i] = t[i - Len(s)]
      BY ONLY <3>1, ConcatShape, s \in Seq(S), t \in Seq(S)
    <3> QED
      BY <3>2, <3>3, <3>4, <3>5
  <2>3. CASE Len(s) + Len(t) < i
    <3>1. /\ i \in Len(s) + 1..Len(s) + Len(t \o u)
          /\ i \in Len(s \o t) + 1..Len(s \o t) + Len(u)
          /\ i - Len(s) \in Len(t) + 1..Len(t) + Len(u)
          /\ i - Len(s \o t) = i - Len(s) - Len(t)
      BY <1>1, <1>2, <2>3
    <3>2. (s \o (t \o u))[i] = (t \o u)[i - Len(s)]
      BY ONLY <3>1, <1>2, ConcatShape, s \in Seq(S)
    <3>3. (t \o u)[i - Len(s)] = u[i - Len(s) - Len(t)]
      BY ONLY <3>1, ConcatShape, t \in Seq(S), u \in Seq(S)
    <3>4. ((s \o t) \o u)[i] = u[i - Len(s \o t)]
      BY ONLY <3>1, <1>2, ConcatShape, u \in Seq(S)
    <3> QED
      BY <3>1, <3>2, <3>3, <3>4
  <2> QED
    BY <1>1, <2>1, <2>2, <2>3
<1> QED
  BY <1>3, <1>4, SeqEqual

\* The text of a line and the line's end.
TextLine(a, b) == Append(Text(a, b), NewLine)

\* Byte by byte.
LEMMA TextShape ==
  ASSUME NEW a \in Int, NEW n \in Nat, NEW b \in Int, b = a + n
  PROVE  /\ TextLine(a, b) \in Seq(Token)
         /\ Len(TextLine(a, b)) = n + 1
         /\ \A p \in 1..n : TextLine(a, b)[p] = <<"text", a + p - 1>>
         /\ TextLine(a, b)[n + 1] = NewLine
<1> DEFINE x == Text(a, b)
           s == TextLine(a, b)
<1>0. b - a = n
  OBVIOUS
<1>1. x \in [1..n -> Token]
  BY <1>0 DEF Text, Token
<1>2. x \in Seq(Token) /\ Len(x) = n
  BY ONLY <1>1, FunctionIsSeq, n \in Nat
<1>3. ASSUME NEW p \in 1..n
      PROVE  x[p] = <<"text", a + p - 1>>
  BY <1>0 DEF Text
<1>4. NewLine \in Token
  BY DEF Token
<1>5. s = Append(x, NewLine)
  BY DEF TextLine
<1> HIDE DEF x, s
<1>6. s \in Seq(Token) /\ Len(s) = n + 1 /\ s[n + 1] = NewLine
  BY ONLY <1>2, <1>4, <1>5, AppendShape
<1>7. ASSUME NEW p \in 1..n
      PROVE  s[p] = <<"text", a + p - 1>>
  <2>1. s[p] = x[p]
    BY ONLY <1>2, <1>4, <1>5, AppendShape, p \in 1..n
  <2> QED
    BY <2>1, <1>3
<1> QED
  BY <1>6, <1>7 DEF s

\* The gaps of a last line that is not full.
LEMMA SpacesShape ==
  ASSUME NEW n \in Nat
  PROVE  /\ Spaces(n) \in Seq(Token) /\ Len(Spaces(n)) = n
         /\ \A p \in 1..n : Spaces(n)[p] = <<"   ">>
<1>1. Spaces(n) \in [1..n -> Token]
  BY DEF Spaces, Token
<1>2. \A p \in 1..n : Spaces(n)[p] = <<"   ">>
  BY DEF Spaces
<1> QED
  BY <1>1, <1>2, FunctionIsSeq

\* A sequence of one.
LEMMA OneShape ==
  ASSUME NEW x \in Token
  PROVE  <<x>> \in Seq(Token) /\ Len(<<x>>) = 1 /\ <<x>>[1] = x
OBVIOUS

\* A gap is neither a line end nor a byte.
LEMMA GapIsOther ==
  ASSUME NEW x, x = <<"   ">>
  PROVE  x # NewLine /\ x[1] \notin {"hex", "text"}
<1>1. x[1] = "   "
  OBVIOUS
<1>2. NewLine[1] = "\n"
  BY DEF NewLine
<1> QED
  BY ONLY <1>1, <1>2

\* A byte in hex names an offset.
LEMMA HexToken ==
  ASSUME NEW x \in Token, x[1] = "hex"
  PROVE  x[2] \in Int
<1>1. x \in {"hex", "text"} \X Int \/ x = NewLine \/ x = <<"   ">>
  BY DEF Token
<1>2. x # <<"   ">>
  BY ONLY GapIsOther, x[1] = "hex"
<1>3. x # NewLine
  <2>1. NewLine[1] = "\n"
    BY DEF NewLine
  <2> QED
    BY <2>1
<1> QED
  BY ONLY <1>1, <1>2, <1>3
-----------------------------------------------------------------------------
\* A full line has 16 bytes in hex, the same as text, and its end: what
\* stands at place p of a dump that starts with byte from.
Cell(from, p) ==
  LET l == (p - 1) \div 33
      r == (p - 1) % 33
  IN IF r < 16 THEN <<"hex", from + 16 * l + r>>
     ELSE IF r < 32 THEN <<"text", from + 16 * l + r - 16>> ELSE NewLine

\* s is a dump up to the hex of byte i - 1.
Rows(from, i, s) ==
  /\ s \in Seq(Token)
  /\ Len(s) = i + 17 * ((i - 1) \div 16)
  /\ \A p \in 1..Len(s) : s[p] = Cell(from, p)

\* What the loop body prints in every round, the last one aside.
Full(from, i) ==
  (IF i # 0 /\ i % Columns = 0 THEN Append(Text(from + i - Columns, from + i), NewLine)
                               ELSE <<>>)
  \o <<Hex(from + i)>>

\* Place r of line l.
LEMMA CellAt ==
  ASSUME NEW from \in Int, NEW l \in Nat, NEW r \in 0..32
  PROVE  Cell(from, 33 * l + r + 1) =
           IF r < 16 THEN <<"hex", from + 16 * l + r>>
           ELSE IF r < 32 THEN <<"text", from + 16 * l + r - 16>> ELSE NewLine
<1>1. (33 * l + r + 1 - 1) \div 33 = l /\ (33 * l + r + 1 - 1) % 33 = r
  OBVIOUS
<1> QED
  BY <1>1 DEF Cell

\* The first round prints the first byte in hex.
LEMMA FirstRow ==
  ASSUME NEW from \in Int
  PROVE  Rows(from, 1, Full(from, 0))
<1>1. Hex(from + 0) = <<"hex", from>> /\ Hex(from + 0) \in Token
  BY DEF Hex, Token
<1>2. Full(from, 0) = <<>> \o <<Hex(from + 0)>>
  BY DEF Full
<1>3. <<Hex(from + 0)>> \in Seq(Token) /\ <<>> \in Seq(Token) /\ Len(<<>>) = 0
  BY <1>1
<1>4. Full(from, 0) = <<Hex(from + 0)>>
  BY ONLY <1>2, <1>3
<1>5. Full(from, 0) \in Seq(Token) /\ Len(Full(from, 0)) = 1 /\ Full(from, 0)[1] = <<"hex", from>>
  BY ONLY <1>1, <1>4, OneShape
<1>6. Cell(from, 1) = <<"hex", from>>
  <2>1. Cell(from, 33 * 0 + 0 + 1) = <<"hex", from + 16 * 0 + 0>>
    BY ONLY CellAt, from \in Int, 0 \in Nat, 0 \in 0..32, 0 < 16
  <2> QED
    BY <2>1
<1>7. 1 + 17 * ((1 - 1) \div 16) = 1
  OBVIOUS
<1> QED
  BY <1>5, <1>6, <1>7 DEF Rows

\* Each round goes on from where the one before it stopped: at a multiple of
\* 16 it ends the full line first.
LEMMA NextRow ==
  ASSUME NEW from \in Int, NEW i \in Nat \ {0}, NEW s, Rows(from, i, s)
  PROVE  Full(from, i) \in Seq(Token) /\ Rows(from, i + 1, s \o Full(from, i))
<1> DEFINE u == s \o Full(from, i)
<1>1. PICK q \in Nat, r \in 0..15 : i = 16 * q + r /\ i \div 16 = q /\ i % 16 = r
  <2>1. i \div 16 \in Nat /\ i % 16 \in 0..15 /\ i = 16 * (i \div 16) + (i % 16)
    OBVIOUS
  <2> QED
    BY <2>1
<1>2. /\ Hex(from + i) = <<"hex", from + i>> /\ Hex(from + i) \in Token
      /\ <<Hex(from + i)>> \in Seq(Token) /\ Len(<<Hex(from + i)>>) = 1
      /\ <<Hex(from + i)>>[1] = <<"hex", from + i>>
  BY DEF Hex, Token
<1>3. s \in Seq(Token) /\ \A p \in 1..Len(s) : s[p] = Cell(from, p)
  BY DEF Rows
<1>4. Cell(from, 33 * q + r + 1) = <<"hex", from + 16 * q + r>>
  BY ONLY <1>1, CellAt, from \in Int, r \in 0..32, r < 16
<1>5. (i + 1 - 1) \div 16 = q
  BY ONLY <1>1, i + 1 - 1 = i
<1>0. u = s \o Full(from, i)
  OBVIOUS
<1> HIDE DEF u
<1>6. CASE r # 0
  <2>1. (i - 1) \div 16 = q
    BY ONLY <1>1, <1>6
  <2>2. Len(s) = 33 * q + r /\ Len(s) \in Nat
    BY ONLY <2>1, <1>1, Rows(from, i, s) DEF Rows
  <2>3. Full(from, i) = <<>> \o <<Hex(from + i)>>
    BY ONLY <1>6, <1>1 DEF Full, Columns
  <2>4. Full(from, i) = <<Hex(from + i)>>
    BY ONLY <2>3, <1>2, <<>> \in Seq(Token), Len(<<>>) = 0
  <2>5. u \in Seq(Token) /\ Len(u) = Len(s) + 1
    BY ONLY <1>0, <2>4, <1>2, <1>3, ConcatIs
  <2>6. ASSUME NEW p \in 1..Len(s) + 1
        PROVE  u[p] = Cell(from, p)
    <3>1. CASE p \in 1..Len(s)
      <4>1. u[p] = s[p]
        BY ONLY <1>0, <3>1, <2>4, <1>2, <1>3, ConcatIs
      <4> QED
        BY <4>1, <3>1, <1>3
    <3>2. CASE p = Len(s) + 1
      <4>1. p \in Len(s) + 1..Len(s) + Len(Full(from, i)) /\ p - Len(s) = 1
        BY ONLY <3>2, <2>2, <2>4, <1>2, <1>1
      <4>2. u[p] = Full(from, i)[p - Len(s)]
        BY ONLY <1>0, <4>1, <2>4, <1>2, <1>3, ConcatIs
      <4>3. u[p] = <<"hex", from + i>>
        BY ONLY <4>1, <4>2, <2>4, <1>2
      <4>4. from + i = from + 16 * q + r /\ p = 33 * q + r + 1
        BY <1>1, <2>2, <3>2
      <4> QED
        BY ONLY <4>3, <4>4, <1>4
    <3> QED
      BY ONLY <3>1, <3>2, <2>2, p \in 1..Len(s) + 1
  <2>7. Len(s) + 1 = i + 1 + 17 * ((i + 1 - 1) \div 16)
    BY <2>2, <1>5, <1>1
  <2>8. Full(from, i) \in Seq(Token)
    BY <2>4, <1>2
  <2> QED
    BY ONLY <1>0, <2>5, <2>6, <2>7, <2>8 DEF Rows
<1>7. CASE r = 0
  <2> DEFINE t == Append(Text(from + i - Columns, from + i), NewLine)
             h == <<Hex(from + i)>>
  <2>1. q >= 1 /\ (i - 1) \div 16 = q - 1
    BY ONLY <1>1, <1>7, i \in Nat \ {0}
  <2>2. Len(s) = 33 * q - 17 /\ Len(s) \in Nat
    BY ONLY <2>1, <1>1, <1>7, Rows(from, i, s) DEF Rows
  <2>3. Full(from, i) = t \o h
    BY ONLY <1>7, <1>1, i \in Nat \ {0} DEF Full, Columns
  <2> HIDE DEF t, h
  <2>4. /\ t \in Seq(Token) /\ Len(t) = 17 /\ t[17] = NewLine
        /\ \A p \in 1..16 : t[p] = <<"text", from + i - 16 + p - 1>>
    <3>1. PICK a \in Int, b \in Int, n \in Nat :
                 /\ a = from + i - 16 /\ from + i - Columns = a
                 /\ from + i = b /\ b = a + n /\ n = 16
      BY DEF Columns
    <3>2. t = TextLine(a, b)
      BY ONLY <3>1 DEF t, TextLine
    <3>3. b = a + n
      BY <3>1
    <3>5. n + 1 = 17 /\ a = from + i - 16
      BY <3>1
    <3>4. /\ TextLine(a, b) \in Seq(Token)
          /\ Len(TextLine(a, b)) = n + 1
          /\ \A p \in 1..n : TextLine(a, b)[p] = <<"text", a + p - 1>>
          /\ TextLine(a, b)[n + 1] = NewLine
      BY ONLY <3>3, TextShape, a \in Int, b \in Int, n \in Nat
    <3> QED
      BY ONLY <3>1, <3>2, <3>4, <3>5
  <2>5. h \in Seq(Token) /\ Len(h) = 1 /\ h[1] = <<"hex", from + i>>
    BY <1>2 DEF h
  <2>10. t \in Seq(Token) /\ h \in Seq(Token)
    BY ONLY <2>4, <2>5
  <2> DEFINE w == Full(from, i)
  <2>11. w = t \o h
    BY ONLY <2>3
  <2>12. u = s \o w
    BY ONLY <1>0
  <2> HIDE DEF w
  <2>13. w \in Seq(Token) /\ Len(w) = Len(t) + Len(h)
    BY ONLY <2>10, <2>11, ConcatIs
  <2>14. Len(w) = 18
    BY ONLY <2>13, <2>4, <2>5
  <2>15. ASSUME NEW p \in 1..17
         PROVE  w[p] = t[p]
    <3>1. p \in 1..Len(t)
      BY <2>4
    <3> QED
      BY ONLY <2>10, <2>11, <3>1, ConcatLeft
  <2>16. w[18] = <<"hex", from + i>>
    <3>1. 1 \in 1..Len(h) /\ Len(t) + 1 = 18
      BY <2>4, <2>5
    <3>2. w[Len(t) + 1] = h[1]
      BY ONLY <2>10, <2>11, <3>1, ConcatRight
    <3> QED
      BY ONLY <3>1, <3>2, <2>5
  <2>17. s \in Seq(Token) /\ w \in Seq(Token)
    BY ONLY <1>3, <2>13
  <2>7. u \in Seq(Token) /\ Len(u) = Len(s) + Len(w)
    BY ONLY <2>12, <2>17, ConcatIs
  <2>18. ASSUME NEW p \in 1..18
         PROVE  u[Len(s) + p] = w[p]
    <3>1. p \in 1..Len(w)
      BY <2>14
    <3> QED
      BY ONLY <2>12, <2>17, <3>1, ConcatRight
  <2>8. ASSUME NEW p \in 1..Len(s) + 18
        PROVE  u[p] = Cell(from, p)
    <3>1. CASE p \in 1..Len(s)
      <4>1. u[p] = s[p]
        BY ONLY <2>12, <2>17, <3>1, ConcatLeft
      <4> QED
        BY <4>1, <3>1, <1>3
    <3>2. CASE p > Len(s) /\ p <= Len(s) + 16
      <4>1. PICK k \in 1..16 : p = Len(s) + k
        <5>1. p - Len(s) \in 1..16 /\ p = Len(s) + (p - Len(s))
          BY <3>2, <2>2
        <5> QED
          BY <5>1
      <4>2. u[p] = <<"text", from + i - 16 + k - 1>>
        <5>1. k \in 1..17 /\ k \in 1..18
          OBVIOUS
        <5>2. u[Len(s) + k] = w[k]
          BY ONLY <5>1, <2>18
        <5>3. w[k] = t[k]
          BY ONLY <5>1, <2>15
        <5> QED
          BY ONLY <4>1, <5>2, <5>3, <2>4
      <4>3. PICK c \in 0..32 : c = 15 + k
        OBVIOUS
      <4>4. p = 33 * (q - 1) + c + 1 /\ q - 1 \in Nat
        BY <4>1, <4>3, <2>1, <2>2, <1>1
      <4>5. ~(c < 16) /\ c < 32
        BY <4>1, <4>3
      <4>6. Cell(from, 33 * (q - 1) + c + 1) = <<"text", from + 16 * (q - 1) + c - 16>>
        BY ONLY <4>4, <4>5, CellAt, from \in Int, c \in 0..32
      <4>7. from + 16 * (q - 1) + c - 16 = from + i - 16 + k - 1
        BY <4>1, <4>3, <1>1, <1>7, <2>2
      <4> QED
        BY ONLY <4>2, <4>4, <4>6, <4>7
    <3>3. CASE p = Len(s) + 17
      <4>1. u[Len(s) + 17] = w[17]
        BY ONLY <2>18, 17 \in 1..18
      <4>2. w[17] = t[17]
        BY ONLY <2>15, 17 \in 1..17
      <4>3. p = 33 * (q - 1) + 32 + 1 /\ q - 1 \in Nat
        BY <3>3, <2>1, <2>2, <1>1
      <4>4. Cell(from, 33 * (q - 1) + 32 + 1) = NewLine
        BY ONLY <4>3, CellAt, from \in Int, 32 \in 0..32, ~(32 < 16), ~(32 < 32)
      <4> QED
        BY ONLY <3>3, <4>1, <4>2, <2>4, <4>3, <4>4
    <3>4. CASE p = Len(s) + 18
      <4>1. u[Len(s) + 18] = w[18]
        BY ONLY <2>18, 18 \in 1..18
      <4>3. p = 33 * q + r + 1 /\ from + i = from + 16 * q + r
        BY <3>4, <2>2, <1>1, <1>7
      <4> QED
        BY ONLY <3>4, <4>1, <2>16, <4>3, <1>4
    <3> QED
      BY ONLY <3>1, <3>2, <3>3, <3>4, <2>2, p \in 1..Len(s) + 18
  <2>9. Len(s) + 18 = i + 1 + 17 * ((i + 1 - 1) \div 16)
    BY <2>2, <1>5, <1>1, <1>7
  <2> QED
    <3>1. Rows(from, i + 1, u)
      BY ONLY <2>7, <2>14, <2>8, <2>9 DEF Rows
    <3> QED
      BY ONLY <1>0, <3>1, <2>17 DEF w
<1> QED
  BY <1>0, <1>6, <1>7
-----------------------------------------------------------------------------
\* What the last round adds: gaps, text and a line end.
Rest(from, Size, i) ==
  IF i = Size - 1
  THEN Spaces(Columns - 1 - (i % Columns))
         \o Append(Text(from + i - (i % Columns), from + i + 1), NewLine)
  ELSE <<>>

\* A round is the two.
LEMMA PrintByteParts ==
  ASSUME NEW from, NEW Size, NEW i
  PROVE  PrintByte(from, Size, i) = Full(from, i) \o Rest(from, Size, i)
BY DEF PrintByte, Full, Rest

\* The last round of a dump of q full lines and w more bytes adds 17 tokens.
IsRest(v, from, q, w) ==
  /\ v \in Seq(Token) /\ Len(v) = 17
  /\ \A p \in 1..16 - w : v[p] = <<"   ">>
  /\ \A p \in 17 - w..16 : v[p] = <<"text", from + 16 * q + w + p - 17>>
  /\ v[17] = NewLine

\* The gaps, then the text of the last bytes.
LEMMA RestShape ==
  ASSUME NEW from \in Int, NEW q \in Nat, NEW w \in 1..16, NEW Size, Size = 16 * q + w,
         NEW v, v = Rest(from, Size, Size - 1)
  PROVE  IsRest(v, from, q, w)
<1>1. (Size - 1) % 16 = w - 1 /\ Size \in Nat
  <2>1. Size - 1 = 16 * q + (w - 1) /\ w - 1 \in 0..15
    OBVIOUS
  <2>2. (16 * q + (w - 1)) % 16 = w - 1
    OBVIOUS
  <2> QED
    BY <2>1, <2>2
<1>2. PICK a \in Int, b \in Int : /\ a = from + 16 * q /\ b = from + 16 * q + w
                                 /\ a = from + (Size - 1) - (w - 1) /\ b = from + (Size - 1) + 1
  OBVIOUS
<1>20. PICK k \in Nat : k = w /\ k >= 1 /\ k <= 16
  OBVIOUS
<1>21. b = a + k
  BY <1>2, <1>20
<1>3. PICK t : t = TextLine(a, b)
  OBVIOUS
<1>4. /\ TextLine(a, b) \in Seq(Token)
      /\ Len(TextLine(a, b)) = k + 1
      /\ \A p \in 1..k : TextLine(a, b)[p] = <<"text", a + p - 1>>
      /\ TextLine(a, b)[k + 1] = NewLine
  BY ONLY <1>21, TextShape, a \in Int, b \in Int, k \in Nat
<1>22. t \in Seq(Token) /\ Len(t) = k + 1 /\ t[k + 1] = NewLine
  BY ONLY <1>3, <1>4
<1>23. ASSUME NEW p \in 1..k
       PROVE  t[p] = <<"text", a + p - 1>>
  BY ONLY <1>3, <1>4, p \in 1..k
<1>5. PICK n \in Nat : n = 15 - (w - 1) /\ n = 16 - w
  OBVIOUS
<1>6. PICK s : s = Spaces(n)
  OBVIOUS
<1>7. s \in Seq(Token) /\ Len(s) = n /\ \A p \in 1..n : s[p] = <<"   ">>
  BY ONLY <1>6, SpacesShape, n \in Nat
<1>8. v = s \o t
  <2>1. v = Spaces(16 - 1 - ((Size - 1) % 16))
              \o TextLine(from + (Size - 1) - ((Size - 1) % 16), from + (Size - 1) + 1)
    BY DEF Rest, Columns, TextLine
  <2>2. /\ 16 - 1 - ((Size - 1) % 16) = n /\ from + (Size - 1) - ((Size - 1) % 16) = a
        /\ from + (Size - 1) + 1 = b
    BY <1>1, <1>2, <1>5
  <2> QED
    BY ONLY <2>1, <2>2, <1>3, <1>6
<1>24. s \in Seq(Token) /\ t \in Seq(Token)
  BY ONLY <1>7, <1>22
<1>25. n + (k + 1) = 17 /\ n \in Nat /\ k \in Nat
  BY <1>5, <1>20
<1>9. v \in Seq(Token) /\ Len(v) = Len(s) + Len(t)
  BY ONLY <1>8, <1>24, ConcatIs
<1>10. Len(v) = 17
  BY ONLY <1>9, <1>7, <1>22, <1>25
<1>26. ASSUME NEW p \in 1..16 - w
       PROVE  v[p] = <<"   ">>
  <2>1. p \in 1..Len(s) /\ p \in 1..n
    BY <1>5, <1>7
  <2>2. v[p] = s[p]
    BY ONLY <2>1, <1>8, <1>24, ConcatLeft
  <2> QED
    BY ONLY <2>1, <2>2, <1>7
<1>27. ASSUME NEW p \in 1..k + 1
       PROVE  v[n + p] = t[p]
  <2>1. p \in 1..Len(t)
    BY <1>22
  <2>2. v[Len(s) + p] = t[p]
    BY ONLY <2>1, <1>8, <1>24, ConcatRight
  <2> QED
    BY ONLY <2>2, <1>7
<1>11. ASSUME NEW p \in 17 - w..16
       PROVE  v[p] = <<"text", from + 16 * q + w + p - 17>>
  <2>1. PICK c \in 1..k : p = n + c /\ a + c - 1 = from + 16 * q + w + p - 17
    <3>1. p - n \in 1..k /\ p = n + (p - n) /\ a + (p - n) - 1 = from + 16 * q + w + p - 17
      BY <1>2, <1>5, <1>20
    <3> QED
      BY <3>1
  <2>2. c \in 1..k + 1
    BY <1>20
  <2>3. v[n + c] = t[c]
    BY ONLY <2>2, <1>27
  <2>4. t[c] = <<"text", a + c - 1>>
    BY ONLY <1>23, c \in 1..k
  <2> QED
    BY ONLY <2>1, <2>3, <2>4
<1>12. v[17] = NewLine
  <2>1. k + 1 \in 1..k + 1
    BY <1>20
  <2>2. v[n + (k + 1)] = t[k + 1]
    BY ONLY <2>1, <1>27
  <2> QED
    BY ONLY <2>2, <1>25, <1>22
<1> QED
  BY ONLY <1>9, <1>10, <1>26, <1>11, <1>12 DEF IsRest

\* PrintData is the rounds' output, by induction over the rounds.
LEMMA DumpIsRows ==
  ASSUME NEW from \in Int, NEW Size \in Nat \ {0}
  PROVE  \E s : /\ Rows(from, Size, s)
                /\ PrintData(from, Size) = s \o Rest(from, Size, Size - 1)
<1> DEFINE seqs == [i \in 1..Size |-> PrintByte(from, Size, i - 1)]
<1>1. Len(seqs) = Size /\ Len(seqs) \in Nat /\ Len(seqs) # 0
  OBVIOUS
<1>2. PICK g : g = FlattenBody(seqs, Size, g) /\ PrintData(from, Size) = g[Size]
  <2>1. PrintData(from, Size) = FlattenSeq(seqs)
    BY DEF PrintData
  <2> HIDE DEF seqs
  <2> QED
    BY ONLY <1>1, <2>1, FlattenIsFold
<1>3. ASSUME NEW i \in 1..Size
      PROVE  g[i] = IF i = 1 THEN PrintByte(from, Size, 0)
                             ELSE g[i - 1] \o PrintByte(from, Size, i - 1)
  <2>1. seqs[i] = PrintByte(from, Size, i - 1)
    OBVIOUS
  <2> HIDE DEF seqs
  <2>2. g[i] = IF i = 1 THEN seqs[i] ELSE g[i - 1] \o seqs[i]
    BY ONLY <1>2, i \in 1..Size DEF FlattenBody
  <2> QED
    BY ONLY <2>1, <2>2, 1 - 1 = 0
<1> HIDE DEF seqs
<1>4. ASSUME NEW i \in Nat, i + 1 < Size, Full(from, i) \in Seq(Token)
      PROVE  PrintByte(from, Size, i) = Full(from, i)
  <2>1. Rest(from, Size, i) = <<>>
    BY <1>4 DEF Rest
  <2>2. PrintByte(from, Size, i) = Full(from, i) \o <<>>
    BY ONLY <2>1, PrintByteParts
  <2>3. PICK f : f = Full(from, i)
    OBVIOUS
  <2>4. f \o <<>> = f
    BY ONLY <1>4, <2>3
  <2> QED
    BY ONLY <2>2, <2>3, <2>4
<1>5. Rows(from, 1, Full(from, 0)) /\ Full(from, 0) \in Seq(Token)
  BY FirstRow DEF Rows
<1> DEFINE T == {n \in Nat : n + 1 \in 1..Size - 1 => Rows(from, n + 1, g[n + 1])}
<1>6. 0 \in T
  <2>1. ASSUME 0 + 1 \in 1..Size - 1 PROVE Rows(from, 0 + 1, g[0 + 1])
    <3>1. 0 \in Nat /\ 0 + 1 < Size /\ 1 \in 1..Size /\ 0 + 1 = 1
      BY <2>1
    <3>2. g[1] = PrintByte(from, Size, 0)
      BY ONLY <1>3, <3>1
    <3>3. PrintByte(from, Size, 0) = Full(from, 0)
      BY ONLY <1>4, <1>5, <3>1
    <3> QED
      BY ONLY <1>5, <3>1, <3>2, <3>3
  <2> QED
    BY <2>1
<1>7. ASSUME NEW n \in T PROVE n + 1 \in T
  <2>1. ASSUME n + 1 + 1 \in 1..Size - 1 PROVE Rows(from, n + 1 + 1, g[n + 1 + 1])
    <3>1. PICK i \in Nat \ {0} : i = n + 1
      OBVIOUS
    <3>2. i \in 1..Size - 1 /\ i + 1 < Size /\ i + 1 \in 1..Size /\ i + 1 # 1 /\ i + 1 - 1 = i
      BY <2>1, <3>1
    <3>3. Rows(from, i, g[i])
      BY <3>1, <3>2
    <3>4. Full(from, i) \in Seq(Token) /\ Rows(from, i + 1, g[i] \o Full(from, i))
      BY ONLY <3>3, NextRow, from \in Int, i \in Nat \ {0}
    <3>5. PrintByte(from, Size, i) = Full(from, i)
      BY ONLY <1>4, <3>2, <3>4, i \in Nat \ {0}
    <3>6. g[i + 1] = g[i] \o PrintByte(from, Size, i)
      <4>1. PICK j \in 1..Size : j = i + 1 /\ j # 1 /\ j - 1 = i
        BY <3>2
      <4>2. g[j] = IF j = 1 THEN PrintByte(from, Size, 0)
                             ELSE g[j - 1] \o PrintByte(from, Size, j - 1)
        BY ONLY <1>3, j \in 1..Size
      <4> QED
        BY ONLY <4>1, <4>2
    <3> QED
      BY ONLY <3>1, <3>4, <3>5, <3>6
  <2> QED
    BY <2>1
<1>8. T = Nat
  <2> HIDE DEF T
  <2>1. T \in SUBSET Nat
    BY DEF T
  <2> QED
    BY ONLY <1>6, <1>7, <2>1, SetInduction
<1>9. CASE Size = 1
  <2>1. g[1] = PrintByte(from, Size, 0) /\ 1 - 1 = 0
    BY <1>3, <1>9
  <2>2. PrintByte(from, Size, 0) = Full(from, 0) \o Rest(from, Size, 0)
    BY ONLY PrintByteParts
  <2> QED
    BY ONLY <1>2, <1>5, <1>9, <2>1, <2>2
<1>10. CASE Size # 1
  <2>1. PICK i \in Nat \ {0} : i = Size - 1 /\ i + 1 = Size
    BY <1>10
  <2>2. /\ i - 1 \in Nat /\ i - 1 + 1 = i /\ i \in 1..Size - 1
        /\ i + 1 \in 1..Size /\ i + 1 # 1 /\ i + 1 - 1 = i
    BY <2>1
  <2>3. Rows(from, i, g[i])
    BY <1>8, <2>2
  <2>4. Full(from, i) \in Seq(Token) /\ Rows(from, i + 1, g[i] \o Full(from, i))
    BY ONLY <2>3, NextRow, from \in Int, i \in Nat \ {0}
  <2>5. g[i + 1] = g[i] \o PrintByte(from, Size, i)
    <3>1. PICK j \in 1..Size : j = i + 1 /\ j # 1 /\ j - 1 = i
      BY <2>2
    <3>2. g[j] = IF j = 1 THEN PrintByte(from, Size, 0)
                             ELSE g[j - 1] \o PrintByte(from, Size, j - 1)
      BY ONLY <1>3, j \in 1..Size
    <3> QED
      BY ONLY <3>1, <3>2
  <2>6. PrintByte(from, Size, i) = Full(from, i) \o Rest(from, Size, i)
    BY ONLY PrintByteParts
  <2>7. PICK a, b, c : a = g[i] /\ b = Full(from, i) /\ c = Rest(from, Size, i)
    OBVIOUS
  <2>8. a \in Seq(Token) /\ b \in Seq(Token)
    BY ONLY <2>3, <2>4, <2>7 DEF Rows
  <2>9. c \in Seq(Token)
    <3>1. PICK q \in Nat, w \in 1..16 : Size = 16 * q + w
      <4>1. (Size - 1) \div 16 \in Nat /\ ((Size - 1) % 16) + 1 \in 1..16
            /\ Size - 1 = 16 * ((Size - 1) \div 16) + ((Size - 1) % 16)
        OBVIOUS
      <4>2. Size = 16 * ((Size - 1) \div 16) + (((Size - 1) % 16) + 1)
        BY <4>1
      <4> QED
        BY ONLY <4>1, <4>2
    <3>2. c = Rest(from, Size, Size - 1)
      BY ONLY <2>1, <2>7
    <3> QED
      BY ONLY <3>1, <3>2, RestShape, from \in Int DEF IsRest
  <2>10. a \o (b \o c) = (a \o b) \o c
    BY ONLY <2>8, <2>9, ConcatAssoc
  <2> QED
    BY ONLY <1>2, <2>1, <2>4, <2>5, <2>6, <2>7, <2>10
<1> QED
  BY <1>9, <1>10
-----------------------------------------------------------------------------
\* A dump of q full lines and a last one of w bytes, place by place.
IsDump(d, from, q, w) ==
  /\ d \in Seq(Token) /\ Len(d) = 33 * q + 17 + w
  /\ \A p \in 1..33 * q + w : d[p] = Cell(from, p)
  /\ \A p \in 33 * q + w + 1..33 * q + 16 : d[p] = <<"   ">>
  /\ \A p \in 33 * q + 17..33 * q + 16 + w : d[p] = <<"text", from + 16 * q + p - 33 * q - 17>>
  /\ d[33 * q + 17 + w] = NewLine

\* PrintData of 16 q + w bytes is such a dump.
LEMMA DumpShape ==
  ASSUME NEW from \in Int, NEW q \in Nat, NEW w \in 1..16, NEW Size, Size = 16 * q + w
  PROVE  IsDump(PrintData(from, Size), from, q, w)
<1>1. Size \in Nat \ {0} /\ Size + 17 * ((Size - 1) \div 16) = 33 * q + w
  <2>1. Size - 1 = 16 * q + (w - 1) /\ w - 1 \in 0..15 /\ Size \in Nat \ {0}
    OBVIOUS
  <2>2. (16 * q + (w - 1)) \div 16 = q
    OBVIOUS
  <2> QED
    BY <2>1, <2>2
<1>2. PICK s : Rows(from, Size, s) /\ PrintData(from, Size) = s \o Rest(from, Size, Size - 1)
  BY ONLY <1>1, DumpIsRows, from \in Int
<1>3. PICK v : v = Rest(from, Size, Size - 1)
  OBVIOUS
<1>4. /\ v \in Seq(Token) /\ Len(v) = 17
      /\ \A p \in 1..16 - w : v[p] = <<"   ">>
      /\ \A p \in 17 - w..16 : v[p] = <<"text", from + 16 * q + w + p - 17>>
      /\ v[17] = NewLine
  <2>1. IsRest(v, from, q, w)
    BY ONLY <1>3, RestShape, from \in Int, q \in Nat, w \in 1..16, Size = 16 * q + w
  <2> QED
    BY ONLY <2>1 DEF IsRest
<1>5. PICK n \in Nat : n = 33 * q + w
  OBVIOUS
<1>6. s \in Seq(Token) /\ Len(s) = n /\ \A p \in 1..n : s[p] = Cell(from, p)
  BY ONLY <1>1, <1>2, <1>5 DEF Rows
<1>7. PICK d : d = PrintData(from, Size) /\ d = s \o v
  BY <1>2, <1>3
<1>13. s \in Seq(Token) /\ v \in Seq(Token)
  BY ONLY <1>4, <1>6
<1>14. d = s \o v
  BY ONLY <1>7
<1>8. d \in Seq(Token) /\ Len(d) = Len(s) + Len(v)
  BY ONLY <1>13, <1>14, ConcatIs
<1>9. Len(d) = 33 * q + 17 + w
  <2>1. Len(v) = 17
    BY ONLY <1>4
  <2>2. Len(s) = n
    BY ONLY <1>6
  <2> QED
    BY ONLY <2>1, <2>2, <1>5, <1>8, q \in Nat, w \in 1..16
<1>15. ASSUME NEW p \in 1..33 * q + w
       PROVE  d[p] = Cell(from, p)
  <2>1. p \in 1..n /\ p \in 1..Len(s)
    BY <1>5, <1>6
  <2>2. d[p] = s[p]
    BY ONLY <2>1, <1>13, <1>14, ConcatLeft
  <2> QED
    BY ONLY <2>1, <2>2, <1>6
<1>16. ASSUME NEW c \in 1..17
       PROVE  d[n + c] = v[c]
  <2>1. c \in 1..Len(v)
    BY <1>4
  <2>2. d[Len(s) + c] = v[c]
    BY ONLY <2>1, <1>13, <1>14, ConcatRight
  <2> QED
    BY ONLY <2>2, <1>6
<1>17. ASSUME NEW p \in 33 * q + w + 1..33 * q + 17 + w
       PROVE  \E c \in 1..17 : p = n + c /\ c = p - n
  <2>1. p - n \in 1..17 /\ p = n + (p - n)
    BY <1>5
  <2> QED
    BY ONLY <2>1
<1>10. ASSUME NEW p \in 33 * q + w + 1..33 * q + 16 PROVE d[p] = <<"   ">>
  <2>1. p \in 33 * q + w + 1..33 * q + 17 + w
    OBVIOUS
  <2>2. PICK c \in 1..17 : p = n + c /\ c = p - n
    BY ONLY <2>1, <1>17
  <2>3. c \in 1..16 - w
    BY <1>5, <2>2
  <2>4. v[c] = <<"   ">>
    BY ONLY <1>4, <2>3
  <2>5. d[n + c] = v[c]
    BY ONLY <1>16, c \in 1..17
  <2> QED
    BY ONLY <2>2, <2>4, <2>5
<1>11. ASSUME NEW p \in 33 * q + 17..33 * q + 16 + w
       PROVE  d[p] = <<"text", from + 16 * q + p - 33 * q - 17>>
  <2>1. p \in 33 * q + w + 1..33 * q + 17 + w
    OBVIOUS
  <2>2. PICK c \in 1..17 : p = n + c /\ c = p - n
    BY ONLY <2>1, <1>17
  <2>3. c \in 17 - w..16 /\ from + 16 * q + w + c - 17 = from + 16 * q + p - 33 * q - 17
    BY <1>5, <2>2
  <2>4. v[c] = <<"text", from + 16 * q + w + c - 17>>
    BY ONLY <1>4, <2>3
  <2>5. d[n + c] = v[c]
    BY ONLY <1>16, c \in 1..17
  <2> QED
    BY ONLY <2>2, <2>3, <2>4, <2>5
<1>12. d[33 * q + 17 + w] = NewLine
  <2>1. 33 * q + 17 + w = n + 17
    BY <1>5
  <2>2. d[n + 17] = v[17]
    BY ONLY <1>16, 17 \in 1..17
  <2> QED
    BY ONLY <2>1, <2>2, <1>4
<1> QED
  BY ONLY <1>7, <1>8, <1>9, <1>15, <1>10, <1>11, <1>12 DEF IsDump

\* Its length.
LEMMA DumpLen ==
  ASSUME NEW from \in Int, NEW q \in Nat, NEW w \in 1..16, NEW d, IsDump(d, from, q, w)
  PROVE  d \in Seq(Token) /\ Len(d) = 33 * q + 17 + w /\ DOMAIN d = 1..33 * q + 17 + w
<1>1. d \in Seq(Token)
  BY ONLY IsDump(d, from, q, w) DEF IsDump
<1>2. Len(d) = 33 * q + 17 + w
  BY ONLY IsDump(d, from, q, w) DEF IsDump
<1>3. DOMAIN d = 1..Len(d)
  BY ONLY <1>1, SeqShape
<1> QED
  BY ONLY <1>1, <1>2, <1>3

\* Place p shows what stands at place r of line l.
Shows(d, p, from, l, r) ==
  d[p] = IF r < 16 THEN <<"hex", from + 16 * l + r>>
         ELSE IF r < 32 THEN <<"text", from + 16 * l + r - 16>> ELSE NewLine

\* Every place of a full line, and of the hex of the last one.
LEMMA DumpAt ==
  ASSUME NEW from \in Int, NEW q \in Nat, NEW w \in 1..16, NEW d, IsDump(d, from, q, w),
         NEW l \in Nat, NEW r \in 0..32, NEW p \in 1..33 * q + w, p = 33 * l + r + 1
  PROVE  Shows(d, p, from, l, r)
<1>1. d[p] = Cell(from, p)
  BY ONLY p \in 1..33 * q + w, IsDump(d, from, q, w) DEF IsDump
<1>2. Cell(from, 33 * l + r + 1) = IF r < 16 THEN <<"hex", from + 16 * l + r>>
                ELSE IF r < 32 THEN <<"text", from + 16 * l + r - 16>> ELSE NewLine
  BY ONLY CellAt, from \in Int, l \in Nat, r \in 0..32
<1> QED
  BY ONLY <1>1, <1>2, p = 33 * l + r + 1 DEF Shows

\* Its line ends: one every 33 places, and the last.
EndsOf(d, q, w) == \A p : p \in Ends(d) <=> \/ \E l \in 0..q : p = 33 * l
                                            \/ p = 33 * q + 17 + w

\* Nothing else is a line end.
LEMMA DumpEnds ==
  ASSUME NEW from \in Int, NEW q \in Nat, NEW w \in 1..16, NEW d, IsDump(d, from, q, w)
  PROVE  EndsOf(d, q, w)
<1>1. d \in Seq(Token) /\ Len(d) = 33 * q + 17 + w /\ DOMAIN d = 1..33 * q + 17 + w
  BY ONLY DumpLen, from \in Int, q \in Nat, w \in 1..16, IsDump(d, from, q, w)
<1>2. ASSUME NEW p \in 1..33 * q + w
      PROVE  d[p] = NewLine <=> \E l \in 0..q : p = 33 * l
  <2>1. PICK l \in Nat, r \in 0..32 : p = 33 * l + r + 1
    <3>1. (p - 1) \div 33 \in Nat /\ (p - 1) % 33 \in 0..32
          /\ p - 1 = 33 * ((p - 1) \div 33) + ((p - 1) % 33)
      OBVIOUS
    <3>2. p = 33 * ((p - 1) \div 33) + ((p - 1) % 33) + 1
      BY <3>1
    <3> QED
      BY ONLY <3>1, <3>2
  <2>2. d[p] = IF r < 16 THEN <<"hex", from + 16 * l + r>>
               ELSE IF r < 32 THEN <<"text", from + 16 * l + r - 16>> ELSE NewLine
    <3>1. Shows(d, p, from, l, r)
      BY ONLY <2>1, DumpAt, from \in Int, q \in Nat, w \in 1..16, IsDump(d, from, q, w),
              p \in 1..33 * q + w
    <3> QED
      BY ONLY <3>1 DEF Shows
  <2>3. d[p] = NewLine <=> r = 32
    BY ONLY <2>2, r \in 0..32 DEF NewLine
  <2>4. ASSUME r = 32 PROVE l + 1 \in 0..q /\ p = 33 * (l + 1)
    BY ONLY <2>1, <2>4, q \in Nat, w \in 1..16, p \in 1..33 * q + w
  <2>5. ASSUME NEW k \in 0..q, p = 33 * k PROVE r = 32
    BY ONLY <2>1, <2>5
  <2> QED
    BY ONLY <2>3, <2>4, <2>5
<1>3. ASSUME NEW p \in 33 * q + w + 1..33 * q + 16 + w
      PROVE  d[p] # NewLine /\ \A l \in 0..q : p # 33 * l
  <2>1. d[p] = <<"   ">> \/ d[p] = <<"text", from + 16 * q + p - 33 * q - 17>>
    <3>1. p \in 33 * q + w + 1..33 * q + 16 \/ p \in 33 * q + 17..33 * q + 16 + w
      OBVIOUS
    <3> QED
      BY ONLY <3>1, IsDump(d, from, q, w) DEF IsDump
  <2>2. d[p] # NewLine
    <3>1. CASE d[p] = <<"   ">>
      BY ONLY <3>1, GapIsOther
    <3>2. CASE d[p] = <<"text", from + 16 * q + p - 33 * q - 17>>
      BY ONLY <3>2 DEF NewLine
    <3> QED
      BY ONLY <2>1, <3>1, <3>2
  <2> QED
    BY <2>2
<1>4. d[33 * q + 17 + w] = NewLine
  BY DEF IsDump
<1>5. ASSUME NEW p, p \in Ends(d)
      PROVE  (\E l \in 0..q : p = 33 * l) \/ p = 33 * q + 17 + w
  <2>1. p = 0 \/ (p \in 1..33 * q + 17 + w /\ d[p] = NewLine)
    BY <1>1, <1>5 DEF Ends
  <2>2. CASE p = 0
    <3>1. 0 \in 0..q /\ 0 = 33 * 0
      OBVIOUS
    <3> QED
      BY ONLY <2>2, <3>1
  <2>3. CASE p \in 1..33 * q + 17 + w /\ d[p] = NewLine
    <3>1. p \in 1..33 * q + w \/ p \in 33 * q + w + 1..33 * q + 16 + w \/ p = 33 * q + 17 + w
      BY ONLY <2>3, q \in Nat, w \in 1..16
    <3> QED
      BY ONLY <2>3, <3>1, <1>2, <1>3
  <2> QED
    BY <2>1, <2>2, <2>3
<1>6. ASSUME NEW l \in 0..q PROVE 33 * l \in Ends(d)
  <2>1. CASE l = 0
    BY <2>1 DEF Ends
  <2>2. CASE l # 0
    <3>1. PICK p \in 1..33 * q + w : p = 33 * l
      BY <2>2
    <3>2. d[p] = NewLine
      BY ONLY <3>1, <1>2, l \in 0..q
    <3>3. p \in DOMAIN d
      BY ONLY <1>1, <3>1, q \in Nat, w \in 1..16
    <3> QED
      BY ONLY <3>1, <3>2, <3>3 DEF Ends
  <2> QED
    BY <2>1, <2>2
<1>7. 33 * q + 17 + w \in Ends(d)
  <2>1. 33 * q + 17 + w \in DOMAIN d
    BY <1>1
  <2> QED
    BY ONLY <2>1, <1>4 DEF Ends
<1> QED
  BY ONLY <1>5, <1>6, <1>7 DEF EndsOf

-----------------------------------------------------------------------------
\* A full line shows 16 bytes twice, in hex and as text.
LEMMA DumpFullLine ==
  ASSUME NEW from \in Int, NEW q \in Nat, NEW w \in 1..16, NEW d, IsDump(d, from, q, w),
         NEW l \in Nat, l < q
  PROVE  Line(d, 33 * l, 33 * (l + 1))
<1>1. PICK a \in Nat, b \in Nat : a = 33 * l /\ b = 33 * (l + 1) /\ b - a - 1 = 32
  OBVIOUS
<1>2. ASSUME NEW i \in 1..32
      PROVE  d[a + i] = IF i <= 16 THEN <<"hex", from + 16 * l + i - 1>>
                        ELSE <<"text", from + 16 * l + i - 1 - 16>>
  <2>1. PICK r \in 0..32 : r = i - 1
    OBVIOUS
  <2>2. PICK p \in 1..33 * q + w : p = a + i /\ p = 33 * l + r + 1
    BY <1>1, <2>1
  <2>4. /\ (r < 16 <=> i <= 16) /\ r < 32
        /\ from + 16 * l + r = from + 16 * l + i - 1
        /\ from + 16 * l + r - 16 = from + 16 * l + i - 1 - 16
    BY <2>1
  <2>5. p = 33 * l + r + 1
    BY ONLY <2>2
  <2>3. d[p] = IF r < 16 THEN <<"hex", from + 16 * l + r>>
               ELSE IF r < 32 THEN <<"text", from + 16 * l + r - 16>> ELSE NewLine
    <3>1. Shows(d, p, from, l, r)
      BY ONLY <2>5, DumpAt, from \in Int, q \in Nat, w \in 1..16, IsDump(d, from, q, w),
              l \in Nat, r \in 0..32, p \in 1..33 * q + w
    <3> QED
      BY ONLY <3>1 DEF Shows
  <2> QED
    BY ONLY <2>2, <2>3, <2>4
<1>3. PICK f \in Int : f = from + 16 * l
  OBVIOUS
<1>4. d[a + 1][2] = f
  <2>1. d[a + 1] = <<"hex", from + 16 * l + 1 - 1>> /\ from + 16 * l + 1 - 1 = f
    BY <1>2, <1>3
  <2> QED
    BY ONLY <2>1
<1>5. ASSUME NEW i \in 1..32
      PROVE  d[a + i] = IF i <= 16 THEN <<"hex", f + i - 1>>
                        ELSE IF i <= 16 THEN <<"   ">> ELSE <<"text", f + i - 1 - 16>>
  BY ONLY <1>2, <1>3, i \in 1..32
<1>6. b - a - 1 - 16 = 16 /\ 16 \in 1..16
  BY <1>1
<1>7. Line(d, a, b)
  BY ONLY <1>1, <1>4, <1>5, <1>6 DEF Line, Columns
<1> QED
  BY ONLY <1>1, <1>7

\* The last line shows its bytes twice, with gaps for the missing ones.
LEMMA DumpLastLine ==
  ASSUME NEW from \in Int, NEW q \in Nat, NEW w \in 1..16, NEW d, IsDump(d, from, q, w)
  PROVE  Line(d, 33 * q, 33 * q + 17 + w)
<1>1. PICK a \in Nat, b \in Nat : a = 33 * q /\ b = 33 * q + 17 + w /\ b - a - 1 = 16 + w
                                /\ b - a - 1 - 16 = w
  OBVIOUS
<1>2. PICK f \in Int : f = from + 16 * q
  OBVIOUS
<1>3. ASSUME NEW i \in 1..16 + w
      PROVE  d[a + i] = IF i <= w THEN <<"hex", f + i - 1>>
                        ELSE IF i <= 16 THEN <<"   ">> ELSE <<"text", f + i - 1 - 16>>
  <2>1. CASE i <= w
    <3>1. PICK r \in 0..32 : r = i - 1
      OBVIOUS
    <3>2. PICK p \in 1..33 * q + w : p = a + i /\ p = 33 * q + r + 1
      BY <1>1, <2>1, <3>1
    <3>4. r < 16 /\ from + 16 * q + r = f + i - 1
      BY <1>2, <2>1, <3>1
    <3>5. p = 33 * q + r + 1
      BY ONLY <3>2
    <3>3. d[p] = IF r < 16 THEN <<"hex", from + 16 * q + r>>
               ELSE IF r < 32 THEN <<"text", from + 16 * q + r - 16>> ELSE NewLine
      <4>1. Shows(d, p, from, q, r)
        BY ONLY <3>5, DumpAt, from \in Int, q \in Nat, w \in 1..16, IsDump(d, from, q, w),
                r \in 0..32, p \in 1..33 * q + w
      <4> QED
        BY ONLY <4>1 DEF Shows
    <3> QED
      BY ONLY <2>1, <3>2, <3>3, <3>4
  <2>2. CASE ~(i <= w) /\ i <= 16
    <3>1. a + i \in 33 * q + w + 1..33 * q + 16
      BY <1>1, <2>2
    <3>2. d[a + i] = <<"   ">>
      BY ONLY <3>1, IsDump(d, from, q, w) DEF IsDump
    <3> QED
      BY ONLY <2>2, <3>2
  <2>3. CASE ~(i <= 16)
    <3>1. a + i \in 33 * q + 17..33 * q + 16 + w /\ ~(i <= w)
          /\ from + 16 * q + (a + i) - 33 * q - 17 = f + i - 1 - 16
      BY <1>1, <1>2, <2>3
    <3>2. d[a + i] = <<"text", from + 16 * q + (a + i) - 33 * q - 17>>
      BY ONLY <3>1, IsDump(d, from, q, w) DEF IsDump
    <3> QED
      BY ONLY <2>3, <3>1, <3>2
  <2> QED
    BY <2>1, <2>2, <2>3
<1>4. d[a + 1][2] = f
  <2>1. 1 \in 1..16 + w /\ 1 <= w /\ f + 1 - 1 = f
    OBVIOUS
  <2>2. d[a + 1] = <<"hex", f + 1 - 1>>
    BY ONLY <1>3, <2>1
  <2> QED
    BY ONLY <2>1, <2>2
<1>5. b = Len(d)
  BY ONLY <1>1, IsDump(d, from, q, w) DEF IsDump
<1>6. Line(d, a, b)
  BY ONLY <1>1, <1>3, <1>4, <1>5, w \in 1..16 DEF Line, Columns
<1> QED
  BY ONLY <1>1, <1>6

\* So every stretch between neighbouring line ends is a line.
LEMMA DumpLines ==
  ASSUME NEW from \in Int, NEW q \in Nat, NEW w \in 1..16, NEW d, IsDump(d, from, q, w),
         NEW a \in Ends(d), NEW b \in Ends(d), Neighbours(a, b, Ends(d))
  PROVE  Line(d, a, b)
<1>1. a < b /\ \A e \in Ends(d) : e <= a \/ e >= b
  BY DEF Neighbours
<1>2. \A p : p \in Ends(d) <=> \/ \E l \in 0..q : p = 33 * l
                                \/ p = 33 * q + 17 + w
  <2>1. EndsOf(d, q, w)
    BY ONLY DumpEnds, from \in Int, q \in Nat, w \in 1..16, IsDump(d, from, q, w)
  <2> QED
    BY ONLY <2>1 DEF EndsOf
<1>3. (\E l \in 0..q : b = 33 * l) \/ b = 33 * q + 17 + w
  BY ONLY <1>2, b \in Ends(d)
<1>4. PICK l \in 0..q : a = 33 * l
  <2>1. (\E l \in 0..q : a = 33 * l) \/ a = 33 * q + 17 + w
    BY ONLY <1>2, a \in Ends(d)
  <2>2. a # 33 * q + 17 + w
    BY ONLY <1>1, <1>3, q \in Nat, w \in 1..16
  <2> QED
    BY ONLY <2>1, <2>2
<1>5. CASE l = q
  <2>1. b = 33 * q + 17 + w
    BY ONLY <1>1, <1>3, <1>4, <1>5, q \in Nat
  <2> QED
    BY ONLY <2>1, <1>4, <1>5, DumpLastLine, from \in Int, q \in Nat, w \in 1..16,
            IsDump(d, from, q, w)
<1>6. CASE l # q
  <2>1. l \in Nat /\ l < q /\ l + 1 \in 0..q
    BY <1>6
  <2>2. 33 * (l + 1) \in Ends(d)
    BY ONLY <1>2, <2>1
  <2>3. b <= 33 * (l + 1)
    <3>1. 33 * (l + 1) <= a \/ 33 * (l + 1) >= b
      BY ONLY <1>1, <2>2
    <3>2. b \in Int
      BY ONLY <1>3, q \in Nat, w \in 1..16
    <3> QED
      BY ONLY <3>1, <3>2, <1>4, <2>1
  <2>4. b = 33 * (l + 1)
    <3>1. ASSUME NEW k \in 0..q, b = 33 * k PROVE b = 33 * (l + 1)
      BY ONLY <1>1, <1>4, <2>1, <2>3, <3>1
    <3>2. b # 33 * q + 17 + w
      BY ONLY <2>1, <2>3, q \in Nat, w \in 1..16
    <3> QED
      BY ONLY <1>3, <3>1, <3>2
  <2> QED
    BY ONLY <2>1, <2>4, <1>4, DumpFullLine, from \in Int, q \in Nat, w \in 1..16,
            IsDump(d, from, q, w)
<1> QED
  BY <1>5, <1>6

\* A dump shows no byte outside the range it was called for.
LEMMA DumpReads ==
  ASSUME NEW from \in Int, NEW q \in Nat, NEW w \in 1..16, NEW d, IsDump(d, from, q, w),
         NEW x \in Read(d)
  PROVE  x \in from..from + 16 * q + w - 1
<1>1. PICK p \in DOMAIN d : d[p][1] \in {"hex", "text"} /\ x = d[p][2]
  BY DEF Read
<1>2. p \in 1..33 * q + 17 + w
  <2>1. DOMAIN d = 1..33 * q + 17 + w
    BY ONLY DumpLen, from \in Int, q \in Nat, w \in 1..16, IsDump(d, from, q, w)
  <2> QED
    BY ONLY <2>1, p \in DOMAIN d
<1>3. CASE p \in 1..33 * q + w
  <2>1. PICK l \in Nat, r \in 0..32 : p = 33 * l + r + 1
    <3>0. p - 1 \in Nat
      BY <1>3
    <3>1. (p - 1) \div 33 \in Nat /\ (p - 1) % 33 \in 0..32
          /\ p - 1 = 33 * ((p - 1) \div 33) + ((p - 1) % 33)
      BY ONLY <3>0
    <3>2. p = 33 * ((p - 1) \div 33) + ((p - 1) % 33) + 1
      BY <3>1, <1>3
    <3> QED
      BY ONLY <3>1, <3>2
  <2>2. d[p] = IF r < 16 THEN <<"hex", from + 16 * l + r>>
               ELSE IF r < 32 THEN <<"text", from + 16 * l + r - 16>> ELSE NewLine
    <3>1. Shows(d, p, from, l, r)
      BY ONLY <2>1, <1>3, DumpAt, from \in Int, q \in Nat, w \in 1..16, IsDump(d, from, q, w),
              l \in Nat, r \in 0..32, p \in 1..33 * q + w
    <3> QED
      BY ONLY <3>1 DEF Shows
  <2>3. CASE r < 16
    <3>1. x = from + 16 * l + r
      BY ONLY <1>1, <2>2, <2>3
    <3>2. l <= q /\ (l = q => r + 1 <= w)
      BY ONLY <2>1, <1>3, q \in Nat, w \in 1..16
    <3> QED
      BY <3>1, <3>2, <2>3
  <2>4. CASE 16 <= r /\ r < 32
    <3>1. x = from + 16 * l + r - 16
      BY ONLY <1>1, <2>2, <2>4
    <3>2. l < q
      BY ONLY <2>1, <1>3, <2>4, q \in Nat, w \in 1..16
    <3> QED
      BY <3>1, <3>2, <2>4
  <2>5. r # 32
    <3>1. ASSUME r = 32 PROVE FALSE
      BY ONLY <3>1, <2>2, <1>1 DEF NewLine
    <3> QED
      BY <3>1
  <2> QED
    BY ONLY <2>3, <2>4, <2>5, r \in 0..32
<1>4. CASE p \in 33 * q + w + 1..33 * q + 16
  <2>1. d[p] = <<"   ">>
    BY ONLY <1>4, IsDump(d, from, q, w) DEF IsDump
  <2>2. d[p][1] \notin {"hex", "text"}
    BY ONLY <2>1, GapIsOther
  <2> QED
    BY ONLY <2>2, <1>1
<1>5. CASE p \in 33 * q + 17..33 * q + 16 + w
  <2>1. d[p] = <<"text", from + 16 * q + p - 33 * q - 17>>
    BY ONLY <1>5, IsDump(d, from, q, w) DEF IsDump
  <2>2. x = from + 16 * q + p - 33 * q - 17
    BY ONLY <2>1, <1>1
  <2> QED
    BY <2>2, <1>5
<1>6. CASE p = 33 * q + 17 + w
  <2>1. d[p] = NewLine
    BY ONLY <1>6, IsDump(d, from, q, w) DEF IsDump
  <2> QED
    BY ONLY <2>1, <1>1 DEF NewLine
<1>7. \/ p \in 1..33 * q + w \/ p \in 33 * q + w + 1..33 * q + 16
      \/ p \in 33 * q + 17..33 * q + 16 + w \/ p = 33 * q + 17 + w
  BY ONLY <1>2, q \in Nat, w \in 1..16
<1> QED
  BY ONLY <1>3, <1>4, <1>5, <1>6, <1>7
-----------------------------------------------------------------------------
\* The function HexBytes is chosen for, and that there is one.
HexBody(d, n, g) ==
  [k \in 0..n |-> IF k = 0 THEN <<>> ELSE
                  IF d[k][1] = "hex" THEN Append(g[k - 1], d[k][2]) ELSE g[k - 1]]

\* By induction over the places.
LEMMA HexExists ==
  ASSUME NEW d, NEW m \in Nat
  PROVE  \E g : g = HexBody(d, m, g)
<1> DEFINE T == {n \in Nat : \E g : g = HexBody(d, n, g)}
<1>1. 0 \in T
  <2>1. [k \in 0..0 |-> <<>>] = HexBody(d, 0, [k \in 0..0 |-> <<>>])
    BY DEF HexBody
  <2> QED
    BY <2>1
<1>2. ASSUME NEW n \in T PROVE n + 1 \in T
  <2>1. PICK g : g = HexBody(d, n, g)
    OBVIOUS
  <2> DEFINE h == [k \in 0..n + 1 |-> IF k <= n THEN g[k] ELSE
                     IF d[k][1] = "hex" THEN Append(g[k - 1], d[k][2]) ELSE g[k - 1]]
  <2>2. ASSUME NEW k \in 0..n + 1
        PROVE  h[k] = IF k = 0 THEN <<>> ELSE
                      IF d[k][1] = "hex" THEN Append(h[k - 1], d[k][2]) ELSE h[k - 1]
    <3>1. CASE k <= n
      <4>1. k \in 0..n /\ h[k] = g[k] /\ (k # 0 => k - 1 \in 0..n + 1 /\ h[k - 1] = g[k - 1])
        BY <3>1
      <4>2. g[k] = IF k = 0 THEN <<>> ELSE
                   IF d[k][1] = "hex" THEN Append(g[k - 1], d[k][2]) ELSE g[k - 1]
        BY <2>1, <4>1 DEF HexBody
      <4> QED
        BY <4>1, <4>2
    <3>2. CASE ~(k <= n)
      BY <3>2
    <3> QED
      BY <3>1, <3>2
  <2>3. h = [k \in 0..n + 1 |-> IF k = 0 THEN <<>> ELSE
                      IF d[k][1] = "hex" THEN Append(h[k - 1], d[k][2]) ELSE h[k - 1]]
    <3> HIDE DEF h
    <3>1. h = [k \in 0..n + 1 |-> h[k]]
      BY DEF h
    <3> QED
      BY <2>2, <3>1
  <2>4. h = HexBody(d, n + 1, h)
    BY <2>3 DEF HexBody
  <2> QED
    BY <2>4
<1>3. T = Nat
  <2> HIDE DEF T
  <2>1. T \in SUBSET Nat
    BY DEF T
  <2> QED
    BY <1>1, <1>2, <2>1, SetInduction
<1> QED
  BY <1>3

\* g collects the bytes d shows in hex.
IsHexFold(d, g) ==
  /\ HexBytes(d) = g[Len(d)] /\ g[0] = <<>>
  /\ \A k \in 1..Len(d) : g[k] = IF d[k][1] = "hex" THEN Append(g[k - 1], d[k][2]) ELSE g[k - 1]
  /\ \A k \in 0..Len(d) : g[k] \in Seq(Int)

\* HexBytes is what such a function gives at the end.
LEMMA HexIsFold ==
  ASSUME NEW d \in Seq(Token)
  PROVE  \E g : IsHexFold(d, g)
<1> DEFINE g == CHOOSE g : g = HexBody(d, Len(d), g)
<1>1. Len(d) \in Nat /\ \A k \in 1..Len(d) : d[k] \in Token
  BY SeqShape
<1>2. g = HexBody(d, Len(d), g)
  BY <1>1, HexExists
<1>3. HexBytes(d) = g[Len(d)]
  BY DEF HexBytes, HexBody
<1> HIDE DEF g
<1>4. g[0] = <<>>
  BY ONLY <1>1, <1>2 DEF HexBody
<1>5. ASSUME NEW k \in 1..Len(d)
      PROVE  g[k] = IF d[k][1] = "hex" THEN Append(g[k - 1], d[k][2]) ELSE g[k - 1]
  <2>1. k \in 0..Len(d) /\ k # 0
    BY <1>1
  <2>2. HexBody(d, Len(d), g)[k] = IF d[k][1] = "hex" THEN Append(g[k - 1], d[k][2]) ELSE g[k - 1]
    BY ONLY <2>1 DEF HexBody
  <2> QED
    BY ONLY <1>2, <2>2
<1> DEFINE T == {n \in Nat : n \in 0..Len(d) => g[n] \in Seq(Int)}
<1>6. 0 \in T
  <2>1. <<>> \in Seq(Int)
    OBVIOUS
  <2>2. g[0] \in Seq(Int)
    BY ONLY <1>4, <2>1
  <2> QED
    BY <2>2
<1>7. ASSUME NEW n \in T PROVE n + 1 \in T
  <2>1. ASSUME n + 1 \in 0..Len(d) PROVE g[n + 1] \in Seq(Int)
    <3>1. n \in 0..Len(d) /\ n + 1 \in 1..Len(d) /\ n + 1 - 1 = n /\ g[n] \in Seq(Int)
      BY <2>1, <1>1
    <3>2. g[n + 1] = IF d[n + 1][1] = "hex" THEN Append(g[n], d[n + 1][2]) ELSE g[n]
      BY ONLY <1>5, <3>1
    <3>3. d[n + 1][1] = "hex" => d[n + 1][2] \in Int
      <4>1. d[n + 1] \in Token
        BY ONLY <1>1, <3>1
      <4> QED
        BY ONLY <4>1, HexToken
    <3>4. d[n + 1][1] = "hex" => Append(g[n], d[n + 1][2]) \in Seq(Int)
      BY ONLY <3>1, <3>3, AppendShape
    <3> QED
      BY ONLY <3>1, <3>2, <3>4
  <2> QED
    BY <2>1
<1>8. T = Nat
  <2> HIDE DEF T
  <2>1. T \in SUBSET Nat
    BY DEF T
  <2> QED
    BY ONLY <1>6, <1>7, <2>1, SetInduction
<1>9. \A k \in 0..Len(d) : g[k] \in Seq(Int)
  BY <1>8, <1>1
<1> QED
  BY ONLY <1>3, <1>4, <1>5, <1>9 DEF IsHexFold

\* One place further.
LEMMA HexStep ==
  ASSUME NEW d \in Seq(Token), NEW g, IsHexFold(d, g), NEW k \in Nat, NEW j \in 1..Len(d),
         j = k + 1
  PROVE  g[j] = IF d[j][1] = "hex" THEN Append(g[k], d[j][2]) ELSE g[k]
<1>1. g[j] = IF d[j][1] = "hex" THEN Append(g[j - 1], d[j][2]) ELSE g[j - 1]
  BY ONLY IsHexFold(d, g), j \in 1..Len(d) DEF IsHexFold
<1>2. j - 1 = k
  OBVIOUS
<1> QED
  BY ONLY <1>1, <1>2

\* A range of offsets, one longer.
LEMMA FromGrows ==
  ASSUME NEW a \in Int, NEW b \in Int, a <= b
  PROVE  From(a, b) \in Seq(Int) /\ Len(From(a, b)) = b - a /\ From(a, b + 1) = Append(From(a, b), b)
<1>1. PICK n \in Nat : n = b - a
  OBVIOUS
<1>2. From(a, b) = [k \in 1..n |-> a + k - 1] /\ From(a, b + 1) = [k \in 1..n + 1 |-> a + k - 1]
  BY <1>1 DEF From
<1>3. PICK s, t : s = From(a, b) /\ t = From(a, b + 1)
  OBVIOUS
<1>4. s \in [1..n -> Int] /\ t \in [1..n + 1 -> Int]
  BY ONLY <1>2, <1>3, n \in Nat, a \in Int
<1>5. s \in Seq(Int) /\ Len(s) = n /\ t \in Seq(Int) /\ Len(t) = n + 1
  BY ONLY <1>4, FunctionIsSeq, n \in Nat, n + 1 \in Nat
<1>6. \A k \in 1..n : t[k] = s[k]
  BY ONLY <1>2, <1>3, n \in Nat
<1>7. t[n + 1] = b
  BY ONLY <1>1, <1>2, <1>3, n \in Nat, a \in Int, b \in Int
<1>8. PICK v : v = Append(s, b)
  OBVIOUS
<1>9. v \in Seq(Int) /\ Len(v) = n + 1 /\ (\A k \in 1..n : v[k] = s[k]) /\ v[n + 1] = b
  BY ONLY <1>5, <1>8, AppendShape, b \in Int
<1>10. ASSUME NEW k \in 1..n + 1 PROVE t[k] = v[k]
  <2>1. k \in 1..n \/ k = n + 1
    OBVIOUS
  <2> QED
    BY ONLY <2>1, <1>6, <1>7, <1>9
<1>11. t = v
  BY ONLY <1>5, <1>9, <1>10, SeqEqual
<1> QED
  BY ONLY <1>1, <1>3, <1>5, <1>8, <1>11

\* How many bytes a dump has shown in hex up to place p.
Shown(p, q, w) ==
  IF p <= 33 * q + w THEN 16 * (p \div 33) + (IF p % 33 < 16 THEN p % 33 ELSE 16) ELSE 16 * q + w

\* By the place in its line.
LEMMA ShownStepAt ==
  ASSUME NEW q \in Nat, NEW w \in 1..16, NEW l \in Nat, NEW r \in 0..32,
         33 * l + r + 1 <= 33 * q + w
  PROVE  /\ Shown(33 * l + r, q, w) = 16 * l + (IF r < 16 THEN r ELSE 16)
         /\ Shown(33 * l + r + 1, q, w) = 16 * l + (IF r < 16 THEN r + 1 ELSE 16)
<1>1. (33 * l + r) \div 33 = l /\ (33 * l + r) % 33 = r /\ 33 * l + r <= 33 * q + w
  OBVIOUS
<1>2. Shown(33 * l + r, q, w) = 16 * l + (IF r < 16 THEN r ELSE 16)
  BY ONLY <1>1 DEF Shown
<1>3. CASE r < 32
  <2>1. (33 * l + r + 1) \div 33 = l /\ (33 * l + r + 1) % 33 = r + 1
    BY <1>3
  <2>2. Shown(33 * l + r + 1, q, w) = 16 * l + (IF r + 1 < 16 THEN r + 1 ELSE 16)
    BY ONLY <2>1, 33 * l + r + 1 <= 33 * q + w DEF Shown
  <2>3. (IF r + 1 < 16 THEN r + 1 ELSE 16) = IF r < 16 THEN r + 1 ELSE 16
    OBVIOUS
  <2> QED
    BY ONLY <1>2, <2>2, <2>3
<1>4. CASE r = 32
  <2>1. (33 * l + r + 1) \div 33 = l + 1 /\ (33 * l + r + 1) % 33 = 0
    BY <1>4
  <2>2. Shown(33 * l + r + 1, q, w) = 16 * (l + 1) + 0
    BY ONLY <2>1, 33 * l + r + 1 <= 33 * q + w, 0 < 16 DEF Shown
  <2>3. 16 * (l + 1) + 0 = 16 * l + 16 /\ ~(r < 16)
    BY <1>4
  <2> QED
    BY ONLY <1>2, <2>2, <2>3
<1> QED
  BY ONLY <1>3, <1>4, r \in 0..32

\* Place j = p + 1 shows one byte more in the first 16 places of a line.
ShownGrows(p, j, q, w, l, r) ==
  /\ Shown(p, q, w) = 16 * l + (IF r < 16 THEN r ELSE 16)
  /\ Shown(j, q, w) = 16 * l + (IF r < 16 THEN r + 1 ELSE 16)

\* The same, for a place and the next.
LEMMA ShownStep ==
  ASSUME NEW q \in Nat, NEW w \in 1..16, NEW l \in Nat, NEW r \in 0..32,
         NEW p \in Nat, p = 33 * l + r, NEW j \in 1..33 * q + w, j = p + 1
  PROVE  ShownGrows(p, j, q, w, l, r)
<1>1. 33 * l + r + 1 <= 33 * q + w /\ j = 33 * l + r + 1
  OBVIOUS
<1>2. /\ Shown(33 * l + r, q, w) = 16 * l + (IF r < 16 THEN r ELSE 16)
      /\ Shown(33 * l + r + 1, q, w) = 16 * l + (IF r < 16 THEN r + 1 ELSE 16)
  BY <1>1, ShownStepAt
<1> QED
  BY ONLY <1>1, <1>2, p = 33 * l + r DEF ShownGrows

\* A dump shows its range in order, by induction over the places.
LEMMA HexOfDump ==
  ASSUME NEW from \in Int, NEW q \in Nat, NEW w \in 1..16, NEW d, IsDump(d, from, q, w)
  PROVE  HexBytes(d) = From(from, from + (16 * q + w))
<1> DEFINE n == 33 * q + 17 + w
<1>1. d \in Seq(Token) /\ Len(d) = n /\ n \in Nat
  <2>1. d \in Seq(Token) /\ Len(d) = 33 * q + 17 + w
    BY ONLY DumpLen, from \in Int, q \in Nat, w \in 1..16, IsDump(d, from, q, w)
  <2> QED
    BY <2>1
<1>0. d \in Seq(Token)
  BY ONLY <1>1
<1>2. PICK g : IsHexFold(d, g)
  BY ONLY <1>0, HexIsFold
<1> DEFINE T == {p \in Nat : p <= n => g[p] = From(from, from + Shown(p, q, w))}
<1>3. 0 \in T
  <2>1. Shown(0, q, w) = 0
    <3>1. 0 \div 33 = 0 /\ 0 % 33 = 0 /\ 0 <= 33 * q + w
      OBVIOUS
    <3> QED
      BY ONLY <3>1, 0 < 16, 16 * 0 + 0 = 0 DEF Shown
  <2>2. From(from, from + 0) = <<>>
    BY DEF From
  <2>3. g[0] = <<>>
    BY ONLY <1>2 DEF IsHexFold
  <2> QED
    BY <2>1, <2>2, <2>3
<1>4. ASSUME NEW p \in T PROVE p + 1 \in T
  <2>1. ASSUME p + 1 <= n PROVE g[p + 1] = From(from, from + Shown(p + 1, q, w))
    <3>1. p \in Nat /\ p + 1 \in 1..n /\ p + 1 - 1 = p /\ g[p] = From(from, from + Shown(p, q, w))
      BY <2>1
    <3>5. PICK j : j = p + 1
      OBVIOUS
    <3>6. j \in 1..Len(d) /\ p \in Nat
      BY ONLY <3>1, <3>5, <1>1
    <3>2. g[j] = IF d[j][1] = "hex" THEN Append(g[p], d[j][2]) ELSE g[p]
      BY ONLY <1>0, <1>2, <3>5, <3>6, HexStep
    <3>3. CASE p + 1 <= 33 * q + w
      <4>1. PICK l \in Nat, r \in 0..32 : p = 33 * l + r
        <5>1. p \div 33 \in Nat /\ p % 33 \in 0..32 /\ p = 33 * (p \div 33) + (p % 33)
          BY <3>1
        <5> QED
          BY ONLY <5>1
      <4>2. 33 * l + r + 1 <= 33 * q + w
        BY <3>3, <4>1
      <4>7. j = 33 * l + r + 1 /\ j \in 1..33 * q + w
        BY <4>1, <4>2, <3>5
      <4>3. d[j] = IF r < 16 THEN <<"hex", from + 16 * l + r>>
                       ELSE IF r < 32 THEN <<"text", from + 16 * l + r - 16>> ELSE NewLine
        <5>1. Shows(d, j, from, l, r)
          BY ONLY <4>7, DumpAt, from \in Int, q \in Nat, w \in 1..16, IsDump(d, from, q, w),
                  l \in Nat, r \in 0..32
        <5> QED
          BY ONLY <5>1 DEF Shows
      <4>4. /\ Shown(p, q, w) = 16 * l + (IF r < 16 THEN r ELSE 16)
            /\ Shown(j, q, w) = 16 * l + (IF r < 16 THEN r + 1 ELSE 16)
        <5>1. p \in Nat
          BY <3>6
        <5>2. p = 33 * l + r
          BY <4>1
        <5>3. j \in 1..33 * q + w
          BY <4>7
        <5>4. ShownGrows(p, j, q, w, l, r)
          BY ONLY <3>5, <5>1, <5>2, <5>3, ShownStep, q \in Nat, w \in 1..16, l \in Nat,
             r \in 0..32
        <5> QED
          BY ONLY <5>4 DEF ShownGrows
      <4>5. CASE r < 16
        <5>1. PICK b \in Int : b = from + 16 * l + r /\ from <= b /\ from + Shown(p, q, w) = b
                               /\ from + Shown(j, q, w) = b + 1
          BY <4>4, <4>5
        <5>2. d[j][1] = "hex" /\ d[j][2] = b
          BY ONLY <4>3, <4>5, <5>1
        <5>3. From(from, b + 1) = Append(From(from, b), b)
          BY ONLY FromGrows, from \in Int, <5>1
        <5> QED
          BY ONLY <3>1, <3>2, <3>5, <5>1, <5>2, <5>3
      <4>6. CASE ~(r < 16)
        <5>1. d[j][1] # "hex"
          BY ONLY <4>3, <4>6 DEF NewLine
        <5>2. Shown(j, q, w) = Shown(p, q, w)
          BY ONLY <4>4, <4>6
        <5> QED
          BY ONLY <3>1, <3>2, <3>5, <5>1, <5>2
      <4> QED
        BY ONLY <4>5, <4>6
    <3>4. CASE ~(p + 1 <= 33 * q + w)
      <4>1. Shown(p + 1, q, w) = 16 * q + w
        BY ONLY <3>4 DEF Shown
      <4>2. Shown(p, q, w) = 16 * q + w
        <5>1. CASE p = 33 * q + w
          <6>1. (33 * q + w) \div 33 = q /\ (33 * q + w) % 33 = w
            OBVIOUS
          <6>2. Shown(p, q, w) = 16 * q + IF w < 16 THEN w ELSE 16
            BY ONLY <5>1, <6>1, 33 * q + w <= 33 * q + w DEF Shown
          <6> QED
            BY <6>2
        <5>2. CASE p # 33 * q + w
          <6>1. ~(p <= 33 * q + w)
            BY <3>1, <3>4, <5>2
          <6> QED
            BY ONLY <6>1 DEF Shown
        <5> QED
          BY ONLY <5>1, <5>2
      <4>3. d[j][1] # "hex"
        <5>1. \/ p + 1 \in 33 * q + w + 1..33 * q + 16 \/ p + 1 \in 33 * q + 17..33 * q + 16 + w
              \/ p + 1 = 33 * q + 17 + w
          BY <3>1, <3>4
        <5>3. \/ d[j] = <<"   ">> \/ d[j] = <<"text", from + 16 * q + j - 33 * q - 17>>
              \/ d[j] = NewLine
          BY ONLY <5>1, <3>5, IsDump(d, from, q, w) DEF IsDump
        <5> QED
          <6>1. CASE d[j] = <<"   ">>
            BY ONLY <6>1, GapIsOther
          <6>2. CASE d[j] = <<"text", from + 16 * q + j - 33 * q - 17>>
            BY ONLY <6>2
          <6>3. CASE d[j] = NewLine
            BY ONLY <6>3 DEF NewLine
          <6> QED
            BY ONLY <5>3, <6>1, <6>2, <6>3
      <4> QED
        BY ONLY <3>1, <3>2, <3>5, <4>1, <4>2, <4>3
    <3> QED
      BY ONLY <3>3, <3>4
  <2> QED
    BY <2>1
<1>5. T = Nat
  <2> HIDE DEF T
  <2>1. T \in SUBSET Nat
    BY DEF T
  <2> QED
    BY ONLY <1>3, <1>4, <2>1, SetInduction
<1>6. g[n] = From(from, from + Shown(n, q, w))
  BY <1>5, <1>1
<1>7. Shown(n, q, w) = 16 * q + w
  <2>1. ~(n <= 33 * q + w)
    OBVIOUS
  <2> QED
    BY <2>1 DEF Shown
<1> QED
  <2>1. HexBytes(d) = g[Len(d)]
    BY ONLY <1>2 DEF IsHexFold
  <2> QED
    BY ONLY <1>1, <2>1, <1>6, <1>7
-----------------------------------------------------------------------------
\* A size of 0, or a negative one, prints nothing.
LEMMA EmptyDump ==
  ASSUME NEW from \in Int, NEW Size \in Int, Size <= 0
  PROVE  /\ PrintData(from, Size) = <<>> /\ From(from, from + Size) = <<>>
         /\ Ends(<<>>) = {0} /\ HexBytes(<<>>) = <<>> /\ Read(<<>>) = {}
<1>1. 1..Size = {} /\ 1..from + Size - from = {}
  OBVIOUS
<1>2. [i \in 1..Size |-> PrintByte(from, Size, i - 1)] = <<>>
  BY <1>1
<1>3. PrintData(from, Size) = <<>>
  <2>1. FlattenSeq(<<>>) = <<>>
    BY DEF FlattenSeq
  <2> QED
    BY ONLY <1>2, <2>1 DEF PrintData
<1>4. From(from, from + Size) = <<>>
  BY <1>1 DEF From
<1>5. Ends(<<>>) = {0} /\ Read(<<>>) = {}
  BY DEF Ends, Read
<1>6. HexBytes(<<>>) = <<>>
  <2>1. <<>> \in Seq(Token) /\ Len(<<>>) = 0
    OBVIOUS
  <2>2. PICK d : d = <<>>
    OBVIOUS
  <2>4. d \in Seq(Token)
    BY ONLY <2>1, <2>2
  <2>5. PICK g : IsHexFold(d, g)
    BY ONLY <2>4, HexIsFold
  <2>3. HexBytes(d) = g[Len(d)] /\ g[0] = <<>>
    BY ONLY <2>5 DEF IsHexFold
  <2> QED
    BY ONLY <2>1, <2>2, <2>3
<1> QED
  BY <1>3, <1>4, <1>5, <1>6

\* The lines of d, as LinesAgree states them.
LinesOf(d) ==
  /\ Len(d) \in Ends(d)
  /\ \A a, b \in Ends(d) : Neighbours(a, b, Ends(d)) => Line(d, a, b)

\* What any call of PrintData prints.
IsPrinted(d, from, Size) ==
  /\ d \in Seq(Token) /\ LinesOf(d)
  /\ HexBytes(d) = From(from, from + Size)
  /\ \A x \in Read(d) : x \in from..from + Size - 1

\* Such a dump is well formed, whatever its range.
LEMMA PrintDataFacts ==
  ASSUME NEW from \in Int, NEW Size \in Int, NEW d, d = PrintData(from, Size)
  PROVE  IsPrinted(d, from, Size)
<1>1. CASE Size <= 0
  <2>1. d = <<>> /\ HexBytes(d) = From(from, from + Size) /\ Ends(d) = {0} /\ Read(d) = {}
    BY <1>1, EmptyDump
  <2>2. d \in Seq(Token) /\ Len(d) = 0
    BY ONLY <2>1
  <2>3. LinesOf(d)
    <3>1. ASSUME NEW a \in {0}, NEW b \in {0} PROVE ~Neighbours(a, b, {0})
      BY DEF Neighbours
    <3> QED
      BY ONLY <2>1, <2>2, <3>1 DEF LinesOf
  <2> QED
    BY ONLY <2>1, <2>2, <2>3 DEF IsPrinted
<1>2. CASE Size > 0
  <2>1. PICK q \in Nat, w \in 1..16 : Size = 16 * q + w
    <3>1. (Size - 1) \div 16 \in Nat /\ ((Size - 1) % 16) + 1 \in 1..16
          /\ Size - 1 = 16 * ((Size - 1) \div 16) + ((Size - 1) % 16)
      BY <1>2
    <3>2. Size = 16 * ((Size - 1) \div 16) + (((Size - 1) % 16) + 1)
      BY <3>1
    <3> QED
      BY ONLY <3>1, <3>2
  <2>2. IsDump(d, from, q, w)
    BY ONLY <2>1, DumpShape, from \in Int, d = PrintData(from, Size)
  <2>3. \A x \in Read(d) : x \in from..from + 16 * q + w - 1
    BY ONLY <2>2, DumpReads, from \in Int, q \in Nat, w \in 1..16
  <2>4. HexBytes(d) = From(from, from + (16 * q + w))
    BY ONLY <2>2, HexOfDump, from \in Int, q \in Nat, w \in 1..16
  <2>5. \A a, b \in Ends(d) : Neighbours(a, b, Ends(d)) => Line(d, a, b)
    BY ONLY <2>2, DumpLines, from \in Int, q \in Nat, w \in 1..16
  <2>6. Len(d) \in Ends(d)
    <3>1. EndsOf(d, q, w)
      BY ONLY <2>2, DumpEnds, from \in Int, q \in Nat, w \in 1..16
    <3>2. 33 * q + 17 + w \in Ends(d)
      BY ONLY <3>1 DEF EndsOf
    <3>3. Len(d) = 33 * q + 17 + w
      BY ONLY <2>2 DEF IsDump
    <3> QED
      BY ONLY <3>2, <3>3
  <2>7. d \in Seq(Token)
    BY ONLY <2>2 DEF IsDump
  <2>8. from + 16 * q + w - 1 = from + Size - 1
    BY <2>1
  <2> QED
    BY ONLY <2>1, <2>3, <2>4, <2>5, <2>6, <2>7, <2>8 DEF LinesOf, IsPrinted
<1> QED
  BY <1>1, <1>2

\* Three sequences, joined.
LEMMA FlattenThree ==
  ASSUME NEW s, Len(s) = 3
  PROVE  FlattenSeq(s) = (s[1] \o s[2]) \o s[3]
<1>1. PICK a, b, c : a = s[1] /\ b = s[2] /\ c = s[3]
  OBVIOUS
<1>2. Len(s) = 3 /\ s[1] = a /\ s[2] = b /\ s[3] = c
  BY <1>1
<1>3. PICK g : g = FlattenBody(s, 3, g) /\ FlattenSeq(s) = g[3]
  BY ONLY <1>2, FlattenIsFold, 3 \in Nat, 3 # 0
<1>4. \A i \in 1..3 : g[i] = IF i = 1 THEN s[i] ELSE g[i - 1] \o s[i]
  BY ONLY <1>3 DEF FlattenBody
<1>5. g[1] = a /\ g[2] = g[1] \o b /\ g[3] = g[2] \o c
  <2>1. 1 \in 1..3 /\ 2 \in 1..3 /\ 3 \in 1..3 /\ 2 - 1 = 1 /\ 3 - 1 = 2 /\ 2 # 1 /\ 3 # 1
    OBVIOUS
  <2> QED
    BY ONLY <1>2, <1>4, <2>1
<1> QED
  BY ONLY <1>1, <1>3, <1>5

\* Ranges of offsets join to a range.
IsFrom(s, a, b) ==
  s \in Seq(Int) /\ Len(s) = b - a /\ \A k \in 1..b - a : s[k] = a + k - 1

\* A range as a sequence.
LEMMA FromShape ==
  ASSUME NEW a \in Int, NEW b \in Int, a <= b, NEW s, s = From(a, b)
  PROVE  IsFrom(s, a, b)
BY FromGrows DEF From, IsFrom

\* Two ranges that meet.
LEMMA FromJoins ==
  ASSUME NEW a \in Int, NEW b \in Int, NEW c \in Int, a <= b, b <= c
  PROVE  From(a, b) \o From(b, c) = From(a, c)
<1>1. PICK s, t, u, v : s = From(a, b) /\ t = From(b, c) /\ u = s \o t /\ v = From(a, c)
  OBVIOUS
<1>2. s \in Seq(Int) /\ Len(s) = b - a /\ \A k \in 1..b - a : s[k] = a + k - 1
  <2>1. IsFrom(s, a, b)
    BY ONLY <1>1, FromShape, a \in Int, b \in Int, a <= b
  <2> QED
    BY ONLY <2>1 DEF IsFrom
<1>3. t \in Seq(Int) /\ Len(t) = c - b /\ \A k \in 1..c - b : t[k] = b + k - 1
  <2>1. IsFrom(t, b, c)
    BY ONLY <1>1, FromShape, b \in Int, c \in Int, b <= c
  <2> QED
    BY ONLY <2>1 DEF IsFrom
<1>4. v \in Seq(Int) /\ Len(v) = c - a /\ \A k \in 1..c - a : v[k] = a + k - 1
  <2>1. a <= c
    OBVIOUS
  <2> QED
    <3>1. IsFrom(v, a, c)
      BY ONLY <1>1, <2>1, FromShape, a \in Int, c \in Int
    <3> QED
      BY ONLY <3>1 DEF IsFrom
<1>9. s \in Seq(Int) /\ t \in Seq(Int)
  BY ONLY <1>2, <1>3
<1>10. u = s \o t
  BY ONLY <1>1
<1>5. u \in Seq(Int) /\ Len(u) = Len(s) + Len(t)
  BY ONLY <1>9, <1>10, ConcatIs
<1>11. Len(s) = b - a /\ Len(t) = c - b
  BY ONLY <1>2, <1>3
<1>6. Len(u) = c - a
  BY <1>5, <1>11
<1>7. ASSUME NEW k \in 1..c - a PROVE u[k] = v[k]
  <2>0. v[k] = a + k - 1
    BY ONLY <1>4, k \in 1..c - a
  <2>1. CASE k <= b - a
    <3>1. k \in 1..b - a
      BY <2>1
    <3>2. k \in 1..Len(s)
      BY ONLY <3>1, <1>11
    <3>3. u[k] = s[k]
      BY ONLY <3>2, <1>9, <1>10, ConcatLeft
    <3> QED
      BY ONLY <3>1, <3>3, <1>2, <2>0
  <2>2. CASE ~(k <= b - a)
    <3>1. PICK i \in 1..c - b : k = (b - a) + i /\ b + i - 1 = a + k - 1
      <4>1. k - (b - a) \in 1..c - b /\ k = (b - a) + (k - (b - a))
            /\ b + (k - (b - a)) - 1 = a + k - 1
        BY <2>2
      <4> QED
        BY <4>1
    <3>2. i \in 1..Len(t)
      BY ONLY <1>11, i \in 1..c - b
    <3>3. u[Len(s) + i] = t[i]
      BY ONLY <3>2, <1>9, <1>10, ConcatRight
    <3>4. t[i] = b + i - 1
      BY ONLY <1>3, i \in 1..c - b
    <3> QED
      BY ONLY <3>1, <3>3, <3>4, <1>11, <2>0
  <2> QED
    BY ONLY <2>1, <2>2
<1>8. u = v
  <2>1. Len(u) = Len(v) /\ Len(u) = c - a
    BY ONLY <1>4, <1>6
  <2>2. \A k \in 1..Len(u) : u[k] = v[k]
    BY ONLY <2>1, <1>7
  <2>3. u \in Seq(Int) /\ v \in Seq(Int)
    BY ONLY <1>4, <1>5
  <2> QED
    BY ONLY <2>1, <2>2, <2>3, SeqEqual
<1> QED
  BY ONLY <1>1, <1>8
-----------------------------------------------------------------------------
\* An entry of the log: IP header of h bytes, transport header of m bytes,
\* of which n are read as fields.
IsEntry(e, h, m, n) ==
  /\ e.frame \in Frame /\ h = 4 * e.frame.ihl
  /\ Transport(e) = [at |-> 14 + h, len |-> m]
  /\ e.dumps = <<PrintData(0, h), PrintData(h, m),
                 PrintData(14 + h + m, e.frame.len - (14 + h + m))>>
  /\ DOMAIN e.fields = 1..3
  /\ e.fields[1].bytes = 0..13 /\ e.fields[2].bytes = 14..33
  /\ e.fields[3].bytes = 14 + h..14 + h + n - 1
  /\ WellFormed(e) => n <= m

\* Where the fields of the three headers are read.
HasFields(s, at, n) ==
  /\ DOMAIN s = 1..3 /\ s[1].bytes = 0..13 /\ s[2].bytes = 14..33
  /\ s[3].bytes = at..at + n - 1

\* Every entry's fields do.
LEMMA FieldsShape ==
  ASSUME NEW t, NEW at, NEW n, NEW s, s = Append(print_ip_header, Fields(t, at, n))
  PROVE  HasFields(s, at, n)
<1>1. PICK x, y, z : /\ x = Fields("Ethernet", 0, 14) /\ y = Fields("IP", 14, 20)
                     /\ z = Fields(t, at, n)
  OBVIOUS
<1>2. s = Append(Append(<<x>>, y), z)
  BY ONLY <1>1, s = Append(print_ip_header, Fields(t, at, n))
     DEF print_ip_header, print_ethernet_header, ethhdr
<1>3. DOMAIN s = 1..3 /\ s[1] = x /\ s[2] = y /\ s[3] = z
  BY ONLY <1>2
<1>4. x.bytes = 0..13 /\ y.bytes = 14..33
  <2>1. 0 + 14 - 1 = 13 /\ 14 + 20 - 1 = 33
    OBVIOUS
  <2> QED
    BY ONLY <1>1, <2>1 DEF Fields
<1>5. z.bytes = at..at + n - 1
  BY ONLY <1>1 DEF Fields
<1> QED
  BY ONLY <1>3, <1>4, <1>5 DEF HasFields

\* The three functions that log a packet write such an entry.
LEMMA EntryShape ==
  ASSUME NEW t, NEW f \in Frame, NEW h \in Nat, h = iphdrlen(f), NEW m \in Nat, NEW n \in Nat,
         m = (IF t = "TCP" THEN 4 * f.doff ELSE 8),
         (t = "TCP" => f.doff >= 5) => n <= m,
         NEW e, e = Entry(t, f, Fields(t, ethhdr + iphdrlen(f), n),
                          <<PrintData(0, h), PrintData(h, m),
                            PrintData(14 + h + m, f.len - (14 + h + m))>>)
  PROVE  IsEntry(e, h, m, n)
<1>1. /\ e.title = t /\ e.frame = f
      /\ e.dumps = <<PrintData(0, h), PrintData(h, m),
                     PrintData(14 + h + m, f.len - (14 + h + m))>>
      /\ e.fields = Append(print_ip_header, Fields(t, 14 + h, n))
  BY DEF Entry, ethhdr
<1>2. /\ DOMAIN e.fields = 1..3 /\ e.fields[1].bytes = 0..13 /\ e.fields[2].bytes = 14..33
      /\ e.fields[3].bytes = 14 + h..14 + h + n - 1
  <2>1. e.fields = Append(print_ip_header, Fields(t, 14 + h, n))
    BY ONLY <1>1
  <2>2. HasFields(e.fields, 14 + h, n)
    BY ONLY <2>1, FieldsShape
  <2> QED
    BY ONLY <2>2 DEF HasFields
<1>3. Transport(e) = [at |-> 14 + h, len |-> m]
  BY <1>1 DEF Transport, ethhdr
<1>4. WellFormed(e) => n <= m
  BY <1>1 DEF WellFormed
<1>5. h = 4 * e.frame.ihl
  BY <1>1 DEF iphdrlen
<1> QED
  BY ONLY <1>1, <1>2, <1>3, <1>4, <1>5, f \in Frame DEF IsEntry

\* Whatever packet is logged.
LEMMA PrintedFacts ==
  ASSUME NEW f \in Frame, Counter(f) \in Logged
  PROVE  \E h, m, n \in Nat : IsEntry(Printed(f), h, m, n)
<1>1. f.ihl \in 0..15 /\ f.doff \in 0..15 /\ f.len \in Nat /\ f.protocol \in 0..255
  BY DEF Frame
<1>2. PICK h \in Nat : h = iphdrlen(f)
  BY <1>1 DEF iphdrlen
<1>3. f.protocol = 6 \/ f.protocol = 17 \/ f.protocol = 1
  BY <1>1 DEF Counter, Logged
<1>4. CASE f.protocol = 6
  <2>1. PICK m \in Nat : m = 4 * f.doff
    BY <1>1
  <2>2. PICK e : e = Printed(f) /\ e = print_tcp_packet(f)
    BY <1>4 DEF Printed
  <2>3. e = Entry("TCP", f, Fields("TCP", ethhdr + iphdrlen(f), 20),
                  <<PrintData(0, h), PrintData(h, m),
                    PrintData(14 + h + m, f.len - (14 + h + m))>>)
    BY ONLY <1>2, <2>1, <2>2 DEF print_tcp_packet, ethhdr
  <2>4. ("TCP" = "TCP" => f.doff >= 5) => 20 <= m
    BY <1>1, <2>1
  <2>5. IsEntry(e, h, m, 20)
    <3>5. PICK t : t = "TCP"
      OBVIOUS
    <3>6. PICK n \in Nat : n = 20
      OBVIOUS
    <3>1. t = "TCP" /\ n = 20
      BY ONLY <3>5, <3>6
    <3>2. m = IF t = "TCP" THEN 4 * f.doff ELSE 8
      BY ONLY <2>1, <3>1
    <3>3. e = Entry(t, f, Fields(t, ethhdr + iphdrlen(f), n),
                  <<PrintData(0, h), PrintData(h, m),
                    PrintData(14 + h + m, f.len - (14 + h + m))>>)
      BY ONLY <2>3, <3>1
    <3>4. (t = "TCP" => f.doff >= 5) => n <= m
      BY ONLY <2>4, <3>1
    <3> QED
      BY ONLY <3>1, <3>2, <3>3, <3>4, <1>2, EntryShape, f \in Frame, m \in Nat
  <2> QED
    BY ONLY <2>2, <2>5, h \in Nat, m \in Nat, 20 \in Nat
<1>5. CASE f.protocol = 17
  <2>1. PICK e : e = Printed(f) /\ e = print_udp_packet(f)
    BY <1>5 DEF Printed
  <2>6. PICK t : t = "UDP"
    OBVIOUS
  <2>7. PICK n \in Nat, m \in Nat : n = 8 /\ m = 8
    OBVIOUS
  <2>2. t = "UDP" /\ n = 8 /\ m = 8
    BY ONLY <2>6, <2>7
  <2>3. e = Entry(t, f, Fields(t, ethhdr + iphdrlen(f), n),
                  <<PrintData(0, h), PrintData(h, m),
                    PrintData(14 + h + m, f.len - (14 + h + m))>>)
    BY ONLY <1>2, <2>1, <2>2 DEF print_udp_packet, ethhdr
  <2>4. m = (IF t = "TCP" THEN 4 * f.doff ELSE 8) /\ n <= m
    BY <2>2
  <2>5. IsEntry(e, h, m, n)
    BY ONLY <2>2, <2>3, <2>4, <1>2, EntryShape, f \in Frame
  <2> QED
    BY ONLY <2>1, <2>2, <2>5, h \in Nat
<1>6. CASE f.protocol = 1
  <2>1. PICK e : e = Printed(f) /\ e = print_icmp_packet(f)
    BY <1>6 DEF Printed
  <2>6. PICK t : t = "ICMP"
    OBVIOUS
  <2>7. PICK n \in Nat, m \in Nat : n = 4 /\ m = 8
    OBVIOUS
  <2>2. t = "ICMP" /\ n = 4 /\ m = 8
    BY ONLY <2>6, <2>7
  <2>3. e = Entry(t, f, Fields(t, ethhdr + iphdrlen(f), n),
                  <<PrintData(0, h), PrintData(h, m),
                    PrintData(14 + h + m, f.len - (14 + h + m))>>)
    BY ONLY <1>2, <2>1, <2>2 DEF print_icmp_packet, ethhdr
  <2>4. m = (IF t = "TCP" THEN 4 * f.doff ELSE 8) /\ n <= m
    BY <2>2
  <2>5. IsEntry(e, h, m, n)
    BY ONLY <2>2, <2>3, <2>4, <1>2, EntryShape, f \in Frame
  <2> QED
    BY ONLY <2>1, <2>2, <2>5, h \in Nat
<1> QED
  BY ONLY <1>3, <1>4, <1>5, <1>6

-----------------------------------------------------------------------------
\* Its dumps leave the 14 bytes before the payload out.
LEMMA EntryDumps ==
  ASSUME NEW e, NEW h \in Nat, NEW m \in Nat, NEW n \in Nat, IsEntry(e, h, m, n), WellFormed(e)
  PROVE  HexShown(e) =
           From(0, Payload(e) - ethhdr) \o From(Payload(e), e.frame.len)
<1>1. PICK p \in Nat, l \in Nat : /\ p = 14 + h + m /\ l = e.frame.len /\ p = Payload(e)
                                 /\ p - ethhdr = h + m /\ p <= l
  BY DEF IsEntry, Payload, Frame, WellFormed, ethhdr
<1>2. PICK a, b, c : a = PrintData(0, h) /\ b = PrintData(h, m) /\ c = PrintData(p, l - p)
  OBVIOUS
<1>3. e.dumps = <<a, b, c>>
  BY ONLY <1>1, <1>2, IsEntry(e, h, m, n) DEF IsEntry
<1>4. a \in Seq(Token) /\ HexBytes(a) = From(0, h)
  <2>1. 0 \in Int /\ h \in Int /\ 0 + h = h
    OBVIOUS
  <2>2. a \in Seq(Token) /\ HexBytes(a) = From(0, 0 + h)
    <3>1. IsPrinted(a, 0, h)
      BY ONLY <1>2, <2>1, PrintDataFacts
    <3> QED
      BY ONLY <3>1 DEF IsPrinted
  <2> QED
    BY ONLY <2>1, <2>2
<1>5. b \in Seq(Token) /\ HexBytes(b) = From(h, h + m)
  <2>1. h \in Int /\ m \in Int
    OBVIOUS
  <2> QED
    <3>1. IsPrinted(b, h, m)
      BY ONLY <1>2, <2>1, PrintDataFacts
    <3> QED
      BY ONLY <3>1 DEF IsPrinted
<1>6. c \in Seq(Token) /\ HexBytes(c) = From(p, l)
  <2>1. p \in Int /\ l - p \in Int /\ p + (l - p) = l
    OBVIOUS
  <2>2. c \in Seq(Token) /\ HexBytes(c) = From(p, p + (l - p))
    <3>1. IsPrinted(c, p, l - p)
      BY ONLY <1>2, <2>1, PrintDataFacts
    <3> QED
      BY ONLY <3>1 DEF IsPrinted
  <2> QED
    BY ONLY <2>1, <2>2
<1>7. From(0, h) \o From(h, h + m) = From(0, h + m)
  <2>1. 0 \in Int /\ h \in Int /\ h + m \in Int /\ 0 <= h /\ h <= h + m
    OBVIOUS
  <2> QED
    BY ONLY <2>1, FromJoins
<1>8. HexShown(e) = (HexBytes(a) \o HexBytes(b)) \o HexBytes(c)
  <2>1. PICK s : s = [k \in DOMAIN e.dumps |-> HexBytes(e.dumps[k])]
    OBVIOUS
  <2>2. DOMAIN e.dumps = 1..3
    BY ONLY <1>3
  <2>3. Len(s) = 3 /\ s[1] = HexBytes(a) /\ s[2] = HexBytes(b) /\ s[3] = HexBytes(c)
    BY ONLY <1>3, <2>1, <2>2
  <2>4. Len(s) = 3
    BY ONLY <2>3
  <2>5. FlattenSeq(s) = (s[1] \o s[2]) \o s[3]
    BY ONLY <2>4, FlattenThree
  <2> QED
    BY ONLY <2>1, <2>3, <2>5 DEF HexShown
<1> QED
  <2>1. HexShown(e) = From(0, h + m) \o From(p, l)
    BY ONLY <1>4, <1>5, <1>6, <1>7, <1>8
  <2>2. From(0, Payload(e) - ethhdr) \o From(Payload(e), e.frame.len) = From(0, h + m) \o From(p, l)
    BY ONLY <1>1
  <2> QED
    BY ONLY <2>1, <2>2

\* Every line of its dumps agrees.
LEMMA EntryLines ==
  ASSUME NEW e, NEW h \in Nat, NEW m \in Nat, NEW n \in Nat, IsEntry(e, h, m, n)
  PROVE  \A k \in DOMAIN e.dumps : LinesOf(e.dumps[k])
<1>1. PICK p \in Int, z \in Int : p = 14 + h + m /\ z = e.frame.len - (14 + h + m)
  BY DEF IsEntry, Frame
<1>2. PICK a, b, c : a = PrintData(0, h) /\ b = PrintData(h, m) /\ c = PrintData(p, z)
  OBVIOUS
<1>3. e.dumps = <<a, b, c>>
  BY ONLY <1>1, <1>2, IsEntry(e, h, m, n) DEF IsEntry
<1>4. 0 \in Int /\ h \in Int /\ m \in Int
  OBVIOUS
<1>5. LinesOf(a) /\ LinesOf(b) /\ LinesOf(c)
  <2>1. IsPrinted(a, 0, h)
    BY ONLY <1>2, <1>4, PrintDataFacts
  <2>2. IsPrinted(b, h, m)
    BY ONLY <1>2, <1>4, PrintDataFacts
  <2>3. IsPrinted(c, p, z)
    BY ONLY <1>2, PrintDataFacts, p \in Int, z \in Int
  <2> QED
    BY ONLY <2>1, <2>2, <2>3 DEF IsPrinted
<1> QED
  BY ONLY <1>3, <1>5

\* What it reads of a well-formed packet lies inside the frame.
LEMMA EntryReads ==
  ASSUME NEW e, NEW h \in Nat, NEW m \in Nat, NEW n \in Nat, IsEntry(e, h, m, n), WellFormed(e)
  PROVE  Touched(e) \subseteq 0..e.frame.len - 1
<1>1. PICK p \in Nat, l \in Nat : /\ p = 14 + h + m /\ l = e.frame.len /\ p <= l
                                 /\ h >= 20 /\ n <= m
  <2>1. /\ e.frame \in Frame /\ h = 4 * e.frame.ihl
        /\ Transport(e) = [at |-> 14 + h, len |-> m] /\ n <= m
    BY DEF IsEntry
  <2>2. Payload(e) = 14 + h + m
    BY ONLY <2>1 DEF Payload
  <2>3. e.frame.ihl >= 5 /\ Payload(e) <= e.frame.len
    BY DEF WellFormed
  <2>4. e.frame.len \in Nat /\ e.frame.ihl \in 0..15
    BY ONLY <2>1 DEF Frame
  <2>5. 14 + h + m \in Nat /\ h >= 20
    BY ONLY <2>1, <2>3, <2>4, h \in Nat, m \in Nat
  <2> QED
    BY ONLY <2>1, <2>2, <2>3, <2>4, <2>5
<1>2. PICK a, b, c : a = PrintData(0, h) /\ b = PrintData(h, m) /\ c = PrintData(p, l - p)
  OBVIOUS
<1>3. e.dumps = <<a, b, c>>
  BY ONLY <1>1, <1>2, IsEntry(e, h, m, n) DEF IsEntry
<1>4. \A x \in Read(a) : x \in 0..l - 1
  <2>1. 0 \in Int /\ h \in Int
    OBVIOUS
  <2>2. \A x \in Read(a) : x \in 0..0 + h - 1
    <3>1. IsPrinted(a, 0, h)
      BY ONLY <1>2, <2>1, PrintDataFacts
    <3> QED
      BY ONLY <3>1 DEF IsPrinted
  <2> QED
    BY ONLY <2>2, <1>1, h \in Nat, m \in Nat
<1>5. \A x \in Read(b) : x \in 0..l - 1
  <2>1. h \in Int /\ m \in Int
    OBVIOUS
  <2>2. \A x \in Read(b) : x \in h..h + m - 1
    <3>1. IsPrinted(b, h, m)
      BY ONLY <1>2, <2>1, PrintDataFacts
    <3> QED
      BY ONLY <3>1 DEF IsPrinted
  <2> QED
    BY ONLY <2>2, <1>1, h \in Nat, m \in Nat
<1>6. \A x \in Read(c) : x \in 0..l - 1
  <2>1. p \in Int /\ l - p \in Int
    OBVIOUS
  <2>2. \A x \in Read(c) : x \in p..p + (l - p) - 1
    <3>1. IsPrinted(c, p, l - p)
      BY ONLY <1>2, <2>1, PrintDataFacts
    <3> QED
      BY ONLY <3>1 DEF IsPrinted
  <2> QED
    BY ONLY <2>2, <1>1
<1>7. ASSUME NEW k \in 1..3, NEW x \in e.fields[k].bytes PROVE x \in 0..l - 1
  <2>1. x \in 0..13 \/ x \in 14..33 \/ x \in 14 + h..14 + h + n - 1
    <3>1. /\ e.fields[1].bytes = 0..13 /\ e.fields[2].bytes = 14..33
          /\ e.fields[3].bytes = 14 + h..14 + h + n - 1
      BY DEF IsEntry
    <3>2. k = 1 \/ k = 2 \/ k = 3
      OBVIOUS
    <3> QED
      BY ONLY <3>1, <3>2, x \in e.fields[k].bytes
  <2> QED
    BY ONLY <2>1, <1>1, h \in Nat, m \in Nat, n \in Nat
<1>8. ASSUME NEW d \in ToSet(e.dumps), NEW x \in Read(d) PROVE x \in 0..l - 1
  <2>1. d = a \/ d = b \/ d = c
    BY ONLY <1>3, d \in ToSet(e.dumps) DEF ToSet
  <2> QED
    BY ONLY <2>1, <1>4, <1>5, <1>6, x \in Read(d)
<1>9. ASSUME NEW x \in Touched(e) PROVE x \in 0..l - 1
  <2>1. DOMAIN e.fields = 1..3
    BY DEF IsEntry
  <2>2. PICK s \in {e.fields[k].bytes : k \in DOMAIN e.fields} \cup {Read(d) : d \in ToSet(e.dumps)} :
           x \in s
    BY ONLY x \in Touched(e) DEF Touched
  <2>3. CASE s \in {e.fields[k].bytes : k \in DOMAIN e.fields}
    BY ONLY <2>1, <2>2, <2>3, <1>7
  <2>4. CASE s \in {Read(d) : d \in ToSet(e.dumps)}
    BY ONLY <2>2, <2>4, <1>8
  <2> QED
    BY ONLY <2>2, <2>3, <2>4
<1> QED
  BY ONLY <1>1, <1>9
-----------------------------------------------------------------------------
\* The entries the captured frames can give.
Entries == {Printed(f) : f \in {g \in Frames : Counter(g) \in Logged}}

\* Types: the log holds only such entries.
TypeOK ==
  /\ count \in [Counters -> Nat] /\ total \in Nat
  /\ logfile \in {"open", "null"} /\ running \in BOOLEAN
  /\ log \in Seq(Entries) /\ seen \in Seq(Frames)

\* Every state is typed: the counters stay numbers, and the log holds only
\* what print_tcp_packet, print_udp_packet and print_icmp_packet write.
THEOREM TypeCorrect == Spec => []TypeOK
<1>1. Init => TypeOK
  BY DEF Init, TypeOK
<1>2. TypeOK /\ [Next]_vars => TypeOK'
  <2> SUFFICES ASSUME TypeOK, [Next]_vars PROVE TypeOK'
    OBVIOUS
  <2>1. ASSUME NEW f \in Frames, process_packet(f) PROVE TypeOK'
    <3>1. /\ total' = total + 1 /\ logfile' = logfile
          /\ count' = [count EXCEPT ![Counter(f)] = @ + 1] /\ seen' = Append(seen, f)
      BY <2>1 DEF process_packet
    <3>2. total' \in Nat /\ count' \in [Counters -> Nat] /\ logfile' \in {"open", "null"}
      <4>1. total' \in Nat /\ logfile' \in {"open", "null"}
        BY ONLY <3>1, TypeOK DEF TypeOK
      <4>2. \A k \in Counters : count[k] \in Nat /\ count[k] + 1 \in Nat
        BY DEF TypeOK
      <4>3. count' \in [Counters -> Nat]
        BY ONLY <3>1, <4>2, TypeOK DEF TypeOK
      <4> QED
        BY <4>1, <4>3
    <3>3. seen' \in Seq(Frames)
      BY ONLY <3>1, AppendShape, f \in Frames, TypeOK DEF TypeOK
    <3>4. log' \in Seq(Entries) /\ running' \in BOOLEAN
      <4>1. \/ Counter(f) \in Logged /\ log' = Append(log, Printed(f)) /\ running' = running
            \/ log' = log /\ running' = FALSE
            \/ log' = log /\ running' = running
        BY <2>1 DEF process_packet
      <4>2. Counter(f) \in Logged => Printed(f) \in Entries
        BY DEF Entries
      <4>3. log \in Seq(Entries) /\ running \in BOOLEAN
        BY DEF TypeOK
      <4>4. ASSUME Counter(f) \in Logged PROVE Append(log, Printed(f)) \in Seq(Entries)
        BY ONLY <4>2, <4>3, <4>4, AppendShape
      <4> QED
        BY ONLY <4>1, <4>3, <4>4
    <3> QED
      BY ONLY <3>2, <3>3, <3>4 DEF TypeOK
  <2>2. CASE UNCHANGED vars
    BY <2>2 DEF vars, TypeOK
  <2> QED
    BY <2>1, <2>2 DEF Next
<1> QED
  BY <1>1, <1>2, PTL DEF Spec

\* So every entry of the log is one the lemmas above are about.
LEMMA LogFacts ==
  ASSUME TypeOK, NEW n \in DOMAIN log
  PROVE  \E h, m, k \in Nat : IsEntry(log[n], h, m, k)
<1>1. log[n] \in Entries
  BY DEF TypeOK
<1>2. PICK f \in Frames : Counter(f) \in Logged /\ log[n] = Printed(f)
  BY ONLY <1>1 DEF Entries
<1>3. f \in Frame
  BY SnifferAssumption DEF SnifferAssumption
<1> QED
  BY ONLY <1>2, <1>3, PrintedFacts

\* The dumps of a well-formed packet show every byte once and in order, but for
\* the 14 before the payload, whatever its lengths (sniff2.c 171-173, 202-208).
THEOREM FourteenBytesMissing == Spec => []DumpsSkipFourteen
<1>1. TypeOK => DumpsSkipFourteen
  <2> SUFFICES ASSUME TypeOK, NEW n \in DOMAIN log, WellFormed(log[n])
               PROVE  HexShown(log[n]) =
                        From(0, Payload(log[n]) - ethhdr) \o From(Payload(log[n]), log[n].frame.len)
    BY DEF DumpsSkipFourteen
  <2>1. PICK h \in Nat, m \in Nat, k \in Nat : IsEntry(log[n], h, m, k)
    BY LogFacts
  <2> QED
    BY ONLY <2>1, EntryDumps, WellFormed(log[n])
<1> QED
  BY <1>1, TypeCorrect, PTL

\* In every dump, of any size, each line's text shows the bytes its hex shows
\* (PrintData, sniff2.c 299-344).
THEOREM HexAndTextAgree == Spec => []LinesAgree
<1>1. TypeOK => LinesAgree
  <2> SUFFICES ASSUME TypeOK, NEW n \in DOMAIN log, NEW k \in DOMAIN log[n].dumps
               PROVE  LinesOf(log[n].dumps[k])
    BY DEF LinesAgree, LinesOf
  <2>1. PICK h \in Nat, m \in Nat, j \in Nat : IsEntry(log[n], h, m, j)
    BY LogFacts
  <2> QED
    BY ONLY <2>1, EntryLines, k \in DOMAIN log[n].dumps
<1> QED
  BY <1>1, TypeCorrect, PTL

\* No byte beyond the capture is read for a well-formed packet that pcap kept
\* whole, for any snapshot length (sniff2.c 88, 93, 171, 208).
THEOREM ReadsStayInside == Spec => []WithinCapture
<1>1. TypeOK => WithinCapture
  <2> SUFFICES ASSUME TypeOK, NEW n \in DOMAIN log, WellFormed(log[n]),
                      ~(log[n].frame.len > SnapLen)
               PROVE  Touched(log[n]) \subseteq 0..Least(log[n].frame.len, SnapLen) - 1
    BY DEF WithinCapture
  <2>1. PICK h \in Nat, m \in Nat, k \in Nat : IsEntry(log[n], h, m, k)
    BY LogFacts
  <2>2. Touched(log[n]) \subseteq 0..log[n].frame.len - 1
    BY ONLY <2>1, EntryReads, WellFormed(log[n])
  <2>3. Least(log[n].frame.len, SnapLen) = log[n].frame.len
    <3>1. log[n].frame.len \in Nat /\ SnapLen \in Nat
      BY <2>1, SnifferAssumption DEF IsEntry, Frame, SnifferAssumption
    <3> QED
      BY <3>1 DEF Least
  <2> QED
    BY ONLY <2>2, <2>3
<1> QED
  BY <1>1, TypeCorrect, PTL

-----------------------------------------------------------------------------
(* DevDrivers/TickTock.c, which also turns numbers into text.  What follows *)
(* is about that program, TickTock, for any processes, clocks and bounds,   *)
(* any largest int and any buffer its text fits: itoa and atoi by induction *)
(* over the number, the reads by an invariant of those not disturbed.       *)
CONSTANTS Procs, Clocks, Ticks, IntMax, Size, MaxReads, MaxWrites
VARIABLES clock, b, mem, pc, num, str, len, ubuf, writes, hit, newline

TT == INSTANCE TickTock

(* What TickTock assumes of its constants.                                  *)
TockAssumed == TT!TickTockAssumption /\ TT!SizeAssumption

\* A remainder is not negative and below its divisor, and a number that is
\* already is its own remainder.
LEMMA TockRemainder ==
  ASSUME NEW x \in Int, NEW m \in Nat, m > 0
  PROVE  x % m \in 0..m - 1 /\ (x \in 0..m - 1 => x % m = x)
OBVIOUS

\* What Wrap gives is an int, and an int it leaves alone.
LEMMA TockWrapInt ==
  ASSUME TockAssumed, NEW x \in Int
  PROVE  TT!Wrap(x) \in -IntMax - 1..IntMax /\ (x \in -IntMax - 1..IntMax => TT!Wrap(x) = x)
<1>1. IntMax \in Nat
  BY TockAssumed DEF TT!TickTockAssumption, TockAssumed
<1>2. PICK m \in Nat, y \in Int : m = 2 * (IntMax + 1) /\ y = x + IntMax + 1
  BY <1>1
<1>3. y % m \in 0..m - 1 /\ (y \in 0..m - 1 => y % m = y)
  BY <1>1, <1>2, TockRemainder
<1>4. TT!Wrap(x) = (y % m) - IntMax - 1
  BY <1>2 DEF TT!Wrap
<1>5. PICK z \in Int : z = y % m
  BY <1>3
<1> QED
  BY <1>1, <1>2, <1>3, <1>4, <1>5

-----------------------------------------------------------------------------
\* The function itoa is chosen for, and the one Decimal is chosen for.
TockLowBody(m, g) == [k \in 0..m |-> IF k < 10 THEN <<48 + k>> ELSE <<48 + (k % 10)>> \o g[k \div 10]]
TockHighBody(m, g) == [k \in 0..m |-> IF k < 10 THEN <<48 + k>> ELSE Append(g[k \div 10], 48 + (k % 10))]

\* There is such a function: by induction over the numbers.
LEMMA TockLowExists ==
  ASSUME NEW m \in Nat
  PROVE  \E g : g = TockLowBody(m, g)
<1> DEFINE T == {n \in Nat : \E g : g = TockLowBody(n, g)}
<1>1. 0 \in T
  <2>1. [k \in 0..0 |-> <<48 + k>>] = TockLowBody(0, [k \in 0..0 |-> <<48 + k>>])
    BY DEF TockLowBody
  <2> QED
    BY <2>1
<1>2. ASSUME NEW n \in T PROVE n + 1 \in T
  <2>1. PICK g : g = TockLowBody(n, g)
    OBVIOUS
  <2> DEFINE h == [k \in 0..n + 1 |-> IF k <= n THEN g[k] ELSE
                     IF k < 10 THEN <<48 + k>> ELSE <<48 + (k % 10)>> \o g[k \div 10]]
  <2>2. ASSUME NEW k \in 0..n + 1
        PROVE  h[k] = IF k < 10 THEN <<48 + k>> ELSE <<48 + (k % 10)>> \o h[k \div 10]
    <3>1. k >= 10 => k \div 10 \in 0..n /\ k \div 10 \in 0..n + 1
      OBVIOUS
    <3>2. k >= 10 => h[k \div 10] = g[k \div 10]
      BY <3>1
    <3>3. k <= n => k \in 0..n /\ h[k] = g[k]
      OBVIOUS
    <3>4. k <= n => g[k] = IF k < 10 THEN <<48 + k>> ELSE <<48 + (k % 10)>> \o g[k \div 10]
      BY ONLY <2>1, <3>3 DEF TockLowBody
    <3>5. ~(k <= n) => h[k] = IF k < 10 THEN <<48 + k>> ELSE <<48 + (k % 10)>> \o g[k \div 10]
      OBVIOUS
    <3>6. k \in Nat
      OBVIOUS
    <3> HIDE DEF h
    <3> QED
      BY ONLY <3>2, <3>3, <3>4, <3>5, <3>6
  <2>3. h = [k \in 0..n + 1 |-> IF k < 10 THEN <<48 + k>> ELSE <<48 + (k % 10)>> \o h[k \div 10]]
    <3> HIDE DEF h
    <3>1. h = [k \in 0..n + 1 |-> h[k]]
      BY DEF h
    <3> QED
      BY ONLY <2>2, <3>1
  <2>4. h = TockLowBody(n + 1, h)
    BY ONLY <2>3 DEF TockLowBody
  <2> QED
    BY <2>4
<1>3. T = Nat
  <2> HIDE DEF T
  <2>1. T \in SUBSET Nat
    BY DEF T
  <2> QED
    BY <1>1, <1>2, <2>1, SetInduction
<1> QED
  BY <1>3

\* A sequence with another element in front.
LEMMA TockConsShape ==
  ASSUME NEW S, NEW s \in Seq(S), NEW x \in S
  PROVE  /\ <<x>> \o s \in Seq(S) /\ Len(<<x>> \o s) = Len(s) + 1
         /\ (<<x>> \o s)[1] = x
         /\ \A i \in 2..Len(s) + 1 : (<<x>> \o s)[i] = s[i - 1]
OBVIOUS

\* The reverse of a sequence.
LEMMA TockRevShape ==
  ASSUME NEW S, NEW s \in Seq(S)
  PROVE  /\ Reverse(s) \in Seq(S) /\ Len(Reverse(s)) = Len(s)
         /\ \A i \in 1..Len(s) : Reverse(s)[i] = s[Len(s) - i + 1]
<1>1. Len(s) \in Nat /\ \A i \in 1..Len(s) : s[i] \in S
  BY SeqShape
<1>2. PICK n \in Nat : n = Len(s)
  BY <1>1
<1>3. Reverse(s) = [i \in 1..n |-> s[n - i + 1]]
  BY <1>2 DEF Reverse
<1>4. \A i \in 1..n : n - i + 1 \in 1..n /\ s[n - i + 1] \in S
  BY <1>1, <1>2
<1>5. Reverse(s) \in [1..n -> S]
  BY ONLY <1>3, <1>4
<1>6. \A i \in 1..n : Reverse(s)[i] = s[n - i + 1]
  BY ONLY <1>3
<1>7. Reverse(s) \in Seq(S) /\ Len(Reverse(s)) = n
  BY ONLY <1>5
<1> QED
  BY ONLY <1>2, <1>6, <1>7

\* The last of the reverse is the first.
LEMMA TockRevCons ==
  ASSUME NEW S, NEW s \in Seq(S), NEW x \in S
  PROVE  Reverse(<<x>> \o s) = Append(Reverse(s), x)
<1>1. PICK n \in Nat : n = Len(s)
  BY SeqShape
<1>2. PICK t : t = <<x>> \o s
  OBVIOUS
<1>3. t \in Seq(S) /\ Len(t) = n + 1 /\ t[1] = x /\ \A i \in 2..n + 1 : t[i] = s[i - 1]
  BY ONLY <1>1, <1>2, TockConsShape, s \in Seq(S), x \in S
<1>4. PICK u : u = Reverse(s)
  OBVIOUS
<1>5. u \in Seq(S) /\ Len(u) = n /\ \A i \in 1..n : u[i] = s[n - i + 1]
  BY ONLY <1>1, <1>4, TockRevShape, s \in Seq(S)
<1>6. PICK v : v = Append(u, x)
  OBVIOUS
<1>7. v \in Seq(S) /\ Len(v) = n + 1 /\ v[n + 1] = x /\ \A i \in 1..n : v[i] = u[i]
  BY ONLY <1>5, <1>6, AppendShape, u \in Seq(S), x \in S
<1>8. PICK w : w = Reverse(t)
  OBVIOUS
<1>9. w \in Seq(S) /\ Len(w) = n + 1 /\ \A i \in 1..n + 1 : w[i] = t[n + 1 - i + 1]
  <2>1. w \in Seq(S) /\ Len(w) = Len(t) /\ \A i \in 1..Len(t) : w[i] = t[Len(t) - i + 1]
    BY ONLY <1>8, TockRevShape, <1>3
  <2> QED
    BY ONLY <2>1, <1>3
<1>10. ASSUME NEW i \in 1..n + 1 PROVE w[i] = v[i]
  <2>1. CASE i = n + 1
    BY ONLY <2>1, <1>3, <1>7, <1>9, n \in Nat
  <2>2. CASE i # n + 1
    <3>1. PICK j \in 2..n + 1 : j = n + 1 - i + 1 /\ j - 1 = n - i + 1
      BY <2>2
    <3>2. w[i] = t[j] /\ t[j] = s[j - 1]
      BY ONLY <3>1, <1>3, <1>9, i \in 1..n + 1
    <3>3. v[i] = u[i] /\ u[i] = s[j - 1]
      BY ONLY <2>2, <3>1, <1>5, <1>7, i \in 1..n + 1, n \in Nat
    <3> QED
      BY ONLY <3>2, <3>3
  <2> QED
    BY <2>1, <2>2
<1>11. w = v
  BY ONLY <1>7, <1>9, <1>10, SeqEqual
<1> QED
  BY ONLY <1>2, <1>4, <1>6, <1>8, <1>11

\* And the first the last.
LEMMA TockRevSnoc ==
  ASSUME NEW S, NEW s \in Seq(S), NEW x \in S
  PROVE  Reverse(Append(s, x)) = <<x>> \o Reverse(s)
<1>1. PICK n \in Nat : n = Len(s)
  BY SeqShape
<1>2. PICK t : t = Append(s, x)
  OBVIOUS
<1>3. t \in Seq(S) /\ Len(t) = n + 1 /\ t[n + 1] = x /\ \A i \in 1..n : t[i] = s[i]
  BY ONLY <1>1, <1>2, AppendShape, s \in Seq(S), x \in S
<1>4. PICK u : u = Reverse(s)
  OBVIOUS
<1>5. u \in Seq(S) /\ Len(u) = n /\ \A i \in 1..n : u[i] = s[n - i + 1]
  BY ONLY <1>1, <1>4, TockRevShape, s \in Seq(S)
<1>6. PICK v : v = <<x>> \o u
  OBVIOUS
<1>7. v \in Seq(S) /\ Len(v) = n + 1 /\ v[1] = x /\ \A i \in 2..n + 1 : v[i] = u[i - 1]
  BY ONLY <1>5, <1>6, TockConsShape, u \in Seq(S), x \in S
<1>8. PICK w : w = Reverse(t)
  OBVIOUS
<1>9. w \in Seq(S) /\ Len(w) = n + 1 /\ \A i \in 1..n + 1 : w[i] = t[n + 1 - i + 1]
  <2>1. w \in Seq(S) /\ Len(w) = Len(t) /\ \A i \in 1..Len(t) : w[i] = t[Len(t) - i + 1]
    BY ONLY <1>8, TockRevShape, <1>3
  <2> QED
    BY ONLY <2>1, <1>3
<1>10. ASSUME NEW i \in 1..n + 1 PROVE w[i] = v[i]
  <2>1. CASE i = 1
    BY ONLY <2>1, <1>3, <1>7, <1>9, n \in Nat
  <2>2. CASE i # 1
    <3>1. i \in 2..n + 1 /\ i - 1 \in 1..n /\ n + 1 - i + 1 = n - (i - 1) + 1 /\ n + 1 - i + 1 \in 1..n
      BY <2>2
    <3> QED
      BY ONLY <3>1, <1>3, <1>5, <1>7, <1>9, i \in 1..n + 1
  <2> QED
    BY <2>1, <2>2
<1>11. w = v
  BY ONLY <1>7, <1>9, <1>10, SeqEqual
<1> QED
  BY ONLY <1>2, <1>4, <1>6, <1>8, <1>11

-----------------------------------------------------------------------------
\* The characters of digits.
TockDigit == 48..57

\* A number without its last digit, and that digit.
LEMMA TockLastDigit ==
  ASSUME NEW k \in Nat
  PROVE  /\ k < 10 => 48 + k \in TockDigit
         /\ 48 + (k % 10) \in TockDigit /\ 10 * (k \div 10) + (k % 10) = k
         /\ k \div 10 \in 0..k /\ (k >= 10 => k \div 10 \in 0..k - 1 /\ k \div 10 > 0)
BY DEF TockDigit

\* One round of itoa's loop: the last digit, then the text of the rest.
LEMMA TockLowStep ==
  ASSUME NEW m \in Nat, NEW g, g = TockLowBody(m, g), NEW k \in 0..m
  PROVE  /\ k < 10 => g[k] = <<48 + k>>
         /\ k >= 10 => g[k] = <<48 + (k % 10)>> \o g[k \div 10]
<1>1. g[k] = TockLowBody(m, g)[k]
  BY ONLY g = TockLowBody(m, g)
<1>2. ASSUME k < 10 PROVE g[k] = <<48 + k>>
  BY ONLY <1>1, <1>2, k \in 0..m DEF TockLowBody
<1>3. ASSUME k >= 10 PROVE g[k] = <<48 + (k % 10)>> \o g[k \div 10]
  <2>1. ~(k < 10)
    BY <1>3
  <2> QED
    BY ONLY <1>1, <2>1, k \in 0..m DEF TockLowBody
<1> QED
  BY ONLY <1>2, <1>3

\* The same of Decimal: the text of the rest, then the last digit.
LEMMA TockHighStep ==
  ASSUME NEW m \in Nat, NEW g, g = TockHighBody(m, g), NEW k \in 0..m
  PROVE  /\ k < 10 => g[k] = <<48 + k>>
         /\ k >= 10 => g[k] = Append(g[k \div 10], 48 + (k % 10))
<1>1. g[k] = TockHighBody(m, g)[k]
  BY ONLY g = TockHighBody(m, g)
<1>2. ASSUME k < 10 PROVE g[k] = <<48 + k>>
  BY ONLY <1>1, <1>2, k \in 0..m DEF TockHighBody
<1>3. ASSUME k >= 10 PROVE g[k] = Append(g[k \div 10], 48 + (k % 10))
  <2>1. ~(k < 10)
    BY <1>3
  <2> QED
    BY ONLY <1>1, <2>1, k \in 0..m DEF TockHighBody
<1> QED
  BY ONLY <1>2, <1>3

\* What itoa collects are digits, one at least: by induction over k.
TockIsDigits(s) == s \in Seq(TockDigit) /\ Len(s) >= 1

\* One digit is text.
LEMMA TockOneDigit == \A x \in TockDigit : TockIsDigits(<<x>>)
BY DEF TockIsDigits

\* Digits with another before or behind them, or turned round, are digits.
LEMMA TockMoreDigits ==
  ASSUME NEW s, TockIsDigits(s), NEW x \in TockDigit
  PROVE  TockIsDigits(<<x>> \o s) /\ TockIsDigits(Append(s, x)) /\ TockIsDigits(Reverse(s))
<1>1. s \in Seq(TockDigit) /\ Len(s) >= 1 /\ Len(s) \in Nat
  BY SeqShape DEF TockIsDigits
<1>2. <<x>> \o s \in Seq(TockDigit) /\ Len(<<x>> \o s) = Len(s) + 1
  BY ONLY <1>1, TockConsShape, x \in TockDigit
<1>3. Append(s, x) \in Seq(TockDigit) /\ Len(Append(s, x)) = Len(s) + 1
  BY ONLY <1>1, AppendShape, x \in TockDigit
<1>4. Reverse(s) \in Seq(TockDigit) /\ Len(Reverse(s)) = Len(s)
  BY ONLY <1>1, TockRevShape
<1> QED
  BY ONLY <1>1, <1>2, <1>3, <1>4 DEF TockIsDigits

\* What itoa's loop collects for any number it is given, by induction over it.
LEMMA TockLowDigits ==
  ASSUME NEW m \in Nat, NEW g, g = TockLowBody(m, g)
  PROVE  \A k \in 0..m : TockIsDigits(g[k])
<1> DEFINE T == {n \in Nat : \A k \in 0..m : k <= n => TockIsDigits(g[k])}
<1>0. ASSUME NEW n \in Nat, \A k \in 0..m : k < n => TockIsDigits(g[k])
      PROVE  n \in 0..m => TockIsDigits(g[n])
  <2>1. ASSUME n \in 0..m, n < 10 PROVE TockIsDigits(g[n])
    <3>1. g[n] = <<48 + n>>
      BY ONLY <2>1, TockLowStep, m \in Nat, g = TockLowBody(m, g)
    <3>2. 48 + n \in TockDigit
      BY <2>1, TockLastDigit
    <3> QED
      BY ONLY <3>1, <3>2, TockOneDigit
  <2>2. ASSUME n \in 0..m, n >= 10 PROVE TockIsDigits(g[n])
    <3>1. g[n] = <<48 + (n % 10)>> \o g[n \div 10]
      BY ONLY <2>2, TockLowStep, m \in Nat, g = TockLowBody(m, g)
    <3>2. 48 + (n % 10) \in TockDigit /\ n \div 10 \in 0..n - 1
      BY <2>2, TockLastDigit
    <3>3. n \div 10 \in 0..m /\ n \div 10 < n
      BY ONLY <2>2, <3>2, m \in Nat
    <3>4. TockIsDigits(g[n \div 10])
      BY ONLY <3>3, <1>0
    <3> QED
      BY ONLY <3>1, <3>2, <3>4, TockMoreDigits
  <2> QED
    BY <2>1, <2>2
<1>1. 0 \in T
  BY <1>0
<1>2. ASSUME NEW n \in T PROVE n + 1 \in T
  <2>1. \A k \in 0..m : k < n + 1 => TockIsDigits(g[k])
    OBVIOUS
  <2>2. n + 1 \in 0..m => TockIsDigits(g[n + 1])
    BY ONLY <1>0, <2>1, n \in Nat
  <2> QED
    BY <2>1, <2>2
<1>3. T = Nat
  <2> HIDE DEF T
  <2>1. T \in SUBSET Nat
    BY DEF T
  <2> QED
    BY <1>1, <1>2, <2>1, SetInduction
<1> QED
  BY <1>3

\* Decimal's function gives the reverse of itoa's.
LEMMA TockHighIsReverse ==
  ASSUME NEW m \in Nat, NEW n \in Nat, m <= n, NEW g, g = TockLowBody(n, g),
         NEW h, h = TockHighBody(m, h)
  PROVE  \A k \in 0..m : h[k] = Reverse(g[k])
<1> DEFINE T == {j \in Nat : \A k \in 0..m : k <= j => h[k] = Reverse(g[k])}
<1>0. ASSUME NEW j \in Nat, \A k \in 0..m : k < j => h[k] = Reverse(g[k])
      PROVE  j \in 0..m => h[j] = Reverse(g[j])
  <2>1. ASSUME j \in 0..m, j < 10 PROVE h[j] = Reverse(g[j])
    <3>1. j \in 0..n
      BY <2>1
    <3>2. g[j] = <<48 + j>>
      BY ONLY <2>1, <3>1, TockLowStep, n \in Nat, g = TockLowBody(n, g)
    <3>3. h[j] = <<48 + j>>
      BY ONLY <2>1, TockHighStep, m \in Nat, h = TockHighBody(m, h)
    <3>4. Reverse(<<48 + j>>) = <<48 + j>>
      BY DEF Reverse
    <3> QED
      BY ONLY <3>2, <3>3, <3>4
  <2>2. ASSUME j \in 0..m, j >= 10 PROVE h[j] = Reverse(g[j])
    <3>1. j \in 0..n
      BY <2>2
    <3>2. g[j] = <<48 + (j % 10)>> \o g[j \div 10]
      BY ONLY <2>2, <3>1, TockLowStep, n \in Nat, g = TockLowBody(n, g)
    <3>3. h[j] = Append(h[j \div 10], 48 + (j % 10))
      BY ONLY <2>2, TockHighStep, m \in Nat, h = TockHighBody(m, h)
    <3>4. 48 + (j % 10) \in TockDigit /\ j \div 10 \in 0..j - 1
      BY <2>2, TockLastDigit
    <3>5. j \div 10 \in 0..m /\ j \div 10 < j /\ j \div 10 \in 0..n
      BY ONLY <2>2, <3>1, <3>4, m \in Nat, n \in Nat
    <3>6. h[j \div 10] = Reverse(g[j \div 10])
      BY ONLY <3>5, <1>0
    <3>7. g[j \div 10] \in Seq(TockDigit)
      BY ONLY <3>5, TockLowDigits, n \in Nat, g = TockLowBody(n, g) DEF TockIsDigits
    <3>8. Reverse(<<48 + (j % 10)>> \o g[j \div 10]) = Append(Reverse(g[j \div 10]), 48 + (j % 10))
      BY ONLY <3>4, <3>7, TockRevCons
    <3> QED
      BY ONLY <3>2, <3>3, <3>6, <3>8
  <2> QED
    BY <2>1, <2>2
<1>1. 0 \in T
  BY <1>0
<1>2. ASSUME NEW j \in T PROVE j + 1 \in T
  <2>1. \A k \in 0..m : k < j + 1 => h[k] = Reverse(g[k])
    OBVIOUS
  <2>2. j + 1 \in 0..m => h[j + 1] = Reverse(g[j + 1])
    BY ONLY <1>0, <2>1, j \in Nat
  <2> QED
    BY <2>1, <2>2
<1>3. T = Nat
  <2> HIDE DEF T
  <2>1. T \in SUBSET Nat
    BY DEF T
  <2> QED
    BY <1>1, <1>2, <2>1, SetInduction
<1> QED
  BY <1>3

\* There is such a function: itoa's, reversed.
LEMMA TockHighExists ==
  ASSUME NEW m \in Nat
  PROVE  \E h : h = TockHighBody(m, h)
<1>1. PICK g : g = TockLowBody(m, g)
  BY TockLowExists
<1> DEFINE h == [k \in 0..m |-> Reverse(g[k])]
<1>2. ASSUME NEW k \in 0..m
      PROVE  h[k] = IF k < 10 THEN <<48 + k>> ELSE Append(h[k \div 10], 48 + (k % 10))
  <2>1. h[k] = Reverse(g[k]) /\ k \in Nat
    OBVIOUS
  <2>2. ASSUME k < 10 PROVE h[k] = <<48 + k>>
    <3>1. g[k] = <<48 + k>>
      BY ONLY <2>2, TockLowStep, m \in Nat, <1>1, k \in 0..m
    <3>2. Reverse(<<48 + k>>) = <<48 + k>>
      BY DEF Reverse
    <3> QED
      BY ONLY <2>1, <3>1, <3>2
  <2>3. ASSUME k >= 10 PROVE h[k] = Append(h[k \div 10], 48 + (k % 10))
    <3>1. g[k] = <<48 + (k % 10)>> \o g[k \div 10]
      BY ONLY <2>3, TockLowStep, m \in Nat, <1>1, k \in 0..m
    <3>2. 48 + (k % 10) \in TockDigit /\ k \div 10 \in 0..k - 1
      BY <2>3, TockLastDigit
    <3>3. k \div 10 \in 0..m
      BY ONLY <2>3, <3>2, m \in Nat, k \in 0..m
    <3>4. g[k \div 10] \in Seq(TockDigit) /\ h[k \div 10] = Reverse(g[k \div 10])
      BY <3>3, TockLowDigits, <1>1 DEF TockIsDigits
    <3>5. Reverse(<<48 + (k % 10)>> \o g[k \div 10]) = Append(Reverse(g[k \div 10]), 48 + (k % 10))
      BY ONLY <3>2, <3>4, TockRevCons
    <3> QED
      BY ONLY <2>1, <3>1, <3>4, <3>5
  <2> HIDE DEF h
  <2>4. k < 10 \/ (k >= 10 /\ ~(k < 10))
    BY <2>1
  <2>5. CASE k < 10
    BY ONLY <2>2, <2>5
  <2>6. CASE k >= 10 /\ ~(k < 10)
    BY ONLY <2>3, <2>6
  <2> QED
    BY ONLY <2>4, <2>5, <2>6
<1>3. h = [k \in 0..m |-> IF k < 10 THEN <<48 + k>> ELSE Append(h[k \div 10], 48 + (k % 10))]
  <2> HIDE DEF h
  <2>1. h = [k \in 0..m |-> h[k]]
    BY DEF h
  <2> QED
    BY ONLY <1>2, <2>1
<1>4. h = TockHighBody(m, h)
  BY ONLY <1>3 DEF TockHighBody
<1> QED
  BY <1>4

-----------------------------------------------------------------------------
\* The ints, and the characters of their texts.
TockInts == -IntMax - 1..IntMax
TockCodes == 39..57
TockIsText(s) == s \in Seq(TockCodes) /\ Len(s) >= 1

\* Digits hold no NUL and nothing that ends a string.
LEMMA TockDigitsAreText ==
  ASSUME NEW s, TockIsDigits(s)
  PROVE  TockIsText(s)
<1>1. s \in Seq(TockDigit) /\ Len(s) >= 1
  BY DEF TockIsDigits
<1>2. TockDigit \subseteq TockCodes
  BY DEF TockDigit, TockCodes
<1>3. s \in Seq(TockCodes)
  BY ONLY <1>1, <1>2
<1> QED
  BY ONLY <1>1, <1>3 DEF TockIsText

\* What itoa writes, by cases.
TockItoaCases(g, n) ==
  /\ n >= 0 => TT!itoa(n) = g[n]
  /\ n < 0 /\ n # -IntMax - 1 => TT!itoa(n) = Append(g[-n], 45)
  /\ n = -IntMax - 1 => TT!itoa(n) = [i \in DOMAIN g[-n] |-> 96 - g[-n][i]] \o <<45>>

\* itoa collects the digits of every int by that one function of its loop.
LEMMA TockItoaIs ==
  ASSUME TockAssumed
  PROVE  \E g : g = TockLowBody(IntMax + 1, g) /\ \A n \in TockInts : TockItoaCases(g, n)
<1> DEFINE g == CHOOSE f : f = TockLowBody(IntMax + 1, f)
<1>1. IntMax \in Nat /\ IntMax + 1 \in Nat
  BY TockAssumed DEF TT!TickTockAssumption, TockAssumed
<1>2. g = TockLowBody(IntMax + 1, g)
  BY <1>1, TockLowExists
<1>3. ASSUME NEW n \in TockInts
      PROVE  TT!itoa(n) = IF n = -IntMax - 1 THEN [i \in DOMAIN g[-n] |-> 96 - g[-n][i]] \o <<45>>
                          ELSE IF n < 0 THEN Append(g[-n], 45) ELSE g[n]
  BY DEF TT!itoa, TockLowBody
<1> HIDE DEF g
<1>4. ASSUME NEW n \in TockInts PROVE TockItoaCases(g, n)
  <2>1. /\ n >= 0 => ~(n < 0) /\ n # -IntMax - 1
        /\ n < 0 \/ n >= 0
    BY <1>1 DEF TockInts
  <2> QED
    BY ONLY <1>3, <2>1, n \in TockInts DEF TockItoaCases
<1> QED
  BY <1>2, <1>4

\* Decimal is given by one function as well.
LEMMA TockDecimalIs ==
  ASSUME TockAssumed
  PROVE  \E h : /\ h = TockHighBody(IntMax, h)
              /\ \A n \in TockInts : TT!Decimal(n) = IF n < 0 THEN <<45>> \o h[-n] ELSE h[n]
<1> DEFINE h == CHOOSE f : f = TockHighBody(IntMax, f)
<1>1. IntMax \in Nat
  BY TockAssumed DEF TT!TickTockAssumption, TockAssumed
<1>2. h = TockHighBody(IntMax, h)
  BY <1>1, TockHighExists
<1>3. ASSUME NEW n \in TockInts
      PROVE  TT!Decimal(n) = IF n < 0 THEN <<45>> \o h[-n] ELSE h[n]
  BY DEF TT!Decimal, TockHighBody
<1> QED
  BY <1>2, <1>3

\* The text of any int fits the buffer; but for the least int, backwards it
\* is the decimal notation.
LEMMA TockItoaText ==
  ASSUME TockAssumed, NEW n \in TockInts
  PROVE  /\ TockIsText(TT!itoa(n))
         /\ n # -IntMax - 1 => Reverse(TT!itoa(n)) = TT!Decimal(n)
<1>1. IntMax \in Nat /\ IntMax + 1 \in Nat /\ IntMax <= IntMax + 1
  BY TockAssumed DEF TT!TickTockAssumption, TockAssumed
<1>2. PICK g : g = TockLowBody(IntMax + 1, g) /\ \A k \in TockInts : TockItoaCases(g, k)
  BY TockItoaIs
<1>3. PICK h : /\ h = TockHighBody(IntMax, h)
               /\ \A k \in TockInts : TT!Decimal(k) = IF k < 0 THEN <<45>> \o h[-k] ELSE h[k]
  BY TockDecimalIs
<1>4. \A k \in 0..IntMax + 1 : TockIsDigits(g[k])
  BY ONLY <1>1, <1>2, TockLowDigits
<1>5. \A k \in 0..IntMax : h[k] = Reverse(g[k])
  BY ONLY <1>1, <1>2, <1>3, TockHighIsReverse
<1>6. 45 \in TockCodes
  BY DEF TockCodes
<1>7. CASE n >= 0
  <2>1. n \in 0..IntMax + 1 /\ n \in 0..IntMax /\ ~(n < 0)
    BY <1>1, <1>7 DEF TockInts
  <2>2. TT!itoa(n) = g[n]
    BY ONLY <1>2, <1>7, n \in TockInts DEF TockItoaCases
  <2>3. TockIsText(g[n])
    BY ONLY <1>4, <2>1, TockDigitsAreText
  <2>4. TT!Decimal(n) = h[n] /\ h[n] = Reverse(g[n])
    BY ONLY <1>3, <1>5, <2>1, n \in TockInts
  <2> QED
    BY ONLY <2>2, <2>3, <2>4
<1>8. CASE n < 0 /\ n # -IntMax - 1
  <2>1. -n \in 0..IntMax + 1 /\ -n \in 0..IntMax
    BY <1>1, <1>8 DEF TockInts
  <2>2. TT!itoa(n) = Append(g[-n], 45)
    BY ONLY <1>2, <1>8, n \in TockInts DEF TockItoaCases
  <2>3. PICK s : s = g[-n]
    OBVIOUS
  <2>4. s \in Seq(TockCodes) /\ Len(s) >= 1 /\ Len(s) \in Nat
    BY <1>4, <2>1, <2>3, TockDigitsAreText, SeqShape DEF TockIsText
  <2>5. Append(s, 45) \in Seq(TockCodes) /\ Len(Append(s, 45)) = Len(s) + 1
    BY ONLY <2>4, <1>6, AppendShape
  <2>6. TT!Decimal(n) = <<45>> \o h[-n] /\ h[-n] = Reverse(s)
    BY ONLY <1>3, <1>5, <1>8, <2>1, <2>3, n \in TockInts
  <2>7. Reverse(Append(s, 45)) = <<45>> \o Reverse(s)
    BY ONLY <2>4, <1>6, TockRevSnoc
  <2>8. TockIsText(TT!itoa(n))
    BY ONLY <2>2, <2>3, <2>4, <2>5 DEF TockIsText
  <2> QED
    BY ONLY <2>2, <2>3, <2>6, <2>7, <2>8
<1>9. CASE n = -IntMax - 1
  <2>1. -n \in 0..IntMax + 1
    BY <1>1, <1>9
  <2>2. TT!itoa(n) = [i \in DOMAIN g[-n] |-> 96 - g[-n][i]] \o <<45>>
    BY ONLY <1>2, <1>9, n \in TockInts DEF TockItoaCases
  <2>3a. PICK s : s = g[-n]
    OBVIOUS
  <2>3b. s \in Seq(TockDigit) /\ Len(s) >= 1
    BY ONLY <1>4, <2>1, <2>3a DEF TockIsDigits
  <2>3c. PICK k \in Nat : k = Len(s)
    BY ONLY <2>3b, SeqShape
  <2>3. s = g[-n] /\ s \in Seq(TockDigit) /\ k = Len(s) /\ k >= 1
    BY ONLY <2>3a, <2>3b, <2>3c
  <2>4. DOMAIN s = 1..k /\ \A i \in 1..k : s[i] \in TockDigit
    BY ONLY <2>3, SeqShape
  <2>5. PICK t : t = [i \in 1..k |-> 96 - s[i]]
    OBVIOUS
  <2>6. t \in [1..k -> TockCodes]
    BY ONLY <2>4, <2>5 DEF TockDigit, TockCodes
  <2>7. t \in Seq(TockCodes) /\ Len(t) = k
    BY ONLY <2>6, k \in Nat
  <2>8. TT!itoa(n) = t \o <<45>>
    BY ONLY <2>2, <2>3, <2>4, <2>5
  <2>9. <<45>> \in Seq(TockCodes) /\ Len(<<45>>) = 1
    BY ONLY <1>6
  <2>10. t \o <<45>> \in Seq(TockCodes) /\ Len(t \o <<45>>) = k + 1
    BY ONLY <2>7, <2>9, k \in Nat
  <2> QED
    BY ONLY <2>3, <2>8, <2>10, <1>9 DEF TockIsText
<1> QED
  BY <1>1, <1>7, <1>8, <1>9 DEF TockInts

-----------------------------------------------------------------------------
\* A buffer, and the characters in it.
TockBuffer == [1..Size -> Int]
TockIsChars(a, c) ==
  /\ c \in Seq(Int) /\ Len(c) \in 0..Size
  /\ \A i \in 1..Len(c) : c[i] = a[i] /\ a[i] # TT!NUL
  /\ Len(c) < Size => a[Len(c) + 1] = TT!NUL

\* The least of a set of numbers.
LEMMA TockLeastIs ==
  ASSUME NEW S \in SUBSET Nat, S # {}
  PROVE  Min(S) \in S /\ \A y \in S : Min(S) <= y
<1>1. IsWellFoundedOn(OpToRel(<, Nat), Nat)
  BY NatLessThanWellFounded
<1>2. PICK x \in S : \A y \in S : ~(<<y, x>> \in OpToRel(<, Nat))
  BY ONLY <1>1, WFMin, S \in SUBSET Nat, S # {}
<1>3. ASSUME NEW y \in S PROVE x <= y
  <2>1. x \in Nat /\ y \in Nat
    OBVIOUS
  <2>2. y < x => <<y, x>> \in OpToRel(<, Nat)
    BY ONLY <2>1 DEF OpToRel
  <2>3. ~(<<y, x>> \in OpToRel(<, Nat))
    BY ONLY <1>2, y \in S
  <2>4. ~(y < x)
    BY ONLY <2>2, <2>3
  <2> QED
    BY ONLY <2>1, <2>4
<1>4. \E z \in S : \A y \in S : z <= y
  BY <1>3
<1> QED
  BY ONLY <1>4 DEF Min

\* A buffer is a sequence of Size numbers.
LEMMA TockBufferIsSeq ==
  ASSUME TockAssumed, NEW a \in TockBuffer
  PROVE  a \in Seq(Int) /\ Len(a) = Size /\ Size \in Nat /\ \A i \in 1..Size : a[i] \in Int
<1>1. Size \in Nat
  BY TockAssumed DEF TT!TickTockAssumption, TockAssumed
<1> QED
  BY <1>1 DEF TockBuffer

\* The text in a buffer: what stands before its first NUL.
LEMMA TockCharsIs ==
  ASSUME TockAssumed, NEW a \in TockBuffer
  PROVE  TockIsChars(a, TT!Chars(a))
<1>1. a \in Seq(Int) /\ Len(a) = Size /\ Size \in Nat /\ \A i \in 1..Size : a[i] \in Int
  BY TockBufferIsSeq
<1> DEFINE S == {i \in 1..Len(a) + 1 : i <= Len(a) => a[i] = TT!NUL}
<1>2. S \in SUBSET Nat /\ Size + 1 \in S /\ S # {}
  <2>1. S \subseteq 1..Size + 1
    BY ONLY <1>1
  <2>2. Size + 1 \in 1..Len(a) + 1 /\ ~(Size + 1 <= Len(a))
    BY ONLY <1>1
  <2>3. Size + 1 \in S
    BY ONLY <2>2
  <2> HIDE DEF S
  <2> QED
    BY ONLY <1>1, <2>1, <2>3
<1>3. PICK k : k = Min(S)
  OBVIOUS
<1>4. k \in S /\ \A y \in S : k <= y
  <2> HIDE DEF S
  <2> QED
    BY ONLY <1>2, <1>3, TockLeastIs
<1>5. k \in 1..Size + 1 /\ (k <= Size => a[k] = TT!NUL)
  BY <1>1, <1>4
<1>6. ASSUME NEW i \in 1..k - 1 PROVE i \in 1..Size /\ a[i] # TT!NUL
  <2>1. i \in 1..Size /\ i < k /\ i \in 1..Len(a) + 1 /\ i <= Len(a)
    BY <1>1, <1>5
  <2>2. a[i] = TT!NUL => i \in S
    BY <2>1
  <2>3. i \in S => k <= i
    BY <1>4
  <2> HIDE DEF S
  <2> QED
    BY ONLY <2>1, <2>2, <2>3, <1>5, <1>1
<1>7. TT!Chars(a) = SubSeq(a, 1, k - 1)
  BY <1>3 DEF TT!Chars, TT!Min, Min
<1> HIDE DEF S
<1>8. k - 1 \in 0..Size
  BY ONLY <1>1, <1>5
<1>9. SubSeq(a, 1, k - 1) \in Seq(Int) /\ Len(SubSeq(a, 1, k - 1)) = k - 1
  BY ONLY <1>1, <1>8
<1>10. \A i \in 1..k - 1 : SubSeq(a, 1, k - 1)[i] = a[i]
  BY ONLY <1>1, <1>8
<1>11. k - 1 < Size => k - 1 + 1 = k /\ a[k - 1 + 1] = TT!NUL
  BY ONLY <1>1, <1>5
<1> QED
  BY ONLY <1>6, <1>7, <1>8, <1>9, <1>10, <1>11 DEF TockIsChars

\* The text of the first n characters, if they are not NUL, and no more, if a
\* NUL follows.
LEMMA TockCharsEnd ==
  ASSUME TockAssumed, NEW a \in TockBuffer, NEW c, TockIsChars(a, c), NEW n \in 0..Size,
         \A i \in 1..n : a[i] # TT!NUL
  PROVE  Len(c) >= n /\ (n < Size /\ a[n + 1] = TT!NUL => Len(c) = n)
<1>1. PICK l \in 0..Size : l = Len(c)
  BY DEF TockIsChars
<1>2. /\ \A i \in 1..l : a[i] # TT!NUL
      /\ l < Size => a[l + 1] = TT!NUL
  BY <1>1 DEF TockIsChars
<1>3. Size \in Nat /\ l \in Nat /\ n \in Nat
  BY TockBufferIsSeq
<1>4. l >= n
  <2> SUFFICES ASSUME l < n PROVE FALSE
    BY <1>3
  <2>1. l + 1 \in 1..n /\ l < Size
    BY <1>3
  <2> QED
    BY ONLY <2>1, <1>2, \A i \in 1..n : a[i] # TT!NUL
<1>5. ASSUME n < Size, a[n + 1] = TT!NUL PROVE l = n
  <2> SUFFICES ASSUME l > n PROVE FALSE
    BY <1>3, <1>4
  <2>1. n + 1 \in 1..l
    BY <1>3
  <2> QED
    BY ONLY <2>1, <1>2, <1>5
<1> QED
  BY ONLY <1>1, <1>4, <1>5

\* A string put into a buffer, its NUL, and what it leaves behind it.
LEMMA TockPutIs ==
  ASSUME TockAssumed, NEW a \in TockBuffer, NEW s \in Seq(Int)
  PROVE  /\ TT!Put(s, a) \in TockBuffer
         /\ \A i \in 1..Size : /\ i <= Len(s) => TT!Put(s, a)[i] = s[i]
                               /\ i = Len(s) + 1 => TT!Put(s, a)[i] = TT!NUL
                               /\ i > Len(s) + 1 => TT!Put(s, a)[i] = a[i]
<1>1. Size \in Nat /\ \A i \in 1..Size : a[i] \in Int
  BY TockBufferIsSeq
<1>2. PICK n \in Nat : n = Len(s)
  BY SeqShape
<1>3. \A i \in 1..n : s[i] \in Int
  BY ONLY <1>2, SeqShape, s \in Seq(Int)
<1>4. TT!Put(s, a) = [i \in 1..Size |-> IF i <= n THEN s[i] ELSE IF i = n + 1 THEN TT!NUL ELSE a[i]]
  BY <1>2 DEF TT!Put
<1>5. \A i \in 1..Size : i <= n => i \in 1..n
  BY ONLY <1>1, n \in Nat
<1>6. TT!NUL \in Int
  BY DEF TT!NUL
<1>7. TT!Put(s, a) \in [1..Size -> Int]
  BY ONLY <1>1, <1>3, <1>4, <1>5, <1>6
<1>8. \A i \in 1..Size : /\ i <= n => TT!Put(s, a)[i] = s[i]
                         /\ i = n + 1 => TT!Put(s, a)[i] = TT!NUL
                         /\ i > n + 1 => TT!Put(s, a)[i] = a[i]
  BY ONLY <1>4, <1>1, n \in Nat
<1> QED
  BY ONLY <1>2, <1>7, <1>8 DEF TockBuffer

-----------------------------------------------------------------------------
\* The function atoi is chosen for, and that there is one.
TockSumBody(c, n, g) == [i \in 0..n |-> IF i = 0 THEN 0 ELSE TT!Wrap(10 * g[i - 1] + c[i] - 48)]

\* There is a sum for every number of characters, by induction over it.
LEMMA TockSumExists ==
  ASSUME NEW c, NEW m \in Nat
  PROVE  \E g : g = TockSumBody(c, m, g)
<1> DEFINE T == {n \in Nat : \E g : g = TockSumBody(c, n, g)}
<1>1. 0 \in T
  <2>1. [i \in 0..0 |-> 0] = TockSumBody(c, 0, [i \in 0..0 |-> 0])
    BY DEF TockSumBody
  <2> QED
    BY <2>1
<1>2. ASSUME NEW n \in T PROVE n + 1 \in T
  <2>1. PICK g : g = TockSumBody(c, n, g)
    OBVIOUS
  <2> DEFINE h == [i \in 0..n + 1 |-> IF i <= n THEN g[i] ELSE
                     IF i = 0 THEN 0 ELSE TT!Wrap(10 * g[i - 1] + c[i] - 48)]
  <2>2. ASSUME NEW i \in 0..n + 1
        PROVE  h[i] = IF i = 0 THEN 0 ELSE TT!Wrap(10 * h[i - 1] + c[i] - 48)
    <3>1. CASE i <= n
      <4>1. i \in 0..n /\ h[i] = g[i] /\ (i # 0 => i - 1 \in 0..n + 1 /\ h[i - 1] = g[i - 1])
        BY <3>1
      <4>2. g[i] = IF i = 0 THEN 0 ELSE TT!Wrap(10 * g[i - 1] + c[i] - 48)
        BY <2>1, <4>1 DEF TockSumBody
      <4> QED
        BY <4>1, <4>2
    <3>2. CASE ~(i <= n)
      BY <3>2
    <3> QED
      BY <3>1, <3>2
  <2>3. h = [i \in 0..n + 1 |-> IF i = 0 THEN 0 ELSE TT!Wrap(10 * h[i - 1] + c[i] - 48)]
    <3> HIDE DEF h
    <3>1. h = [i \in 0..n + 1 |-> h[i]]
      BY DEF h
    <3> QED
      BY <2>2, <3>1
  <2>4. h = TockSumBody(c, n + 1, h)
    BY <2>3 DEF TockSumBody
  <2> QED
    BY <2>4
<1>3. T = Nat
  <2> HIDE DEF T
  <2>1. T \in SUBSET Nat
    BY DEF T
  <2> QED
    BY <1>1, <1>2, <2>1, SetInduction
<1> QED
  BY <1>3

\* r[i] is what atoi has after i characters of c.
TockIsSum(c, r) ==
  /\ r[0] = 0
  /\ \A i \in 1..Len(c) : r[i] = TT!Wrap(10 * r[i - 1] + c[i] - 48)
  /\ \A i \in 0..Len(c) : r[i] \in TockInts

\* atoi takes in the characters of its text one after the other.
LEMMA TockAtoiIs ==
  ASSUME TockAssumed, NEW a \in TockBuffer
  PROVE  \E r : TockIsSum(TT!Chars(a), r) /\ TT!atoi(a) = r[Len(TT!Chars(a))]
<1>1. PICK c : c = TT!Chars(a)
  OBVIOUS
<1>2. c \in Seq(Int)
  BY ONLY <1>1, TockCharsIs, a \in TockBuffer, TockAssumed DEF TockIsChars
<1>3. PICK n \in Nat : n = Len(c)
  BY ONLY <1>2, SeqShape
<1>4. \A i \in 1..n : c[i] \in Int
  BY ONLY <1>2, <1>3, SeqShape
<1> DEFINE r == CHOOSE f : f = TockSumBody(c, n, f)
<1>5. r = TockSumBody(c, n, r)
  BY TockSumExists
<1>6. TT!atoi(a) = r[n]
  BY <1>1, <1>3 DEF TT!atoi, TockSumBody
<1> HIDE DEF r
<1>7. r[0] = 0
  BY ONLY <1>5, n \in Nat DEF TockSumBody
<1>8. ASSUME NEW i \in 1..n PROVE r[i] = TT!Wrap(10 * r[i - 1] + c[i] - 48)
  <2>1. i \in 0..n /\ i # 0
    OBVIOUS
  <2>2. TockSumBody(c, n, r)[i] = TT!Wrap(10 * r[i - 1] + c[i] - 48)
    BY ONLY <2>1 DEF TockSumBody
  <2> QED
    BY ONLY <1>5, <2>2
<1> DEFINE T == {k \in Nat : k \in 0..n => r[k] \in TockInts}
<1>9. 0 \in T
  <2>1. 0 \in TockInts
    BY TockAssumed DEF TockInts, TT!TickTockAssumption, TockAssumed
  <2> QED
    BY <1>7, <2>1
<1>10. ASSUME NEW k \in T PROVE k + 1 \in T
  <2>1. ASSUME k + 1 \in 0..n PROVE r[k + 1] \in TockInts
    <3>1. k \in 0..n /\ k + 1 \in 1..n /\ k + 1 - 1 = k /\ r[k] \in TockInts
      BY <2>1
    <3>2. r[k + 1] = TT!Wrap(10 * r[k] + c[k + 1] - 48)
      BY ONLY <1>8, <3>1
    <3>3. c[k + 1] \in Int
      BY ONLY <1>4, <3>1
    <3>4. r[k] \in Int
      BY <3>1, TockAssumed DEF TockInts, TT!TickTockAssumption, TockAssumed
    <3>5. 10 * r[k] + c[k + 1] - 48 \in Int
      BY ONLY <3>3, <3>4
    <3> QED
      BY ONLY <3>2, <3>5, TockWrapInt, TockAssumed DEF TockInts
  <2> QED
    BY <2>1
<1>11. T = Nat
  <2> HIDE DEF T
  <2>1. T \in SUBSET Nat
    BY DEF T
  <2> QED
    BY ONLY <1>9, <1>10, <2>1, SetInduction
<1>12. \A i \in 0..n : r[i] \in TockInts
  BY <1>11
<1>13. TockIsSum(c, r)
  BY ONLY <1>3, <1>7, <1>8, <1>12 DEF TockIsSum
<1> QED
  BY ONLY <1>1, <1>3, <1>6, <1>13

\* Every int is one that atoi may return.
LEMMA TockAtoiInt ==
  ASSUME TockAssumed, NEW a \in TockBuffer
  PROVE  TT!atoi(a) \in Int
<1>1. PICK r : TockIsSum(TT!Chars(a), r) /\ TT!atoi(a) = r[Len(TT!Chars(a))]
  BY TockAtoiIs
<1>2. PICK c : c = TT!Chars(a) /\ c \in Seq(Int)
  BY TockCharsIs DEF TockIsChars
<1>3. Len(c) \in 0..Len(c)
  BY ONLY <1>2, SeqShape
<1>4. r[Len(c)] \in TockInts
  BY ONLY <1>1, <1>2, <1>3 DEF TockIsSum
<1> QED
  BY <1>1, <1>2, <1>4, TockAssumed DEF TockInts, TT!TickTockAssumption, TockAssumed

\* The digits of a number n, and atoi after them: n.  By induction over n:
\* without its last digit it is n \div 10.
TockStartsWith(c, s) == Len(s) <= Len(c) /\ \A i \in 1..Len(s) : c[i] = s[i]

\* The digits of n, and atoi after them, by induction over n.
LEMMA TockSumOfDigits ==
  ASSUME TockAssumed,
         NEW c \in Seq(Int), NEW r, TockIsSum(c, r), NEW h, h = TockHighBody(IntMax, h)
  PROVE  \A n \in 0..IntMax : TockStartsWith(c, h[n]) => r[Len(h[n])] = n
<1>1. IntMax \in Nat
  BY TockAssumed DEF TT!TickTockAssumption, TockAssumed
<1>2. PICK g : g = TockLowBody(IntMax, g)
  BY <1>1, TockLowExists
<1>3. ASSUME NEW n \in 0..IntMax PROVE h[n] \in Seq(TockDigit) /\ Len(h[n]) >= 1
  <2>1. h[n] = Reverse(g[n])
    BY ONLY <1>1, <1>2, TockHighIsReverse, IntMax <= IntMax, h = TockHighBody(IntMax, h),
       n \in 0..IntMax
  <2>2. TockIsDigits(g[n])
    BY ONLY <1>1, <1>2, TockLowDigits, n \in 0..IntMax
  <2>3. 48 \in TockDigit
    BY DEF TockDigit
  <2>4. TockIsDigits(Reverse(g[n]))
    BY ONLY <2>2, <2>3, TockMoreDigits
  <2> QED
    BY ONLY <2>1, <2>4 DEF TockIsDigits
<1> DEFINE P(n) == TockStartsWith(c, h[n]) => r[Len(h[n])] = n
           T == {j \in Nat : \A n \in 0..IntMax : n <= j => P(n)}
<1>4. ASSUME NEW n \in Nat, \A k \in 0..IntMax : k < n => P(k)
      PROVE  n \in 0..IntMax => P(n)
  <2> SUFFICES ASSUME n \in 0..IntMax, TockStartsWith(c, h[n]) PROVE r[Len(h[n])] = n
    OBVIOUS
  <2>1. PICK s : s = h[n]
    OBVIOUS
  <2>2. Len(c) \in Nat
    BY SeqShape
  <2>3. CASE n < 10
    <3>1. s = <<48 + n>>
      BY ONLY <2>1, <2>3, TockHighStep, <1>1, h = TockHighBody(IntMax, h), n \in 0..IntMax
    <3>2. Len(s) = 1 /\ s[1] = 48 + n
      BY <3>1
    <3>3. 1 \in 1..Len(s) /\ Len(s) <= Len(c) /\ \A i \in 1..Len(s) : c[i] = s[i]
      BY ONLY <2>1, <3>2, TockStartsWith(c, h[n]) DEF TockStartsWith
    <3>4. c[1] = 48 + n /\ 1 \in 1..Len(c)
      BY ONLY <3>2, <3>3, <2>2
    <3>5. r[1] = TT!Wrap(10 * r[0] + c[1] - 48) /\ r[0] = 0
      BY ONLY <3>4, TockIsSum(c, r), 1 - 1 = 0 DEF TockIsSum
    <3>6. 10 * 0 + (48 + n) - 48 = n
      BY n \in Nat
    <3>7. TT!Wrap(n) = n
      BY <1>1, TockWrapInt, n \in 0..IntMax
    <3> QED
      BY ONLY <2>1, <3>2, <3>4, <3>5, <3>6, <3>7
  <2>4. CASE n >= 10
    <3>1. s = Append(h[n \div 10], 48 + (n % 10))
      BY ONLY <2>1, <2>4, TockHighStep, <1>1, h = TockHighBody(IntMax, h), n \in 0..IntMax
    <3>2. PICK k, d : k = n \div 10 /\ d = 48 + (n % 10)
      OBVIOUS
    <3>3. d \in TockDigit /\ k \in 0..n - 1 /\ 10 * k + d - 48 = n
      BY <2>4, <3>2, TockLastDigit DEF TockDigit
    <3>4. k \in 0..IntMax /\ k < n /\ k \in Nat
      BY ONLY <3>3, <1>1, n \in 0..IntMax
    <3>5. PICK t : t = h[k]
      OBVIOUS
    <3>6. t \in Seq(TockDigit) /\ Len(t) >= 1
      BY ONLY <1>3, <3>4, <3>5
    <3>7. s = Append(t, d)
      BY ONLY <3>1, <3>2, <3>5
    <3>8. PICK l \in Nat : l = Len(t)
      BY ONLY <3>6, SeqShape
    <3>9. Len(s) = l + 1 /\ s[l + 1] = d /\ \A i \in 1..l : s[i] = t[i]
      BY ONLY <3>3, <3>6, <3>7, <3>8, AppendShape
    <3>10. l + 1 <= Len(c) /\ \A i \in 1..l + 1 : c[i] = s[i]
      BY ONLY <2>1, <3>9, TockStartsWith(c, h[n]) DEF TockStartsWith
    <3>11. /\ l <= Len(c) /\ l + 1 \in 1..Len(c) /\ l + 1 - 1 = l /\ c[l + 1] = d
           /\ \A i \in 1..l : c[i] = t[i]
      BY ONLY <2>2, <3>9, <3>10, l \in Nat
    <3>12. TockStartsWith(c, h[k])
      BY ONLY <3>5, <3>8, <3>11 DEF TockStartsWith
    <3>13. r[l] = k
      BY ONLY <1>4, <3>4, <3>5, <3>8, <3>12
    <3>14. r[l + 1] = TT!Wrap(10 * r[l] + c[l + 1] - 48)
      BY ONLY <3>11, TockIsSum(c, r) DEF TockIsSum
    <3>15. TT!Wrap(n) = n
      BY <1>1, TockWrapInt, n \in 0..IntMax
    <3> QED
      BY ONLY <2>1, <3>3, <3>9, <3>11, <3>13, <3>14, <3>15
  <2> QED
    BY <2>3, <2>4, n \in Nat
<1>5. 0 \in T
  BY <1>4
<1>6. ASSUME NEW j \in T PROVE j + 1 \in T
  <2> HIDE DEF P
  <2>1. \A k \in 0..IntMax : k < j + 1 => P(k)
    OBVIOUS
  <2>2. j + 1 \in 0..IntMax => P(j + 1)
    BY ONLY <1>4, <2>1, j \in Nat
  <2> QED
    BY <2>1, <2>2
<1>7. T = Nat
  <2> HIDE DEF T
  <2>1. T \in SUBSET Nat
    BY DEF T
  <2> QED
    BY ONLY <1>5, <1>6, <2>1, SetInduction
<1> HIDE DEF P
<1>8. ASSUME NEW n \in 0..IntMax PROVE P(n)
  <2>1. n \in T /\ n <= n
    <3> HIDE DEF T
    <3> QED
      BY <1>1, <1>7
  <2> QED
    BY <2>1
<1> QED
  BY <1>8 DEF P

\* A sequence over a set is one over any larger set.
LEMMA TockSeqWider ==
  ASSUME NEW S, NEW R, S \subseteq R, NEW s \in Seq(S)
  PROVE  s \in Seq(R)
OBVIOUS

\* What a text of itoa looks like once reversed.
LEMMA TockTextFacts ==
  ASSUME TockAssumed, NEW n \in TockInts, NEW t, t = Reverse(TT!itoa(n))
  PROVE  /\ TT!itoa(n) \in Seq(Int) /\ Len(TT!itoa(n)) \in 1..Size /\ Len(TT!itoa(n)) + 2 <= Size
         /\ \A i \in 1..Len(TT!itoa(n)) : TT!itoa(n)[i] # TT!NUL
         /\ t \in Seq(Int) /\ Len(t) = Len(TT!itoa(n))
         /\ \A i \in 1..Len(t) : t[i] # TT!NUL
<1>1. PICK s : s = TT!itoa(n)
  OBVIOUS
<1>2. s \in Seq(TockCodes) /\ Len(s) >= 1
  BY ONLY <1>1, TockItoaText, n \in TockInts, TockAssumed DEF TockIsText
<1>3. Len(s) + 2 <= Size
  BY ONLY <1>1, n \in TockInts, TockAssumed DEF TockInts, TT!SizeAssumption, TockAssumed
<1>4. t \in Seq(TockCodes) /\ Len(t) = Len(s)
  BY ONLY <1>1, <1>2, TockRevShape, t = Reverse(TT!itoa(n))
<1>5. TockCodes \subseteq Int /\ TT!NUL \notin TockCodes
  BY DEF TockCodes, TT!NUL
<1>6. /\ \A i \in 1..Len(s) : s[i] \in TockCodes
      /\ \A i \in 1..Len(t) : t[i] \in TockCodes
      /\ Len(s) \in Nat
  BY ONLY <1>2, <1>4, SeqShape
<1>7. s \in Seq(Int) /\ t \in Seq(Int)
  <2>1. s \in Seq(Int)
    BY ONLY <1>2, <1>5, TockSeqWider
  <2>2. t \in Seq(Int)
    BY ONLY <1>4, <1>5, TockSeqWider
  <2> QED
    BY ONLY <2>1, <2>2
<1>8. Len(s) \in 1..Size
  BY ONLY <1>2, <1>3, <1>6, TockAssumed DEF TT!TickTockAssumption, TockAssumed
<1> QED
  BY ONLY <1>1, <1>3, <1>4, <1>5, <1>6, <1>7, <1>8

\* atoi of the text of a number is the number; with a newline behind it, ten
\* times as much less 38.
LEMMA TockAtoiOfText ==
  ASSUME TockAssumed, NEW n \in 0..IntMax, NEW t, t = Reverse(TT!itoa(n)), NEW a \in TockBuffer,
         \A i \in 1..Len(t) : a[i] = t[i]
  PROVE  /\ a[Len(t) + 1] = TT!NUL => TT!atoi(a) = n
         /\ a[Len(t) + 1] = 10 /\ a[Len(t) + 2] = TT!NUL => TT!atoi(a) = TT!Wrap(10 * n - 38)
<1>1. n \in TockInts /\ n # -IntMax - 1 /\ IntMax \in Nat /\ n \in Nat
  BY TockAssumed DEF TockInts, TT!TickTockAssumption, TockAssumed
<1>2. t \in Seq(Int) /\ \A i \in 1..Len(t) : t[i] # TT!NUL
  BY ONLY <1>1, TockTextFacts, t = Reverse(TT!itoa(n)), TockAssumed
<1>3. PICK l \in Nat : l = Len(t)
  BY ONLY <1>2, SeqShape
<1>4. l + 2 <= Size /\ Size \in Nat /\ l \in 0..Size /\ l + 1 \in 0..Size
  <2>1. Len(TT!itoa(n)) + 2 <= Size /\ Len(t) = Len(TT!itoa(n))
    BY ONLY <1>1, TockTextFacts, t = Reverse(TT!itoa(n)), TockAssumed
  <2> QED
    BY ONLY <1>3, <2>1, TockAssumed DEF TT!TickTockAssumption, TockAssumed
<1>5. PICK h : /\ h = TockHighBody(IntMax, h)
               /\ \A k \in TockInts : TT!Decimal(k) = IF k < 0 THEN <<45>> \o h[-k] ELSE h[k]
  BY TockDecimalIs
<1>6. h[n] = t
  <2>1. t = TT!Decimal(n)
    BY ONLY <1>1, TockItoaText, t = Reverse(TT!itoa(n)), TockAssumed
  <2>2. ~(n < 0)
    BY <1>1
  <2> QED
    BY ONLY <1>1, <1>5, <2>1, <2>2
<1>7. PICK r : TockIsSum(TT!Chars(a), r) /\ TT!atoi(a) = r[Len(TT!Chars(a))]
  BY TockAtoiIs
<1>8. PICK c : c = TT!Chars(a)
  OBVIOUS
<1>9. TockIsChars(a, c) /\ TockIsSum(c, r) /\ TT!atoi(a) = r[Len(c)]
  BY ONLY <1>7, <1>8, TockCharsIs, a \in TockBuffer, TockAssumed
<1>10. c \in Seq(Int) /\ \A i \in 1..Len(c) : c[i] = a[i]
  BY ONLY <1>9 DEF TockIsChars
<1>11. \A i \in 1..l : a[i] = t[i] /\ a[i] # TT!NUL
  BY ONLY <1>2, <1>3, \A i \in 1..Len(t) : a[i] = t[i]
<1>12. Len(c) >= l /\ Len(c) \in Nat
  <2>1. Len(c) >= l
    BY ONLY <1>4, <1>9, <1>11, TockCharsEnd, a \in TockBuffer, TockAssumed
  <2> QED
    BY ONLY <2>1, <1>10, SeqShape
<1>13. TockStartsWith(c, t)
  <2>1. \A i \in 1..l : c[i] = t[i]
    BY ONLY <1>10, <1>11, <1>12, l \in Nat
  <2> QED
    BY ONLY <1>3, <1>12, <2>1, l \in Nat DEF TockStartsWith
<1>14. r[l] = n
  BY ONLY <1>3, <1>5, <1>6, <1>9, <1>10, <1>13, TockSumOfDigits, n \in 0..IntMax, TockAssumed
<1>15. ASSUME a[l + 1] = TT!NUL PROVE TT!atoi(a) = n
  <2>1. l < Size
    BY ONLY <1>4, l \in Nat
  <2>2. Len(c) = l
    BY ONLY <1>4, <1>9, <1>11, <1>15, <2>1, TockCharsEnd, a \in TockBuffer, TockAssumed
  <2> QED
    BY ONLY <1>9, <1>14, <2>2
<1>16. ASSUME a[l + 1] = 10, a[l + 2] = TT!NUL PROVE TT!atoi(a) = TT!Wrap(10 * n - 38)
  <2>1. ASSUME NEW i \in 1..l + 1 PROVE a[i] # TT!NUL
    <3>1. i \in 1..l \/ i = l + 1
      BY l \in Nat
    <3>2. 10 # TT!NUL
      BY DEF TT!NUL
    <3> QED
      BY ONLY <3>1, <3>2, <1>11, <1>16
  <2>2. PICK m \in Nat : m = l + 1
    BY l \in Nat
  <2>3. m \in 0..Size /\ m < Size /\ a[m + 1] = TT!NUL /\ \A i \in 1..m : a[i] # TT!NUL
    BY ONLY <1>4, <1>16, <2>1, <2>2, l \in Nat, l + 1 + 1 = l + 2
  <2>4. Len(c) = m
    BY ONLY <1>9, <2>3, TockCharsEnd, a \in TockBuffer, TockAssumed
  <2>5. m \in 1..Len(c) /\ m - 1 = l
    BY ONLY <2>2, <2>4, l \in Nat
  <2>6. r[m] = TT!Wrap(10 * r[m - 1] + c[m] - 48)
    BY ONLY <1>9, <2>5 DEF TockIsSum
  <2>7. c[m] = 10
    BY ONLY <1>10, <1>16, <2>2, <2>5
  <2>8. 10 * n + 10 - 48 = 10 * n - 38
    BY n \in Nat
  <2> QED
    BY ONLY <1>9, <1>14, <2>4, <2>5, <2>6, <2>7, <2>8
<1>17. l + 1 = Len(t) + 1 /\ l + 2 = Len(t) + 2
  BY ONLY <1>3
<1> QED
  BY ONLY <1>15, <1>16, <1>17

-----------------------------------------------------------------------------
(* Types in parts.  There is a buffer to point to wherever one is used, and *)
(* no newline behind what is being read.                                    *)
TockPcs == {"user", "alloc", "copy"} \cup TT!InItoa
TockPrivate == /\ num \in [Procs -> TockInts] /\ len \in [Procs -> 0..Size]
               /\ ubuf \in [Procs -> TockBuffer]
TockStatus == /\ pc \in [Procs -> TockPcs] /\ hit \in [Procs -> BOOLEAN]
              /\ newline \in [Procs -> BOOLEAN] /\ writes \in 0..MaxWrites
TockMemory == /\ clock \in Nat /\ mem \in Seq(TockBuffer) /\ b \in 0..Len(mem)
              /\ str \in [Procs -> 0..Len(mem)]
TockPointers == \A p \in Procs : /\ pc[p] \in TT!InItoa \cup {"copy"} => b # TT!Null
                                 /\ pc[p] \in TT!InItoa \ {"itoa"} => str[p] # TT!Null
                                 /\ TT!InRead(p) => ~newline[p]
TockTInv == TockPrivate /\ TockStatus /\ TockMemory /\ TockPointers

\* Another buffer, or one written over.
LEMMA TockMemoryPut ==
  ASSUME NEW m, m \in Seq(TockBuffer), NEW k \in 1..Len(m), NEW x \in TockBuffer,
         NEW m2, m2 = [m EXCEPT ![k] = x]
  PROVE  m2 \in Seq(TockBuffer) /\ Len(m2) = Len(m) /\ m2[k] = x
<1>1. PICK n \in Nat : n = Len(m)
  BY SeqShape
<1>2. m \in [1..n -> TockBuffer]
  BY ONLY <1>1, SeqShape, m \in Seq(TockBuffer)
<1>3. m2 \in [1..n -> TockBuffer] /\ m2[k] = x
  BY ONLY <1>1, <1>2, k \in 1..Len(m), x \in TockBuffer, m2 = [m EXCEPT ![k] = x]
<1>4. m2 \in Seq(TockBuffer) /\ Len(m2) = n
  BY ONLY <1>3, n \in Nat
<1> QED
  BY ONLY <1>1, <1>3, <1>4

\* What reverse makes of a buffer.
TockTurned(a, n) == Reverse(SubSeq(a, 1, n)) \o SubSeq(a, n + 1, Size)

\* What stands where, after reverse.
LEMMA TockTurnedIs ==
  ASSUME TockAssumed, NEW a \in TockBuffer, NEW n \in 0..Size
  PROVE  /\ TockTurned(a, n) \in TockBuffer
         /\ \A i \in 1..n : TockTurned(a, n)[i] = a[n - i + 1]
         /\ \A i \in n + 1..Size : TockTurned(a, n)[i] = a[i]
<1>1. a \in Seq(Int) /\ Len(a) = Size /\ Size \in Nat /\ n \in Nat /\ n <= Size
  BY TockBufferIsSeq
<1>2. PICK s, t : s = SubSeq(a, 1, n) /\ t = SubSeq(a, n + 1, Size)
  OBVIOUS
<1>3. s \in Seq(Int) /\ Len(s) = n /\ \A i \in 1..n : s[i] = a[i]
  BY ONLY <1>1, <1>2
<1>4. t \in Seq(Int) /\ Len(t) = Size - n /\ \A i \in 1..Size - n : t[i] = a[n + i]
  BY ONLY <1>1, <1>2
<1>5. PICK u : u = Reverse(s)
  OBVIOUS
<1>6. u \in Seq(Int) /\ Len(u) = n /\ \A i \in 1..n : u[i] = s[n - i + 1]
  <2>1. u \in Seq(Int) /\ Len(u) = Len(s) /\ \A i \in 1..Len(s) : u[i] = s[Len(s) - i + 1]
    BY ONLY <1>3, <1>5, TockRevShape
  <2> QED
    BY ONLY <1>3, <2>1
<1>7. PICK v : v = u \o t
  OBVIOUS
<1>7a. u \in Seq(Int)
  BY ONLY <1>6
<1>7b. t \in Seq(Int)
  BY ONLY <1>4
<1>8. v \in Seq(Int) /\ Len(v) = Size
  <2>1. v \in Seq(Int) /\ Len(v) = Len(u) + Len(t)
    BY ONLY <1>7a, <1>7b, <1>7, ConcatIs
  <2> QED
    BY ONLY <1>1, <1>4, <1>6, <2>1
<1>9. ASSUME NEW i \in 1..n PROVE v[i] = a[n - i + 1]
  <2>1. PICK j \in 1..n : j = n - i + 1
    BY <1>1
  <2>1a. i \in 1..Len(u)
    BY ONLY <1>6, i \in 1..n
  <2>2. v[i] = u[i]
    BY ONLY <1>7a, <1>7b, <1>7, ConcatLeft, <2>1a
  <2>3. u[i] = s[j] /\ s[j] = a[j]
    BY ONLY <1>3, <1>6, <2>1, i \in 1..n
  <2> QED
    BY ONLY <2>1, <2>2, <2>3
<1>10. ASSUME NEW i \in n + 1..Size PROVE v[i] = a[i]
  <2>1. PICK j \in 1..Size - n : j = i - n /\ i = n + j
    BY <1>1
  <2>2. v[n + j] = t[j]
    <3>1. j \in 1..Len(t) /\ Len(u) = n
      BY ONLY <1>4, <1>6, <2>1
    <3>2. v[Len(u) + j] = t[j]
      BY ONLY <1>7a, <1>7b, <1>7, <3>1, ConcatRight
    <3> QED
      BY ONLY <3>1, <3>2
  <2>3. t[j] = a[n + j]
    BY ONLY <1>4, <2>1
  <2> QED
    BY ONLY <2>1, <2>2, <2>3
<1>11. v \in TockBuffer
  <2>1. \A i \in 1..Size : v[i] \in Int
    BY ONLY <1>8, SeqShape
  <2>2. DOMAIN v = 1..Size
    BY ONLY <1>8, SeqShape
  <2>3. v \in [1..Size -> Int]
    BY ONLY <1>8, <2>1, <2>2, <1>1
  <2> QED
    BY ONLY <2>3 DEF TockBuffer
<1>12. TockTurned(a, n) = v
  BY ONLY <1>2, <1>5, <1>7 DEF TockTurned
<1> QED
  BY ONLY <1>9, <1>10, <1>11, <1>12

\* They hold at first.
LEMMA TockInitTypes ==
  ASSUME TockAssumed
  PROVE  TT!Init => TockTInv
<1> SUFFICES ASSUME TT!Init PROVE TockTInv
  OBVIOUS
<1>1. Clocks \subseteq Nat /\ IntMax \in Nat /\ Size \in Nat /\ MaxWrites \in Nat
  BY TockAssumed DEF TT!TickTockAssumption, TockAssumed
<1>2. TT!Zeros \in TockBuffer
  BY DEF TT!Zeros, TockBuffer, TT!NUL
<1>3. TockPrivate
  BY <1>1, <1>2 DEF TT!Init, TockPrivate, TockInts
<1>4. TockStatus
  BY <1>1 DEF TT!Init, TockStatus, TockPcs
<1>5. TockMemory
  BY <1>1 DEF TT!Init, TockMemory, TT!Null
<1>6. TockPointers
  BY DEF TT!Init, TockPointers, TT!InItoa, TT!InRead
<1> QED
  BY <1>3, <1>4, <1>5, <1>6 DEF TockTInv

\* What itoa is given, and a place it may write to.
LEMMA TockWorking ==
  ASSUME TockTInv, NEW p \in Procs, pc[p] \in TT!InItoa \cup {"copy"}
  PROVE  /\ b \in 1..Len(mem) /\ mem[b] \in TockBuffer
         /\ pc[p] \in TT!InItoa \ {"itoa"} => str[p] \in 1..Len(mem) /\ mem[str[p]] \in TockBuffer
         /\ num[p] \in TockInts
<1>1. mem \in Seq(TockBuffer) /\ b \in 0..Len(mem) /\ str[p] \in 0..Len(mem) /\ num[p] \in TockInts
  BY DEF TockTInv, TockMemory, TockPrivate
<1>2. Len(mem) \in Nat /\ \A k \in 1..Len(mem) : mem[k] \in TockBuffer
  BY ONLY <1>1, SeqShape
<1>3. b # 0 /\ (pc[p] \in TT!InItoa \ {"itoa"} => str[p] # 0)
  BY DEF TockTInv, TockPointers, TT!Null
<1>4. b \in 1..Len(mem) /\ (pc[p] \in TT!InItoa \ {"itoa"} => str[p] \in 1..Len(mem))
  BY ONLY <1>1, <1>2, <1>3
<1> QED
  BY ONLY <1>1, <1>2, <1>4

\* Going on from where a process is, when nothing else changes its pointers.
LEMMA TockPointersKept ==
  ASSUME TockTInv, NEW p \in Procs, NEW to \in TockPcs, TT!Goes(p, to), UNCHANGED newline,
         b' = b \/ b' # TT!Null,
         \A q \in Procs \ {p} : str'[q] = str[q],
         to \in TT!InItoa \cup {"copy"} => b' # TT!Null,
         to \in TT!InItoa \ {"itoa"} => str'[p] # TT!Null,
         to # "user" => ~newline[p]
  PROVE  TockPointers' /\ pc' \in [Procs -> TockPcs]
<1>1. pc \in [Procs -> TockPcs]
  BY DEF TockTInv, TockStatus
<1>2. pc'[p] = to /\ (\A q \in Procs \ {p} : pc'[q] = pc[q]) /\ pc' \in [Procs -> TockPcs]
  BY <1>1 DEF TT!Goes
<1>3. ASSUME NEW q \in Procs
      PROVE  /\ pc'[q] \in TT!InItoa \cup {"copy"} => b' # TT!Null
             /\ pc'[q] \in TT!InItoa \ {"itoa"} => str'[q] # TT!Null
             /\ pc'[q] # "user" => ~newline'[q]
  <2>1. CASE q = p
    BY <1>2, <2>1
  <2>2. CASE q # p
    BY <1>2, <2>2 DEF TockTInv, TockPointers, TT!InRead
  <2> QED
    BY <2>1, <2>2
<1> QED
  BY <1>2, <1>3 DEF TockPointers, TT!InRead

\* Every step of a read keeps the types.
LEMMA TockReadTypes ==
  ASSUME TockAssumed, TockTInv, NEW p \in Procs, TT!readme(p)
  PROVE  TockTInv'
<1> USE DEF TT!Goes
<1>0. /\ IntMax \in Nat /\ Size \in Nat /\ pc \in [Procs -> TockPcs] /\ num \in [Procs -> TockInts]
      /\ len \in [Procs -> 0..Size] /\ str \in [Procs -> 0..Len(mem)] /\ ubuf \in [Procs -> TockBuffer]
      /\ hit \in [Procs -> BOOLEAN] /\ newline \in [Procs -> BOOLEAN] /\ writes \in 0..MaxWrites
      /\ clock \in Nat /\ mem \in Seq(TockBuffer) /\ Len(mem) \in Nat /\ b \in 0..Len(mem)
  BY SeqShape, TockAssumed DEF TockTInv, TockPrivate, TockStatus, TockMemory,
     TT!TickTockAssumption, TockAssumed
<1>00. \A s \in {"user", "alloc", "itoa", "digits", "reverse", "strlen", "strcpy", "copy"} : s \in TockPcs
  BY DEF TockPcs, TT!InItoa
<1>1. CASE TT!GetTime(p)
  <2>1. TT!Wrap(clock) \in TockInts
    <3>1. clock \in Int
      BY <1>0
    <3> QED
      BY ONLY <3>1, TockWrapInt, TockAssumed DEF TockInts
  <2>2. TockPrivate' /\ TockStatus' /\ TockMemory'
    BY <1>0, <1>00, <1>1, <2>1 DEF TT!GetTime, TockPrivate, TockStatus, TockMemory
  <2>3. TockPointers'
    BY <1>0, <1>1 DEF TT!GetTime, TockTInv, TockPointers, TT!InItoa, TT!InRead
  <2> QED
    BY <2>2, <2>3 DEF TockTInv
<1>2. CASE TT!Alloc(p)
  <2>1. TT!Fresh \in TockBuffer
    BY <1>0 DEF TT!Fresh, TockBuffer
  <2>2. mem' \in Seq(TockBuffer) /\ Len(mem') = Len(mem) + 1
    BY ONLY <1>0, <1>2, <2>1, AppendShape DEF TT!Alloc
  <2>3. b' \in 0..Len(mem') /\ b' # TT!Null /\ str \in [Procs -> 0..Len(mem')]
    BY <1>0, <1>2, <2>2 DEF TT!Alloc, TT!Null
  <2>4. hit' \in [Procs -> BOOLEAN]
    <3>1. hit' = [q \in Procs |-> IF q = p THEN \E r \in Procs : pc[r] \in TT!InItoa
                                  ELSE hit[q] \/ pc[q] \in TT!InItoa \cup {"copy"}]
      BY <1>2 DEF TT!Alloc
    <3>2. \A q \in Procs : hit'[q] \in BOOLEAN
      BY <3>1
    <3> QED
      BY <3>1
  <2>5. TockPointers' /\ pc' \in [Procs -> TockPcs]
    <3>1. ~newline[p]
      BY <1>2 DEF TT!Alloc, TockTInv, TockPointers, TT!InRead
    <3>2. "itoa" \in TockPcs /\ TT!Goes(p, "itoa") /\ UNCHANGED newline /\ UNCHANGED str
      BY <1>00, <1>2 DEF TT!Alloc
    <3> QED
      BY ONLY <2>3, <3>1, <3>2, TockPointersKept, TockTInv, p \in Procs
  <2> QED
    BY <1>0, <1>2, <2>2, <2>3, <2>4, <2>5 DEF TT!Alloc, TockTInv, TockPrivate, TockStatus,
       TockMemory
<1>3. CASE TT!CallItoa(p)
  <2>1. b \in 1..Len(mem)
    BY <1>3, TockWorking DEF TT!CallItoa, TT!InItoa
  <2>2. str' \in [Procs -> 0..Len(mem)] /\ str'[p] # TT!Null /\ \A q \in Procs \ {p} : str'[q] = str[q]
    BY <1>0, <1>3, <2>1 DEF TT!CallItoa, TT!Null
  <2>3. TockPointers' /\ pc' \in [Procs -> TockPcs]
    <3>1. ~newline[p] /\ b' = b /\ b # TT!Null
      BY <1>3, <2>1 DEF TT!CallItoa, TockTInv, TockPointers, TT!InRead, TT!Null
    <3>2. "digits" \in TockPcs /\ TT!Goes(p, "digits") /\ UNCHANGED newline
      BY <1>00, <1>3 DEF TT!CallItoa
    <3> QED
      BY ONLY <2>2, <3>1, <3>2, TockPointersKept, TockTInv, p \in Procs
  <2> QED
    BY <1>0, <1>3, <2>2, <2>3 DEF TT!CallItoa, TockTInv, TockPrivate, TockStatus, TockMemory
<1>4. ASSUME NEW to \in TockPcs, TT!Goes(p, to),
             UNCHANGED <<clock, b, num, str, ubuf, writes, hit, newline>>,
             mem' \in Seq(TockBuffer), Len(mem') = Len(mem), len' \in [Procs -> 0..Size],
             to # "itoa" /\ to # "alloc" /\ to # "user",
             pc[p] \in TT!InItoa \ {"itoa"}
      PROVE  TockTInv'
  <2>1. b \in 1..Len(mem) /\ str[p] \in 1..Len(mem) /\ ~newline[p]
    BY <1>4, TockWorking DEF TockTInv, TockPointers, TT!InRead, TT!InItoa
  <2>2. b' = b /\ b' # TT!Null /\ str'[p] # TT!Null /\ UNCHANGED newline /\ \A q \in Procs \ {p} : str'[q] = str[q]
    BY <1>4, <2>1 DEF TT!Null
  <2>3. TockPointers' /\ pc' \in [Procs -> TockPcs]
    BY ONLY <1>4, <2>1, <2>2, TockPointersKept, TockTInv, p \in Procs
  <2> QED
    BY <1>0, <1>4, <2>3 DEF TockTInv, TockPrivate, TockStatus, TockMemory
<1>5. CASE TT!Digits(p)
  <2>1. str[p] \in 1..Len(mem) /\ mem[str[p]] \in TockBuffer /\ num[p] \in TockInts /\ pc[p] \in TT!InItoa \ {"itoa"}
    BY <1>5, TockWorking DEF TT!Digits, TT!InItoa
  <2>2. TT!itoa(num[p]) \in Seq(Int)
    BY ONLY <2>1, TockTextFacts, TockAssumed
  <2>3. TT!Put(TT!itoa(num[p]), mem[str[p]]) \in TockBuffer
    BY ONLY <2>1, <2>2, TockPutIs, TockAssumed
  <2>4. mem' = [mem EXCEPT ![str[p]] = TT!Put(TT!itoa(num[p]), mem[str[p]])]
    BY <1>5 DEF TT!Digits
  <2>5. mem' \in Seq(TockBuffer) /\ Len(mem') = Len(mem)
    BY ONLY <1>0, <2>1, <2>3, <2>4, TockMemoryPut
  <2> QED
    BY <1>0, <1>00, <1>4, <1>5, <2>1, <2>5 DEF TT!Digits
<1>6. CASE TT!ReverseDigits(p)
  <2>1. str[p] \in 1..Len(mem) /\ mem[str[p]] \in TockBuffer /\ num[p] \in TockInts /\ pc[p] \in TT!InItoa \ {"itoa"}
    BY <1>6, TockWorking DEF TT!ReverseDigits, TT!InItoa
  <2>2. PICK n : n = Len(TT!itoa(num[p])) /\ n \in 0..Size
    <3>1. Len(TT!itoa(num[p])) \in 1..Size
      BY ONLY <2>1, TockTextFacts, TockAssumed
    <3> QED
      BY <1>0, <3>1
  <2>3. TockTurned(mem[str[p]], n) \in TockBuffer
    BY ONLY <2>1, <2>2, TockTurnedIs, TockAssumed
  <2>4. mem' = [mem EXCEPT ![str[p]] = TockTurned(mem[str[p]], n)]
    BY <1>6, <2>2 DEF TT!ReverseDigits, TockTurned, TT!Reverse, Reverse
  <2>5. mem' \in Seq(TockBuffer) /\ Len(mem') = Len(mem)
    BY ONLY <1>0, <2>1, <2>3, <2>4, TockMemoryPut
  <2> QED
    BY <1>0, <1>00, <1>4, <1>6, <2>1, <2>5 DEF TT!ReverseDigits
<1>7. CASE TT!StrLen(p)
  <2>1. mem[str[p]] \in TockBuffer /\ pc[p] \in TT!InItoa \ {"itoa"}
    BY <1>7, TockWorking DEF TT!StrLen, TT!InItoa
  <2>2. Len(TT!Chars(mem[str[p]])) \in 0..Size
    BY ONLY <2>1, TockCharsIs, TockAssumed DEF TockIsChars
  <2>3. len' \in [Procs -> 0..Size] /\ mem' = mem
    BY <1>0, <1>7, <2>2 DEF TT!StrLen
  <2> QED
    BY <1>0, <1>00, <1>4, <1>7, <2>1, <2>3 DEF TT!StrLen
<1>8. CASE TT!StrCpy(p)
  <2>1. /\ mem[str[p]] \in TockBuffer /\ pc[p] \in TT!InItoa \ {"itoa"}
        /\ b \in 1..Len(mem) /\ mem[b] \in TockBuffer
    BY <1>8, TockWorking DEF TT!StrCpy, TT!InItoa
  <2>2. TT!Chars(mem[str[p]]) \in Seq(Int)
    BY ONLY <2>1, TockCharsIs, TockAssumed DEF TockIsChars
  <2>3. TT!Put(TT!Chars(mem[str[p]]), mem[b]) \in TockBuffer
    BY ONLY <2>1, <2>2, TockPutIs, TockAssumed
  <2>4. mem' = [mem EXCEPT ![b] = TT!Put(TT!Chars(mem[str[p]]), mem[b])]
    BY <1>8 DEF TT!StrCpy
  <2>5. mem' \in Seq(TockBuffer) /\ Len(mem') = Len(mem)
    BY ONLY <1>0, <2>1, <2>3, <2>4, TockMemoryPut
  <2> QED
    BY <1>0, <1>00, <1>4, <1>8, <2>1, <2>5 DEF TT!StrCpy
<1>9. CASE TT!CopyToUser(p)
  <2>1. mem[b] \in TockBuffer /\ ubuf[p] \in TockBuffer
    BY <1>0, <1>9, TockWorking DEF TT!CopyToUser
  <2>2. PICK u : u = [i \in 1..Size |-> IF i <= len[p] THEN mem[b][i] ELSE ubuf[p][i]]
    OBVIOUS
  <2>3. u \in TockBuffer
    BY ONLY <2>1, <2>2 DEF TockBuffer
  <2>4. ubuf' \in [Procs -> TockBuffer]
    <3>1. ubuf' = [ubuf EXCEPT ![p] = u]
      BY <1>9, <2>2 DEF TT!CopyToUser
    <3> QED
      BY ONLY <1>0, <2>3, <3>1
  <2>5. TockPointers' /\ pc' \in [Procs -> TockPcs]
    <3>1. "user" \in TockPcs /\ TT!Goes(p, "user") /\ b' = b /\ UNCHANGED str /\ UNCHANGED newline
      BY <1>00, <1>9 DEF TT!CopyToUser
    <3>2. "user" \notin TT!InItoa \cup {"copy"}
      BY DEF TT!InItoa
    <3> QED
      BY ONLY <3>1, <3>2, TockPointersKept, TockTInv, p \in Procs
  <2> QED
    BY <1>0, <1>9, <2>4, <2>5 DEF TT!CopyToUser, TockTInv, TockPrivate, TockStatus, TockMemory
<1> QED
  BY <1>1, <1>2, <1>3, <1>5, <1>6, <1>7, <1>8, <1>9 DEF TT!readme

\* And so does everything else.
LEMMA TockTypesKept ==
  ASSUME TockAssumed
  PROVE  TockTInv /\ [TT!Next]_TT!vars => TockTInv'
<1> SUFFICES ASSUME TockTInv, [TT!Next]_TT!vars PROVE TockTInv'
  OBVIOUS
<1>0. /\ IntMax \in Nat /\ Size \in Nat /\ MaxWrites \in Nat /\ ubuf \in [Procs -> TockBuffer]
      /\ newline \in [Procs -> BOOLEAN] /\ writes \in 0..MaxWrites /\ clock \in Nat
  BY TockAssumed DEF TockTInv, TockPrivate, TockStatus, TockMemory, TT!TickTockAssumption,
     TockAssumed
<1>1. ASSUME NEW p \in Procs, TT!readme(p) PROVE TockTInv'
  BY ONLY <1>1, TockReadTypes, TockTInv, TockAssumed
<1>2. ASSUME NEW p \in Procs, TT!WriteTime(p) PROVE TockTInv'
  <2>1. TT!atoi(ubuf[p]) \in Int
    BY ONLY <1>0, TockAtoiInt, p \in Procs, TockAssumed
  <2>2. clock' \in Nat /\ writes' \in 0..MaxWrites
    BY <1>0, <1>2, <2>1 DEF TT!WriteTime
  <2> QED
    BY <1>2, <2>2 DEF TT!WriteTime, TockTInv, TockPrivate, TockStatus, TockMemory, TockPointers,
       TT!InRead
<1>3. ASSUME NEW p \in Procs, TT!AddNewline(p) PROVE TockTInv'
  <2>1. ubuf[p] \in TockBuffer
    BY <1>0
  <2>2. PICK c : c = TT!Chars(ubuf[p]) /\ c \in Seq(Int)
    BY ONLY <2>1, TockCharsIs, TockAssumed DEF TockIsChars
  <2>3. Append(c, 10) \in Seq(Int)
    BY ONLY <2>2, AppendShape, 10 \in Int
  <2>4. PICK u : u = TT!Put(Append(c, 10), ubuf[p])
    OBVIOUS
  <2>5. u \in TockBuffer
    BY ONLY <2>1, <2>3, <2>4, TockPutIs, TockAssumed
  <2>6. ubuf' = [ubuf EXCEPT ![p] = u] /\ newline' = [newline EXCEPT ![p] = TRUE]
    BY <1>3, <2>2, <2>4 DEF TT!AddNewline
  <2>7. ubuf' \in [Procs -> TockBuffer] /\ newline' \in [Procs -> BOOLEAN]
    BY ONLY <1>0, <2>5, <2>6
  <2>8. ASSUME NEW q \in Procs PROVE TT!InRead(q)' => ~newline'[q]
    <3>1. ~TT!InRead(p)
      BY <1>3 DEF TT!AddNewline
    <3> QED
      BY <1>0, <1>3, <2>6, <3>1 DEF TT!AddNewline, TockTInv, TockPointers, TT!InRead
  <2> QED
    BY <1>3, <2>7, <2>8 DEF TT!AddNewline, TockTInv, TockPrivate, TockStatus, TockMemory,
       TockPointers
<1>4. CASE TT!Tick
  BY <1>0, <1>4 DEF TT!Tick, TockTInv, TockPrivate, TockStatus, TockMemory, TockPointers,
     TT!InRead
<1>5. CASE UNCHANGED TT!vars
  BY <1>5 DEF TT!vars, TockTInv, TockPrivate, TockStatus, TockMemory, TockPointers, TT!InRead
<1> QED
  BY <1>1, <1>2, <1>3, <1>4, <1>5 DEF TT!Next

-----------------------------------------------------------------------------
(* What is needed of a read no other has disturbed: it is alone in itoa,    *)
(* and works on the buffer b points to, which holds what it has written so  *)
(* far.  Of one that has returned: its text is in the process's buffer, and *)
(* if a newline was put behind it and then a NUL, nothing is in between.    *)
TockHolds(a, s) == (\A i \in 1..Len(s) : a[i] = s[i]) /\ a[Len(s) + 1] = TT!NUL
TockText(p) == Reverse(TT!itoa(num[p]))
TockAlone(p) == \A q \in Procs \ {p} : pc[q] \notin TT!InItoa
TockUndisturbed(p) ==
  /\ TockAlone(p)
  /\ pc[p] # "itoa" => str[p] = b
  /\ pc[p] = "reverse" => TockHolds(mem[b], TT!itoa(num[p]))
  /\ pc[p] \in {"strlen", "strcpy", "copy"} => TockHolds(mem[b], TockText(p))
  /\ pc[p] \in {"strcpy", "copy"} => len[p] = Len(TT!itoa(num[p]))
TockReturned(p) ==
  /\ len[p] = Len(TT!itoa(num[p]))
  /\ \A i \in 1..len[p] : ubuf[p][i] = TockText(p)[i]
  /\ newline[p] /\ ubuf[p][len[p] + 2] = TT!NUL => ubuf[p][len[p] + 1] = 10
TockBusy(p) == pc[p] \in TT!InItoa \cup {"copy"}
TockOwn(p) == /\ TockBusy(p) /\ ~hit[p] => TockUndisturbed(p)
              /\ TT!Done(p) => TockReturned(p)
TockIInv == TockTInv /\ \A p \in Procs : TockOwn(p)

\* A step that does not concern p.
LEMMA TockOwnKept ==
  ASSUME NEW p \in Procs, TockOwn(p),
         pc'[p] = pc[p], num'[p] = num[p], str'[p] = str[p], len'[p] = len[p],
         ubuf'[p] = ubuf[p], newline'[p] = newline[p], hit'[p] = hit[p],
         TockBusy(p) /\ ~hit[p] => b' = b /\ mem'[b] = mem[b] /\ TockAlone(p)'
  PROVE  TockOwn(p)'
<1>1. ASSUME TockBusy(p)', ~hit'[p] PROVE TockUndisturbed(p)'
  <2>1. TockBusy(p) /\ ~hit[p]
    BY <1>1 DEF TockBusy
  <2>2. b' = b /\ mem'[b'] = mem[b] /\ TockAlone(p)' /\ TockUndisturbed(p)
    BY <2>1 DEF TockOwn
  <2>3. TockText(p)' = TockText(p) /\ TT!itoa(num[p])' = TT!itoa(num[p])
    BY DEF TockText
  <2>4. \A s : TockHolds(mem'[b'], s) <=> TockHolds(mem[b], s)
    BY <2>2
  <2>5. /\ TockHolds(mem[b], TT!itoa(num[p]))' <=> TockHolds(mem[b], TT!itoa(num[p]))
        /\ TockHolds(mem[b], TockText(p))' <=> TockHolds(mem[b], TockText(p))
    BY <2>2, <2>3 DEF TockHolds
  <2> QED
    BY <2>2, <2>3, <2>5 DEF TockUndisturbed
<1>2. ASSUME TT!Done(p)' PROVE TockReturned(p)'
  <2>1. TT!Done(p)
    BY <1>2 DEF TT!Done, TT!InRead
  <2>2. TockText(p)' = TockText(p) /\ TT!itoa(num[p])' = TT!itoa(num[p])
    BY DEF TockText
  <2> QED
    BY <2>1, <2>2 DEF TockOwn, TockReturned
<1> QED
  BY <1>1, <1>2 DEF TockOwn

\* Whatever another process does, p is not concerned, or hit.
LEMMA TockOthersKeep ==
  ASSUME TockIInv, NEW p \in Procs, NEW q \in Procs, p # q,
         TT!readme(q) \/ TT!WriteTime(q) \/ TT!AddNewline(q)
  PROVE  TockOwn(p)'
<1>0. /\ pc \in [Procs -> TockPcs] /\ num \in [Procs -> TockInts] /\ len \in [Procs -> 0..Size]
      /\ str \in [Procs -> 0..Len(mem)] /\ ubuf \in [Procs -> TockBuffer]
      /\ hit \in [Procs -> BOOLEAN] /\ newline \in [Procs -> BOOLEAN] /\ TockOwn(p)
  BY DEF TockIInv, TockTInv, TockPrivate, TockStatus, TockMemory
<1>1. TockBusy(p) /\ ~hit[p] => TockAlone(p) /\ pc[q] \notin TT!InItoa
  BY <1>0 DEF TockOwn, TockUndisturbed, TockAlone
<1>2. CASE TT!Alloc(q)
  <2>1. /\ pc'[p] = pc[p] /\ num'[p] = num[p] /\ str'[p] = str[p] /\ len'[p] = len[p]
        /\ ubuf'[p] = ubuf[p] /\ newline'[p] = newline[p]
    BY <1>0, <1>2 DEF TT!Alloc, TT!Goes
  <2>2. hit'[p] = (hit[p] \/ pc[p] \in TT!InItoa \cup {"copy"})
    BY <1>2 DEF TT!Alloc
  <2>3. CASE TockBusy(p)
    <3>1. hit'[p]
      BY <2>2, <2>3 DEF TockBusy
    <3> QED
      BY <3>1 DEF TockOwn, TT!Done
  <2>4. CASE ~TockBusy(p)
    <3>1. hit'[p] = hit[p]
      BY <1>0, <2>2, <2>4 DEF TockBusy
    <3> QED
      BY ONLY <1>0, <2>1, <2>4, <3>1, TockOwnKept, p \in Procs
  <2> QED
    BY <2>3, <2>4
<1>3. ASSUME NEW to \in TockPcs, TT!Goes(q, to), to \in TT!InItoa => pc[q] \in TT!InItoa,
             pc[q] \in TT!InItoa \/ (b' = b /\ mem' = mem),
             num'[p] = num[p], str'[p] = str[p], len'[p] = len[p],
             ubuf'[p] = ubuf[p], newline'[p] = newline[p], hit'[p] = hit[p]
      PROVE  TockOwn(p)'
  <2>1. pc'[p] = pc[p] /\ \A r \in Procs : r = q \/ pc'[r] = pc[r]
    BY <1>0, <1>3 DEF TT!Goes
  <2>2. pc'[q] = to
    BY <1>0, <1>3 DEF TT!Goes
  <2>3. TockBusy(p) /\ ~hit[p] => b' = b /\ mem'[b] = mem[b] /\ TockAlone(p)'
    <3> SUFFICES ASSUME TockBusy(p), ~hit[p] PROVE b' = b /\ mem'[b] = mem[b] /\ TockAlone(p)'
      OBVIOUS
    <3>1. TockAlone(p) /\ pc[q] \notin TT!InItoa
      BY <1>1
    <3>2. b' = b /\ mem' = mem /\ to \notin TT!InItoa
      BY <1>3, <3>1
    <3>3. \A r \in Procs \ {p} : pc'[r] \notin TT!InItoa
      BY <2>1, <2>2, <3>1, <3>2 DEF TockAlone
    <3> QED
      BY <3>2, <3>3 DEF TockAlone
  <2> QED
    BY ONLY <1>0, <1>3, <2>1, <2>3, TockOwnKept, p \in Procs
<1>4. /\ {"digits", "reverse", "strlen", "strcpy"} \subseteq TT!InItoa /\ "itoa" \in TT!InItoa
      /\ {"user", "alloc", "copy"} \cap TT!InItoa = {}
      /\ {"user", "alloc", "itoa", "digits", "reverse", "strlen", "strcpy", "copy"} \subseteq TockPcs
  BY DEF TT!InItoa, TockPcs
<1>5. CASE TT!GetTime(q)
  BY <1>0, <1>3, <1>4, <1>5 DEF TT!GetTime
<1>6. CASE TT!CallItoa(q)
  BY <1>0, <1>3, <1>4, <1>6 DEF TT!CallItoa
<1>7. CASE TT!Digits(q)
  BY <1>0, <1>3, <1>4, <1>7 DEF TT!Digits
<1>8. CASE TT!ReverseDigits(q)
  BY <1>0, <1>3, <1>4, <1>8 DEF TT!ReverseDigits
<1>9. CASE TT!StrLen(q)
  BY <1>0, <1>3, <1>4, <1>9 DEF TT!StrLen
<1>10. CASE TT!StrCpy(q)
  BY <1>0, <1>3, <1>4, <1>10 DEF TT!StrCpy
<1>11. CASE TT!CopyToUser(q)
  BY <1>0, <1>3, <1>4, <1>11 DEF TT!CopyToUser
<1>12. CASE TT!WriteTime(q) \/ TT!AddNewline(q)
  <2>1. /\ UNCHANGED <<pc, num, str, len, hit, b, mem>> /\ ubuf'[p] = ubuf[p]
        /\ newline'[p] = newline[p]
    BY <1>0, <1>12 DEF TT!WriteTime, TT!AddNewline
  <2>2. TockBusy(p) /\ ~hit[p] => b' = b /\ mem'[b] = mem[b] /\ TockAlone(p)'
    BY <1>1, <2>1 DEF TockAlone
  <2> QED
    BY <1>0, <2>1, <2>2, TockOwnKept
<1> QED
  BY <1>2, <1>5, <1>6, <1>7, <1>8, <1>9, <1>10, <1>11, <1>12 DEF TT!readme

\* The text of p and its length.
LEMMA TockOwnText ==
  ASSUME TockAssumed, TockTInv, NEW p \in Procs
  PROVE  \E s, t, n : /\ s = TT!itoa(num[p]) /\ t = TockText(p) /\ n = Len(s) /\ n \in 1..Size /\ n + 2 <= Size
                      /\ s \in Seq(Int) /\ t \in Seq(Int) /\ Len(t) = n
                      /\ \A i \in 1..n : s[i] # TT!NUL /\ t[i] # TT!NUL /\ t[i] = s[n - i + 1]
<1>1. num[p] \in TockInts
  BY DEF TockTInv, TockPrivate
<1>2. PICK s, t, n : s = TT!itoa(num[p]) /\ t = Reverse(s) /\ n = Len(s)
  OBVIOUS
<1>3. /\ s \in Seq(Int) /\ n \in 1..Size /\ n + 2 <= Size
      /\ \A i \in 1..n : s[i] # TT!NUL
      /\ t \in Seq(Int) /\ Len(t) = n
      /\ \A i \in 1..Len(t) : t[i] # TT!NUL
  BY ONLY <1>1, <1>2, TockTextFacts, TockAssumed
<1>4. \A i \in 1..n : t[i] = s[n - i + 1]
  <2>1. s \in Seq(Int)
    BY <1>3
  <2>2. \A i \in 1..Len(s) : Reverse(s)[i] = s[Len(s) - i + 1]
    BY ONLY <2>1, TockRevShape
  <2> QED
    BY ONLY <1>2, <2>2
<1>5. \A i \in 1..n : s[i] # TT!NUL /\ t[i] # TT!NUL /\ t[i] = s[n - i + 1]
  BY ONLY <1>3, <1>4
<1>6. t = TockText(p)
  BY <1>2 DEF TockText
<1> QED
  BY ONLY <1>2, <1>3, <1>5, <1>6

\* The first characters, and a NUL: that many are in the buffer.
LEMMA TockHeldChars ==
  ASSUME TockAssumed,
         NEW a \in TockBuffer, NEW t, NEW n \in 1..Size, n + 2 <= Size, Len(t) = n,
         \A i \in 1..n : t[i] # TT!NUL, TockHolds(a, t)
  PROVE  Len(TT!Chars(a)) = n /\ TT!Chars(a) \in Seq(Int) /\ \A i \in 1..n : TT!Chars(a)[i] = t[i]
<1>1. PICK c : c = TT!Chars(a)
  OBVIOUS
<1>2. TockIsChars(a, c)
  BY ONLY <1>1, TockCharsIs, a \in TockBuffer, TockAssumed
<1>3. (\A i \in 1..n : a[i] = t[i] /\ a[i] # TT!NUL) /\ a[n + 1] = TT!NUL
  BY ONLY TockHolds(a, t), Len(t) = n, \A i \in 1..n : t[i] # TT!NUL DEF TockHolds
<1>4. Size \in Nat /\ n \in 0..Size /\ n < Size
  BY TockAssumed DEF TT!TickTockAssumption, TockAssumed
<1>5. Len(c) = n
  BY ONLY <1>2, <1>3, <1>4, TockCharsEnd, a \in TockBuffer, TockAssumed
<1>6. c \in Seq(Int) /\ \A i \in 1..Len(c) : c[i] = a[i]
  BY ONLY <1>2 DEF TockIsChars
<1> QED
  BY ONLY <1>1, <1>3, <1>5, <1>6

\* Every step of itoa brings p's text further.
LEMMA TockItoaOwn ==
  ASSUME TockAssumed, TockIInv, NEW p \in Procs,
         TT!Digits(p) \/ TT!ReverseDigits(p) \/ TT!StrLen(p) \/ TT!StrCpy(p)
  PROVE  TockOwn(p)'
<1>0. /\ TockTInv /\ pc \in [Procs -> TockPcs] /\ len \in [Procs -> 0..Size] /\ mem \in Seq(TockBuffer)
      /\ Len(mem) \in Nat /\ \A k \in 1..Len(mem) : mem[k] \in TockBuffer
  BY SeqShape DEF TockIInv, TockTInv, TockPrivate, TockStatus, TockMemory
<1>1. pc[p] \in TT!InItoa \ {"itoa"} /\ ~TT!Done(p)' /\ UNCHANGED <<b, num, str, hit>>
  BY <1>0 DEF TT!Digits, TT!ReverseDigits, TT!StrLen, TT!StrCpy, TT!InItoa, TT!Done, TT!InRead,
     TT!Goes
<1>2. SUFFICES ASSUME ~hit[p] PROVE TockUndisturbed(p)'
  BY <1>1 DEF TockOwn
<1>3. TockUndisturbed(p) /\ str[p] = b /\ b \in 1..Len(mem) /\ mem[b] \in TockBuffer
  <2>1. TockBusy(p) /\ TockOwn(p)
    BY <1>1 DEF TockBusy, TockIInv
  <2>2. TockUndisturbed(p)
    BY <1>2, <2>1 DEF TockOwn
  <2>3. str[p] = b
    BY <1>1, <2>2 DEF TockUndisturbed
  <2>4. b \in 1..Len(mem) /\ mem[b] \in TockBuffer
    BY ONLY <1>0, <1>1, TockWorking, p \in Procs
  <2> QED
    BY <2>2, <2>3, <2>4
<1>4. TockAlone(p)'
  <2>1. \A q \in Procs \ {p} : pc'[q] = pc[q]
    BY <1>0 DEF TT!Digits, TT!ReverseDigits, TT!StrLen, TT!StrCpy, TT!Goes
  <2> QED
    BY <1>3, <2>1 DEF TockUndisturbed, TockAlone
<1>5. TockText(p)' = TockText(p) /\ num'[p] = num[p] /\ str'[p] = b'
  BY <1>1, <1>3 DEF TockText
<1>6. PICK s, t, n : /\ s = TT!itoa(num[p]) /\ t = TockText(p) /\ n = Len(s) /\ n \in 1..Size /\ n + 2 <= Size
                     /\ s \in Seq(Int) /\ t \in Seq(Int) /\ Len(t) = n
                     /\ \A i \in 1..n : s[i] # TT!NUL /\ t[i] # TT!NUL /\ t[i] = s[n - i + 1]
  BY ONLY <1>0, TockOwnText, p \in Procs, TockAssumed
<1>7. PICK a : a = mem[b]
  OBVIOUS
<1>8. a \in TockBuffer /\ Size \in Nat /\ n \in Nat /\ n \in 0..Size
  BY <1>3, <1>6, <1>7, TockAssumed DEF TT!TickTockAssumption, TockAssumed
<1>9. CASE TT!Digits(p)
  <2>1. PICK x : x = TT!Put(s, a)
    OBVIOUS
  <2>2. \A i \in 1..Size : /\ i <= Len(s) => x[i] = s[i]
                           /\ i = Len(s) + 1 => x[i] = TT!NUL
    BY ONLY <1>6, <1>8, <2>1, TockPutIs, TockAssumed
  <2>3. n + 1 \in 1..Size /\ \A i \in 1..n : i \in 1..Size /\ i <= n
    BY ONLY <1>6, <1>8
  <2>4. TockHolds(x, s)
    BY ONLY <1>6, <2>2, <2>3 DEF TockHolds
  <2>5. mem' = [mem EXCEPT ![b] = x]
    BY <1>3, <1>6, <1>7, <1>9, <2>1 DEF TT!Digits
  <2>6. mem'[b] = x /\ pc'[p] = "reverse"
    BY <1>0, <1>3, <1>9, <2>5 DEF TT!Digits, TT!Goes
  <2>7. TockHolds(mem'[b'], TT!itoa(num'[p]))
    BY ONLY <1>1, <1>5, <1>6, <2>4, <2>6
  <2> QED
    BY <1>4, <1>5, <2>6, <2>7 DEF TockUndisturbed
<1>10. CASE TT!ReverseDigits(p)
  <2>1. TockHolds(a, s)
    BY <1>3, <1>6, <1>7, <1>10 DEF TT!ReverseDigits, TockUndisturbed
  <2>2. (\A i \in 1..n : a[i] = s[i]) /\ a[n + 1] = TT!NUL
    BY ONLY <1>6, <2>1 DEF TockHolds
  <2>3. PICK x : x = TockTurned(a, n)
    OBVIOUS
  <2>4. (\A i \in 1..n : x[i] = a[n - i + 1]) /\ (\A i \in n + 1..Size : x[i] = a[i])
    BY ONLY <1>8, <2>3, TockTurnedIs, TockAssumed
  <2>5. ASSUME NEW i \in 1..n PROVE x[i] = t[i]
    <3>1. PICK j \in 1..n : j = n - i + 1
      BY <1>8
    <3> QED
      BY ONLY <1>6, <2>2, <2>4, <3>1, i \in 1..n
  <2>6. x[n + 1] = TT!NUL
    <3>1. n + 1 \in n + 1..Size
      BY ONLY <1>6, <1>8
    <3> QED
      BY ONLY <2>2, <2>4, <3>1
  <2>7. TockHolds(x, t)
    BY ONLY <1>6, <2>5, <2>6 DEF TockHolds
  <2>8. mem' = [mem EXCEPT ![b] = x]
    BY <1>3, <1>6, <1>7, <1>10, <2>3
       DEF TT!ReverseDigits, TockTurned, TT!Reverse, Reverse
  <2>9. mem'[b] = x /\ pc'[p] = "strlen"
    <3>1. mem'[b] = x
      BY ONLY <1>0, <1>3, <2>8
    <3>2. pc'[p] = "strlen"
      BY <1>0, <1>10 DEF TT!ReverseDigits, TT!Goes
    <3> QED
      BY <3>1, <3>2
  <2>10. TockHolds(mem'[b'], TockText(p)')
    BY ONLY <1>1, <1>5, <1>6, <2>7, <2>9
  <2> QED
    BY <1>4, <1>5, <2>9, <2>10 DEF TockUndisturbed, TockHolds
<1>11. CASE TT!StrLen(p)
  <2>1. TockHolds(a, t)
    BY <1>3, <1>6, <1>7, <1>11 DEF TT!StrLen, TockUndisturbed
  <2>2. Len(TT!Chars(a)) = n
    BY ONLY <1>6, <1>8, <2>1, TockHeldChars, TockAssumed
  <2>3. len'[p] = n /\ pc'[p] = "strcpy" /\ mem' = mem
    BY <1>0, <1>3, <1>7, <1>11, <2>2 DEF TT!StrLen, TT!Goes
  <2>4. TockHolds(mem'[b'], TockText(p)')
    BY ONLY <1>1, <1>5, <1>6, <1>7, <2>1, <2>3
  <2>5. len'[p] = Len(TT!itoa(num'[p]))
    BY ONLY <1>5, <1>6, <2>3
  <2> QED
    BY <1>4, <1>5, <2>3, <2>4, <2>5 DEF TockUndisturbed, TockHolds
<1>12. CASE TT!StrCpy(p)
  <2>1. TockHolds(a, t) /\ len[p] = n
    BY <1>3, <1>6, <1>7, <1>12 DEF TT!StrCpy, TockUndisturbed
  <2>2. PICK c : c = TT!Chars(a) /\ Len(c) = n /\ c \in Seq(Int) /\ \A i \in 1..n : c[i] = t[i]
    <3>1. Len(TT!Chars(a)) = n /\ TT!Chars(a) \in Seq(Int) /\ \A i \in 1..n : TT!Chars(a)[i] = t[i]
      BY ONLY <1>6, <1>8, <2>1, TockHeldChars, TockAssumed
    <3> QED
      BY ONLY <3>1
  <2>3. PICK x : x = TT!Put(c, a)
    OBVIOUS
  <2>4. \A i \in 1..Size : /\ i <= Len(c) => x[i] = c[i]
                           /\ i = Len(c) + 1 => x[i] = TT!NUL
    BY ONLY <1>8, <2>2, <2>3, TockPutIs, TockAssumed
  <2>5. n + 1 \in 1..Size /\ \A i \in 1..n : i \in 1..Size /\ i <= n
    BY ONLY <1>6, <1>8
  <2>6. TockHolds(x, t)
    BY ONLY <1>6, <2>2, <2>4, <2>5 DEF TockHolds
  <2>7. mem' = [mem EXCEPT ![b] = x]
    BY <1>3, <1>7, <1>12, <2>2, <2>3 DEF TT!StrCpy
  <2>8. mem'[b] = x /\ pc'[p] = "copy" /\ len'[p] = n
    BY <1>0, <1>3, <1>12, <2>1, <2>7 DEF TT!StrCpy, TT!Goes
  <2>9. TockHolds(mem'[b'], TockText(p)')
    BY ONLY <1>1, <1>5, <1>6, <2>6, <2>8
  <2>10. len'[p] = Len(TT!itoa(num'[p]))
    BY ONLY <1>5, <1>6, <2>8
  <2> QED
    BY <1>4, <1>5, <2>8, <2>9, <2>10 DEF TockUndisturbed, TockHolds
<1> QED
  BY <1>9, <1>10, <1>11, <1>12

\* A newline is put behind the text, or further back.
LEMMA TockNewlineOwn ==
  ASSUME TockAssumed, TockIInv, NEW p \in Procs, TT!AddNewline(p)
  PROVE  TockOwn(p)'
<1>0. TockTInv /\ ubuf \in [Procs -> TockBuffer] /\ newline \in [Procs -> BOOLEAN] /\ ubuf[p] \in TockBuffer
  BY DEF TockIInv, TockTInv, TockPrivate, TockStatus
<1>1. pc[p] = "user" /\ UNCHANGED <<b, mem, pc, num, str, len, hit>>
  BY DEF TT!AddNewline, TT!InRead
<1>2. ~TockBusy(p)'
  BY <1>1 DEF TockBusy, TT!InItoa
<1>3. SUFFICES ASSUME TT!Done(p)' PROVE TockReturned(p)'
  BY <1>2 DEF TockOwn
<1>4. TockReturned(p) /\ TockText(p)' = TockText(p)
  <2>1. TT!Done(p)
    BY <1>1, <1>3 DEF TT!Done, TT!InRead
  <2> QED
    BY <1>1, <2>1 DEF TockIInv, TockOwn, TockText
<1>5. PICK s, t, n : /\ s = TT!itoa(num[p]) /\ t = TockText(p) /\ n = Len(s) /\ n \in 1..Size /\ n + 2 <= Size
                     /\ s \in Seq(Int) /\ t \in Seq(Int) /\ Len(t) = n
                     /\ \A i \in 1..n : s[i] # TT!NUL /\ t[i] # TT!NUL /\ t[i] = s[n - i + 1]
  BY ONLY <1>0, TockOwnText, p \in Procs, TockAssumed
<1>6. PICK a, c : a = ubuf[p] /\ c = TT!Chars(a)
  OBVIOUS
<1>7. a \in TockBuffer /\ Size \in Nat /\ n \in Nat /\ n \in 0..Size
  BY <1>0, <1>5, <1>6, TockAssumed DEF TT!TickTockAssumption, TockAssumed
<1>8. len[p] = n /\ \A i \in 1..n : a[i] = t[i]
  BY <1>4, <1>5, <1>6 DEF TockReturned
<1>9. TockIsChars(a, c)
  BY ONLY <1>6, <1>7, TockCharsIs, TockAssumed
<1>10. \A i \in 1..n : a[i] # TT!NUL
  BY ONLY <1>5, <1>8
<1>11. Len(c) >= n
  BY ONLY <1>7, <1>9, <1>10, TockCharsEnd, TockAssumed
<1>12. PICK l : l = Len(c) /\ l \in 0..Size /\ c \in Seq(Int) /\ \A i \in 1..l : c[i] = a[i] /\ a[i] # TT!NUL
  BY ONLY <1>9 DEF TockIsChars
<1>13. PICK d : d = Append(c, 10)
  OBVIOUS
<1>14. d \in Seq(Int) /\ Len(d) = l + 1 /\ d[l + 1] = 10 /\ \A i \in 1..l : d[i] = c[i]
  BY ONLY <1>12, <1>13, AppendShape, 10 \in Int
<1>15. PICK x : x = TT!Put(d, a)
  OBVIOUS
<1>16. \A i \in 1..Size : i <= l + 1 => x[i] = d[i]
  <2>1. d \in Seq(Int)
    BY ONLY <1>14
  <2>2. \A i \in 1..Size : i <= Len(d) => x[i] = d[i]
    BY ONLY <1>7, <1>15, <2>1, TockPutIs, TockAssumed
  <2> QED
    BY ONLY <1>14, <2>2
<1>17. ubuf'[p] = x
  <2>1. ubuf' = [ubuf EXCEPT ![p] = TT!Put(Append(TT!Chars(ubuf[p]), 10), ubuf[p])]
    BY DEF TT!AddNewline
  <2> QED
    BY ONLY <1>0, <1>6, <1>13, <1>15, <2>1, p \in Procs
<1>18. ASSUME NEW i \in 1..n PROVE x[i] = t[i]
  <2>1. i \in 1..Size /\ i <= l + 1 /\ i \in 1..l
    BY ONLY <1>7, <1>11, <1>12, i \in 1..n
  <2> QED
    BY ONLY <2>1, <1>8, <1>12, <1>14, <1>16, i \in 1..n
<1>19. ASSUME x[n + 2] = TT!NUL PROVE x[n + 1] = 10
  <2>1. PICK m : m = n + 2 /\ m \in 1..Size /\ m \in Nat
    BY ONLY <1>5, <1>7
  <2>2. TT!NUL # 10
    BY DEF TT!NUL
  <2>3. l < m
    <3>0. l \in Nat /\ m \in Nat
      BY <1>7, <1>12, <2>1
    <3> SUFFICES ASSUME l >= m PROVE FALSE
      BY <3>0
    <3>1. m \in 1..l /\ m <= l + 1
      BY ONLY <2>1, <1>12, <1>7, l >= m
    <3>2. x[m] = a[m] /\ a[m] # TT!NUL
      BY ONLY <3>1, <2>1, <1>12, <1>14, <1>16
    <3> QED
      BY ONLY <3>2, <2>1, <1>19
  <2>4. l # n + 1
    <3> SUFFICES ASSUME l = n + 1 PROVE FALSE
      OBVIOUS
    <3>1. m = l + 1
      BY ONLY <2>1, l = n + 1, <1>7
    <3>2. x[m] = 10
      BY ONLY <3>1, <2>1, <1>14, <1>16
    <3> QED
      BY ONLY <3>2, <2>1, <2>2, <1>19
  <2>5. l = n
    BY ONLY <2>1, <2>3, <2>4, <1>7, <1>11, <1>12
  <2>6. n + 1 \in 1..Size /\ n + 1 <= l + 1
    BY ONLY <1>5, <1>7, <2>5
  <2> QED
    BY ONLY <2>5, <2>6, <1>14, <1>16
<1>20. /\ len'[p] = Len(TT!itoa(num'[p])) /\ len'[p] = n /\ TockText(p)' = t
       /\ \A i \in 1..n : ubuf'[p][i] = t[i]
       /\ ubuf'[p][n + 2] = TT!NUL => ubuf'[p][n + 1] = 10
  BY ONLY <1>1, <1>4, <1>5, <1>8, <1>17, <1>18, <1>19
<1> QED
  BY ONLY <1>20 DEF TockReturned

\* And so do the others of p's own steps.
LEMMA TockOwnSteps ==
  ASSUME TockAssumed, TockIInv, NEW p \in Procs,
         TT!readme(p) \/ TT!WriteTime(p) \/ TT!AddNewline(p)
  PROVE  TockOwn(p)'
<1>0. /\ TockTInv /\ pc \in [Procs -> TockPcs] /\ str \in [Procs -> 0..Len(mem)]
      /\ ubuf \in [Procs -> TockBuffer] /\ TockOwn(p)
  BY DEF TockIInv, TockTInv, TockPrivate, TockStatus, TockMemory
<1>1. CASE TT!GetTime(p)
  <2>1. pc'[p] = "alloc"
    BY <1>0, <1>1 DEF TT!GetTime, TT!Goes
  <2> QED
    BY <2>1 DEF TockOwn, TockBusy, TT!Done, TT!InRead, TT!InItoa
<1>2. CASE TT!Alloc(p)
  <2>1. pc'[p] = "itoa" /\ (\A q \in Procs \ {p} : pc'[q] = pc[q]) /\ pc[p] = "alloc"
    BY <1>0, <1>2 DEF TT!Alloc, TT!Goes
  <2>2. hit'[p] = \E r \in Procs : pc[r] \in TT!InItoa
    BY <1>2 DEF TT!Alloc
  <2>3. ~hit'[p] => TockAlone(p)'
    BY <2>1, <2>2 DEF TockAlone
  <2>4. ~hit'[p] => TockUndisturbed(p)'
    BY <2>1, <2>3 DEF TockUndisturbed
  <2> QED
    BY <2>1, <2>4 DEF TockOwn, TT!Done, TT!InRead
<1>3. CASE TT!CallItoa(p)
  <2>1. /\ pc'[p] = "digits" /\ (\A q \in Procs \ {p} : pc'[q] = pc[q]) /\ str'[p] = b'
        /\ hit'[p] = hit[p] /\ pc[p] = "itoa"
    BY <1>0, <1>3 DEF TT!CallItoa, TT!Goes
  <2>2. ~hit[p] => TockAlone(p)
    BY <1>0, <2>1 DEF TockOwn, TockBusy, TockUndisturbed, TT!InItoa
  <2>3. ~hit'[p] => TockAlone(p)'
    BY <2>1, <2>2 DEF TockAlone
  <2>4. ~hit'[p] => TockUndisturbed(p)'
    BY <2>1, <2>3 DEF TockUndisturbed
  <2> QED
    BY <2>1, <2>4 DEF TockOwn, TT!Done, TT!InRead
<1>4. CASE TT!Digits(p) \/ TT!ReverseDigits(p) \/ TT!StrLen(p) \/ TT!StrCpy(p)
  BY <1>4, TockItoaOwn
<1>5. CASE TT!CopyToUser(p)
  <2>1. /\ pc[p] = "copy" /\ pc'[p] = "user" /\ UNCHANGED <<num, len, hit, newline>>
        /\ ubuf'[p] = [i \in 1..Size |-> IF i <= len[p] THEN mem[b][i] ELSE ubuf[p][i]]
    BY <1>0, <1>5 DEF TT!CopyToUser, TT!Goes
  <2>2. ~newline[p]
    BY <2>1 DEF TockIInv, TockTInv, TockPointers, TT!InRead
  <2>3. SUFFICES ASSUME ~hit[p] PROVE TockReturned(p)'
    BY <2>1 DEF TockOwn, TockBusy, TT!Done, TT!InItoa
  <2>4. TockHolds(mem[b], TockText(p)) /\ len[p] = Len(TT!itoa(num[p]))
    BY <1>0, <2>1, <2>3 DEF TockOwn, TockBusy, TockUndisturbed
  <2>5. PICK s, t, n : /\ s = TT!itoa(num[p]) /\ t = TockText(p) /\ n = Len(s) /\ n \in 1..Size /\ n + 2 <= Size
                       /\ s \in Seq(Int) /\ t \in Seq(Int) /\ Len(t) = n
                       /\ \A i \in 1..n : s[i] # TT!NUL /\ t[i] # TT!NUL /\ t[i] = s[n - i + 1]
    BY ONLY <1>0, TockOwnText, p \in Procs, TockAssumed
  <2>6. \A i \in 1..n : mem[b][i] = t[i]
    BY ONLY <2>4, <2>5 DEF TockHolds
  <2>7. \A i \in 1..n : i \in 1..Size /\ i <= len[p]
    BY ONLY <2>4, <2>5, TockAssumed DEF TT!TickTockAssumption, TockAssumed
  <2>8. \A i \in 1..n : ubuf'[p][i] = t[i]
    BY ONLY <2>1, <2>6, <2>7
  <2>9. TockText(p)' = t /\ len'[p] = n /\ len'[p] = Len(TT!itoa(num'[p])) /\ ~newline'[p]
    BY <2>1, <2>2, <2>4, <2>5 DEF TockText
  <2> QED
    BY ONLY <2>8, <2>9 DEF TockReturned
<1>6. CASE TT!WriteTime(p)
  <2>1. UNCHANGED <<pc, num, str, len, hit, b, mem, ubuf, newline>> /\ ~TockBusy(p)
    BY <1>6 DEF TT!WriteTime, TT!InRead, TockBusy, TT!InItoa
  <2> QED
    BY <1>0, <2>1, TockOwnKept
<1>7. CASE TT!AddNewline(p)
  BY <1>7, TockNewlineOwn
<1> QED
  BY <1>1, <1>2, <1>3, <1>4, <1>5, <1>6, <1>7 DEF TT!readme

\* At first nobody has read.
LEMMA TockInitOwn ==
  ASSUME TockAssumed
  PROVE  TT!Init => TockIInv
<1> SUFFICES ASSUME TT!Init PROVE \A p \in Procs : TockOwn(p)
  BY TockInitTypes DEF TockIInv
<1> QED
  BY DEF TT!Init, TockOwn, TockBusy, TT!Done, TT!InItoa

\* Every step keeps the invariant, for every process.
LEMMA TockOwnAlways ==
  ASSUME TockAssumed
  PROVE  TockIInv /\ [TT!Next]_TT!vars => TockIInv'
<1> SUFFICES ASSUME TockIInv, [TT!Next]_TT!vars PROVE TockIInv'
  OBVIOUS
<1>1. TockTInv'
  BY TockTypesKept DEF TockIInv
<1>2. ASSUME NEW p \in Procs PROVE TockOwn(p)'
  <2>1. ASSUME NEW q \in Procs,
               TT!readme(q) \/ TT!WriteTime(q) \/ TT!AddNewline(q) PROVE TockOwn(p)'
    BY <2>1, TockOwnSteps, TockOthersKeep
  <2>2. CASE TT!Tick \/ UNCHANGED TT!vars
    <3>1. UNCHANGED <<pc, num, str, len, hit, b, mem, ubuf, newline>> /\ TockOwn(p)
      BY <2>2 DEF TT!Tick, TT!vars, TockIInv
    <3>2. TockBusy(p) /\ ~hit[p] => TockAlone(p)'
      BY <3>1 DEF TockOwn, TockUndisturbed, TockAlone
    <3> QED
      BY <3>1, <3>2, TockOwnKept
  <2> QED
    BY <2>1, <2>2 DEF TT!Next
<1> QED
  BY <1>1, <1>2 DEF TockIInv

-----------------------------------------------------------------------------
(* Every reachable state is well typed: no pointer is used before there is *)
(* a buffer, and the clock is never set below 0.                           *)
THEOREM TockTypeCorrect ==
  ASSUME TockAssumed
  PROVE  TT!Spec => []TockTInv
<1>1. TockIInv => TockTInv
  BY DEF TockIInv
<1> QED
  BY <1>1, TockInitOwn, TockOwnAlways, PTL DEF TT!Spec

(* A read not disturbed by another returns the time it took, in decimal,    *)
(* whatever the others do and whatever int the time is, but for the least.  *)
THEOREM TockTextIsOwnTime ==
  ASSUME TockAssumed
  PROVE  TT!Spec => []TT!ReadsOwnTime
<1>1. TockIInv => TT!ReadsOwnTime
  <2> SUFFICES ASSUME TockIInv, NEW p \in Procs, TT!Done(p), num[p] >= -IntMax
               PROVE  SubSeq(ubuf[p], 1, len[p]) = TT!Decimal(num[p])
    BY DEF TT!ReadsOwnTime
  <2>1. TockTInv /\ TockReturned(p) /\ ubuf[p] \in TockBuffer /\ num[p] \in TockInts
    BY DEF TockIInv, TockTInv, TockPrivate, TockOwn
  <2>2. PICK s, t, n : /\ s = TT!itoa(num[p]) /\ t = TockText(p) /\ n = Len(s) /\ n \in 1..Size /\ n + 2 <= Size
                       /\ s \in Seq(Int) /\ t \in Seq(Int) /\ Len(t) = n
                       /\ \A i \in 1..n : s[i] # TT!NUL /\ t[i] # TT!NUL /\ t[i] = s[n - i + 1]
    BY ONLY <2>1, TockOwnText, p \in Procs, TockAssumed
  <2>3. len[p] = n /\ \A i \in 1..n : ubuf[p][i] = t[i]
    BY ONLY <2>1, <2>2 DEF TockReturned
  <2>4. PICK a, u : a = ubuf[p] /\ u = SubSeq(a, 1, n)
    OBVIOUS
  <2>5. a \in Seq(Int) /\ Len(a) = Size /\ Size \in Nat
    BY ONLY <2>1, <2>4, TockBufferIsSeq, TockAssumed
  <2>6. u \in Seq(Int) /\ Len(u) = n /\ \A i \in 1..n : u[i] = a[i]
    BY ONLY <2>2, <2>4, <2>5
  <2>7. u = t
    BY ONLY <2>2, <2>3, <2>4, <2>6, SeqEqual
  <2>8. num[p] # -IntMax - 1
    BY <2>1, TockAssumed DEF TockInts, TT!TickTockAssumption, TockAssumed
  <2>9. t = TT!Decimal(num[p])
    BY ONLY <2>1, <2>2, <2>8, TockItoaText, TockAssumed DEF TockText
  <2> QED
    BY ONLY <2>3, <2>4, <2>7, <2>9
<1> QED
  BY <1>1, TockInitOwn, TockOwnAlways, PTL DEF TT!Spec

(* What a program has read it can write back, and the clock has that time;  *)
(* with a newline behind it the clock has ten times as much less 38.        *)
THEOREM TockWritingBackSets ==
  ASSUME TockAssumed
  PROVE  TT!Spec => TT!SetsWhatItRead
<1> DEFINE Sets(p) ==
      TT!WriteTime(p) /\ TT!Done(p) /\ num[p] >= 0 /\ TT!Terminated(p) =>
        LET new == IF newline[p] THEN TT!Wrap(10 * num[p] - 38) ELSE num[p] IN
        clock' = IF new < 0 THEN clock ELSE new
<1>1. ASSUME TockIInv, NEW p \in Procs PROVE Sets(p)
  <2> SUFFICES ASSUME TT!WriteTime(p), TT!Done(p), num[p] >= 0, TT!Terminated(p)
               PROVE  LET new == IF newline[p] THEN TT!Wrap(10 * num[p] - 38) ELSE num[p] IN
                      clock' = IF new < 0 THEN clock ELSE new
    OBVIOUS
  <2>1. TockTInv /\ TockReturned(p) /\ ubuf[p] \in TockBuffer /\ num[p] \in TockInts
    BY <1>1 DEF TockIInv, TockTInv, TockPrivate, TockOwn
  <2>2. PICK s, t, n : /\ s = TT!itoa(num[p]) /\ t = TockText(p) /\ n = Len(s) /\ n \in 1..Size /\ n + 2 <= Size
                       /\ s \in Seq(Int) /\ t \in Seq(Int) /\ Len(t) = n
                       /\ \A i \in 1..n : s[i] # TT!NUL /\ t[i] # TT!NUL /\ t[i] = s[n - i + 1]
    BY ONLY <2>1, TockOwnText, p \in Procs, TockAssumed
  <2>3. PICK a, k : a = ubuf[p] /\ k = num[p]
    OBVIOUS
  <2>4. /\ len[p] = n /\ (\A i \in 1..n : a[i] = t[i])
        /\ newline[p] /\ a[n + 2] = TT!NUL => a[n + 1] = 10
    BY ONLY <2>1, <2>2, <2>3 DEF TockReturned
  <2>5. k \in 0..IntMax /\ t = Reverse(TT!itoa(k)) /\ a \in TockBuffer /\ \A i \in 1..Len(t) : a[i] = t[i]
    <3>1. k \in 0..IntMax
      BY <2>1, <2>3, TockAssumed DEF TockInts, TT!TickTockAssumption, TockAssumed
    <3>2. t = Reverse(TT!itoa(k))
      BY <2>2, <2>3 DEF TockText
    <3>3. \A i \in 1..Len(t) : a[i] = t[i]
      BY ONLY <2>2, <2>4
    <3> QED
      BY ONLY <2>1, <2>3, <3>1, <3>2, <3>3
  <2>6. /\ a[Len(t) + 1] = TT!NUL => TT!atoi(a) = k
        /\ a[Len(t) + 1] = 10 /\ a[Len(t) + 2] = TT!NUL => TT!atoi(a) = TT!Wrap(10 * k - 38)
    BY ONLY <2>5, TockAtoiOfText, TockAssumed
  <2>7. a[n + (IF newline[p] THEN 2 ELSE 1)] = TT!NUL
    BY <2>3, <2>4 DEF TT!Terminated
  <2>8. TT!atoi(a) = IF newline[p] THEN TT!Wrap(10 * k - 38) ELSE k
    BY ONLY <2>2, <2>4, <2>6, <2>7
  <2>9. clock' = IF TT!atoi(a) < 0 THEN clock ELSE TT!atoi(a)
    BY <2>3 DEF TT!WriteTime
  <2> QED
    BY ONLY <2>3, <2>8, <2>9
<1>2. TockIInv => [\A p \in Procs : Sets(p)]_TT!vars
  BY <1>1
<1>3. [][\A p \in Procs : Sets(p)]_TT!vars <=> TT!SetsWhatItRead
  BY DEF TT!SetsWhatItRead
<1> HIDE DEF Sets
<1> QED
  BY <1>2, <1>3, TockInitOwn, TockOwnAlways, PTL DEF TT!Spec
=============================================================================
