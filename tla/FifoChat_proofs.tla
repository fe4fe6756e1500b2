--------------------------- MODULE FifoChat_proofs ---------------------------
(* Proofs about FifoChat, for any clients, list, lengths and bounds.       *)
EXTENDS FifoChat, SequenceTheorems, TLAPS

USE DEF Names

(* Types in parts, as the proofs use them: the server's FIFO holds names    *)
(* and lines, a client's holds cells.                                      *)
Items(f) == IF f = Srv THEN Message ELSE Cell
FType == /\ data \in [Names -> Seq(Message \cup Cell)]
         /\ \A f \in Names : data[f] \in Seq(Items(f))
         /\ rd \in [Names -> SUBSET Names] /\ wr \in [Names -> SUBSET Names]
         /\ blocked \subseteq Names \X Names
SType == /\ spc \in {"start", "name", "greet", "accept", "leave", "open", "read", "relay",
                     "send", "close", "dead"}
         /\ list \in Seq(Message) /\ Len(list) <= ConnectMax
         /\ (spc = "name" => Len(list) < ConnectMax)
         /\ (spc = "start" => list = <<>>)
         /\ msg \in Message \cup {NoMsg} /\ (spc \in {"greet", "accept", "leave"} => msg.k = 0)
         /\ (spc \in {"greet", "accept", "leave", "relay", "send"} => msg \in Message)
         /\ j \in 1..Len(list) + 1 /\ (spc = "send" => j <= Len(list) /\ list[j].k = 0)
         /\ taken \in Seq(Message) /\ (spc \in {"relay", "send"} => taken # <<>>)
CType == /\ wpc \in [Clients -> {"off", "open", "write", "close", "type", "dead"}]
         /\ rpc \in [Clients -> {"off", "open", "read", "close", "dead"}]
         /\ line \in [Clients -> 0..MaxLines]
         /\ chunks \in [Clients -> Seq(Seq(Cell))] /\ got \in [Clients -> Seq(Cell)]
TInv == FType /\ SType /\ CType

-----------------------------------------------------------------------------
(* What the calls of Fifo do to each FIFO.                                  *)
LEMMA OpenReadFacts ==
  ASSUME FType, NEW p \in Names, NEW f \in Names, open_rd(p, f)
  PROVE  /\ FType' /\ UNCHANGED <<data, wr>>
         /\ rd'[f] = rd[f] \cup {p} /\ \A g \in Names : g # f => rd'[g] = rd[g]
         /\ \A q, g \in Names : g # f => (<<q, g>> \in blocked' <=> <<q, g>> \in blocked)
         /\ wr[f] = {} => blocked' = blocked \cup {<<p, f>>}
<1>1. /\ rd' = [rd EXCEPT ![f] = @ \cup {p}] /\ UNCHANGED <<data, wr>>
      /\ blocked' = IF wr[f] = {} THEN blocked \cup {<<p, f>>} ELSE blocked \ (wr[f] \X {f})
  BY DEF open_rd, Waits
<1>2. wr[f] \subseteq Names /\ rd[f] \subseteq Names
  BY DEF FType
<1>3. blocked' \subseteq Names \X Names
  BY <1>1, <1>2 DEF FType
<1>4. rd' \in [Names -> SUBSET Names]
  BY <1>1, <1>2 DEF FType
<1>5. FType'
  BY <1>1, <1>3, <1>4 DEF FType
<1> QED
  BY <1>1, <1>5 DEF FType

\* open for writing adds an end; the opener is blocked while nobody reads.
LEMMA OpenWriteFacts ==
  ASSUME FType, NEW p \in Names, NEW f \in Names, open_wr(p, f)
  PROVE  /\ FType' /\ UNCHANGED <<data, rd>>
         /\ wr'[f] = wr[f] \cup {p} /\ \A g \in Names : g # f => wr'[g] = wr[g]
         /\ \A q, g \in Names : g # f => (<<q, g>> \in blocked' <=> <<q, g>> \in blocked)
<1>1. /\ wr' = [wr EXCEPT ![f] = @ \cup {p}] /\ UNCHANGED <<data, rd>>
      /\ blocked' = IF rd[f] = {} THEN blocked \cup {<<p, f>>} ELSE blocked \ (rd[f] \X {f})
  BY DEF open_wr, Waits
<1>2. wr[f] \subseteq Names /\ rd[f] \subseteq Names
  BY DEF FType
<1>3. blocked' \subseteq Names \X Names
  BY <1>1, <1>2 DEF FType
<1>4. wr' \in [Names -> SUBSET Names]
  BY <1>1, <1>2 DEF FType
<1>5. FType'
  BY <1>1, <1>3, <1>4 DEF FType
<1> QED
  BY <1>1, <1>5 DEF FType

\* close of the last end discards what is in the FIFO.
LEMMA CloseFacts ==
  ASSUME FType, NEW p \in Names, NEW fs \in SUBSET Names, close(p, fs)
  PROVE  /\ FType'
         /\ \A f \in fs : rd'[f] = rd[f] \ {p} /\ wr'[f] = wr[f] \ {p}
         /\ \A f \in Names \ fs : rd'[f] = rd[f] /\ wr'[f] = wr[f]
         /\ \A f \in Names : data'[f] = IF rd'[f] \cup wr'[f] = {} THEN <<>> ELSE data[f]
         /\ \A q, g \in Names : q # p => (<<q, g>> \in blocked' <=> <<q, g>> \in blocked)
         /\ \A g \in Names \ fs : <<p, g>> \in blocked' <=> <<p, g>> \in blocked
<1>1. /\ rd' = [f \in Names |-> IF f \in fs THEN rd[f] \ {p} ELSE rd[f]]
      /\ wr' = [f \in Names |-> IF f \in fs THEN wr[f] \ {p} ELSE wr[f]]
      /\ data' = [f \in Names |-> IF rd'[f] \cup wr'[f] = {} THEN <<>> ELSE data[f]]
      /\ blocked' = blocked \ ({p} \X fs)
  BY DEF close, FType
<1>2. rd' \in [Names -> SUBSET Names] /\ wr' \in [Names -> SUBSET Names]
  BY <1>1 DEF FType
<1>3. \A f \in Names : data'[f] \in Seq(Items(f)) /\ data'[f] \in Seq(Message \cup Cell)
  <2>1. \A S : <<>> \in Seq(S)
    OBVIOUS
  <2> QED
    BY <1>1, <2>1 DEF FType
<1>4. FType'
  BY <1>1, <1>2, <1>3 DEF FType
<1> QED
  BY <1>1, <1>4

(* Sequences: concatenation and Append, by length and element.              *)
LEMMA ConcatShape ==
  ASSUME NEW S, NEW s \in Seq(S), NEW t \in Seq(S)
  PROVE  /\ s \o t \in Seq(S)
         /\ Len(s \o t) = Len(s) + Len(t)
         /\ DOMAIN (s \o t) = 1..Len(s) + Len(t)
         /\ \A i \in 1..Len(s) : (s \o t)[i] = s[i]
         /\ \A i \in 1..Len(t) : (s \o t)[Len(s) + i] = t[i]
OBVIOUS

\* The members of Append(s, x).
LEMMA AppendShape ==
  ASSUME NEW S, NEW s \in Seq(S), NEW x \in S
  PROVE  /\ Append(s, x) \in Seq(S)
         /\ Len(Append(s, x)) = Len(s) + 1
         /\ DOMAIN Append(s, x) = 1..Len(s) + 1
         /\ \A i \in 1..Len(s) : Append(s, x)[i] = s[i]
         /\ Append(s, x)[Len(s) + 1] = x
         /\ Append(s, x) # <<>>
OBVIOUS

\* The members of a sequence lie in its set.
LEMMA SeqShape ==
  ASSUME NEW S, NEW s \in Seq(S)
  PROVE  /\ Len(s) \in Nat /\ DOMAIN s = 1..Len(s)
         /\ \A i \in 1..Len(s) : s[i] \in S
         /\ s = <<>> <=> Len(s) = 0
OBVIOUS

\* A sequence over S is one over any larger set.
LEMMA SeqWider ==
  ASSUME NEW S, NEW T, S \subseteq T, NEW s \in Seq(S)
  PROVE  s \in Seq(T)
OBVIOUS

\* The empty sequence is one over every set.
LEMMA EmptyIn == \A S : <<>> \in Seq(S)
OBVIOUS

(* A read takes from the front, and what it takes is at least one cell.     *)
LEMMA Splits ==
  ASSUME NEW S, NEW s \in Seq(S), NEW n \in Nat \ {0}, s # <<>>
  PROVE  LET h == SubSeq(s, 1, Least(n, Len(s)))
             t == SubSeq(s, Least(n, Len(s)) + 1, Len(s))
         IN  /\ h \in Seq(S) /\ t \in Seq(S) /\ h \o t = s
             /\ Len(h) = Least(n, Len(s)) /\ Len(t) = Len(s) - Len(h)
             /\ Least(n, Len(s)) \in 1..Len(s)
             /\ \A i \in 1..Len(h) : h[i] = s[i]
             /\ \A i \in 1..Len(t) : t[i] = s[i + Len(h)]
<1> DEFINE m == Least(n, Len(s))
           l == Len(s)
<1>1. l \in Nat \ {0} /\ \A i \in 1..l : s[i] \in S
  BY SeqShape
<1>2. m \in 1..l
  BY <1>1 DEF Least
<1> HIDE DEF m
<1> DEFINE h == SubSeq(s, 1, m)
           t == SubSeq(s, m + 1, l)
<1>3. h \in Seq(S) /\ Len(h) = m /\ \A i \in 1..m : h[i] = s[i]
  <2>1. 1 \in Int /\ m \in Int /\ 1 <= m /\ \A i \in 1..m : s[i] \in S
    BY <1>1, <1>2
  <2>2. /\ h \in Seq(S) /\ Len(h) = IF 1 <= m THEN m - 1 + 1 ELSE 0
        /\ \A i \in 1..m - 1 + 1 : h[i] = s[1 + i - 1]
    BY ONLY <2>1, SubSeqProperties
  <2>3. m - 1 + 1 = m /\ \A i \in Int : 1 + i - 1 = i
    BY ONLY <2>1
  <2> QED
    BY <2>1, <2>2, <2>3
<1>4. t \in Seq(S) /\ Len(t) = l - m /\ \A i \in 1..l - m : t[i] = s[i + m]
  <2>1. /\ m + 1 \in Int /\ l \in Int /\ \A i \in m + 1..l : s[i] \in S
        /\ (IF m + 1 <= l THEN l - (m + 1) + 1 ELSE 0) = l - m
    BY <1>1, <1>2
  <2>2. /\ t \in Seq(S) /\ Len(t) = IF m + 1 <= l THEN l - (m + 1) + 1 ELSE 0
        /\ \A i \in 1..l - (m + 1) + 1 : t[i] = s[m + 1 + i - 1]
    BY ONLY <2>1, SubSeqProperties
  <2>3. l - (m + 1) + 1 = l - m /\ \A i \in 1..l - m : m + 1 + i - 1 = i + m
    BY <1>1, <1>2
  <2>4. \A i \in 1..l - m : t[i] = s[m + 1 + i - 1]
    BY ONLY <2>2, <2>3
  <2>5. \A i \in 1..l - m : t[i] = s[i + m]
    BY ONLY <2>3, <2>4
  <2> HIDE DEF t
  <2> QED
    BY ONLY <2>1, <2>2, <2>5
<1> HIDE DEF h, t
<1>5. h \o t = s
  <2>1. /\ h \o t \in Seq(S) /\ Len(h \o t) = Len(h) + Len(t)
        /\ \A i \in 1..Len(h) : (h \o t)[i] = h[i]
        /\ \A i \in 1..Len(t) : (h \o t)[Len(h) + i] = t[i]
    BY <1>3, <1>4, ConcatShape
  <2>2. Len(h \o t) = l
    BY <1>1, <1>2, <1>3, <1>4, <2>1
  <2>3. ASSUME NEW i \in 1..l PROVE (h \o t)[i] = s[i]
    <3>1. CASE i <= m
      BY <1>1, <1>2, <1>3, <2>1, <3>1
    <3>2. CASE i > m
      <4>1. i - m \in 1..l - m /\ m + (i - m) = i /\ (i - m) + m = i
        BY <1>1, <1>2, <3>2
      <4>2. (h \o t)[m + (i - m)] = t[i - m] /\ t[i - m] = s[(i - m) + m]
        BY <1>3, <1>4, <2>1, <4>1
      <4> QED
        BY <4>1, <4>2
    <3>3. i <= m \/ i > m
      BY <1>1, <1>2
    <3> QED
      BY ONLY <3>1, <3>2, <3>3
  <2> QED
    BY <2>1, <2>2, <2>3, SeqEqual
<1>6. Len(t) = l - Len(h)
  BY <1>3, <1>4
<1> QED
  BY <1>2, <1>3, <1>4, <1>5, <1>6 DEF m, h, t

\* read takes the oldest n, or all there are.
LEMMA ReadFacts ==
  ASSUME FType, NEW f \in Names, NEW n \in Nat \ {0}, read(f, n)
  PROVE  /\ FType' /\ UNCHANGED <<rd, wr, blocked>> /\ data[f] # <<>>
         /\ Chunk(f, n) \in Seq(Items(f)) /\ data'[f] \in Seq(Items(f))
         /\ data[f] = Chunk(f, n) \o data'[f]
         /\ Len(Chunk(f, n)) = Least(n, Len(data[f]))
         /\ Len(Chunk(f, n)) \in 1..Len(data[f])
         /\ Len(data'[f]) = Len(data[f]) - Len(Chunk(f, n))
         /\ \A i \in 1..Len(Chunk(f, n)) : Chunk(f, n)[i] = data[f][i]
         /\ \A i \in 1..Len(data'[f]) : data'[f][i] = data[f][i + Len(Chunk(f, n))]
         /\ \A g \in Names : g # f => data'[g] = data[g]
<1> DEFINE s == data[f]
<1>1. s \in Seq(Items(f)) /\ s # <<>>
  BY DEF FType, read
<1>2. data' = [data EXCEPT ![f] = SubSeq(s, Least(n, Len(s)) + 1, Len(s))]
      /\ UNCHANGED <<rd, wr, blocked>>
  BY DEF read
<1>3. /\ data'[f] = SubSeq(s, Least(n, Len(s)) + 1, Len(s))
      /\ \A g \in Names : g # f => data'[g] = data[g]
      /\ DOMAIN data' = Names
  BY <1>2 DEF FType
<1>4. Chunk(f, n) = SubSeq(s, 1, Least(n, Len(s)))
  BY DEF Chunk
<1> HIDE DEF s
<1>5. LET h == Chunk(f, n)
          t == data'[f]
      IN  /\ h \in Seq(Items(f)) /\ t \in Seq(Items(f)) /\ h \o t = s
          /\ Len(h) = Least(n, Len(s)) /\ Len(t) = Len(s) - Len(h)
          /\ Least(n, Len(s)) \in 1..Len(s)
          /\ \A i \in 1..Len(h) : h[i] = s[i]
          /\ \A i \in 1..Len(t) : t[i] = s[i + Len(h)]
  <2> DEFINE h == SubSeq(s, 1, Least(n, Len(s)))
             t == SubSeq(s, Least(n, Len(s)) + 1, Len(s))
  <2>1. /\ h \in Seq(Items(f)) /\ t \in Seq(Items(f)) /\ h \o t = s
        /\ Len(h) = Least(n, Len(s)) /\ Len(t) = Len(s) - Len(h)
        /\ Least(n, Len(s)) \in 1..Len(s)
        /\ \A i \in 1..Len(h) : h[i] = s[i]
        /\ \A i \in 1..Len(t) : t[i] = s[i + Len(h)]
    BY ONLY <1>1, n \in Nat \ {0}, Splits
  <2>2. h = Chunk(f, n) /\ t = data'[f]
    BY <1>3, <1>4
  <2> HIDE DEF h, t
  <2> QED
    BY ONLY <2>1, <2>2
<1>6. Items(f) \subseteq Message \cup Cell
  BY DEF Items
<1>7. data'[f] \in Seq(Message \cup Cell)
  BY <1>5, <1>6, SeqWider
<1>8. FType'
  <2>1. data' \in [Names -> Seq(Message \cup Cell)]
    BY <1>2, <1>7, <1>3 DEF FType
  <2>2. \A g \in Names : data'[g] \in Seq(Items(g))
    BY <1>3, <1>5 DEF FType
  <2> QED
    BY <2>1, <2>2, <1>2 DEF FType
<1> QED
  BY <1>1, <1>2, <1>3, <1>5, <1>8 DEF s

\* A read of one message, which is the first.
LEMMA ReadFirst ==
  ASSUME FType, NEW f \in Names, read(f, 1)
  PROVE  /\ FType' /\ UNCHANGED <<rd, wr, blocked>> /\ data[f] # <<>>
         /\ Head(data[f]) = data[f][1] /\ Head(data[f]) \in Items(f)
         /\ Len(data[f]) \in Nat \ {0} /\ Len(data'[f]) = Len(data[f]) - 1
         /\ \A i \in 1..Len(data'[f]) : data'[f][i] = data[f][i + 1]
         /\ \A g \in Names : g # f => data'[g] = data[g]
<1>1. data[f] \in Seq(Items(f)) /\ data[f] # <<>>
  BY DEF FType, read
<1>2. Len(data[f]) \in Nat \ {0} /\ Head(data[f]) = data[f][1] /\ data[f][1] \in Items(f)
  BY ONLY <1>1
<1>3. Least(1, Len(data[f])) = 1 /\ 1 \in Nat \ {0}
  BY <1>2 DEF Least
<1>4. /\ FType' /\ UNCHANGED <<rd, wr, blocked>>
      /\ Len(Chunk(f, 1)) = 1 /\ Len(data'[f]) = Len(data[f]) - Len(Chunk(f, 1))
      /\ \A i \in 1..Len(data'[f]) : data'[f][i] = data[f][i + Len(Chunk(f, 1))]
      /\ \A g \in Names : g # f => data'[g] = data[g]
  BY <1>3, ReadFacts
<1> QED
  BY ONLY <1>1, <1>2, <1>4

\* write appends; it needs a reader.
LEMMA WriteFacts ==
  ASSUME FType, NEW f \in Names, NEW s \in Seq(Items(f)), write(f, s)
  PROVE  /\ FType' /\ UNCHANGED <<rd, wr, blocked>> /\ rd[f] # {}
         /\ data'[f] = data[f] \o s /\ data[f] \in Seq(Items(f))
         /\ \A g \in Names : g # f => data'[g] = data[g]
<1>1. data' = [data EXCEPT ![f] = @ \o s] /\ rd[f] # {} /\ UNCHANGED <<rd, wr, blocked>>
  BY DEF write
<1>2. data[f] \in Seq(Items(f)) /\ DOMAIN data = Names
  BY DEF FType
<1>3. data'[f] = data[f] \o s /\ \A g \in Names : g # f => data'[g] = data[g]
  BY <1>1, <1>2
<1>4. data[f] \o s \in Seq(Items(f))
  BY <1>2, ConcatShape
<1>5. data[f] \o s \in Seq(Message \cup Cell)
  <2>1. Items(f) \subseteq Message \cup Cell
    BY DEF Items
  <2> QED
    BY <1>4, <2>1, SeqWider
<1>6. data' \in [Names -> Seq(Message \cup Cell)]
  BY <1>1, <1>5 DEF FType
<1>7. \A g \in Names : data'[g] \in Seq(Items(g))
  BY <1>3, <1>4 DEF FType
<1> QED
  BY <1>1, <1>2, <1>3, <1>6, <1>7 DEF FType

\* The cells of a line: MsgCells of them, the head first.
LEMMA CellsShape ==
  /\ Accept \in Cell /\ <<Accept>> \in Seq(Cell)
  /\ MsgCells \in Nat /\ MsgCells > 1
  /\ \A m \in Message : /\ Cells(m) \in Seq(Cell) /\ Len(Cells(m)) = MsgCells
                         /\ m.from \in Clients /\ m.k \in 0..MaxLines
                         /\ \A p \in 1..MsgCells :
                              Cells(m)[p] = [from |-> m.from, k |-> m.k, part |-> p]
<1>1. MsgCells \in Nat /\ MsgCells > 1
  BY FifoChatAssumption
<1>2. Accept \in Cell
  BY DEF Cell
<1>3. ASSUME NEW m \in Message
      PROVE  /\ Cells(m) \in Seq(Cell) /\ Len(Cells(m)) = MsgCells
             /\ m.from \in Clients /\ m.k \in 0..MaxLines
             /\ \A p \in 1..MsgCells :
                   Cells(m)[p] = [from |-> m.from, k |-> m.k, part |-> p]
  <2>1. m.from \in Clients /\ m.k \in 0..MaxLines
    BY DEF Message
  <2>2. \A p \in 1..MsgCells : [from |-> m.from, k |-> m.k, part |-> p] \in Cell
    BY <2>1 DEF Cell
  <2>3. Cells(m) \in [1..MsgCells -> Cell]
    BY <2>2 DEF Cells
  <2>4. Cells(m) \in Seq(Cell) /\ Len(Cells(m)) = MsgCells
    BY <1>1, <2>3
  <2> QED
    BY <2>1, <2>4 DEF Cells
<1>4. <<Accept>> \in Seq(Cell)
  BY <1>2
<1> QED
  BY <1>1, <1>2, <1>3, <1>4

-----------------------------------------------------------------------------
\* Each step keeps the types of the FIFOs,
LEMMA FTypeStep ==
  ASSUME TInv, [Next]_vars
  PROVE  FType'
<1>0. FType /\ SType /\ CType
  BY DEF TInv
<1>1. CASE Server
  <2>1. CASE OpenServer
    BY <1>0, <2>1, OpenReadFacts DEF OpenServer
  <2>2. CASE TakeName
    BY <1>0, <2>2, ReadFirst DEF TakeName
  <2>3. CASE OpenGreeted
    <3>1. msg.from \in Names /\ open_wr(Srv, msg.from)
      BY <1>0, <2>3, CellsShape DEF OpenGreeted, SType
    <3> QED
      BY <1>0, <3>1, OpenWriteFacts
  <2>4. CASE WriteAccept
    <3>1. msg.from \in Names /\ msg.from # Srv /\ write(msg.from, <<Accept>>)
      BY <1>0, <2>4, CellsShape, FifoChatAssumption DEF WriteAccept, SType
    <3>2. <<Accept>> \in Seq(Items(msg.from))
      BY <3>1, CellsShape DEF Items
    <3> QED
      BY <1>0, <3>1, <3>2, WriteFacts
  <2>5. CASE LeaveGreeted
    <3>1. {msg.from} \in SUBSET Names /\ close(Srv, {msg.from})
      BY <1>0, <2>5, CellsShape DEF LeaveGreeted, SType
    <3> QED
      BY <1>0, <3>1, CloseFacts
  <2>6. CASE ReadLine
    <3>1. CASE read(Srv, 1)
      BY <1>0, <3>1, ReadFirst
    <3>2. CASE UNCHANGED fvars
      BY <1>0, <3>2 DEF fvars, FType
    <3> QED
      BY <2>6, <3>1, <3>2 DEF ReadLine
  <2>7. CASE CloseServer
    BY <1>0, <2>7, CloseFacts DEF CloseServer
  <2>8. CASE RelayTo
    <3>1. list[j] \in Message /\ open_wr(Srv, list[j].from)
      BY <1>0, <2>8, SeqShape DEF RelayTo, SType
    <3> QED
      BY <1>0, <3>1, OpenWriteFacts, CellsShape
  <2>9. CASE SkipMember \/ EndRelay
    BY <1>0, <2>9 DEF SkipMember, EndRelay, fvars, FType
  <2>10. CASE SendLine
    <3>1. list[j] \in Message /\ msg \in Message /\ write(list[j].from, Cells(msg))
      BY <1>0, <2>10, SeqShape DEF SendLine, SType
    <3>2. list[j].from \in Names /\ list[j].from # Srv /\ Cells(msg) \in Seq(Cell)
      BY <3>1, CellsShape, FifoChatAssumption
    <3>3. Cells(msg) \in Seq(Items(list[j].from))
      BY <3>2 DEF Items
    <3> QED
      BY <1>0, <3>1, <3>2, <3>3, WriteFacts
  <2>11. CASE ServerDies
    BY <1>0, <2>11, CloseFacts DEF ServerDies
  <2> QED
    BY <1>1, <2>1, <2>2, <2>3, <2>4, <2>5, <2>6, <2>7, <2>8, <2>9, <2>10, <2>11
    DEF Server
<1>2. ASSUME NEW c \in Clients,
             StartClient(c) \/ TypeLine(c) \/ Writer(c) \/ Reader(c) \/ KillClient(c)
      PROVE  FType'
  <2>0. c \in Names /\ c # Srv /\ {c} \in SUBSET Names /\ line[c] \in 0..MaxLines
    BY <1>0, FifoChatAssumption DEF CType
  <2>1. CASE StartClient(c) \/ TypeLine(c)
    BY <1>0, <2>1 DEF StartClient, TypeLine, fvars, FType
  <2>2. CASE OpenUp(c)
    BY <1>0, <2>0, <2>2, OpenWriteFacts DEF OpenUp
  <2>3. CASE WriteUp(c)
    <3>1. <<[from |-> c, k |-> line[c]]>> \in Seq(Items(Srv))
      BY <2>0 DEF Items, Message
    <3> QED
      BY <1>0, <2>3, <3>1, WriteFacts DEF WriteUp
  <2>4. CASE WriterDies(c)
    BY <1>0, <2>0, <2>4, CloseFacts DEF WriterDies
  <2>5. CASE CloseUp(c)
    BY <1>0, <2>0, <2>5, CloseFacts DEF CloseUp
  <2>6. CASE OpenDown(c)
    BY <1>0, <2>0, <2>6, OpenReadFacts DEF OpenDown
  <2>7. CASE ReadDown(c)
    <3>1. CASE read(c, MsgCells)
      BY <1>0, <2>0, <3>1, ReadFacts, CellsShape
    <3>2. CASE UNCHANGED fvars
      BY <1>0, <3>2 DEF fvars, FType
    <3> QED
      BY <2>7, <3>1, <3>2 DEF ReadDown
  <2>8. CASE CloseDown(c)
    BY <1>0, <2>0, <2>8, CloseFacts DEF CloseDown
  <2>9. CASE KillClient(c)
    BY <1>0, <2>0, <2>9, CloseFacts DEF KillClient
  <2> QED
    BY <1>2, <2>1, <2>2, <2>3, <2>4, <2>5, <2>6, <2>7, <2>8, <2>9 DEF Writer, Reader
<1>3. CASE UNCHANGED vars
  BY <1>0, <1>3 DEF vars, fvars, FType
<1> QED
  BY <1>1, <1>2, <1>3 DEF Next

\* of the server's variables,
LEMMA STypeStep ==
  ASSUME TInv, [Next]_vars
  PROVE  SType'
<1>0. FType /\ SType /\ CType
  BY DEF TInv
<1>1. CASE Server
  <2>1. CASE OpenServer
    BY <1>0, <2>1, FifoChatAssumption, SeqShape DEF OpenServer, SType
  <2>2. CASE TakeName
    <3>1. msg' \in Message /\ list' = Append(list, msg') /\ UNCHANGED <<j, taken>>
      BY <1>0, <2>2, ReadFirst DEF TakeName, Items
    <3>2. /\ list' \in Seq(Message) /\ Len(list') = Len(list) + 1 /\ Len(list) \in Nat
          /\ Len(list) < ConnectMax
      BY <1>0, <2>2, <3>1, AppendShape, SeqShape DEF SType, TakeName
    <3>3. /\ spc' \in {"greet", "name", "close"} /\ (spc' = "greet" => msg'.k = 0)
          /\ (spc' = "name" => Len(list') < ConnectMax)
      BY <2>2 DEF TakeName, AfterName
    <3>4. Len(list') <= ConnectMax
      BY <3>2, FifoChatAssumption
    <3>5. j' \in 1..Len(list') + 1
      BY <1>0, <3>1, <3>2 DEF SType
    <3> QED
      BY <1>0, <3>1, <3>2, <3>3, <3>4, <3>5 DEF SType
  <2>3. CASE OpenGreeted
    BY <1>0, <2>3 DEF OpenGreeted, SType
  <2>4. CASE WriteAccept
    BY <1>0, <2>4 DEF WriteAccept, SType
  <2>5. CASE LeaveGreeted
    <3>1. spc' \in {"name", "close"} /\ (spc' = "name" => Len(list') < ConnectMax)
      BY <2>5 DEF LeaveGreeted, AfterName
    <3>2. UNCHANGED <<list, msg, j, taken>>
      BY <2>5 DEF LeaveGreeted
    <3> QED
      BY <1>0, <3>1, <3>2 DEF SType
  <2>6. CASE ReadLine
    <3>1. CASE /\ read(Srv, 1) /\ msg' = Head(data[Srv])
               /\ taken' = Append(taken, msg') /\ j' = 1 /\ spc' = "relay"
      <4>1. msg' \in Message
        BY <1>0, <3>1, ReadFirst DEF Items
      <4>2. taken' \in Seq(Message) /\ taken' # <<>>
        BY <1>0, <3>1, <4>1, AppendShape DEF SType
      <4>3. UNCHANGED list /\ Len(list) \in Nat
        BY <1>0, <2>6, SeqShape DEF ReadLine, SType
      <4>4. j' \in 1..Len(list') + 1
        BY <3>1, <4>3
      <4> QED
        BY <1>0, <3>1, <4>1, <4>2, <4>3, <4>4 DEF SType
    <3>2. CASE spc' = "close" /\ UNCHANGED <<list, msg, j, taken>>
      BY <1>0, <3>2 DEF SType
    <3> QED
      BY <2>6, <3>1, <3>2 DEF ReadLine
  <2>7. CASE CloseServer
    BY <1>0, <2>7 DEF CloseServer, SType
  <2>8. CASE RelayTo
    BY <1>0, <2>8 DEF RelayTo, SType
  <2>9. CASE SkipMember
    <3>1. j' \in 1..Len(list) + 1
      BY <1>0, <2>9, SeqShape DEF SkipMember, SType
    <3>2. spc = "relay" /\ UNCHANGED <<spc, list, msg, taken>>
      BY <2>9 DEF SkipMember
    <3> QED
      BY <1>0, <3>1, <3>2 DEF SType
  <2>10. CASE EndRelay
    BY <1>0, <2>10 DEF EndRelay, SType
  <2>11. CASE SendLine
    <3>1. j' \in 1..Len(list) + 1
      BY <1>0, <2>11, SeqShape DEF SendLine, SType
    <3>2. spc = "send" /\ spc' = "relay" /\ UNCHANGED <<list, msg, taken>>
      BY <2>11 DEF SendLine
    <3> QED
      BY <1>0, <3>1, <3>2 DEF SType
  <2>12. CASE ServerDies
    BY <1>0, <2>12 DEF ServerDies, SType
  <2> QED
    BY <1>1, <2>1, <2>2, <2>3, <2>4, <2>5, <2>6, <2>7, <2>8, <2>9, <2>10, <2>11, <2>12
    DEF Server
<1>2. CASE UNCHANGED svars
  BY <1>0, <1>2 DEF svars, SType
<1> QED
  BY <1>1, <1>2 DEF Next, vars, StartClient, TypeLine, Writer, Reader, KillClient,
     OpenUp, WriteUp, WriterDies, CloseUp, OpenDown, ReadDown, CloseDown

\* and of the clients'.
LEMMA CTypeStep ==
  ASSUME TInv, [Next]_vars
  PROVE  CType'
<1>0. FType /\ SType /\ CType
  BY DEF TInv
<1>1. CASE UNCHANGED cvars
  BY <1>0, <1>1 DEF cvars, CType
<1>2. ASSUME NEW c \in Clients,
             StartClient(c) \/ TypeLine(c) \/ Writer(c) \/ Reader(c) \/ KillClient(c)
      PROVE  CType'
  <2>1. CASE StartClient(c)
    BY <1>0, <2>1 DEF StartClient, CType
  <2>2. CASE TypeLine(c)
    BY <1>0, <2>2, FifoChatAssumption DEF TypeLine, CType
  <2>3. CASE OpenUp(c) \/ WriteUp(c)
    BY <1>0, <2>3 DEF OpenUp, WriteUp, CType
  <2>4. CASE WriterDies(c) \/ CloseUp(c)
    BY <1>0, <2>4 DEF WriterDies, CloseUp, CType
  <2>5. CASE OpenDown(c) \/ CloseDown(c)
    BY <1>0, <2>5 DEF OpenDown, CloseDown, CType
  <2>6. CASE ReadDown(c)
    <3>1. UNCHANGED <<wpc, line>> /\ rpc' = [rpc EXCEPT ![c] = "close"]
      BY <2>6 DEF ReadDown
    <3>2. rpc' \in [Clients -> {"off", "open", "read", "close", "dead"}]
      BY <1>0, <3>1 DEF CType
    <3>3. chunks' \in [Clients -> Seq(Seq(Cell))] /\ got' \in [Clients -> Seq(Cell)]
      <4>1. CASE UNCHANGED <<chunks, got>>
        BY <1>0, <4>1 DEF CType
      <4>2. CASE /\ read(c, MsgCells)
                 /\ chunks' = [chunks EXCEPT ![c] = Append(@, Chunk(c, MsgCells))]
                 /\ got' = [got EXCEPT ![c] = @ \o Chunk(c, MsgCells)]
        <5>1. Chunk(c, MsgCells) \in Seq(Cell)
          BY <1>0, <4>2, ReadFacts, CellsShape, FifoChatAssumption DEF Items
        <5>2. Append(chunks[c], Chunk(c, MsgCells)) \in Seq(Seq(Cell))
          BY <1>0, <5>1, AppendShape DEF CType
        <5>3. got[c] \o Chunk(c, MsgCells) \in Seq(Cell)
          BY <1>0, <5>1, ConcatShape DEF CType
        <5> QED
          BY <1>0, <4>2, <5>2, <5>3 DEF CType
      <4> QED
        BY <2>6, <4>1, <4>2 DEF ReadDown
    <3> QED
      BY <1>0, <3>1, <3>2, <3>3 DEF CType
  <2>7. CASE KillClient(c)
    BY <1>0, <2>7 DEF KillClient, CType
  <2> QED
    BY <1>2, <2>1, <2>2, <2>3, <2>4, <2>5, <2>6, <2>7 DEF Writer, Reader
<1>3. CASE Server
  BY <1>1, <1>3 DEF Server, OpenServer, TakeName, OpenGreeted, WriteAccept, LeaveGreeted,
     ReadLine, CloseServer, RelayTo, SkipMember, EndRelay, SendLine, ServerDies
<1> QED
  BY <1>1, <1>2, <1>3 DEF Next, vars

\* All of them hold at the start.
LEMMA TypeInit == Init => TInv
<1> SUFFICES ASSUME Init PROVE TInv
  OBVIOUS
<1>1. FType
  <2>1. /\ data = [f \in Names |-> <<>>] /\ rd = [f \in Names |-> {}]
        /\ wr = [f \in Names |-> {}] /\ blocked = {}
    BY DEF Init, mkfifos
  <2> QED
    BY <2>1, EmptyIn DEF FType
<1>2. SType
  <2>1. spc = "start" /\ list = <<>> /\ msg = NoMsg /\ j = 1 /\ taken = <<>>
    BY DEF Init
  <2>2. <<>> \in Seq(Message) /\ Len(<<>>) = 0 /\ 0 <= ConnectMax
    BY FifoChatAssumption
  <2> QED
    BY <2>1, <2>2 DEF SType
<1>3. CType
  BY EmptyIn, FifoChatAssumption DEF Init, CType
<1> QED
  BY <1>1, <1>2, <1>3 DEF TInv

(* TypeOK of FifoChat.tla, always: the list, the lines and what each        *)
(* client has read keep their types, and a greeting has a name             *)
(* (server.c 13-58, client.c 14-56).                                       *)
THEOREM TypeCorrect == Spec => []TypeOK
<1>1. TInv /\ [Next]_vars => TInv'
  BY FTypeStep, STypeStep, CTypeStep DEF TInv
<1>2. TInv => TypeOK
  <2> SUFFICES ASSUME TInv PROVE TypeOK
    OBVIOUS
  <2>1. data[Srv] \in Seq(Message) /\ \A c \in Clients : data[c] \in Seq(Cell)
    BY FifoChatAssumption DEF TInv, FType, Items
  <2> QED
    BY <2>1 DEF TInv, FType, SType, CType, TypeOK
<1> QED
  BY TypeInit, <1>1, <1>2, PTL DEF Spec

-----------------------------------------------------------------------------
(* What the rest needs of the pipes: who has a client's FIFO open, that what *)
(* is in it is gone when nobody has, and that a client forks when its name *)
(* is written.                                                             *)
Ends(c) == /\ rd[c] = IF rpc[c] \in {"read", "close"} THEN {c} ELSE {}
           /\ wr[c] \subseteq {Srv}
           /\ rd[c] \cup wr[c] = {} => data[c] = <<>>
           /\ wpc[c] \in {"off", "open", "write", "close"} /\ line[c] = 0 => rpc[c] = "off"
           /\ chunks[c] = <<>> => got[c] = <<>>
EndsInv == \A c \in Clients : Ends(c)

\* A step that does nothing to d's FIFO.
Quiet(d) == /\ rd'[d] = rd[d] /\ wr'[d] = wr[d] /\ data'[d] = data[d]
            /\ <<Srv, d>> \in blocked' <=> <<Srv, d>> \in blocked
            /\ <<d, d>> \in blocked' <=> <<d, d>> \in blocked

\* A close of another FIFO leaves d's as it is.
LEMMA CloseQuiet ==
  ASSUME TInv, NEW d \in Clients, Ends(d), NEW p \in Names, NEW fs \in SUBSET Names,
         close(p, fs), d \notin fs \/ p \notin {Srv, d}
  PROVE  Quiet(d)
<1>1. FType /\ d \in Names
  BY DEF TInv
<1>2. rd[d] \subseteq {d} /\ wr[d] \subseteq {Srv}
  BY DEF Ends
<1>3. rd'[d] = rd[d] /\ wr'[d] = wr[d]
  <2>1. CASE d \notin fs
    BY <1>1, <2>1, CloseFacts
  <2>2. CASE p \notin {Srv, d} /\ d \in fs
    <3>1. rd'[d] = rd[d] \ {p} /\ wr'[d] = wr[d] \ {p}
      BY <1>1, <2>2, CloseFacts
    <3> QED
      BY <1>2, <2>2, <3>1
  <2> QED
    BY <2>1, <2>2
<1>4. data'[d] = data[d]
  <2>1. data'[d] = IF rd'[d] \cup wr'[d] = {} THEN <<>> ELSE data[d]
    BY <1>1, CloseFacts
  <2> QED
    BY <1>3, <2>1 DEF Ends
<1>5. Srv \in Names
  OBVIOUS
<1>6. /\ \A q, g \in Names : q # p => (<<q, g>> \in blocked' <=> <<q, g>> \in blocked)
      /\ \A g \in Names \ fs : <<p, g>> \in blocked' <=> <<p, g>> \in blocked
  BY <1>1, CloseFacts
<1>7. /\ <<Srv, d>> \in blocked' <=> <<Srv, d>> \in blocked
      /\ <<d, d>> \in blocked' <=> <<d, d>> \in blocked
  <2>1. CASE d \notin fs
    BY <1>1, <1>5, <1>6, <2>1
  <2>2. CASE p \notin {Srv, d}
    BY <1>1, <1>5, <1>6, <2>2
  <2> QED
    BY <2>1, <2>2
<1> QED
  BY <1>3, <1>4, <1>7 DEF Quiet

\* The server disturbs only the FIFO of the client it is dealing with.
LEMMA ServerQuiet ==
  ASSUME TInv, NEW d \in Clients, Ends(d), Server,
         OpenGreeted \/ WriteAccept \/ LeaveGreeted => msg.from # d,
         RelayTo \/ SendLine => list[j].from # d,
         ~ServerDies
  PROVE  Quiet(d)
<1>0. FType /\ SType /\ CType /\ d \in Names /\ d # Srv
  BY FifoChatAssumption DEF TInv
<1>1. CASE OpenServer
  BY <1>0, <1>1, OpenReadFacts DEF OpenServer, Quiet
<1>2. CASE TakeName
  BY <1>0, <1>2, ReadFirst DEF TakeName, Quiet
<1>3. CASE OpenGreeted
  <2>1. msg.from \in Names /\ msg.from # d /\ open_wr(Srv, msg.from)
    BY <1>0, <1>3, CellsShape DEF OpenGreeted, SType
  <2> QED
    BY <1>0, <2>1, OpenWriteFacts DEF Quiet
<1>4. CASE WriteAccept
  <2>1. msg.from \in Names /\ msg.from # Srv /\ msg.from # d /\ write(msg.from, <<Accept>>)
    BY <1>0, <1>4, CellsShape, FifoChatAssumption DEF WriteAccept, SType
  <2>2. <<Accept>> \in Seq(Items(msg.from))
    BY <2>1, CellsShape DEF Items
  <2> QED
    BY <1>0, <2>1, <2>2, WriteFacts DEF Quiet
<1>5. CASE LeaveGreeted
  <2>1. {msg.from} \in SUBSET Names /\ close(Srv, {msg.from}) /\ msg.from # d
    BY <1>0, <1>5, CellsShape DEF LeaveGreeted, SType
  <2> QED
    BY <1>0, <2>1, CloseQuiet
<1>6. CASE ReadLine
  <2>1. CASE read(Srv, 1)
    BY <1>0, <2>1, ReadFirst DEF Quiet
  <2>2. CASE UNCHANGED fvars
    BY <2>2 DEF fvars, Quiet
  <2> QED
    BY <1>6, <2>1, <2>2 DEF ReadLine
<1>7. CASE CloseServer
  <2>1. close(Srv, {Srv}) /\ d \notin {Srv} /\ {Srv} \in SUBSET Names
    BY <1>0, <1>7 DEF CloseServer
  <2> QED
    BY <2>1, CloseQuiet
<1>8. CASE RelayTo
  <2>1. list[j] \in Message /\ list[j].from # d /\ open_wr(Srv, list[j].from)
    BY <1>0, <1>8, SeqShape DEF RelayTo, SType
  <2> QED
    <3>1. list[j].from \in Names
      BY <2>1, CellsShape
    <3> QED
      BY <1>0, <2>1, <3>1, OpenWriteFacts DEF Quiet
<1>9. CASE SkipMember \/ EndRelay
  BY <1>9 DEF SkipMember, EndRelay, fvars, Quiet
<1>10. CASE SendLine
  <2>1. /\ list[j] \in Message /\ msg \in Message /\ list[j].from # d
        /\ write(list[j].from, Cells(msg))
    BY <1>0, <1>10, SeqShape DEF SendLine, SType
  <2>2. list[j].from \in Names /\ list[j].from # Srv /\ Cells(msg) \in Seq(Cell)
    BY <2>1, CellsShape, FifoChatAssumption
  <2>3. Cells(msg) \in Seq(Items(list[j].from))
    BY <2>2 DEF Items
  <2> QED
    BY <1>0, <2>1, <2>2, <2>3, WriteFacts DEF Quiet
<1> QED
  BY <1>1, <1>2, <1>3, <1>4, <1>5, <1>6, <1>7, <1>8, <1>9, <1>10 DEF Server

\* A client disturbs no other client's FIFO.
LEMMA ClientQuiet ==
  ASSUME TInv, NEW d \in Clients, Ends(d), NEW c \in Clients,
         \/ StartClient(c) \/ TypeLine(c) \/ Writer(c)
         \/ c # d /\ (Reader(c) \/ KillClient(c))
  PROVE  Quiet(d)
<1>0. /\ FType /\ CType /\ d \in Names /\ d # Srv /\ c \in Names /\ c # Srv
      /\ Srv \in Names /\ line[c] \in 0..MaxLines
      /\ {Srv} \in SUBSET Names /\ {c} \in SUBSET Names
  BY FifoChatAssumption DEF TInv, CType
<1>1. CASE StartClient(c) \/ TypeLine(c)
  BY <1>1 DEF StartClient, TypeLine, fvars, Quiet
<1>2. CASE OpenUp(c)
  BY <1>0, <1>2, OpenWriteFacts DEF OpenUp, Quiet
<1>3. CASE WriteUp(c)
  <2>1. <<[from |-> c, k |-> line[c]]>> \in Seq(Items(Srv))
    BY <1>0 DEF Items, Message
  <2> QED
    BY <1>0, <1>3, <2>1, WriteFacts DEF WriteUp, Quiet
<1>4. CASE WriterDies(c) \/ CloseUp(c)
  <2>1. close(c, {Srv}) /\ d \notin {Srv}
    BY <1>0, <1>4 DEF WriterDies, CloseUp
  <2> QED
    BY <1>0, <2>1, CloseQuiet
<1>5. CASE OpenDown(c) /\ c # d
  BY <1>0, <1>5, OpenReadFacts DEF OpenDown, Quiet
<1>6. CASE ReadDown(c) /\ c # d
  <2>1. CASE read(c, MsgCells)
    BY <1>0, <1>6, <2>1, ReadFacts, CellsShape DEF Quiet
  <2>2. CASE UNCHANGED fvars
    BY <2>2 DEF fvars, Quiet
  <2> QED
    BY <1>6, <2>1, <2>2 DEF ReadDown
<1>7. CASE (CloseDown(c) \/ KillClient(c)) /\ c # d
  <2>1. PICK fs \in SUBSET Names : close(c, fs)
    BY <1>0, <1>7 DEF CloseDown, KillClient
  <2> QED
    BY <1>0, <1>7, <2>1, CloseQuiet
<1> QED
  BY <1>1, <1>2, <1>3, <1>4, <1>5, <1>6, <1>7 DEF Writer, Reader

\* Where the server's call is about d itself.
LEMMA OwnFacts ==
  ASSUME TInv, NEW d \in Clients, Ends(d)
  PROVE  /\ \/ OpenGreeted /\ msg.from = d
            \/ RelayTo /\ list[j].from = d
            => /\ rd'[d] = rd[d] /\ wr'[d] = {Srv} /\ data'[d] = data[d]
               /\ blocked' = IF rd[d] = {} THEN blocked \cup {<<Srv, d>>}
                             ELSE blocked \ (rd[d] \X {d})
         /\ WriteAccept /\ msg.from = d =>
              /\ rd'[d] = rd[d] /\ wr'[d] = wr[d] /\ rd[d] # {} /\ blocked' = blocked
              /\ data'[d] = data[d] \o <<Accept>>
         /\ SendLine /\ list[j].from = d =>
              /\ rd'[d] = rd[d] /\ wr'[d] = wr[d] /\ rd[d] # {} /\ blocked' = blocked
              /\ data'[d] = data[d] \o Cells(msg)
         /\ (LeaveGreeted /\ msg.from = d) \/ ServerDies =>
              /\ rd'[d] = rd[d] /\ wr'[d] = {}
              /\ data'[d] = IF rd[d] = {} THEN <<>> ELSE data[d]
              /\ <<d, d>> \in blocked' <=> <<d, d>> \in blocked
<1>0. /\ FType /\ SType /\ CType /\ d \in Names /\ d # Srv /\ Srv \in Names
      /\ wr[d] \subseteq {Srv} /\ rd[d] \subseteq {d}
  BY FifoChatAssumption DEF TInv, Ends
<1>1. ASSUME (OpenGreeted /\ msg.from = d) \/ (RelayTo /\ list[j].from = d)
      PROVE  /\ rd'[d] = rd[d] /\ wr'[d] = {Srv} /\ data'[d] = data[d]
             /\ blocked' = IF rd[d] = {} THEN blocked \cup {<<Srv, d>>}
                           ELSE blocked \ (rd[d] \X {d})
  <2>1. open_wr(Srv, d)
    BY <1>1 DEF OpenGreeted, RelayTo
  <2>2. rd'[d] = rd[d] /\ wr'[d] = wr[d] \cup {Srv} /\ data'[d] = data[d]
    BY <1>0, <2>1, OpenWriteFacts
  <2>3. wr[d] \cup {Srv} = {Srv}
    BY <1>0
  <2> QED
    BY <2>1, <2>2, <2>3 DEF open_wr, Waits
<1>2. ASSUME WriteAccept, msg.from = d
      PROVE  /\ rd'[d] = rd[d] /\ wr'[d] = wr[d] /\ rd[d] # {} /\ blocked' = blocked
             /\ data'[d] = data[d] \o <<Accept>>
  <2>1. write(d, <<Accept>>)
    BY <1>2 DEF WriteAccept
  <2>2. <<Accept>> \in Seq(Items(d))
    BY <1>0, CellsShape DEF Items
  <2> QED
    BY <1>0, <2>1, <2>2, WriteFacts
<1>3. ASSUME SendLine, list[j].from = d
      PROVE  /\ rd'[d] = rd[d] /\ wr'[d] = wr[d] /\ rd[d] # {} /\ blocked' = blocked
             /\ data'[d] = data[d] \o Cells(msg)
  <2>1. write(d, Cells(msg)) /\ msg \in Message
    BY <1>0, <1>3 DEF SendLine, SType
  <2>2. Cells(msg) \in Seq(Items(d))
    BY <1>0, <2>1, CellsShape DEF Items
  <2> QED
    BY <1>0, <2>1, <2>2, WriteFacts
<1>4. ASSUME (LeaveGreeted /\ msg.from = d) \/ ServerDies
      PROVE  /\ rd'[d] = rd[d] /\ wr'[d] = {}
             /\ data'[d] = IF rd[d] = {} THEN <<>> ELSE data[d]
             /\ <<d, d>> \in blocked' <=> <<d, d>> \in blocked
  <2>1. PICK fs \in SUBSET Names : d \in fs /\ close(Srv, fs)
    BY <1>0, <1>4 DEF LeaveGreeted, ServerDies
  <2>2. rd'[d] = rd[d] \ {Srv} /\ wr'[d] = wr[d] \ {Srv}
    BY <1>0, <2>1, CloseFacts
  <2>3. data'[d] = IF rd'[d] \cup wr'[d] = {} THEN <<>> ELSE data[d]
    BY <1>0, <2>1, CloseFacts
  <2>4. <<d, d>> \in blocked' <=> <<d, d>> \in blocked
    BY <1>0, <2>1, CloseFacts
  <2>5. rd[d] \ {Srv} = rd[d] /\ wr[d] \ {Srv} = {}
    BY <1>0
  <2> QED
    BY <2>2, <2>3, <2>4, <2>5
<1> QED
  BY <1>1, <1>2, <1>3, <1>4

\* Ends(d) is kept by a step that leaves d's FIFO and processes alone.
LEMMA EndsQuiet ==
  ASSUME NEW d \in Clients, Ends(d), Quiet(d),
         rpc'[d] = rpc[d], chunks'[d] = chunks[d], got'[d] = got[d],
         wpc'[d] \in {"off", "open", "write", "close"} /\ line'[d] = 0 =>
           wpc[d] \in {"off", "open", "write", "close"} /\ line[d] = 0
  PROVE  Ends(d)'
<1>1. rd'[d] = rd[d] /\ wr'[d] = wr[d] /\ data'[d] = data[d]
  BY DEF Quiet
<1> QED
  BY <1>1 DEF Ends

\* The server does not touch the clients' own variables.
LEMMA ServerKeeps ==
  ASSUME Server
  PROVE  UNCHANGED <<wpc, rpc, line, chunks, got>>
BY DEF Server, OpenServer, TakeName, OpenGreeted, WriteAccept, LeaveGreeted,
     ReadLine, CloseServer, RelayTo, SkipMember, EndRelay, SendLine, ServerDies, cvars

\* EndsInv is inductive.
LEMMA EndsStep ==
  ASSUME TInv, EndsInv, [Next]_vars
  PROVE  EndsInv'
<1> SUFFICES ASSUME NEW d \in Clients PROVE Ends(d)'
  BY DEF EndsInv
<1>0. Ends(d) /\ CType /\ FType
  BY DEF EndsInv, TInv
<1>1. CASE Server
  <2>1. UNCHANGED <<wpc, rpc, line, chunks, got>>
    BY <1>1, ServerKeeps
  <2>2. CASE Quiet(d)
    BY <1>0, <2>1, <2>2, EndsQuiet
  <2>3. CASE (OpenGreeted /\ msg.from = d) \/ (RelayTo /\ list[j].from = d)
    <3>1. rd'[d] = rd[d] /\ wr'[d] = {Srv} /\ data'[d] = data[d]
      BY <1>0, <2>3, OwnFacts
    <3> QED
      BY <1>0, <2>1, <3>1 DEF Ends
  <2>4. CASE (WriteAccept /\ msg.from = d) \/ (SendLine /\ list[j].from = d)
    <3>1. rd'[d] = rd[d] /\ wr'[d] = wr[d] /\ rd[d] # {}
      BY <1>0, <2>4, OwnFacts
    <3> QED
      BY <1>0, <2>1, <3>1 DEF Ends
  <2>5. CASE (LeaveGreeted /\ msg.from = d) \/ ServerDies
    <3>1. rd'[d] = rd[d] /\ wr'[d] = {} /\ (rd[d] = {} => data'[d] = <<>>)
      BY <1>0, <2>5, OwnFacts
    <3> QED
      BY <1>0, <2>1, <3>1 DEF Ends
  <2> QED
    BY <1>0, <1>1, <2>2, <2>3, <2>4, <2>5, ServerQuiet
<1>2. ASSUME NEW c \in Clients,
             StartClient(c) \/ TypeLine(c) \/ Writer(c) \/ Reader(c) \/ KillClient(c)
      PROVE  Ends(d)'
  <2>0. /\ wpc[c] \in {"off", "open", "write", "close", "type", "dead"}
        /\ line[c] \in Nat /\ DOMAIN rpc = Clients /\ DOMAIN wpc = Clients
        /\ DOMAIN line = Clients /\ DOMAIN chunks = Clients /\ DOMAIN got = Clients
    BY <1>0, FifoChatAssumption DEF CType
  <2>1. CASE c # d
    <3>1. Quiet(d)
      BY <1>0, <1>2, <2>1, ClientQuiet
    <3>2. /\ rpc'[d] = rpc[d] /\ wpc'[d] = wpc[d] /\ line'[d] = line[d]
          /\ chunks'[d] = chunks[d] /\ got'[d] = got[d]
      BY <1>2, <2>0, <2>1 DEF StartClient, TypeLine, Writer, Reader, KillClient,
         OpenUp, WriteUp, WriterDies, CloseUp, OpenDown, ReadDown, CloseDown
    <3> QED
      BY <1>0, <3>1, <3>2, EndsQuiet
  <2>2. CASE c = d /\ (StartClient(c) \/ TypeLine(c) \/ OpenUp(c) \/ WriteUp(c))
    <3>1. Quiet(d)
      BY <1>0, <2>2, ClientQuiet DEF Writer
    <3>2. /\ rpc'[d] = rpc[d] /\ chunks'[d] = chunks[d] /\ got'[d] = got[d]
      BY <2>2 DEF StartClient, TypeLine, OpenUp, WriteUp
    <3>3. \/ wpc[d] \in {"off", "open", "write"} /\ line'[d] = line[d]
          \/ line'[d] = line[d] + 1
      BY <2>0, <2>2 DEF StartClient, TypeLine, OpenUp, WriteUp
    <3> QED
      BY <1>0, <2>0, <2>2, <3>1, <3>2, <3>3, EndsQuiet
  <2>3. CASE c = d /\ (WriterDies(c) \/ CloseUp(c))
    <3>1. Quiet(d)
      BY <1>0, <2>3, ClientQuiet DEF Writer
    <3>2. /\ chunks'[d] = chunks[d] /\ got'[d] = got[d]
          /\ wpc'[d] \in {"type", "dead"}
          /\ \/ rpc'[d] = rpc[d]
             \/ rpc'[d] \in {"dead", "open"} /\ line[d] = 0 /\ wpc[d] \in {"write", "close"}
      BY <2>0, <2>3 DEF WriterDies, CloseUp
    <3>3. rd'[d] = rd[d] /\ wr'[d] = wr[d] /\ data'[d] = data[d]
      BY <3>1 DEF Quiet
    <3>4. rd'[d] = IF rpc'[d] \in {"read", "close"} THEN {d} ELSE {}
      BY <1>0, <3>2, <3>3 DEF Ends
    <3> QED
      BY <1>0, <3>2, <3>3, <3>4 DEF Ends
  <2>4. CASE c = d /\ OpenDown(c)
    <3>1. rd'[d] = rd[d] \cup {d} /\ wr'[d] = wr[d] /\ data'[d] = data[d]
      BY <1>0, <2>4, OpenReadFacts DEF OpenDown
    <3>2. /\ rpc[d] = "open" /\ rpc'[d] = "read"
          /\ UNCHANGED <<wpc, line, chunks, got>>
      BY <2>0, <2>4 DEF OpenDown
    <3> QED
      BY <1>0, <3>1, <3>2 DEF Ends
  <2>5. CASE c = d /\ ReadDown(c)
    <3>1. rpc[d] = "read" /\ rpc'[d] = "close" /\ UNCHANGED <<wpc, line>>
      BY <2>0, <2>5 DEF ReadDown
    <3>2. rd'[d] = rd[d] /\ wr'[d] = wr[d]
      <4>1. CASE read(d, MsgCells)
        BY <4>1 DEF read
      <4>2. CASE UNCHANGED fvars
        BY <4>2 DEF fvars
      <4> QED
        BY <2>5, <4>1, <4>2 DEF ReadDown
    <3>3. chunks'[d] = <<>> => got'[d] = <<>>
      <4>1. CASE UNCHANGED <<chunks, got>>
        BY <1>0, <4>1 DEF Ends
      <4>2. CASE read(d, MsgCells) /\ chunks' = [chunks EXCEPT ![d] = Append(@, Chunk(d, MsgCells))]
        <5>1. Chunk(d, MsgCells) \in Seq(Cell)
          BY <1>0, <4>2, ReadFacts, CellsShape, FifoChatAssumption DEF Items
        <5>2. Append(chunks[d], Chunk(d, MsgCells)) # <<>>
          <6>1. chunks[d] \in Seq(Seq(Cell))
            BY <1>0 DEF CType
          <6> QED
            BY <5>1, <6>1, AppendShape
        <5> QED
          BY <2>0, <4>2, <5>2
      <4> QED
        BY <2>5, <4>1, <4>2 DEF ReadDown
    <3> QED
      BY <1>0, <3>1, <3>2, <3>3 DEF Ends
  <2>6. CASE c = d /\ (CloseDown(c) \/ KillClient(c))
    <3>1. PICK fs \in SUBSET Names : d \in fs /\ close(d, fs)
      BY <1>0, <2>6 DEF CloseDown, KillClient
    <3>2. rd'[d] = rd[d] \ {d} /\ wr'[d] = wr[d] \ {d}
      BY <1>0, <3>1, CloseFacts
    <3>3. data'[d] = IF rd'[d] \cup wr'[d] = {} THEN <<>> ELSE data[d]
      BY <1>0, <3>1, CloseFacts
    <3>4. /\ rpc'[d] \in {"open", "dead"} /\ UNCHANGED <<line, chunks, got>>
          /\ \/ wpc' = wpc /\ rpc[d] = "close"
             \/ wpc'[d] = "dead"
      BY <2>0, <2>6 DEF CloseDown, KillClient
    <3> QED
      BY <1>0, <3>2, <3>3, <3>4 DEF Ends
  <2> QED
    BY <1>2, <2>1, <2>2, <2>3, <2>4, <2>5, <2>6 DEF Writer, Reader
<1>3. CASE UNCHANGED vars
  <2>1. UNCHANGED <<rd, wr, data, rpc, wpc, line, chunks, got>>
    BY <1>3 DEF vars, fvars, cvars
  <2> QED
    BY <1>0, <2>1 DEF Ends
<1> QED
  BY <1>1, <1>2, <1>3 DEF Next

-----------------------------------------------------------------------------
(* Where the server is: it takes no line while it takes names, greets the   *)
(* one listed last, and relays the line taken last.                        *)
Phases == /\ spc \in {"start", "name", "greet", "accept", "leave"} => taken = <<>>
          /\ spc \in {"greet", "accept", "leave"} => list # <<>> /\ msg = list[Len(list)]
          /\ spc \in {"relay", "send"} => msg = taken[Len(taken)]
          /\ spc = "accept" => wr[msg.from] = {Srv}
          /\ spc = "send" => wr[list[j].from] = {Srv}

\* Phases is inductive.
LEMMA PhasesStep ==
  ASSUME TInv, EndsInv, Phases, [Next]_vars
  PROVE  Phases'
<1>0. FType /\ SType /\ CType /\ Srv \in Names /\ Srv \notin Clients
  BY FifoChatAssumption DEF TInv
<1>1. CASE Server
  <2>1. CASE OpenServer
    BY <1>0, <2>1 DEF OpenServer, Phases
  <2>2. CASE TakeName
    <3>1. msg' \in Message /\ list' = Append(list, msg') /\ UNCHANGED taken
      BY <1>0, <2>2, ReadFirst DEF TakeName, Items
    <3>2. list' # <<>> /\ list'[Len(list')] = msg'
      <4>1. list \in Seq(Message)
        BY <1>0 DEF SType
      <4> QED
        BY <3>1, <4>1, AppendShape
    <3>3. spc' \in {"greet", "name", "close"} /\ taken = <<>>
      BY <2>2 DEF TakeName, AfterName, Phases
    <3> QED
      BY <3>1, <3>2, <3>3 DEF Phases
  <2>3. CASE OpenGreeted
    <3>1. msg.from \in Clients
      BY <1>0, <2>3, CellsShape DEF OpenGreeted, SType
    <3>2. Ends(msg.from)
      BY <3>1 DEF EndsInv
    <3>3. wr'[msg.from] = {Srv}
      BY <2>3, <3>1, <3>2, OwnFacts
    <3> QED
      BY <2>3, <3>3 DEF OpenGreeted, Phases
  <2>4. CASE WriteAccept
    BY <2>4 DEF WriteAccept, Phases
  <2>5. CASE LeaveGreeted
    BY <2>5 DEF LeaveGreeted, AfterName, Phases
  <2>6. CASE ReadLine
    <3>1. CASE /\ read(Srv, 1) /\ msg' = Head(data[Srv])
               /\ taken' = Append(taken, msg') /\ spc' = "relay"
      <4>1. msg' \in Message /\ taken \in Seq(Message)
        BY <1>0, <3>1, ReadFirst DEF Items, SType
      <4>2. taken'[Len(taken')] = msg'
        BY <3>1, <4>1, AppendShape
      <4> QED
        BY <3>1, <4>2 DEF Phases
    <3>2. CASE spc' = "close"
      BY <3>2 DEF Phases
    <3> QED
      BY <2>6, <3>1, <3>2 DEF ReadLine
  <2>7. CASE CloseServer \/ ServerDies \/ EndRelay \/ SendLine
    BY <2>7 DEF CloseServer, ServerDies, EndRelay, SendLine, Phases
  <2>8. CASE RelayTo
    <3>1. list[j] \in Message /\ list[j].from \in Clients
      BY <1>0, <2>8, CellsShape, SeqShape DEF RelayTo, SType
    <3>2. Ends(list[j].from)
      BY <3>1 DEF EndsInv
    <3>3. wr'[list[j].from] = {Srv}
      BY <2>8, <3>1, <3>2, OwnFacts
    <3>4. spc = "relay" /\ spc' = "send" /\ UNCHANGED <<list, msg, j, taken>>
      BY <2>8 DEF RelayTo
    <3>5. wr'[list'[j'].from] = {Srv}
      BY <3>3, <3>4
    <3> QED
      BY <3>4, <3>5 DEF Phases
  <2>9. CASE SkipMember
    BY <2>9 DEF SkipMember, Phases
  <2> QED
    BY <1>1, <2>1, <2>2, <2>3, <2>4, <2>5, <2>6, <2>7, <2>8, <2>9 DEF Server
<1>2. ASSUME NEW c \in Clients,
             StartClient(c) \/ TypeLine(c) \/ Writer(c) \/ Reader(c) \/ KillClient(c)
      PROVE  Phases'
  <2>1. UNCHANGED <<spc, list, msg, j, taken>>
    BY <1>2 DEF StartClient, TypeLine, Writer, Reader, KillClient, svars,
       OpenUp, WriteUp, WriterDies, CloseUp, OpenDown, ReadDown, CloseDown
  <2>2. ASSUME NEW d \in Clients PROVE wr'[d] = wr[d]
    <3>1. Ends(d) /\ Ends(c) /\ c \in Names /\ d \in Names /\ c # Srv
      BY <1>0 DEF EndsInv
    <3>2. CASE c # d \/ ~(Reader(c) \/ KillClient(c))
      BY <1>2, <3>1, <3>2, ClientQuiet DEF Quiet
    <3>3. CASE c = d /\ (OpenDown(c) \/ ReadDown(c))
      BY <1>0, <3>1, <3>3 DEF OpenDown, ReadDown, open_rd, read, fvars
    <3>4. CASE c = d /\ (CloseDown(c) \/ KillClient(c))
      <4>1. PICK fs \in SUBSET Names : d \in fs /\ close(d, fs)
        BY <3>1, <3>4 DEF CloseDown, KillClient
      <4>2. wr'[d] = wr[d] \ {d} /\ wr[d] \subseteq {Srv}
        BY <1>0, <3>1, <4>1, CloseFacts DEF Ends
      <4> QED
        BY <1>0, <4>2
    <3> QED
      BY <3>2, <3>3, <3>4 DEF Reader
  <2>3. spc = "accept" => msg.from \in Clients
    BY <1>0, CellsShape DEF SType
  <2>4. spc = "send" => list[j] \in Message
    <3>1. ASSUME spc = "send" PROVE j \in 1..Len(list) /\ list \in Seq(Message)
      BY <1>0, <3>1, SeqShape DEF SType
    <3> QED
      BY <3>1, SeqShape
  <2>5. spc = "send" => list[j].from \in Clients
    BY <2>4, CellsShape
  <2> QED
    BY <2>1, <2>2, <2>3, <2>5 DEF Phases
<1>3. CASE UNCHANGED vars
  <2>1. UNCHANGED <<spc, list, msg, j, taken, wr>>
    BY <1>3 DEF vars, fvars, svars
  <2> QED
    BY <2>1 DEF Phases
<1> QED
  BY <1>1, <1>2, <1>3 DEF Next

-----------------------------------------------------------------------------
(* TypedOrder in parts: k increases within each of the three, and from each *)
(* to the next; and a client that has yet to write has written less.       *)
Rising(s) == \A a, b \in 1..Len(s) : a < b /\ s[a].from = s[b].from => s[a].k < s[b].k
Before(s, t) == \A a \in 1..Len(s), b \in 1..Len(t) : s[a].from = t[b].from => s[a].k < t[b].k
Said(m) == \/ m.k < line[m.from]
           \/ m.k = line[m.from] /\ wpc[m.from] \in {"close", "type", "dead"}
Typed(s) == \A a \in 1..Len(s) : Said(s[a])
OrderInv == /\ Rising(list) /\ Rising(taken) /\ Rising(data[Srv])
            /\ Before(list, taken) /\ Before(list, data[Srv]) /\ Before(taken, data[Srv])
            /\ Typed(list) /\ Typed(taken) /\ Typed(data[Srv])

\* A newer message keeps a sequence rising.
LEMMA RisingAppend ==
  ASSUME NEW s \in Seq(Message), NEW m \in Message, Rising(s), Before(s, <<m>>)
  PROVE  Rising(Append(s, m))
<1> DEFINE t == Append(s, m)
           n == Len(s)
<1>1. /\ n \in Nat /\ Len(t) = n + 1 /\ \A i \in 1..n : t[i] = s[i]
      /\ t[n + 1] = m
  BY AppendShape, SeqShape
<1>2. \A a \in 1..n : s[a].from = m.from => s[a].k < m.k
  BY DEF Before
<1> HIDE DEF t
<1> SUFFICES ASSUME NEW a \in 1..n + 1, NEW b \in 1..n + 1, a < b, t[a].from = t[b].from
             PROVE  t[a].k < t[b].k
  BY <1>1 DEF Rising, t
<1>3. a \in 1..n /\ t[a] = s[a]
  BY <1>1
<1>4. CASE b = n + 1
  BY <1>1, <1>2, <1>3, <1>4
<1>5. CASE b \in 1..n
  BY <1>1, <1>3, <1>5 DEF Rising
<1> QED
  BY <1>1, <1>4, <1>5

\* Before, when a message is added to either side.
LEMMA BeforeAppend ==
  ASSUME NEW s \in Seq(Message), NEW t \in Seq(Message), NEW m \in Message
  PROVE  /\ Before(s, t) /\ Before(s, <<m>>) => Before(s, Append(t, m))
         /\ Before(s, t) /\ Before(<<m>>, t) => Before(Append(s, m), t)
<1>1. ASSUME NEW u \in Seq(Message)
      PROVE  /\ Len(Append(u, m)) = Len(u) + 1 /\ Len(u) \in Nat
             /\ \A i \in 1..Len(u) : Append(u, m)[i] = u[i]
             /\ Append(u, m)[Len(u) + 1] = m
             /\ \A i \in 1..Len(u) + 1 : i \in 1..Len(u) \/ i = Len(u) + 1
  BY AppendShape, SeqShape
<1>2. Len(<<m>>) = 1 /\ <<m>>[1] = m
  OBVIOUS
<1>3. ASSUME Before(s, t), Before(s, <<m>>) PROVE Before(s, Append(t, m))
  <2> DEFINE v == Append(t, m)
  <2>1. /\ Len(v) = Len(t) + 1 /\ v[Len(t) + 1] = m /\ \A i \in 1..Len(t) : v[i] = t[i]
        /\ \A i \in 1..Len(t) + 1 : i \in 1..Len(t) \/ i = Len(t) + 1
    BY <1>1
  <2> HIDE DEF v
  <2>2. \A a \in 1..Len(s) : s[a].from = m.from => s[a].k < m.k
    BY <1>2, <1>3 DEF Before
  <2>3. Before(s, v)
    BY <1>3, <2>1, <2>2 DEF Before
  <2> QED
    BY <2>3 DEF v
<1>4. ASSUME Before(s, t), Before(<<m>>, t) PROVE Before(Append(s, m), t)
  <2> DEFINE v == Append(s, m)
  <2>1. /\ Len(v) = Len(s) + 1 /\ v[Len(s) + 1] = m /\ \A i \in 1..Len(s) : v[i] = s[i]
        /\ \A i \in 1..Len(s) + 1 : i \in 1..Len(s) \/ i = Len(s) + 1
    BY <1>1
  <2> HIDE DEF v
  <2>2. \A b \in 1..Len(t) : m.from = t[b].from => m.k < t[b].k
    BY <1>2, <1>4 DEF Before
  <2>3. Before(v, t)
    BY <1>4, <2>1, <2>2 DEF Before
  <2> QED
    BY <2>3 DEF v
<1> QED
  BY <1>3, <1>4

\* Typed, when a message is added.
LEMMA TypedAppend ==
  ASSUME NEW s \in Seq(Message), NEW m \in Message, Typed(s), Said(m)
  PROVE  Typed(Append(s, m))
<1>1. /\ Len(Append(s, m)) = Len(s) + 1 /\ Len(s) \in Nat
      /\ \A i \in 1..Len(s) : Append(s, m)[i] = s[i]
      /\ Append(s, m)[Len(s) + 1] = m
      /\ \A i \in 1..Len(s) + 1 : i \in 1..Len(s) \/ i = Len(s) + 1
  BY AppendShape, SeqShape
<1> QED
  BY <1>1 DEF Typed

\* The head of a rising sequence precedes the rest, which is rising too.
LEMMA RisingRest ==
  ASSUME NEW s \in Seq(Message), NEW t \in Seq(Message), Len(s) \in Nat \ {0},
         Len(t) = Len(s) - 1, \A i \in 1..Len(t) : t[i] = s[i + 1]
  PROVE  /\ s[1] \in Message
         /\ Rising(s) => Rising(t) /\ Before(<<s[1]>>, t)
         /\ Typed(s) => Typed(t) /\ Said(s[1])
         /\ \A u \in Seq(Message) : Before(u, s) => Before(u, t) /\ Before(u, <<s[1]>>)
<1>1. \A i \in 1..Len(t) : i + 1 \in 1..Len(s) /\ 1 < i + 1
  OBVIOUS
<1>2. 1 \in 1..Len(s) /\ s[1] \in Message
  BY SeqShape
<1>3. ASSUME Rising(s) PROVE Rising(t) /\ Before(<<s[1]>>, t)
  <2>1. Rising(t)
    <3> SUFFICES ASSUME NEW a \in 1..Len(t), NEW b \in 1..Len(t), a < b,
                        t[a].from = t[b].from
                 PROVE  t[a].k < t[b].k
      BY DEF Rising
    <3>1. a + 1 \in 1..Len(s) /\ b + 1 \in 1..Len(s) /\ a + 1 < b + 1
      BY <1>1
    <3>2. t[a] = s[a + 1] /\ t[b] = s[b + 1]
      OBVIOUS
    <3> QED
      BY <1>3, <3>1, <3>2 DEF Rising
  <2>2. Before(<<s[1]>>, t)
    <3>1. \A b \in 1..Len(t) : s[1].from = t[b].from => s[1].k < t[b].k
      BY <1>1, <1>2, <1>3 DEF Rising
    <3>2. Len(<<s[1]>>) = 1 /\ <<s[1]>>[1] = s[1]
      OBVIOUS
    <3> QED
      BY <3>1, <3>2 DEF Before
  <2> QED
    BY <2>1, <2>2
<1>4. ASSUME Typed(s) PROVE Typed(t) /\ Said(s[1])
  <2>1. Said(s[1]) /\ \A i \in 1..Len(t) : Said(s[i + 1])
    BY <1>1, <1>2, <1>4 DEF Typed
  <2> QED
    BY <2>1 DEF Typed
<1>5. ASSUME NEW u \in Seq(Message), Before(u, s)
      PROVE  Before(u, t) /\ Before(u, <<s[1]>>)
  <2>1. Before(u, t)
    BY <1>1, <1>5 DEF Before
  <2>2. \A a \in 1..Len(u) : u[a].from = s[1].from => u[a].k < s[1].k
    BY <1>2, <1>5 DEF Before
  <2>3. Len(<<s[1]>>) = 1 /\ <<s[1]>>[1] = s[1]
    OBVIOUS
  <2> QED
    BY <2>1, <2>2, <2>3 DEF Before
<1> QED
  BY <1>2, <1>3, <1>4, <1>5

\* What a client has written stays written.
LEMMA SaidStays ==
  ASSUME TInv, [Next]_vars, NEW m \in Message, Said(m)
  PROVE  Said(m)'
<1>1. /\ m.from \in Clients /\ m.k \in Nat /\ line[m.from] \in Nat
      /\ CType /\ DOMAIN line = Clients /\ DOMAIN wpc = Clients
  BY CellsShape, FifoChatAssumption DEF TInv, CType
<1>2. CASE UNCHANGED <<wpc, line>>
  BY <1>2 DEF Said
<1>3. CASE Server
  BY <1>2, <1>3, ServerKeeps
<1>4. ASSUME NEW c \in Clients,
             StartClient(c) \/ TypeLine(c) \/ Writer(c) \/ Reader(c) \/ KillClient(c)
      PROVE  Said(m)'
  <2>1. CASE StartClient(c) \/ OpenUp(c)
    BY <1>1, <2>1 DEF StartClient, OpenUp, Said
  <2>2. CASE TypeLine(c)
    BY <1>1, <2>2 DEF TypeLine, Said
  <2>3. CASE WriteUp(c) \/ WriterDies(c) \/ CloseUp(c) \/ KillClient(c)
    BY <1>1, <2>3 DEF WriteUp, WriterDies, CloseUp, KillClient, Said
  <2>4. CASE Reader(c)
    BY <1>2, <2>4 DEF Reader, OpenDown, ReadDown, CloseDown
  <2> QED
    BY <1>4, <2>1, <2>2, <2>3, <2>4 DEF Writer
<1> QED
  BY <1>2, <1>3, <1>4 DEF Next, vars, cvars

\* So does what a sequence of them holds.
LEMMA TypedStays ==
  ASSUME TInv, [Next]_vars, NEW s \in Seq(Message), Typed(s)
  PROVE  Typed(s)'
<1>1. \A a \in 1..Len(s) : s[a] \in Message
  BY SeqShape
<1>2. \A a \in 1..Len(s) : Said(s[a])'
  BY <1>1, SaidStays DEF Typed
<1> QED
  BY <1>2 DEF Typed

\* Steps that neither take nor write a message: lines in /tmp/server may get lost.
Idles == UNCHANGED <<list, taken>> /\ data'[Srv] \in {data[Srv], <<>>}

\* OrderInv is kept while no message moves, or all in the FIFO are lost,
LEMMA OrderIdle ==
  ASSUME TInv, OrderInv, [Next]_vars, Idles
  PROVE  OrderInv'
<1>0. PICK l, k, s : l = list /\ k = taken /\ s = data[Srv]
  OBVIOUS
<1>1. l \in Seq(Message) /\ k \in Seq(Message) /\ s \in Seq(Message)
  BY <1>0 DEF TInv, SType, FType, Items
<1>2. Typed(l)' /\ Typed(k)' /\ Typed(s)'
  BY <1>0, <1>1, TypedStays DEF OrderInv
<1>3. list' = l /\ taken' = k /\ data'[Srv] \in {s, <<>>}
  BY <1>0 DEF Idles
<1>4. Typed(list)' /\ Typed(taken)'
  BY <1>2, <1>3 DEF Typed
<1>5. Rising(<<>>) /\ Before(l, <<>>) /\ Before(k, <<>>) /\ Typed(<<>>)'
  BY DEF Rising, Before, Typed
<1>6. Typed(data[Srv])'
  BY <1>2, <1>3, <1>5 DEF Typed
<1> QED
  BY <1>0, <1>3, <1>4, <1>5, <1>6 DEF OrderInv

\* A message goes from the FIFO to the list, or to what was taken.
LEMMA OrderTake ==
  ASSUME TInv, OrderInv, Phases, [Next]_vars, read(Srv, 1),
         \/ spc = "name" /\ list' = Append(list, Head(data[Srv])) /\ taken' = taken
         \/ taken' = Append(taken, Head(data[Srv])) /\ list' = list
  PROVE  OrderInv'
<1> DEFINE s == data[Srv]
           t == data'[Srv]
           m == data[Srv][1]
<1>1. list \in Seq(Message) /\ taken \in Seq(Message) /\ s \in Seq(Message)
  BY DEF TInv, SType, FType, Items
<1>2. /\ Head(data[Srv]) = m /\ m \in Message
      /\ Len(s) \in Nat \ {0} /\ Len(t) = Len(s) - 1
      /\ \A i \in 1..Len(t) : t[i] = s[i + 1]
      /\ t \in Seq(Message)
  BY ReadFirst DEF TInv, FType, Items
<1> HIDE DEF s, t, m
<1>3. /\ Rising(s) => Rising(t) /\ Before(<<m>>, t)
      /\ Typed(s) => Typed(t) /\ Said(m)
      /\ \A u \in Seq(Message) : Before(u, s) => Before(u, t) /\ Before(u, <<m>>)
  BY <1>1, <1>2, RisingRest DEF m, s
<1>4. /\ Rising(t) /\ Before(<<m>>, t) /\ Typed(t) /\ Said(m)
      /\ Before(list, t) /\ Before(taken, t) /\ Before(list, <<m>>) /\ Before(taken, <<m>>)
  BY <1>1, <1>3 DEF OrderInv, s
<1>5. Typed(list) /\ Typed(taken) /\ Rising(list) /\ Rising(taken) /\ Before(list, taken)
  BY DEF OrderInv
<1>6. (\A a \in 1..Len(t) : Said(t[a])) /\ \A a \in 1..Len(t) : t[a] \in Message
  BY <1>2, <1>4, SeqShape DEF Typed
<1>7. Typed(data[Srv])'
  BY <1>6, SaidStays DEF Typed, t
<1>8. CASE spc = "name" /\ list' = Append(list, m) /\ taken' = taken
  <2>1. taken = <<>>
    BY <1>8 DEF Phases
  <2>2. Rising(list') /\ Before(list', t)
    BY <1>1, <1>2, <1>4, <1>5, <1>8, RisingAppend, BeforeAppend
  <2>3. \A x : Before(x, <<>>)
    BY DEF Before
  <2>4. list' \in Seq(Message) /\ Typed(list') /\ Typed(taken)
    BY <1>1, <1>2, <1>4, <1>5, <1>8, TypedAppend, AppendShape
  <2>5. Typed(list)' /\ Typed(taken)'
    <3>1. \A a \in 1..Len(list') : list'[a] \in Message /\ Said(list'[a])
      BY <2>4, SeqShape DEF Typed
    <3>2. \A a \in 1..Len(taken') : taken'[a] \in Message /\ Said(taken'[a])
      BY <1>1, <1>8, <2>4, SeqShape DEF Typed
    <3> QED
      BY <3>1, <3>2, SaidStays DEF Typed
  <2> QED
    BY <1>4, <1>5, <1>7, <1>8, <2>1, <2>2, <2>3, <2>5 DEF OrderInv, t
<1>9. CASE taken' = Append(taken, m) /\ list' = list
  <2>2. Rising(taken') /\ Before(taken', t) /\ Before(list, taken')
    BY <1>1, <1>2, <1>4, <1>5, <1>9, RisingAppend, BeforeAppend
  <2>4. taken' \in Seq(Message) /\ Typed(taken') /\ Typed(list)
    BY <1>1, <1>2, <1>4, <1>5, <1>9, TypedAppend, AppendShape
  <2>5. Typed(list)' /\ Typed(taken)'
    <3>1. \A a \in 1..Len(taken') : taken'[a] \in Message /\ Said(taken'[a])
      BY <2>4, SeqShape DEF Typed
    <3>2. \A a \in 1..Len(list') : list'[a] \in Message /\ Said(list'[a])
      BY <1>1, <1>9, <2>4, SeqShape DEF Typed
    <3> QED
      BY <3>1, <3>2, SaidStays DEF Typed
  <2> QED
    BY <1>4, <1>5, <1>7, <1>9, <2>2, <2>5 DEF OrderInv, t
<1> QED
  BY <1>2, <1>8, <1>9

\* and when a client writes its name or its next line.
LEMMA OrderWrite ==
  ASSUME TInv, OrderInv, [Next]_vars, NEW c \in Clients, WriteUp(c)
  PROVE  OrderInv'
<1>0. PICK l, k, s, m : /\ l = list /\ k = taken /\ s = data[Srv]
                       /\ m = [from |-> c, k |-> line[c]]
  OBVIOUS
<1>1. l \in Seq(Message) /\ k \in Seq(Message) /\ s \in Seq(Message)
  BY <1>0 DEF TInv, SType, FType, Items
<1>2. m \in Message /\ m.from = c /\ m.k = line[c] /\ line[c] \in Nat
  BY <1>0, FifoChatAssumption DEF TInv, CType, Message
<1>3. list' = l /\ taken' = k /\ data'[Srv] = Append(s, m)
  <2>1. write(Srv, <<m>>) /\ list' = l /\ taken' = k
    BY <1>0 DEF WriteUp, svars
  <2>2. <<m>> \in Seq(Items(Srv))
    BY <1>2 DEF Items
  <2>3. data'[Srv] = s \o <<m>>
    BY <1>0, <2>1, <2>2, WriteFacts DEF TInv
  <2>4. s \o <<m>> = Append(s, m)
    BY <1>1, <1>2, AppendIsConcat
  <2> QED
    BY <2>1, <2>3, <2>4
<1>4. wpc[c] = "write" /\ wpc'[c] = "close" /\ line' = line
  BY DEF WriteUp, TInv, CType
<1>5. \A u \in Seq(Message) : Typed(u) => Before(u, <<m>>)
  <2> SUFFICES ASSUME NEW u \in Seq(Message), Typed(u), NEW a \in 1..Len(u),
                      u[a].from = m.from
               PROVE  u[a].k < m.k
    <3>1. Len(<<m>>) = 1 /\ <<m>>[1] = m
      OBVIOUS
    <3> QED
      BY <3>1 DEF Before
  <2>1. Said(u[a]) /\ u[a].from = c
    BY <1>2 DEF Typed
  <2> QED
    BY <1>2, <1>4, <2>1 DEF Said
<1>6. Rising(Append(s, m)) /\ Before(l, Append(s, m)) /\ Before(k, Append(s, m))
  BY <1>0, <1>1, <1>2, <1>5, RisingAppend, BeforeAppend DEF OrderInv
<1>7. Said(m)'
  BY <1>2, <1>4 DEF Said
<1>8. Typed(l)' /\ Typed(k)' /\ Typed(s)'
  BY <1>0, <1>1, TypedStays DEF OrderInv
<1>9. \A a \in 1..Len(Append(s, m)) : Said(Append(s, m)[a])'
  <2>1. /\ Len(Append(s, m)) = Len(s) + 1 /\ Append(s, m)[Len(s) + 1] = m
        /\ \A i \in 1..Len(s) : Append(s, m)[i] = s[i]
        /\ \A i \in 1..Len(s) + 1 : i \in 1..Len(s) \/ i = Len(s) + 1
    <3>1. s \in Seq(Message) /\ m \in Message
      BY <1>1, <1>2
    <3>2. /\ Len(Append(s, m)) = Len(s) + 1 /\ Append(s, m)[Len(s) + 1] = m
          /\ \A i \in 1..Len(s) : Append(s, m)[i] = s[i]
      BY ONLY <3>1, AppendShape
    <3>3. Len(s) \in Nat
      BY ONLY <3>1, SeqShape
    <3> QED
      BY ONLY <3>2, <3>3
  <2>2. \A a \in 1..Len(s) : Said(s[a])'
    BY <1>8 DEF Typed
  <2>3. ASSUME NEW a \in 1..Len(s) PROVE Said(Append(s, m)[a])'
    BY <2>1, <2>2, <2>3 DEF Said
  <2>4. Said(Append(s, m)[Len(s) + 1])'
    BY <1>7, <2>1 DEF Said
  <2> QED
    BY <2>1, <2>3, <2>4 DEF Said
<1>10. Typed(list)' /\ Typed(taken)' /\ Typed(data[Srv])'
  BY <1>3, <1>8, <1>9 DEF Typed, Said
<1> QED
  BY <1>0, <1>3, <1>6, <1>10 DEF OrderInv

\* OrderInv is inductive.
LEMMA OrderStep ==
  ASSUME TInv, EndsInv, Phases, OrderInv, [Next]_vars
  PROVE  OrderInv'
<1>0. FType /\ SType /\ CType /\ Srv \in Names /\ Srv \notin Clients
  BY FifoChatAssumption DEF TInv
<1>1. CASE Server
  <2>1. CASE OpenServer \/ OpenGreeted \/ RelayTo
    BY <2>1, OrderIdle DEF OpenServer, OpenGreeted, RelayTo, open_rd, open_wr, Idles
  <2>2. CASE TakeName
    BY <2>2, OrderTake DEF TakeName
  <2>3. CASE WriteAccept
    <3>1. msg.from # Srv
      BY <1>0, <2>3, CellsShape DEF WriteAccept, SType
    <3> QED
      BY <2>3, <3>1, OrderIdle DEF WriteAccept, write, Idles
  <2>4. CASE LeaveGreeted \/ CloseServer \/ ServerDies
    <3>1. \E fs : close(Srv, fs) /\ UNCHANGED <<list, taken>>
      BY <2>4 DEF LeaveGreeted, CloseServer, ServerDies
    <3>2. data'[Srv] \in {data[Srv], <<>>}
      BY <1>0, <3>1 DEF close, FType
    <3> QED
      BY <3>1, <3>2, OrderIdle DEF Idles
  <2>5. CASE ReadLine
    <3>1. CASE /\ read(Srv, 1) /\ msg' = Head(data[Srv])
               /\ taken' = Append(taken, msg')
      BY <2>5, <3>1, OrderTake DEF ReadLine
    <3>2. CASE UNCHANGED <<fvars, taken>>
      BY <2>5, <3>2, OrderIdle DEF ReadLine, fvars, Idles
    <3> QED
      BY <2>5, <3>1, <3>2 DEF ReadLine
  <2>6. CASE SkipMember \/ EndRelay
    BY <2>6, OrderIdle DEF SkipMember, EndRelay, fvars, Idles
  <2>7. CASE SendLine
    <3>1. list[j] \in Message
      BY <1>0, <2>7, SeqShape DEF SendLine, SType
    <3>2. list[j].from # Srv
      BY <1>0, <3>1, CellsShape
    <3> QED
      BY <2>7, <3>2, OrderIdle DEF SendLine, write, Idles
  <2> QED
    BY <1>1, <2>1, <2>2, <2>3, <2>4, <2>5, <2>6, <2>7 DEF Server
<1>2. ASSUME NEW c \in Clients,
             StartClient(c) \/ TypeLine(c) \/ Writer(c) \/ Reader(c) \/ KillClient(c)
      PROVE  OrderInv'
  <2>0. c # Srv
    BY <1>0
  <2>1. CASE StartClient(c) \/ TypeLine(c) \/ OpenUp(c) \/ OpenDown(c) \/ ReadDown(c)
    <3>1. UNCHANGED <<list, taken>>
      BY <2>1 DEF StartClient, TypeLine, OpenUp, OpenDown, ReadDown, svars
    <3>2. CASE StartClient(c) \/ TypeLine(c) \/ OpenUp(c) \/ OpenDown(c)
      BY <3>1, <3>2, OrderIdle DEF StartClient, TypeLine, OpenUp, OpenDown,
         open_wr, open_rd, fvars, Idles
    <3>3. CASE ReadDown(c)
      <4>1. read(c, MsgCells) \/ UNCHANGED fvars
        BY <3>3 DEF ReadDown
      <4>2. data'[Srv] = data[Srv]
        BY <1>0, <2>0, <4>1, ReadFacts, CellsShape DEF fvars
      <4> QED
        BY <3>1, <4>2, OrderIdle DEF Idles
    <3> QED
      BY <2>1, <3>2, <3>3
  <2>2. CASE WriteUp(c)
    BY <2>2, OrderWrite
  <2>3. CASE WriterDies(c) \/ CloseUp(c) \/ CloseDown(c) \/ KillClient(c)
    <3>1. \E fs : close(c, fs) /\ UNCHANGED <<list, taken>>
      BY <2>3 DEF WriterDies, CloseUp, CloseDown, KillClient, svars
    <3>2. data'[Srv] \in {data[Srv], <<>>}
      BY <1>0, <3>1 DEF close, FType
    <3> QED
      BY <3>1, <3>2, OrderIdle DEF Idles
  <2> QED
    BY <1>2, <2>1, <2>2, <2>3 DEF Writer, Reader
<1>3. CASE UNCHANGED vars
  BY <1>3, OrderIdle DEF vars, fvars, svars, Idles
<1> QED
  BY <1>1, <1>2, <1>3 DEF Next

-----------------------------------------------------------------------------
(* A client the server has not greeted yet waits in open for it, or does    *)
(* not wait at all; one the server is about to greet has read nothing.     *)
Name(c) == [from |-> c, k |-> 0]
Unknown(c) == Place(c) = {} \/ (spc = "greet" /\ msg = Name(c))
Untouched(c) == /\ data[c] = <<>> /\ got[c] = <<>> /\ chunks[c] = <<>> /\ rpc[c] # "close"
Waiting(c) == /\ Unknown(c) => /\ Untouched(c) /\ wr[c] = {}
                               /\ rpc[c] = "read" => <<c, c>> \in blocked
              /\ spc = "accept" /\ msg = Name(c) => Untouched(c)
WaitInv == \A c \in Clients : Waiting(c)

\* Whom the server's call is about is on the list; and a name comes in once.
LEMMA Targets ==
  ASSUME TInv, Phases, NEW d \in Clients
  PROVE  /\ spc \in {"greet", "accept", "leave"} /\ msg.from = d =>
              msg = Name(d) /\ Place(d) # {}
         /\ (RelayTo \/ SendLine) /\ list[j].from = d => list[j] = Name(d) /\ j \in Place(d)
         /\ SkipMember => j \notin Place(d)
         /\ SendLine /\ list[j].from # d => j \notin Place(d)
         /\ Place(d) \subseteq 1..Len(list)
<1>0. SType /\ list \in Seq(Message) /\ DOMAIN list = 1..Len(list) /\ Len(list) \in Nat
  BY SeqShape DEF TInv, SType
<1>1. \A m \in Message : m.from = d /\ m.k = 0 => m = Name(d)
  BY DEF Message, Name
<1>2. ASSUME spc \in {"greet", "accept", "leave"}, msg.from = d
      PROVE  msg = Name(d) /\ Place(d) # {}
  <2>1. msg \in Message /\ msg.k = 0
    BY <1>0, <1>2 DEF SType
  <2>2. msg = Name(d)
    BY <1>1, <1>2, <2>1
  <2>3. Len(list) \in DOMAIN list /\ list[Len(list)] = msg
    BY <1>0, <1>2, SeqShape DEF Phases
  <2> QED
    BY <2>2, <2>3 DEF Place, Name
<1>3. ASSUME RelayTo \/ SendLine, list[j].from = d
      PROVE  list[j] = Name(d) /\ j \in Place(d)
  <2>1. j \in 1..Len(list) /\ list[j].k = 0
    BY <1>0, <1>3 DEF RelayTo, SendLine, SType
  <2>2. list[j] \in Message
    BY <1>0, <2>1, SeqShape
  <2>3. list[j] = Name(d)
    BY <1>1, <1>3, <2>1, <2>2
  <2> QED
    BY <1>0, <2>1, <2>3 DEF Place, Name
<1>4. SkipMember => j \notin Place(d)
  BY DEF SkipMember, Place
<1>5. SendLine /\ list[j].from # d => j \notin Place(d)
  BY DEF Place
<1>6. Place(d) \subseteq 1..Len(list)
  BY <1>0 DEF Place
<1> QED
  BY <1>2, <1>3, <1>4, <1>5, <1>6

\* A name that is taken was not listed before.
LEMMA TakeOnce ==
  ASSUME TInv, OrderInv, Phases, NEW d \in Clients, TakeName
  PROVE  /\ Place(d) \subseteq Place(d)'
         /\ msg' = Name(d) => Place(d) = {}
         /\ Place(d)' # Place(d) => msg' = Name(d)
         /\ spc' = "greet" <=> msg'.k = 0
<1>1. /\ list \in Seq(Message) /\ data[Srv] \in Seq(Message) /\ read(Srv, 1)
      /\ msg' = Head(data[Srv]) /\ list' = Append(list, msg')
  BY DEF TInv, SType, FType, Items, TakeName
<1>2. msg' \in Message /\ msg' = data[Srv][1] /\ 1 \in 1..Len(data[Srv])
  BY <1>1, ReadFirst DEF TInv, Items
<1>3. /\ Len(list') = Len(list) + 1 /\ Len(list) \in Nat /\ list'[Len(list) + 1] = msg'
      /\ \A i \in 1..Len(list) : list'[i] = list[i]
      /\ DOMAIN list' = 1..Len(list) + 1 /\ DOMAIN list = 1..Len(list)
  BY <1>1, <1>2, AppendShape, SeqShape
<1>4. Place(d) \subseteq Place(d)'
  BY <1>3 DEF Place
<1>5. msg' = Name(d) => Place(d) = {}
  <2> SUFFICES ASSUME msg' = Name(d), NEW i \in Place(d) PROVE FALSE
    OBVIOUS
  <2>1. i \in 1..Len(list) /\ list[i].from = d /\ list[i].k = 0
    BY <1>3 DEF Place
  <2>2. data[Srv][1].from = d /\ data[Srv][1].k = 0
    BY <1>2 DEF Name
  <2> QED
    BY <1>2, <2>1, <2>2 DEF OrderInv, Before
<1>6. Place(d)' # Place(d) => msg' = Name(d)
  BY <1>3 DEF Place, Name
<1>7. spc' = "greet" <=> msg'.k = 0
  BY DEF TakeName, AfterName
<1> QED
  BY <1>4, <1>5, <1>6, <1>7

\* WaitInv is inductive.
LEMMA WaitStep ==
  ASSUME TInv, EndsInv, OrderInv, Phases, WaitInv, [Next]_vars
  PROVE  WaitInv'
<1> SUFFICES ASSUME NEW d \in Clients PROVE Waiting(d)'
  BY DEF WaitInv
<1>0. /\ Ends(d) /\ Waiting(d) /\ FType /\ SType /\ CType /\ d # Srv
      /\ d \in Names /\ Srv \in Names
  BY FifoChatAssumption DEF EndsInv, WaitInv, TInv
\* Nothing happens to d, nor to what the server knows of it.
<1>1. ASSUME Quiet(d), chunks'[d] = chunks[d], got'[d] = got[d],
             rpc'[d] \in {"read", "close"} => rpc'[d] = rpc[d],
             Unknown(d)' => Unknown(d),
             spc' = "accept" /\ msg' = Name(d) =>
               (spc = "accept" /\ msg = Name(d)) \/ Unknown(d)
      PROVE  Waiting(d)'
  <2>1. /\ wr'[d] = wr[d] /\ data'[d] = data[d]
        /\ <<d, d>> \in blocked' <=> <<d, d>> \in blocked
    BY <1>1 DEF Quiet
  <2>2. Untouched(d) => Untouched(d)'
    BY <1>1, <2>1 DEF Untouched
  <2>3. Unknown(d)' => wr'[d] = {} /\ (rpc'[d] = "read" => <<d, d>> \in blocked')
    BY <1>0, <1>1, <2>1 DEF Waiting
  <2>4. spc' = "accept" /\ msg' = Name(d) => Untouched(d)'
    BY <1>0, <1>1, <2>2 DEF Waiting
  <2>5. Unknown(d)' => Untouched(d)'
    BY <1>0, <1>1, <2>2 DEF Waiting
  <2> QED
    BY <2>3, <2>4, <2>5 DEF Waiting, Name
<1>2. CASE Server
  <2>0. UNCHANGED <<wpc, rpc, line, chunks, got>>
    BY <1>2, ServerKeeps
  <2>1. CASE TakeName
    <3>1. Quiet(d)
      BY <1>0, <1>2, <2>1, ServerQuiet DEF TakeName, OpenGreeted, WriteAccept, LeaveGreeted,
         RelayTo, SendLine, ServerDies
    <3>2. Unknown(d)' => Unknown(d)
      <4>1. CASE Place(d)' = {}
        BY <2>1, <4>1, TakeOnce DEF Unknown
      <4>2. CASE msg' = Name(d)
        BY <2>1, <4>2, TakeOnce DEF Unknown
      <4> QED
        BY <4>1, <4>2 DEF Unknown, Name
    <3>3. spc' # "accept"
      BY <2>1 DEF TakeName, AfterName
    <3> QED
      BY <1>1, <2>0, <3>1, <3>2, <3>3
  <2>2. CASE OpenGreeted /\ msg.from = d
    <3>1. Place(d) # {} /\ msg = Name(d) /\ spc = "greet"
      BY <2>2, Targets DEF OpenGreeted
    <3>2. spc' = "accept" /\ list' = list
      BY <2>2 DEF OpenGreeted
    <3>3. Place(d)' # {}
      BY <3>1, <3>2 DEF Place
    <3>4. Untouched(d)
      BY <1>0, <3>1 DEF Waiting, Unknown
    <3>5. data'[d] = data[d]
      BY <1>0, <2>2, OwnFacts
    <3>6. Untouched(d)'
      BY <2>0, <3>4, <3>5 DEF Untouched
    <3> QED
      BY <3>2, <3>3, <3>6 DEF Waiting, Unknown
  <2>3. CASE \/ (WriteAccept \/ LeaveGreeted) /\ msg.from = d
             \/ (RelayTo \/ SendLine) /\ list[j].from = d
    <3>1. Place(d) # {}
      BY <2>3, Targets DEF WriteAccept, LeaveGreeted
    <3>2. spc' \notin {"greet", "accept"} /\ list' = list
      BY <2>3 DEF WriteAccept, LeaveGreeted, RelayTo, SendLine, AfterName
    <3>3. Place(d)' # {}
      BY <3>1, <3>2 DEF Place
    <3> QED
      BY <3>2, <3>3 DEF Waiting, Unknown
  <2>4. CASE ServerDies
    <3>1. spc' = "dead" /\ list' = list
      BY <2>4 DEF ServerDies
    <3>2. ASSUME Unknown(d)' PROVE Unknown(d)
      BY <3>1, <3>2 DEF Unknown, Place
    <3>3. /\ wr'[d] = {} /\ (data[d] = <<>> => data'[d] = <<>>)
          /\ <<d, d>> \in blocked' <=> <<d, d>> \in blocked
      BY <1>0, <2>4, OwnFacts
    <3>4. Unknown(d)' => Untouched(d)' /\ (rpc'[d] = "read" => <<d, d>> \in blocked')
      BY <1>0, <2>0, <3>2, <3>3 DEF Waiting, Untouched
    <3> QED
      BY <3>1, <3>3, <3>4 DEF Waiting
  <2>5. CASE /\ ~TakeName /\ ~ServerDies
             /\ OpenGreeted \/ WriteAccept \/ LeaveGreeted => msg.from # d
             /\ RelayTo \/ SendLine => list[j].from # d
    <3>1. Quiet(d)
      BY <1>0, <1>2, <2>5, ServerQuiet
    <3>2. list' = list /\ spc' # "greet"
      BY <1>2, <2>5 DEF Server, OpenServer, OpenGreeted, WriteAccept, LeaveGreeted,
         ReadLine, CloseServer, RelayTo, SkipMember, EndRelay, SendLine, AfterName
    <3>3. Unknown(d)' => Unknown(d)
      BY <3>2 DEF Unknown, Place
    <3>4. spc' = "accept" => spc = "greet" /\ msg' = msg /\ msg.from # d
      BY <1>2, <2>5 DEF Server, OpenServer, OpenGreeted, WriteAccept, LeaveGreeted,
         ReadLine, CloseServer, RelayTo, SkipMember, EndRelay, SendLine, AfterName
    <3> QED
      BY <1>1, <2>0, <3>1, <3>3, <3>4 DEF Name
  <2> QED
    BY <2>1, <2>2, <2>3, <2>4, <2>5
<1>3. ASSUME NEW c \in Clients,
             StartClient(c) \/ TypeLine(c) \/ Writer(c) \/ Reader(c) \/ KillClient(c)
      PROVE  Waiting(d)'
  <2>0. /\ DOMAIN rpc = Clients /\ DOMAIN chunks = Clients /\ DOMAIN got = Clients
        /\ UNCHANGED <<spc, list, msg>>
    BY <1>0, <1>3 DEF CType, StartClient, TypeLine, Writer, Reader, KillClient, svars,
       OpenUp, WriteUp, WriterDies, CloseUp, OpenDown, ReadDown, CloseDown
  <2>1. Unknown(d)' <=> Unknown(d)
    BY <2>0 DEF Unknown, Place, Name
  <2>2. CASE c # d
    <3>1. Quiet(d)
      BY <1>0, <1>3, <2>2, ClientQuiet
    <3>2. rpc'[d] = rpc[d] /\ chunks'[d] = chunks[d] /\ got'[d] = got[d]
      BY <1>3, <2>0, <2>2 DEF StartClient, TypeLine, Writer, Reader, KillClient,
         OpenUp, WriteUp, WriterDies, CloseUp, OpenDown, ReadDown, CloseDown
    <3> QED
      BY <1>1, <2>0, <2>1, <3>1, <3>2
  <2>3. CASE c = d /\ (StartClient(c) \/ TypeLine(c) \/ Writer(c))
    <3>1. Quiet(d)
      BY <1>0, <2>3, ClientQuiet
    <3>2. /\ rpc'[d] \in {rpc[d], "dead", "open"}
          /\ chunks'[d] = chunks[d] /\ got'[d] = got[d]
      BY <2>0, <2>3 DEF StartClient, TypeLine, Writer, OpenUp, WriteUp, WriterDies, CloseUp
    <3> QED
      BY <1>1, <2>0, <2>1, <3>1, <3>2
  <2>4. CASE c = d /\ OpenDown(c)
    <3>1. data'[d] = data[d] /\ wr'[d] = wr[d] /\ (wr[d] = {} => <<d, d>> \in blocked')
      BY <1>0, <2>4, OpenReadFacts DEF OpenDown
    <3>2. rpc'[d] = "read" /\ chunks'[d] = chunks[d] /\ got'[d] = got[d]
      BY <2>0, <2>4 DEF OpenDown
    <3>3. Untouched(d) => Untouched(d)'
      BY <3>1, <3>2 DEF Untouched
    <3>4. Unknown(d)' => Untouched(d)' /\ wr'[d] = {} /\ <<d, d>> \in blocked'
      BY <1>0, <2>1, <3>1, <3>3 DEF Waiting
    <3>5. spc' = "accept" /\ msg' = Name(d) => Untouched(d)'
      BY <1>0, <2>0, <3>3 DEF Waiting
    <3> QED
      BY <3>4, <3>5 DEF Waiting, Name
  <2>5. CASE c = d /\ ReadDown(c)
    <3>1. rpc[d] = "read" /\ <<d, d>> \notin blocked /\ (data[d] # <<>> \/ wr[d] = {})
      BY <2>5 DEF ReadDown, Opened, read, Eof
    <3>2. ~Unknown(d)
      BY <1>0, <3>1 DEF Waiting
    <3>3. ~(spc = "accept" /\ msg = Name(d))
      <4>1. spc = "accept" /\ msg = Name(d) => wr[d] = {Srv} /\ data[d] = <<>>
        BY <1>0 DEF Phases, Name, Waiting, Untouched
      <4> QED
        BY <3>1, <4>1
    <3> QED
      BY <2>0, <2>1, <3>2, <3>3 DEF Waiting, Name
  <2>6. CASE c = d /\ CloseDown(c)
    <3>1. rpc[d] = "close"
      BY <2>6 DEF CloseDown
    <3>2. ~Unknown(d) /\ ~(spc = "accept" /\ msg = Name(d))
      BY <1>0, <3>1 DEF Waiting, Untouched
    <3> QED
      BY <2>0, <2>1, <3>2 DEF Waiting, Name
  <2>7. CASE c = d /\ KillClient(c)
    <3>1. close(d, Names) /\ rpc'[d] = "dead" /\ UNCHANGED <<chunks, got>>
      BY <2>0, <2>7 DEF KillClient
    <3>2. wr'[d] = wr[d] \ {d} /\ (data[d] = <<>> => data'[d] = <<>>)
      BY <1>0, <3>1, CloseFacts
    <3>3. Untouched(d) => Untouched(d)'
      BY <3>1, <3>2 DEF Untouched
    <3>4. Unknown(d)' => Untouched(d)' /\ wr'[d] = {}
      BY <1>0, <2>1, <3>2, <3>3 DEF Waiting
    <3>5. spc' = "accept" /\ msg' = Name(d) => Untouched(d)'
      BY <1>0, <2>0, <3>3 DEF Waiting
    <3> QED
      BY <3>1, <3>4, <3>5 DEF Waiting, Name
  <2> QED
    BY <1>3, <2>2, <2>3, <2>4, <2>5, <2>6, <2>7 DEF Reader
<1>4. CASE UNCHANGED vars
  <2>1. UNCHANGED <<data, rd, wr, blocked, spc, list, msg, rpc, chunks, got>>
    BY <1>4 DEF vars, fvars, svars, cvars
  <2>2. Unknown(d)' <=> Unknown(d)
    BY <2>1 DEF Unknown, Place, Name
  <2>3. Quiet(d)
    BY <2>1 DEF Quiet
  <2> QED
    BY <1>1, <2>1, <2>2, <2>3
<1> QED
  BY <1>2, <1>3, <1>4 DEF Next

-----------------------------------------------------------------------------
(* Why nothing is lost when an end is closed: once a line was sent, the     *)
(* server keeps the FIFO open for good; until then the client does not     *)
(* close it with something in it.                                          *)
Leaked(c) == \A i \in Place(c) : SentTo(i) # <<>> => wr[c] = {Srv}
Kept(c) == Alive(c) /\ data[c] # <<>> =>
             rpc[c] = "read" \/ (wr[c] = {Srv} /\ ~(spc = "leave" /\ msg.from = c))
Sent(c) == \A i \in Place(c) : Alive(c) =>
             IF Greeted(c) THEN Carries(Stream(c), SentTo(i)) ELSE Stream(c) = <<>>
Streams(c) == Leaked(c) /\ Kept(c) /\ Sent(c)
StreamInv == spc # "dead" => \A c \in Clients : Streams(c)

\* Lengths in cells: n - 1 whole lines and p cells are within n' >= n lines.
LEMMA CellCount ==
  /\ \A n, l \in Nat : n < l => n * MsgCells + MsgCells <= l * MsgCells
  /\ \A n \in Nat : n * MsgCells \in Nat /\ (n + 1) * MsgCells = n * MsgCells + MsgCells
  /\ \A n \in Nat : n > 0 => n * MsgCells > 0
  /\ 0 * MsgCells = 0
<1>0. MsgCells \in Nat /\ MsgCells > 1
  BY CellsShape
<1>1. ASSUME NEW n \in Nat
      PROVE  n * MsgCells \in Nat /\ (n + 1) * MsgCells = n * MsgCells + MsgCells
  BY <1>0
<1>2. ASSUME NEW n \in Nat, NEW l \in Nat, n < l
      PROVE  n * MsgCells + MsgCells <= l * MsgCells
  <2>1. PICK e \in Nat : l = n + 1 + e
    <3>1. l - (n + 1) \in Nat /\ l = n + 1 + (l - (n + 1))
      BY <1>2
    <3> QED
      BY <3>1
  <2>2. l * MsgCells = n * MsgCells + MsgCells + e * MsgCells
    BY <1>0, <2>1
  <2>3. e * MsgCells >= 0 /\ e * MsgCells \in Nat /\ n * MsgCells \in Nat
    BY <1>0
  <2> QED
    BY <1>0, <2>2, <2>3
<1>3. ASSUME NEW n \in Nat, n > 0 PROVE n * MsgCells > 0
  BY <1>0, <1>3
<1> QED
  BY <1>0, <1>1, <1>2, <1>3

\* The cells of one more line at the end of a stream.
LEMMA LinesAppend ==
  ASSUME NEW s \in Seq(Cell), NEW q \in Seq(Message), NEW m \in Message, NEW o \in Nat,
         Len(s) = o + Len(q) * MsgCells,
         \A n \in 1..Len(q), p \in 1..MsgCells : s[o + (n - 1) * MsgCells + p] = Cells(q[n])[p]
  PROVE  LET t == s \o Cells(m)
             r == Append(q, m)
         IN  /\ r \in Seq(Message) /\ t \in Seq(Cell)
             /\ Len(t) = o + Len(r) * MsgCells
             /\ \A n \in 1..Len(r), p \in 1..MsgCells :
                  t[o + (n - 1) * MsgCells + p] = Cells(r[n])[p]
             /\ \A i \in 1..Len(s) : t[i] = s[i]
<1> DEFINE t == s \o Cells(m)
           r == Append(q, m)
           l == Len(q)
<1>1. /\ MsgCells \in Nat /\ Cells(m) \in Seq(Cell) /\ Len(Cells(m)) = MsgCells
      /\ l \in Nat
  BY CellsShape, SeqShape
<1>2. /\ r \in Seq(Message) /\ Len(r) = l + 1 /\ \A i \in 1..l : r[i] = q[i]
      /\ r[l + 1] = m
  BY AppendShape
<1>3. /\ t \in Seq(Cell) /\ Len(t) = Len(s) + MsgCells
      /\ \A i \in 1..Len(s) : t[i] = s[i]
      /\ \A i \in 1..MsgCells : t[Len(s) + i] = Cells(m)[i]
  <2>1. /\ t \in Seq(Cell) /\ Len(t) = Len(s) + Len(Cells(m))
        /\ \A i \in 1..Len(s) : t[i] = s[i]
        /\ \A i \in 1..Len(Cells(m)) : t[Len(s) + i] = Cells(m)[i]
    <3>1. PICK c : c = Cells(m)
      OBVIOUS
    <3>2. s \in Seq(Cell) /\ c \in Seq(Cell)
      BY <1>1, <3>1
    <3>3. /\ s \o c \in Seq(Cell) /\ Len(s \o c) = Len(s) + Len(c)
          /\ \A i \in 1..Len(s) : (s \o c)[i] = s[i]
          /\ \A i \in 1..Len(c) : (s \o c)[Len(s) + i] = c[i]
      BY ONLY <3>2, ConcatShape
    <3> QED
      BY <3>1, <3>3
  <2> HIDE DEF t
  <2> QED
    BY ONLY <1>1, <2>1
<1>4. Len(t) = o + Len(r) * MsgCells
  <2>1. (l + 1) * MsgCells = l * MsgCells + MsgCells /\ l * MsgCells \in Nat
    BY <1>1, CellCount
  <2> QED
    BY <1>1, <1>2, <1>3, <2>1
<1> HIDE DEF t, r
<1>5. ASSUME NEW n \in 1..Len(r), NEW p \in 1..MsgCells
      PROVE  t[o + (n - 1) * MsgCells + p] = Cells(r[n])[p]
  <2>1. CASE n \in 1..l
    <3>1. n - 1 \in Nat /\ n - 1 < l
      BY <1>1, <2>1
    <3>2. (n - 1) * MsgCells \in Nat /\ (n - 1) * MsgCells + MsgCells <= l * MsgCells
          /\ l * MsgCells \in Nat
      BY <1>1, <3>1, CellCount
    <3>3. o + (n - 1) * MsgCells + p \in 1..Len(s)
      <4>1. PICK x, y \in Nat : x = (n - 1) * MsgCells /\ y = l * MsgCells
        BY <3>2
      <4>2. x + MsgCells <= y /\ Len(s) = o + y
        BY <3>2, <4>1
      <4>3. o + x + p \in 1..Len(s)
        BY <1>1, <4>2
      <4> QED
        BY <4>1, <4>3
    <3> QED
      BY <1>2, <1>3, <2>1, <3>3
  <2>2. CASE n = l + 1
    <3>1. n - 1 = l /\ o + (n - 1) * MsgCells + p = Len(s) + p
      BY <1>1, <2>2, CellCount
    <3> QED
      BY <1>2, <1>3, <2>2, <3>1
  <2> QED
    BY <1>1, <1>2, <2>1, <2>2
<1> QED
  BY <1>2, <1>3, <1>4, <1>5 DEF t, r

\* A stream that carries q carries one more line when its cells are added.
LEMMA CarriesAppend ==
  ASSUME NEW s \in Seq(Cell), NEW q \in Seq(Message), NEW m \in Message, Carries(s, q)
  PROVE  Carries(s \o Cells(m), Append(q, m))
<1>1. /\ Len(s) = 1 + Len(q) * MsgCells /\ 1 \in Nat
      /\ \A n \in 1..Len(q), p \in 1..MsgCells : s[1 + (n - 1) * MsgCells + p] = Cells(q[n])[p]
  BY DEF Carries, At
<1> DEFINE t == s \o Cells(m)
           r == Append(q, m)
<1>2. /\ Len(t) = 1 + Len(r) * MsgCells
      /\ \A n \in 1..Len(r), p \in 1..MsgCells : t[1 + (n - 1) * MsgCells + p] = Cells(r[n])[p]
      /\ \A i \in 1..Len(s) : t[i] = s[i]
  BY <1>1, LinesAppend
<1>3. 1 \in 1..Len(s)
  <2>1. Len(q) * MsgCells \in Nat
    BY SeqShape, CellCount
  <2> QED
    BY <1>1, <2>1
<1> HIDE DEF t, r
<1>4. t[1] = Accept
  BY <1>2, <1>3 DEF Carries
<1>5. Carries(t, r)
  BY <1>2, <1>4 DEF Carries, At
<1> QED
  BY <1>5 DEF t, r

\* A stream of "Accepted" alone carries no lines.
LEMMA CarriesNone == Carries(<<Accept>>, <<>>)
<1>1. Len(<<Accept>>) = 1 /\ <<Accept>>[1] = Accept /\ Len(<<>>) = 0 /\ 1..0 = {}
  OBVIOUS
<1>2. 1 + 0 * MsgCells = 1
  BY CellCount
<1> QED
  BY <1>1, <1>2 DEF Carries

\* Front undoes Append.
LEMMA FrontOfAppend ==
  ASSUME NEW S, NEW s \in Seq(S), NEW x \in S
  PROVE  Front(Append(s, x)) = s
<1> DEFINE t == Append(s, x)
<1>1. t \in Seq(S) /\ Len(t) = Len(s) + 1 /\ Len(s) \in Nat
      /\ \A i \in 1..Len(s) : t[i] = s[i] /\ t[i] \in S
  BY AppendShape, SeqShape
<1> HIDE DEF t
<1>2. Len(t) - 1 = Len(s)
  BY <1>1
<1>3. Front(t) = SubSeq(t, 1, Len(s))
  BY <1>2 DEF Front
<1>4. /\ SubSeq(t, 1, Len(s)) \in Seq(S)
      /\ Len(SubSeq(t, 1, Len(s))) = Len(s)
      /\ \A i \in 1..Len(s) : SubSeq(t, 1, Len(s))[i] = s[i]
  <2>1. 1 \in Int /\ Len(s) \in Int /\ \A i \in 1..Len(s) : t[i] \in S
    BY <1>1
  <2>2. /\ SubSeq(t, 1, Len(s)) \in Seq(S)
        /\ Len(SubSeq(t, 1, Len(s))) = IF 1 <= Len(s) THEN Len(s) - 1 + 1 ELSE 0
        /\ \A i \in 1..Len(s) - 1 + 1 : SubSeq(t, 1, Len(s))[i] = t[1 + i - 1]
    BY ONLY <2>1, SubSeqProperties
  <2>3. /\ Len(s) - 1 + 1 = Len(s) /\ \A i \in 1..Len(s) : 1 + i - 1 = i
        /\ (IF 1 <= Len(s) THEN Len(s) - 1 + 1 ELSE 0) = Len(s)
    BY <1>1
  <2>4. \A i \in 1..Len(s) : SubSeq(t, 1, Len(s))[i] = t[1 + i - 1]
    BY ONLY <2>2, <2>3
  <2> QED
    BY ONLY <1>1, <2>2, <2>3, <2>4
<1>5. SubSeq(t, 1, Len(s)) = s
  BY <1>4, SeqEqual
<1> QED
  BY <1>3, <1>5 DEF t

\* A sequence is its front and its last member.
LEMMA FrontLast ==
  ASSUME NEW S, NEW s \in Seq(S), s # <<>>
  PROVE  Front(s) \in Seq(S) /\ s[Len(s)] \in S /\ s = Append(Front(s), s[Len(s)])
<1>1. Len(s) \in Nat \ {0} /\ \A i \in 1..Len(s) : s[i] \in S
  BY SeqShape
<1> DEFINE f == Front(s)
           n == Len(s) - 1
<1>2. n \in Nat /\ n + 1 = Len(s) /\ \A i \in 1..n : s[i] \in S
  BY <1>1
<1>3. f \in Seq(S) /\ Len(f) = n /\ \A i \in 1..n : f[i] = s[i]
  <2>0. f = SubSeq(s, 1, n)
    BY DEF Front
  <2>1. 1 \in Int /\ n \in Int /\ \A i \in 1..n : s[i] \in S
    BY <1>2
  <2> HIDE DEF n, f
  <2>2. /\ SubSeq(s, 1, n) \in Seq(S)
        /\ Len(SubSeq(s, 1, n)) = IF 1 <= n THEN n - 1 + 1 ELSE 0
        /\ \A i \in 1..n - 1 + 1 : SubSeq(s, 1, n)[i] = s[1 + i - 1]
    BY ONLY <2>1, SubSeqProperties
  <2>3. /\ n - 1 + 1 = n /\ \A i \in 1..n : 1 + i - 1 = i
        /\ (IF 1 <= n THEN n - 1 + 1 ELSE 0) = n
    BY <1>2
  <2>4. \A i \in 1..n : SubSeq(s, 1, n)[i] = s[1 + i - 1]
    BY ONLY <2>2, <2>3
  <2> QED
    BY ONLY <2>0, <2>2, <2>3, <2>4
<1>4. s[Len(s)] \in S
  BY <1>1
<1> HIDE DEF f, n
<1> DEFINE t == Append(f, s[Len(s)])
<1>5. t \in Seq(S) /\ Len(t) = n + 1 /\ t[n + 1] = s[Len(s)] /\ \A i \in 1..n : t[i] = f[i]
  BY <1>3, <1>4, AppendShape
<1> HIDE DEF t
<1>6. \A i \in 1..Len(s) : s[i] = t[i]
  <2>1. \A i \in 1..n + 1 : i \in 1..n \/ i = n + 1
    BY <1>2
  <2> QED
    BY <1>2, <1>3, <1>5, <2>1
<1>7. s = t
  BY <1>2, <1>5, <1>6, SeqEqual
<1> QED
  BY <1>3, <1>4, <1>7 DEF f, t

\* What was sent to a member is a sequence of lines.
LEMMA SentSeq ==
  ASSUME TInv, NEW i \in Nat
  PROVE  SentTo(i) \in Seq(Message)
<1>1. taken \in Seq(Message) /\ (spc \in {"relay", "send"} => taken # <<>>)
  BY DEF TInv, SType
<1> QED
  BY <1>1, FrontLast DEF SentTo, Owed

\* A name is on the list once.
LEMMA PlaceOnce ==
  ASSUME TInv, OrderInv, NEW d \in Clients, NEW a \in Place(d), NEW b \in Place(d)
  PROVE  a = b
<1>1. list \in Seq(Message) /\ DOMAIN list = 1..Len(list) /\ Len(list) \in Nat
  BY SeqShape DEF TInv, SType
<1>2. /\ a \in 1..Len(list) /\ b \in 1..Len(list) /\ list[a].from = list[b].from
      /\ list[a].k = 0 /\ list[b].k = 0
  BY <1>1 DEF Place
<1>3. ~(a < b) /\ ~(b < a)
  BY <1>2 DEF OrderInv, Rising
<1> QED
  BY <1>1, <1>2, <1>3

\* StreamInv is inductive.
LEMMA StreamStep ==
  ASSUME TInv, EndsInv, OrderInv, Phases, WaitInv, StreamInv, [Next]_vars
  PROVE  StreamInv'
<1> SUFFICES ASSUME spc' # "dead", NEW d \in Clients PROVE Streams(d)'
  BY DEF StreamInv
<1>0. /\ Ends(d) /\ Waiting(d) /\ FType /\ SType /\ CType /\ d # Srv
      /\ d \in Names /\ Srv \in Names
  BY FifoChatAssumption DEF EndsInv, WaitInv, TInv
<1>a. spc # "dead"
  BY DEF Next, Server, OpenServer, TakeName, OpenGreeted, WriteAccept, LeaveGreeted,
     ReadLine, CloseServer, RelayTo, SkipMember, EndRelay, SendLine, ServerDies,
     StartClient, TypeLine, Writer, Reader, KillClient, svars, vars,
     OpenUp, WriteUp, WriterDies, CloseUp, OpenDown, ReadDown, CloseDown
<1>b. Leaked(d) /\ Kept(d) /\ Sent(d)
  BY <1>a DEF StreamInv, Streams
\* Nothing happens to d's stream, nor to what was sent to it.
<1>1. ASSUME wr'[d] = wr[d] \/ wr'[d] = {Srv}, Stream(d)' = Stream(d),
             rpc'[d] # "dead" => rpc[d] # "dead",
             Kept(d)',
             Place(d)' \subseteq Place(d), Greeted(d)' <=> Greeted(d),
             \A i \in Place(d) : SentTo(i)' = SentTo(i)
      PROVE  Streams(d)'
  <2>1. Leaked(d)'
    BY <1>1, <1>b DEF Leaked
  <2>2. Sent(d)'
    BY <1>1, <1>b DEF Sent, Alive
  <2> QED
    BY <1>1, <2>1, <2>2 DEF Streams
<1>2. CASE Server
  <2>0. rpc' = rpc /\ got' = got
    BY <1>2, ServerKeeps
  <2>q. ASSUME Quiet(d)
        PROVE  /\ wr'[d] = wr[d] /\ Stream(d)' = Stream(d)
               /\ ~(spc' = "leave" /\ msg'.from = d) => Kept(d)' \/ (spc = "leave" /\ msg.from = d)
    <3>1. wr'[d] = wr[d] /\ data'[d] = data[d]
      BY <2>q DEF Quiet
    <3> QED
      BY <1>b, <2>0, <3>1 DEF Stream, Kept, Alive
  <2>1. CASE TakeName
    <3>1. Quiet(d)
      BY <1>0, <1>2, <2>1, ServerQuiet DEF TakeName, OpenGreeted, WriteAccept, LeaveGreeted,
         RelayTo, SendLine, ServerDies
    <3>2. spc = "name" /\ spc' \in {"greet", "name", "close"} /\ taken = <<>> /\ taken' = <<>>
      BY <2>1 DEF TakeName, AfterName, Phases
    <3>3. Kept(d)' /\ wr'[d] = wr[d] /\ Stream(d)' = Stream(d)
      BY <2>q, <3>1, <3>2
    <3>4. \A i : SentTo(i) = <<>> /\ SentTo(i)' = <<>>
      BY <3>2 DEF SentTo, Owed
    <3>5. CASE msg' = Name(d)
      <4>1. Place(d) = {}
        BY <2>1, <3>5, TakeOnce
      <4>2. Stream(d) = <<>>
        BY <1>0, <4>1 DEF Waiting, Unknown, Untouched, Stream
      <4>3. ~Greeted(d)'
        <5>1. msg'.k = 0
          BY <3>5 DEF Name
        <5>2. spc' = "greet"
          BY <2>1, <5>1, TakeOnce
        <5> QED
          BY <3>5, <5>2 DEF Greeted, Name
      <4>4. Sent(d)'
        BY <3>3, <4>2, <4>3 DEF Sent
      <4>5. Leaked(d)'
        BY <3>4 DEF Leaked
      <4> QED
        BY <3>3, <4>4, <4>5 DEF Streams
    <3>6. CASE msg' # Name(d)
      <4>1. Place(d)' = Place(d)
        BY <2>1, <3>6, TakeOnce
      <4>2. Greeted(d) /\ Greeted(d)'
        BY <3>2, <3>6 DEF Greeted, Name
      <4> QED
        BY <1>1, <2>0, <3>3, <3>4, <4>1, <4>2
    <3> QED
      BY <3>5, <3>6
  <2>2. CASE OpenGreeted \/ RelayTo
    <3>1. UNCHANGED <<list, msg, j, taken>>
      BY <2>2 DEF OpenGreeted, RelayTo
    <3>2. \/ spc = "greet" /\ spc' = "accept"
          \/ spc = "relay" /\ spc' = "send"
      BY <2>2 DEF OpenGreeted, RelayTo
    <3>3. \A i \in Place(d) : SentTo(i)' = SentTo(i)
      BY <3>1, <3>2 DEF SentTo, Owed
    <3>4. Place(d)' = Place(d) /\ (Greeted(d)' <=> Greeted(d))
      BY <3>1, <3>2 DEF Place, Greeted
    <3>5. CASE Quiet(d)
      <4>1. wr'[d] = wr[d] /\ Stream(d)' = Stream(d) /\ Kept(d)'
        BY <2>q, <3>2, <3>5
      <4> QED
        BY <1>1, <2>0, <3>3, <3>4, <4>1
    <3>6. CASE (OpenGreeted /\ msg.from = d) \/ (RelayTo /\ list[j].from = d)
      <4>1. wr'[d] = {Srv} /\ data'[d] = data[d]
        BY <1>0, <3>6, OwnFacts
      <4>2. Stream(d)' = Stream(d)
        BY <2>0, <4>1 DEF Stream
      <4>3. Kept(d)'
        BY <3>2, <4>1 DEF Kept
      <4> QED
        BY <1>1, <2>0, <3>3, <3>4, <4>1, <4>2, <4>3
    <3> QED
      BY <1>0, <1>2, <2>2, <3>5, <3>6, ServerQuiet DEF OpenGreeted, RelayTo, WriteAccept,
         LeaveGreeted, SendLine, ServerDies
  <2>3. CASE WriteAccept
    <3>1. /\ spc = "accept" /\ spc' = "leave" /\ UNCHANGED <<list, msg, j, taken>>
          /\ taken = <<>>
      BY <2>3 DEF WriteAccept, Phases
    <3>2. \A i : SentTo(i) = <<>> /\ SentTo(i)' = <<>>
      BY <3>1 DEF SentTo, Owed
    <3>3. Place(d)' = Place(d)
      BY <3>1 DEF Place
    <3>4. CASE msg.from # d
      <4>1. Quiet(d)
        BY <1>0, <1>2, <2>3, <3>4, ServerQuiet DEF OpenGreeted, RelayTo, WriteAccept,
           LeaveGreeted, SendLine, ServerDies
      <4>2. wr'[d] = wr[d] /\ Stream(d)' = Stream(d) /\ Kept(d)'
        BY <2>q, <3>1, <3>4, <4>1
      <4>3. Greeted(d)' /\ Greeted(d)
        BY <3>1, <3>4 DEF Greeted
      <4> QED
        BY <1>1, <2>0, <3>2, <3>3, <4>2, <4>3
    <3>5. CASE msg.from = d
      <4>1. Untouched(d)
        BY <1>0, <3>1, <3>5, Targets DEF Waiting
      <4>2. rd[d] # {} /\ data'[d] = data[d] \o <<Accept>>
        BY <1>0, <2>3, <3>5, OwnFacts
      <4>3. rpc'[d] = "read"
        BY <1>0, <2>0, <4>1, <4>2 DEF Ends, Untouched
      <4>4. Stream(d)' = <<Accept>>
        <5>1. got'[d] = <<>> /\ data'[d] = <<>> \o <<Accept>>
          BY <2>0, <4>1, <4>2 DEF Untouched
        <5>2. <<Accept>> \in Seq(Cell)
          BY CellsShape
        <5>3. <<>> \o <<Accept>> = <<Accept>>
          BY ONLY <5>2, ConcatEmptySeq
        <5> QED
          BY <5>1, <5>3 DEF Stream
      <4>5. Greeted(d)'
        BY <3>1 DEF Greeted
      <4>6. Sent(d)'
        BY <3>2, <4>4, <4>5, CarriesNone DEF Sent
      <4>7. Leaked(d)' /\ Kept(d)'
        BY <3>2, <4>3 DEF Leaked, Kept
      <4> QED
        BY <4>6, <4>7 DEF Streams
    <3> QED
      BY <3>4, <3>5
  <2>4. CASE LeaveGreeted
    <3>1. /\ spc = "leave" /\ spc' \in {"name", "close"} /\ UNCHANGED <<list, msg, j, taken>>
          /\ taken = <<>>
      BY <2>4 DEF LeaveGreeted, Phases, AfterName
    <3>2. \A i : SentTo(i) = <<>> /\ SentTo(i)' = <<>>
      BY <3>1 DEF SentTo, Owed
    <3>3. Place(d)' = Place(d) /\ Greeted(d) /\ Greeted(d)'
      BY <3>1 DEF Place, Greeted
    <3>4. CASE msg.from # d
      <4>1. Quiet(d)
        BY <1>0, <1>2, <2>4, <3>4, ServerQuiet DEF OpenGreeted, RelayTo, WriteAccept,
           LeaveGreeted, SendLine, ServerDies
      <4>2. wr'[d] = wr[d] /\ Stream(d)' = Stream(d) /\ Kept(d)'
        BY <2>q, <3>1, <3>4, <4>1
      <4> QED
        BY <1>1, <2>0, <3>2, <3>3, <4>2
    <3>5. CASE msg.from = d
      <4>1. data'[d] = IF rd[d] = {} THEN <<>> ELSE data[d]
        BY <1>0, <2>4, <3>5, OwnFacts
      <4>2. Alive(d) /\ data[d] # <<>> => rpc[d] = "read"
        BY <1>b, <3>1, <3>5 DEF Kept
      <4>3. Alive(d) => data'[d] = data[d]
        BY <1>0, <4>1, <4>2 DEF Ends
      <4>4. Kept(d)'
        BY <2>0, <4>2, <4>3 DEF Kept, Alive
      <4>5. Leaked(d)'
        BY <3>2 DEF Leaked
      <4>6. Sent(d)'
        <5>1. Alive(d)' => Alive(d) /\ Stream(d)' = Stream(d)
          BY <2>0, <4>3 DEF Alive, Stream
        <5> QED
          BY <1>b, <3>2, <3>3, <5>1 DEF Sent
      <4> QED
        BY <4>4, <4>5, <4>6 DEF Streams
    <3> QED
      BY <3>4, <3>5
  <2>5. CASE SendLine /\ list[j].from = d
    <3>1. /\ spc = "send" /\ spc' = "relay" /\ UNCHANGED <<list, msg, taken>> /\ j' = j + 1
      BY <2>5 DEF SendLine
    <3>2. j \in Place(d) /\ list[j] = Name(d) /\ j \in Nat
      BY <1>0, <2>5, Targets, SeqShape DEF SType
    <3>3. /\ rd[d] # {} /\ wr'[d] = wr[d] /\ data'[d] = data[d] \o Cells(msg)
      BY <1>0, <2>5, OwnFacts
    <3>4. wr[d] = {Srv}
      BY <2>5, <3>1 DEF Phases
    <3>5. Alive(d) /\ Greeted(d) /\ Greeted(d)' /\ Place(d)' = Place(d)
      BY <1>0, <3>1, <3>3 DEF Ends, Alive, Greeted, Place
    <3>6. Carries(Stream(d), Front(taken))
      BY <1>b, <3>1, <3>2, <3>5 DEF Sent, SentTo, Owed
    <3>7. Stream(d)' = Stream(d) \o Cells(msg)
      <4>1. got[d] \in Seq(Cell) /\ data[d] \in Seq(Cell) /\ Cells(msg) \in Seq(Cell)
        BY <1>0, <3>1, CellsShape DEF CType, FType, Items, SType
      <4>2. PICK x, y, z : x = got[d] /\ y = data[d] /\ z = Cells(msg)
        OBVIOUS
      <4>3. x \o (y \o z) = (x \o y) \o z
        <5>1. x \in Seq(Cell) /\ y \in Seq(Cell) /\ z \in Seq(Cell)
          BY <4>1, <4>2
        <5> QED
          BY ONLY <5>1, ConcatAssociative
      <4> QED
        BY <2>0, <3>3, <4>2, <4>3 DEF Stream
    <3>8. taken = Append(Front(taken), msg) /\ Front(taken) \in Seq(Message) /\ msg \in Message
      <4>1. taken \in Seq(Message) /\ taken # <<>> /\ msg = taken[Len(taken)]
        BY <1>0, <3>1 DEF SType, Phases
      <4> QED
        BY <4>1, FrontLast
    <3>9. Carries(Stream(d)', taken)
      <4>1. Stream(d) \in Seq(Cell)
        BY <1>0, ConcatShape DEF CType, FType, Items, Stream
      <4> QED
        BY <3>6, <3>7, <3>8, <4>1, CarriesAppend
    <3>10. Sent(d)'
      <4>1. ASSUME NEW i \in Place(d) PROVE SentTo(i)' = taken
        <5>1. i = j
          BY <3>2, <4>1, PlaceOnce
        <5> QED
          BY <3>1, <3>2, <5>1 DEF SentTo, Owed
      <4> QED
        BY <3>5, <3>9, <4>1 DEF Sent
    <3>11. Leaked(d)' /\ Kept(d)'
      BY <3>1, <3>3, <3>4 DEF Leaked, Kept
    <3> QED
      BY <3>10, <3>11 DEF Streams
  <2>6. CASE /\ \/ OpenServer \/ ReadLine \/ CloseServer \/ SkipMember \/ EndRelay
                \/ SendLine /\ list[j].from # d
    <3>1. Quiet(d)
      BY <1>0, <1>2, <2>6, ServerQuiet DEF OpenServer, ReadLine, CloseServer, SkipMember,
         EndRelay, SendLine, OpenGreeted, RelayTo, WriteAccept, LeaveGreeted, ServerDies
    <3>2. /\ list' = list
          /\ spc \notin {"greet", "accept", "leave"} /\ spc' \notin {"greet", "accept", "leave"}
      BY <2>6 DEF OpenServer, ReadLine, CloseServer, SkipMember, EndRelay, SendLine
    <3>3. Place(d)' = Place(d) /\ Greeted(d) /\ Greeted(d)'
      BY <3>2 DEF Place, Greeted
    <3>4. wr'[d] = wr[d] /\ Stream(d)' = Stream(d) /\ Kept(d)'
      BY <2>q, <3>1, <3>2
    <3>5. ASSUME NEW i \in Place(d) PROVE SentTo(i)' = SentTo(i)
      <4>0. i \in 1..Len(list) /\ j \in 1..Len(list) + 1 /\ Len(list) \in Nat
        BY <1>0, <3>5, Targets, SeqShape DEF SType
      <4>1. CASE OpenServer \/ CloseServer
        BY <4>1 DEF OpenServer, CloseServer, SentTo, Owed
      <4>2. CASE ReadLine
        <5>1. CASE /\ read(Srv, 1) /\ msg' = Head(data[Srv])
                   /\ taken' = Append(taken, msg') /\ j' = 1 /\ spc' = "relay"
          <6>1. msg' \in Message /\ taken \in Seq(Message)
            BY <1>0, <5>1, ReadFirst DEF Items, SType
          <6>2. Front(taken') = taken
            BY <5>1, <6>1, FrontOfAppend
          <6>3. spc = "read" /\ Owed(i)'
            BY <4>0, <4>2, <5>1 DEF ReadLine, Owed
          <6> QED
            BY <6>2, <6>3 DEF SentTo, Owed
        <5>2. CASE spc' = "close" /\ UNCHANGED taken
          BY <4>2, <5>2 DEF ReadLine, SentTo, Owed
        <5> QED
          BY <4>2, <5>1, <5>2 DEF ReadLine
      <4>3. CASE SkipMember
        <5>1. i # j /\ spc = "relay" /\ j' = j + 1 /\ UNCHANGED <<spc, taken>>
          BY <3>5, <4>3, Targets DEF SkipMember
        <5>2. j <= i <=> j + 1 <= i
          BY <4>0, <5>1
        <5> QED
          BY <5>1, <5>2 DEF SentTo, Owed
      <4>4. CASE EndRelay
        <5>1. ~(j <= i) /\ spc' = "close" /\ taken' = taken
          BY <4>0, <4>4 DEF EndRelay
        <5> QED
          BY <5>1 DEF SentTo, Owed
      <4>5. CASE SendLine /\ list[j].from # d
        <5>1. i # j /\ spc = "send" /\ spc' = "relay" /\ j' = j + 1 /\ taken' = taken
          BY <3>5, <4>5, Targets DEF SendLine
        <5>2. j <= i <=> j + 1 <= i
          BY <4>0, <5>1
        <5> QED
          BY <5>1, <5>2 DEF SentTo, Owed
      <4> QED
        BY <2>6, <4>1, <4>2, <4>3, <4>4, <4>5
    <3> QED
      BY <1>1, <2>0, <3>3, <3>4, <3>5
  <2>7. ~ServerDies
    BY DEF ServerDies
  <2> QED
    BY <1>2, <2>1, <2>2, <2>3, <2>4, <2>5, <2>6, <2>7 DEF Server
\* The clients' steps change nothing the server knows.
<1>3. ASSUME UNCHANGED svars
      PROVE  /\ Place(d)' = Place(d) /\ (Greeted(d)' <=> Greeted(d))
             /\ \A i \in Place(d) : SentTo(i)' = SentTo(i)
  BY <1>3 DEF svars, Place, Greeted, SentTo, Owed
<1>4. ASSUME NEW c \in Clients,
             StartClient(c) \/ TypeLine(c) \/ Writer(c) \/ Reader(c) \/ KillClient(c)
      PROVE  Streams(d)'
  <2>0. /\ DOMAIN rpc = Clients /\ DOMAIN chunks = Clients /\ DOMAIN got = Clients
        /\ DOMAIN wpc = Clients
        /\ UNCHANGED svars /\ spc' = spc /\ msg' = msg
    BY <1>0, <1>4 DEF CType, StartClient, TypeLine, Writer, Reader, KillClient, svars,
       OpenUp, WriteUp, WriterDies, CloseUp, OpenDown, ReadDown, CloseDown
  <2>1. /\ Place(d)' = Place(d) /\ (Greeted(d)' <=> Greeted(d))
        /\ \A i \in Place(d) : SentTo(i)' = SentTo(i)
    BY <1>3, <2>0
  <2>2. CASE c # d \/ StartClient(c) \/ TypeLine(c) \/ Writer(c)
    <3>1. Quiet(d)
      BY <1>0, <1>4, <2>2, ClientQuiet
    <3>2. /\ got'[d] = got[d]
          /\ \/ rpc'[d] = rpc[d] \/ rpc'[d] = "dead"
             \/ rpc'[d] = "open" /\ wpc[d] = "close" /\ line[d] = 0
      BY <1>4, <2>0, <2>2 DEF StartClient, TypeLine, Writer, Reader, KillClient,
         OpenUp, WriteUp, WriterDies, CloseUp, OpenDown, ReadDown, CloseDown
    <3>3. rpc'[d] \in {rpc[d], "dead"} \/ rpc[d] = "off"
      BY <1>0, <3>2 DEF Ends
    <3>4. wr'[d] = wr[d] /\ data'[d] = data[d]
      BY <3>1 DEF Quiet
    <3>5. Stream(d)' = Stream(d)
      BY <3>2, <3>4 DEF Stream
    <3>6. Kept(d)'
      BY <1>b, <2>0, <3>3, <3>4 DEF Kept, Alive
    <3> QED
      BY <1>1, <2>1, <3>3, <3>4, <3>5, <3>6
  <2>3. CASE c = d /\ OpenDown(c)
    <3>1. data'[d] = data[d] /\ wr'[d] = wr[d]
      BY <1>0, <2>3, OpenReadFacts DEF OpenDown
    <3>2. rpc[d] = "open" /\ rpc'[d] = "read" /\ got'[d] = got[d]
      BY <2>0, <2>3 DEF OpenDown
    <3>3. Stream(d)' = Stream(d) /\ Kept(d)'
      BY <3>1, <3>2 DEF Stream, Kept
    <3> QED
      BY <1>1, <2>1, <3>1, <3>2, <3>3
  <2>4. CASE c = d /\ ReadDown(c)
    <3>1. rpc[d] = "read" /\ rpc'[d] = "close" /\ wr' = wr
      BY <2>0, <2>4 DEF ReadDown, read, fvars
    <3>2. CASE Eof(d) /\ UNCHANGED <<fvars, got>>
      <4>1. data'[d] = data[d] /\ data[d] = <<>> /\ got' = got
        BY <3>2 DEF fvars, Eof
      <4>2. Stream(d)' = Stream(d) /\ Kept(d)'
        BY <4>1 DEF Stream, Kept
      <4> QED
        BY <1>1, <2>1, <3>1, <4>2
    <3>3. CASE read(d, MsgCells) /\ got' = [got EXCEPT ![d] = @ \o Chunk(d, MsgCells)]
      <4>0. MsgCells \in Nat \ {0}
        BY CellsShape
      <4>1. /\ data[d] # <<>> /\ data[d] = Chunk(d, MsgCells) \o data'[d]
            /\ Chunk(d, MsgCells) \in Seq(Cell) /\ data'[d] \in Seq(Cell)
            /\ Len(Chunk(d, MsgCells)) \in 1..Len(data[d])
            /\ Len(data'[d]) = Len(data[d]) - Len(Chunk(d, MsgCells))
        BY <1>0, <3>3, <4>0, ReadFacts DEF Items
      <4>2. Stream(d)' = Stream(d)
        <5>1. got'[d] = got[d] \o Chunk(d, MsgCells) /\ got[d] \in Seq(Cell)
          BY <1>0, <2>0, <3>3 DEF CType
        <5>2. PICK x, y, z : x = got[d] /\ y = Chunk(d, MsgCells) /\ z = data'[d]
          OBVIOUS
        <5>3. (x \o y) \o z = x \o (y \o z)
          <6>1. x \in Seq(Cell) /\ y \in Seq(Cell) /\ z \in Seq(Cell)
            BY <4>1, <5>1, <5>2
          <6> QED
            BY ONLY <6>1, ConcatAssociative
        <5> QED
          BY <4>1, <5>1, <5>2, <5>3 DEF Stream
      <4>3. ASSUME data'[d] # <<>>
            PROVE  wr[d] = {Srv} /\ spc # "leave"
        <5>1. Alive(d) /\ ~Unknown(d)
          BY <1>0, <3>1, <4>1 DEF Alive, Waiting, Untouched
        <5>2. PICK i \in Place(d) : TRUE
          BY <5>1 DEF Unknown
        <5>3. got[d] \in Seq(Cell) /\ data[d] \in Seq(Cell)
          BY <1>0 DEF CType, FType, Items
        <5>4. Len(Stream(d)) = Len(got[d]) + Len(data[d]) /\ Len(got[d]) \in Nat
          BY <5>3, ConcatShape, SeqShape DEF Stream
        <5>5. Len(data[d]) > 1
          <6>1. Len(data'[d]) \in Nat \ {0} /\ Len(data[d]) \in Nat
            BY <4>1, <4>3, <5>3, SeqShape
          <6> QED
            BY <4>1, <6>1
        <5>e. Len(data[d]) \in Nat
          BY <5>3, SeqShape
        <5>l. PICK x, y, z : x = Len(got[d]) /\ y = Len(data[d]) /\ z = Len(Stream(d))
          OBVIOUS
        <5>m. z > 1
          <6>1. x \in Nat /\ y \in Nat /\ y > 1 /\ z = x + y
            BY <5>4, <5>5, <5>e, <5>l
          <6> QED
            BY ONLY <6>1
        <5>6. Stream(d) # <<>>
          <6>1. Len(<<>>) = 0
            OBVIOUS
          <6> QED
            BY <5>l, <5>m, <6>1
        <5>7. Carries(Stream(d), SentTo(i))
          BY <1>b, <5>1, <5>6 DEF Sent
        <5>8. SentTo(i) # <<>>
          <6>1. ASSUME SentTo(i) = <<>> PROVE FALSE
            <7>1. Len(Stream(d)) = 1 + 0 * MsgCells
              BY <5>7, <6>1 DEF Carries
            <7>2. z = 1
              BY <5>l, <7>1, CellCount
            <7> QED
              BY <5>m, <7>2
          <6> QED
            BY <6>1
        <5>9. wr[d] = {Srv}
          BY <1>b, <5>8 DEF Leaked
        <5>10. spc # "leave"
          BY <5>8 DEF SentTo, Owed, Phases
        <5> QED
          BY <5>9, <5>10
      <4>4. Kept(d)'
        BY <2>0, <3>1, <4>3 DEF Kept
      <4> QED
        BY <1>1, <2>1, <3>1, <4>2, <4>4
    <3> QED
      BY <2>4, <3>2, <3>3 DEF ReadDown
  <2>5. CASE c = d /\ CloseDown(c)
    <3>1. close(d, {d}) /\ rpc[d] = "close" /\ rpc'[d] = "open" /\ got' = got
      BY <2>0, <2>5 DEF CloseDown
    <3>2. /\ rd'[d] = rd[d] \ {d} /\ wr'[d] = wr[d] \ {d}
          /\ data'[d] = IF rd'[d] \cup wr'[d] = {} THEN <<>> ELSE data[d]
      BY <1>0, <3>1, CloseFacts
    <3>3. wr'[d] = wr[d]
      BY <1>0, <3>2 DEF Ends
    <3>4. data[d] # <<>> => wr[d] = {Srv} /\ ~(spc = "leave" /\ msg.from = d)
      BY <1>b, <3>1 DEF Kept, Alive
    <3>5. data'[d] = data[d]
      BY <3>2, <3>3, <3>4
    <3>6. Stream(d)' = Stream(d) /\ Kept(d)'
      BY <2>0, <3>1, <3>3, <3>4, <3>5 DEF Stream, Kept
    <3> QED
      BY <1>1, <2>1, <3>1, <3>3, <3>6
  <2>6. CASE c = d /\ KillClient(c)
    <3>1. close(d, Names) /\ rpc'[d] = "dead"
      BY <2>0, <2>6 DEF KillClient
    <3>2. wr'[d] = wr[d] \ {d}
      BY <1>0, <3>1, CloseFacts
    <3>3. wr'[d] = wr[d]
      BY <1>0, <3>2 DEF Ends
    <3>4. Leaked(d)' /\ Kept(d)' /\ Sent(d)'
      BY <1>b, <2>1, <3>1, <3>3 DEF Leaked, Kept, Sent, Alive
    <3> QED
      BY <3>4 DEF Streams
  <2> QED
    BY <1>4, <2>2, <2>3, <2>4, <2>5, <2>6 DEF Reader
<1>5. CASE UNCHANGED vars
  <2>1. UNCHANGED <<data, wr, rpc, got, spc, msg>> /\ UNCHANGED svars
    BY <1>5 DEF vars, fvars, svars, cvars
  <2>2. Stream(d)' = Stream(d) /\ Kept(d)'
    BY <1>b, <2>1 DEF Stream, Kept, Alive
  <2> QED
    BY <1>1, <1>3, <2>1, <2>2
<1> QED
  BY <1>2, <1>4, <1>5 DEF Next

-----------------------------------------------------------------------------
(* A client that read "Accepted" by itself finds whole lines from then on.  *)
IsLines(s, q) == /\ Len(s) = Len(q) * MsgCells
                 /\ \A n \in 1..Len(q), p \in 1..MsgCells :
                      s[(n - 1) * MsgCells + p] = Cells(q[n])[p]
Whole(x) == x = <<Accept>> \/ \E m \in Message : x = Cells(m)
AtFirst(c) == chunks[c] = <<>> /\ (data[c] # <<>> => data[c][1] = Accept)
Behind(c) == chunks[c] # <<>> /\ Len(chunks[c][1]) > 1 /\ chunks[c][1][1] = Accept
InStep(c) == /\ chunks[c] # <<>> /\ \A i \in 1..Len(chunks[c]) : Whole(chunks[c][i])
             /\ \E q \in Seq(Message) : IsLines(data[c], q)
Aligned(c) == AtFirst(c) \/ Behind(c) \/ InStep(c)
AlignInv == \A c \in Clients : Aligned(c)

\* No cells are no lines.
LEMMA IsLinesNone == IsLines(<<>>, <<>>) /\ <<>> \in Seq(Message)
<1>1. Len(<<>>) = 0 /\ 1..0 = {} /\ 0 * MsgCells = 0 /\ <<>> \in Seq(Message)
  BY CellCount
<1> QED
  BY <1>1 DEF IsLines

\* Cells of whole lines, counted from an offset of none.
LEMMA FromNone ==
  ASSUME NEW s, NEW q \in Seq(Message)
  PROVE  IsLines(s, q) <=>
           /\ Len(s) = 0 + Len(q) * MsgCells
           /\ \A n \in 1..Len(q), p \in 1..MsgCells :
                s[0 + (n - 1) * MsgCells + p] = Cells(q[n])[p]
<1>1. 0 + Len(q) * MsgCells = Len(q) * MsgCells
  <2>1. PICK x \in Nat : x = Len(q) * MsgCells
    BY SeqShape, CellCount
  <2> QED
    BY <2>1
<1>2. ASSUME NEW n \in 1..Len(q), NEW p \in 1..MsgCells
      PROVE  s[0 + (n - 1) * MsgCells + p] = s[(n - 1) * MsgCells + p]
  <2>1. PICK x \in Nat : x = (n - 1) * MsgCells
    <3>1. n - 1 \in Nat
      BY SeqShape
    <3> QED
      BY <3>1, CellCount
  <2>2. p \in Nat
    BY CellsShape
  <2>3. 0 + x + p = x + p
    BY <2>2
  <2> QED
    BY <2>1, <2>3
<1> QED
  BY <1>1, <1>2 DEF IsLines

\* Whole lines and one more are whole lines.
LEMMA IsLinesAppend ==
  ASSUME NEW s \in Seq(Cell), NEW q \in Seq(Message), NEW m \in Message, IsLines(s, q)
  PROVE  IsLines(s \o Cells(m), Append(q, m)) /\ Append(q, m) \in Seq(Message)
<1>1. /\ Len(s) = 0 + Len(q) * MsgCells /\ 0 \in Nat
      /\ \A n \in 1..Len(q), p \in 1..MsgCells : s[0 + (n - 1) * MsgCells + p] = Cells(q[n])[p]
  BY FromNone
<1> DEFINE t == s \o Cells(m)
           r == Append(q, m)
<1>2. /\ Len(t) = 0 + Len(r) * MsgCells /\ r \in Seq(Message)
      /\ \A n \in 1..Len(r), p \in 1..MsgCells : t[0 + (n - 1) * MsgCells + p] = Cells(r[n])[p]
  BY <1>1, LinesAppend
<1> HIDE DEF t, r
<1>3. IsLines(t, r)
  BY <1>2, FromNone
<1> QED
  BY <1>2, <1>3 DEF t, r

\* A read from whole lines takes the first and leaves the others.
LEMMA IsLinesRest ==
  ASSUME NEW s \in Seq(Cell), NEW q \in Seq(Message), IsLines(s, q), s # <<>>,
         NEW h \in Seq(Cell), NEW t \in Seq(Cell),
         Len(h) = Least(MsgCells, Len(s)), Len(t) = Len(s) - Len(h),
         \A i \in 1..Len(h) : h[i] = s[i],
         \A i \in 1..Len(t) : t[i] = s[i + Len(h)]
  PROVE  /\ \E m \in Message : h = Cells(m)
         /\ \E r \in Seq(Message) : IsLines(t, r)
<1>1. /\ MsgCells \in Nat /\ MsgCells > 1 /\ Len(q) \in Nat /\ Len(s) \in Nat
      /\ Len(s) = Len(q) * MsgCells /\ Len(s) > 0
  BY CellsShape, SeqShape DEF IsLines
<1>2. Len(q) > 0
  BY <1>1, CellCount
<1>3. Len(q) - 1 \in Nat /\ Len(q) - 1 < Len(q)
  BY <1>1, <1>2
<1>4. /\ (Len(q) - 1) * MsgCells \in Nat
      /\ Len(s) = (Len(q) - 1) * MsgCells + MsgCells
  <2>1. Len(q) = (Len(q) - 1) + 1
    BY <1>1
  <2> QED
    BY <1>1, <1>3, <2>1, CellCount
<1>5. Len(h) = MsgCells /\ Len(t) = (Len(q) - 1) * MsgCells
  <2>1. PICK x \in Nat : x = (Len(q) - 1) * MsgCells
    BY <1>4
  <2>2. Len(s) = x + MsgCells
    BY <1>4, <2>1
  <2>3. Len(h) = MsgCells
    BY <1>1, <2>2 DEF Least
  <2>4. Len(t) = x
    BY <1>1, <2>2, <2>3
  <2> QED
    BY <2>1, <2>3, <2>4
<1>6. 1 \in 1..Len(q) /\ q[1] \in Message /\ q # <<>>
  <2>1. 1 \in 1..Len(q)
    BY <1>1, <1>2
  <2> QED
    BY <1>1, <1>2, <2>1, SeqShape
<1>7. h = Cells(q[1])
  <2>1. Cells(q[1]) \in Seq(Cell) /\ Len(Cells(q[1])) = MsgCells
    BY <1>6, CellsShape
  <2>2. ASSUME NEW p \in 1..MsgCells PROVE h[p] = Cells(q[1])[p]
    <3>1. s[(1 - 1) * MsgCells + p] = Cells(q[1])[p]
      BY <1>6 DEF IsLines
    <3>2. (1 - 1) * MsgCells + p = p
      BY <1>1, CellCount
    <3> QED
      BY <1>5, <3>1, <3>2
  <2> QED
    BY <1>5, <2>1, <2>2, SeqEqual
<1> DEFINE r == [n \in 1..Len(q) - 1 |-> q[n + 1]]
<1>8. /\ r \in Seq(Message) /\ Len(r) = Len(q) - 1
      /\ \A n \in 1..Len(q) - 1 : r[n] = q[n + 1] /\ n + 1 \in 1..Len(q)
  <2>1. \A n \in 1..Len(q) - 1 : n + 1 \in 1..Len(q) /\ q[n + 1] \in Message
    <3>1. \A n \in 1..Len(q) - 1 : n + 1 \in 1..Len(q)
      BY <1>1
    <3> QED
      BY <3>1, SeqShape
  <2>2. r \in [1..Len(q) - 1 -> Message]
    BY <2>1
  <2>3. r \in Seq(Message) /\ Len(r) = Len(q) - 1
    BY <1>3, <2>2
  <2> QED
    BY <2>1, <2>3
<1> HIDE DEF r
<1>9. ASSUME NEW n \in 1..Len(r), NEW p \in 1..MsgCells
      PROVE  t[(n - 1) * MsgCells + p] = Cells(r[n])[p]
  <2>1. /\ n - 1 \in Nat /\ n - 1 < Len(q) - 1 /\ n \in Nat /\ (n - 1) + 1 = n
        /\ (n + 1) - 1 = n /\ n + 1 \in 1..Len(q)
    BY <1>1, <1>8
  <2>2. PICK x, y \in Nat : x = (n - 1) * MsgCells /\ y = n * MsgCells
    BY <2>1, CellCount
  <2>3. y = x + MsgCells /\ x + MsgCells <= Len(t)
    <3>1. n * MsgCells = (n - 1) * MsgCells + MsgCells
      BY <2>1, CellCount
    <3>2. (n - 1) * MsgCells + MsgCells <= (Len(q) - 1) * MsgCells
      BY <1>3, <2>1, CellCount
    <3> QED
      BY <1>5, <2>2, <3>1, <3>2
  <2>4. x + p \in 1..Len(t) /\ (x + p) + MsgCells = y + p
    <3>1. Len(t) \in Nat
      BY SeqShape
    <3> QED
      BY <1>1, <2>3, <3>1
  <2>5. t[x + p] = s[y + p]
    BY <1>5, <2>4
  <2>6. s[((n + 1) - 1) * MsgCells + p] = Cells(q[n + 1])[p]
    BY <2>1 DEF IsLines
  <2>7. s[y + p] = Cells(r[n])[p]
    BY <1>8, <2>1, <2>2, <2>6
  <2> QED
    BY <2>2, <2>5, <2>7
<1>10. IsLines(t, r)
  BY <1>5, <1>8, <1>9 DEF IsLines
<1> QED
  BY <1>6, <1>7, <1>8, <1>10

\* AlignInv is inductive.
LEMMA AlignStep ==
  ASSUME TInv, EndsInv, OrderInv, Phases, WaitInv, StreamInv, AlignInv, [Next]_vars
  PROVE  AlignInv'
<1> SUFFICES ASSUME NEW d \in Clients PROVE Aligned(d)'
  BY DEF AlignInv
<1>0. /\ Ends(d) /\ Waiting(d) /\ Aligned(d) /\ FType /\ SType /\ CType /\ d # Srv
      /\ d \in Names /\ Srv \in Names /\ data[d] \in Seq(Cell)
      /\ chunks[d] \in Seq(Seq(Cell)) /\ DOMAIN chunks = Clients
  BY FifoChatAssumption DEF EndsInv, WaitInv, AlignInv, TInv, FType, CType, Items
\* Nothing happens to d, or what was in its FIFO is gone.
<1>1. ASSUME chunks'[d] = chunks[d], data'[d] = data[d] \/ data'[d] = <<>>
      PROVE  Aligned(d)'
  <2>1. AtFirst(d) => AtFirst(d)'
    BY <1>1 DEF AtFirst
  <2>2. Behind(d) => Behind(d)'
    BY <1>1 DEF Behind
  <2>3. InStep(d) => InStep(d)'
    BY <1>1, IsLinesNone DEF InStep
  <2> QED
    BY <1>0, <2>1, <2>2, <2>3 DEF Aligned
<1>2. CASE Server
  <2>0. chunks' = chunks
    BY <1>2, ServerKeeps
  <2>1. CASE WriteAccept /\ msg.from = d
    <3>1. spc = "accept" /\ msg = Name(d)
      BY <2>1, Targets DEF WriteAccept
    <3>2. Untouched(d)
      BY <1>0, <3>1 DEF Waiting
    <3>3. data'[d] = <<>> \o <<Accept>>
      BY <1>0, <2>1, <3>2, OwnFacts DEF Untouched
    <3>4. data'[d] = <<Accept>>
      <4>1. <<Accept>> \in Seq(Cell)
        BY CellsShape
      <4>2. <<>> \o <<Accept>> = <<Accept>>
        BY ONLY <4>1, ConcatEmptySeq
      <4> QED
        BY <3>3, <4>2
    <3> QED
      BY <2>0, <3>2, <3>4 DEF Untouched, Aligned, AtFirst
  <2>2. CASE SendLine /\ list[j].from = d
    <3>1. spc = "send" /\ j \in Place(d) /\ msg \in Message
      BY <1>0, <2>2, Targets DEF SendLine, SType
    <3>2. rd[d] # {} /\ data'[d] = data[d] \o Cells(msg)
      BY <1>0, <2>2, OwnFacts
    <3>3. CASE AtFirst(d)
      <4>1. Alive(d) /\ Greeted(d)
        BY <1>0, <3>1, <3>2 DEF Ends, Alive, Greeted
      <4>2. Carries(Stream(d), SentTo(j))
        BY <3>1, <4>1 DEF StreamInv, Streams, Sent
      <4>3. Stream(d) = data[d]
        <5>1. got[d] = <<>>
          BY <1>0, <3>3 DEF Ends, AtFirst
        <5>2. <<>> \o data[d] = data[d]
          BY <1>0, ConcatEmptySeq
        <5> QED
          BY <5>1, <5>2 DEF Stream
      <4>4. data[d][1] = Accept /\ 1 \in 1..Len(data[d])
        <5>1. j \in Nat
          BY <1>0, SeqShape DEF SType
        <5>2. SentTo(j) \in Seq(Message)
          BY <5>1, SentSeq
        <5>3. Len(SentTo(j)) * MsgCells \in Nat
          BY <5>2, SeqShape, CellCount
        <5>4. Len(data[d]) = 1 + Len(SentTo(j)) * MsgCells /\ data[d][1] = Accept
          BY <4>2, <4>3 DEF Carries
        <5> QED
          BY <5>3, <5>4
      <4>5. data'[d][1] = Accept
        <5>1. Cells(msg) \in Seq(Cell)
          BY <3>1, CellsShape
        <5>2. PICK x, y : x = data[d] /\ y = Cells(msg)
          OBVIOUS
        <5>3. (x \o y)[1] = x[1]
          <6>1. x \in Seq(Cell) /\ y \in Seq(Cell) /\ 1 \in 1..Len(x)
            BY <1>0, <4>4, <5>1, <5>2
          <6> QED
            BY ONLY <6>1, ConcatShape
        <5> QED
          BY <3>2, <4>4, <5>2, <5>3
      <4> QED
        BY <2>0, <3>3, <4>5 DEF Aligned, AtFirst
    <3>4. CASE Behind(d)
      BY <2>0, <3>4 DEF Aligned, Behind
    <3>5. CASE InStep(d)
      <4>1. PICK q \in Seq(Message) : IsLines(data[d], q)
        BY <3>5 DEF InStep
      <4>2. PICK x, m : x = data[d] /\ m = msg
        OBVIOUS
      <4>3. IsLines(x \o Cells(m), Append(q, m)) /\ Append(q, m) \in Seq(Message)
        BY <1>0, <3>1, <4>1, <4>2, IsLinesAppend
      <4>4. \E r \in Seq(Message) : IsLines(data'[d], r)
        BY <3>2, <4>2, <4>3
      <4> QED
        BY <2>0, <3>5, <4>4 DEF Aligned, InStep
    <3> QED
      BY <1>0, <3>3, <3>4, <3>5 DEF Aligned
  <2>3. CASE (OpenGreeted /\ msg.from = d) \/ (RelayTo /\ list[j].from = d)
    BY <1>0, <1>1, <2>0, <2>3, OwnFacts
  <2>4. CASE (LeaveGreeted /\ msg.from = d) \/ ServerDies
    BY <1>0, <1>1, <2>0, <2>4, OwnFacts
  <2>5. CASE Quiet(d)
    BY <1>1, <2>0, <2>5 DEF Quiet
  <2> QED
    BY <1>0, <1>2, <2>1, <2>2, <2>3, <2>4, <2>5, ServerQuiet
<1>3. ASSUME NEW c \in Clients,
             StartClient(c) \/ TypeLine(c) \/ Writer(c) \/ Reader(c) \/ KillClient(c)
      PROVE  Aligned(d)'
  <2>1. CASE c # d \/ StartClient(c) \/ TypeLine(c) \/ Writer(c)
    <3>1. Quiet(d)
      BY <1>0, <1>3, <2>1, ClientQuiet
    <3>2. chunks'[d] = chunks[d]
      BY <1>0, <1>3, <2>1 DEF StartClient, TypeLine, Writer, Reader, KillClient,
         OpenUp, WriteUp, WriterDies, CloseUp, OpenDown, ReadDown, CloseDown
    <3> QED
      BY <1>1, <3>1, <3>2 DEF Quiet
  <2>2. CASE c = d /\ OpenDown(c)
    BY <1>0, <1>1, <2>2, OpenReadFacts DEF OpenDown
  <2>3. CASE c = d /\ (CloseDown(c) \/ KillClient(c))
    <3>1. PICK fs \in SUBSET Names : close(d, fs)
      BY <1>0, <2>3 DEF CloseDown, KillClient
    <3>2. data'[d] \in {data[d], <<>>}
      BY <1>0, <3>1, CloseFacts
    <3> QED
      BY <1>1, <2>3, <3>2 DEF CloseDown, KillClient
  <2>4. CASE c = d /\ ReadDown(c)
    <3>1. CASE UNCHANGED <<fvars, chunks>>
      BY <1>1, <3>1 DEF fvars
    <3>2. CASE /\ read(d, MsgCells)
               /\ chunks' = [chunks EXCEPT ![d] = Append(@, Chunk(d, MsgCells))]
      <4>0. PICK h, s, t, k : h = Chunk(d, MsgCells) /\ s = data[d] /\ t = data'[d] /\ k = chunks[d]
        OBVIOUS
      <4>1. MsgCells \in Nat \ {0} /\ MsgCells > 1
        BY CellsShape
      <4>2. /\ s # <<>> /\ s \in Seq(Cell) /\ h \in Seq(Cell) /\ t \in Seq(Cell)
            /\ Len(h) = Least(MsgCells, Len(s))
            /\ Len(h) \in 1..Len(s) /\ Len(t) = Len(s) - Len(h)
            /\ \A i \in 1..Len(h) : h[i] = s[i]
            /\ \A i \in 1..Len(t) : t[i] = s[i + Len(h)]
        <5>1. /\ Chunk(d, MsgCells) \in Seq(Items(d)) /\ data'[d] \in Seq(Items(d))
              /\ Len(h) = Least(MsgCells, Len(s))
              /\ Len(h) \in 1..Len(s) /\ Len(t) = Len(s) - Len(h)
              /\ \A i \in 1..Len(h) : h[i] = s[i]
              /\ \A i \in 1..Len(t) : t[i] = s[i + Len(h)]
              /\ s # <<>>
          <6>1. /\ Chunk(d, MsgCells) \in Seq(Items(d)) /\ data'[d] \in Seq(Items(d))
                /\ Len(Chunk(d, MsgCells)) = Least(MsgCells, Len(data[d]))
                /\ Len(Chunk(d, MsgCells)) \in 1..Len(data[d])
                /\ Len(data'[d]) = Len(data[d]) - Len(Chunk(d, MsgCells))
                /\ \A i \in 1..Len(Chunk(d, MsgCells)) : Chunk(d, MsgCells)[i] = data[d][i]
                /\ \A i \in 1..Len(data'[d]) : data'[d][i] = data[d][i + Len(Chunk(d, MsgCells))]
                /\ data[d] # <<>>
            BY <1>0, <3>2, <4>1, ReadFacts
          <6> QED
            BY ONLY <4>0, <6>1
        <5>2. Items(d) = Cell
          BY <1>0 DEF Items
        <5>3. s \in Seq(Cell) /\ h \in Seq(Cell) /\ t \in Seq(Cell)
          BY <1>0, <4>0, <5>1, <5>2
        <5> QED
          BY ONLY <5>1, <5>3
      <4>3. /\ chunks'[d] = Append(k, h) /\ k \in Seq(Seq(Cell)) /\ Append(k, h) # <<>>
            /\ Len(Append(k, h)) = Len(k) + 1 /\ Len(k) \in Nat
            /\ \A i \in 1..Len(k) : Append(k, h)[i] = k[i]
            /\ Append(k, h)[Len(k) + 1] = h
            /\ k = <<>> <=> Len(k) = 0
        <5>1. k \in Seq(Seq(Cell)) /\ h \in Seq(Cell) /\ chunks'[d] = Append(k, h)
          BY <1>0, <3>2, <4>0, <4>2
        <5>2. /\ Append(k, h) # <<>> /\ Len(Append(k, h)) = Len(k) + 1
              /\ \A i \in 1..Len(k) : Append(k, h)[i] = k[i]
              /\ Append(k, h)[Len(k) + 1] = h
          BY ONLY <5>1, AppendShape
        <5>3. Len(k) \in Nat /\ (k = <<>> <=> Len(k) = 0)
          BY ONLY <5>1, SeqShape
        <5> QED
          BY <5>1, <5>2, <5>3
      <4>4. CASE AtFirst(d)
        <5>1. k = <<>> /\ s[1] = Accept
          BY <4>0, <4>2, <4>4 DEF AtFirst
        <5>2. /\ Len(Append(k, h)) = 1 /\ Append(k, h)[1] = h
          BY <4>3, <5>1
        <5>3. 1 \in 1..Len(h) /\ h[1] = Accept /\ Len(s) \in Nat
          BY <4>2, <5>1, SeqShape
        <5>4. CASE Len(h) > 1
          BY <4>3, <5>2, <5>3, <5>4 DEF Aligned, Behind
        <5>5. CASE Len(h) = 1
          <6>1. h = <<Accept>>
            <7>1. <<Accept>> \in Seq(Cell) /\ Len(<<Accept>>) = 1 /\ <<Accept>>[1] = Accept
              BY CellsShape
            <7>2. \A i \in 1..1 : i = 1
              OBVIOUS
            <7> QED
              BY <4>2, <5>3, <5>5, <7>1, <7>2, SeqEqual
          <6>2. Len(s) = 1
            <7>1. PICK l \in Nat : l = Len(s)
              BY <5>3
            <7>2. Least(MsgCells, l) = 1
              BY <4>2, <5>5, <7>1
            <7>3. l = 1
              BY ONLY <4>1, <7>1, <7>2 DEF Least
            <7> QED
              BY <7>1, <7>3
          <6>3. t = <<>>
            BY <4>2, <5>5, <6>2, SeqShape
          <6>4. IsLines(data'[d], <<>>)
            BY <4>0, <6>3, IsLinesNone
          <6>5. \A i \in 1..Len(chunks'[d]) : Whole(chunks'[d][i])
            BY <4>3, <5>2, <6>1 DEF Whole
          <6> QED
            BY <4>3, <6>4, <6>5, IsLinesNone DEF Aligned, InStep
        <5>6. Len(h) > 1 \/ Len(h) = 1
          <6>1. PICK l \in Nat : l = Len(h)
            BY <4>2, <5>3
          <6>2. 1 \in 1..l
            BY <5>3, <6>1
          <6> QED
            BY <6>1, <6>2
        <5> QED
          BY <5>4, <5>5, <5>6
      <4>5. CASE Behind(d)
        <5>1. k # <<>> /\ Len(k[1]) > 1 /\ k[1][1] = Accept
          BY <4>0, <4>5 DEF Behind
        <5>2. 1 \in 1..Len(k)
          BY <4>3, <5>1
        <5>3. Append(k, h)[1] = k[1]
          BY <4>3, <5>2
        <5> QED
          BY <4>3, <5>1, <5>3 DEF Aligned, Behind
      <4>6. CASE InStep(d)
        <5>1. PICK q \in Seq(Message) : IsLines(s, q)
          BY <4>0, <4>6 DEF InStep
        <5>2. (\E m \in Message : h = Cells(m)) /\ \E r \in Seq(Message) : IsLines(t, r)
          BY <4>2, <5>1, IsLinesRest
        <5>3. Whole(h)
          BY <5>2 DEF Whole
        <5>4. \A i \in 1..Len(k) : Whole(k[i])
          BY <4>0, <4>6 DEF InStep
        <5>5. \A i \in 1..Len(chunks'[d]) : Whole(chunks'[d][i])
          <6>1. \A i \in 1..Len(k) + 1 : i \in 1..Len(k) \/ i = Len(k) + 1
            BY <4>3
          <6> QED
            BY <4>3, <5>3, <5>4, <6>1
        <5>6. \E r \in Seq(Message) : IsLines(data'[d], r)
          BY <4>0, <5>2
        <5> QED
          BY <4>3, <5>5, <5>6 DEF Aligned, InStep
      <4> QED
        BY <1>0, <4>4, <4>5, <4>6 DEF Aligned
    <3> QED
      BY <2>4, <3>1, <3>2 DEF ReadDown
  <2> QED
    BY <1>3, <2>1, <2>2, <2>3, <2>4 DEF Reader
<1>4. CASE UNCHANGED vars
  BY <1>1, <1>4 DEF vars, fvars, cvars
<1> QED
  BY <1>2, <1>3, <1>4 DEF Next

-----------------------------------------------------------------------------
(* The inductive invariant: all of the above at once.                      *)
Inv == TInv /\ EndsInv /\ Phases /\ OrderInv /\ WaitInv /\ StreamInv /\ AlignInv

\* It holds at the start.
LEMMA InvInit == Init => Inv
<1> SUFFICES ASSUME Init PROVE Inv
  OBVIOUS
<1>1. /\ TInv /\ data = [f \in Names |-> <<>>] /\ rd = [f \in Names |-> {}]
      /\ wr = [f \in Names |-> {}]
      /\ spc = "start" /\ list = <<>> /\ taken = <<>>
      /\ rpc = [c \in Clients |-> "off"]
      /\ chunks = [c \in Clients |-> <<>>] /\ got = [c \in Clients |-> <<>>]
  BY TypeInit DEF Init, mkfifos
<1>2. /\ \A c \in Clients : /\ data[c] = <<>> /\ rd[c] = {} /\ wr[c] = {} /\ rpc[c] = "off"
                            /\ chunks[c] = <<>> /\ got[c] = <<>> /\ Place(c) = {}
      /\ data[Srv] = <<>>
  BY <1>1 DEF Place
<1>3. Rising(<<>>) /\ Before(<<>>, <<>>) /\ Typed(<<>>)
  BY DEF Rising, Before, Typed
<1>4. EndsInv
  BY <1>2 DEF EndsInv, Ends
<1>5. Phases
  BY <1>1 DEF Phases
<1>6. OrderInv
  BY <1>1, <1>2, <1>3 DEF OrderInv
<1>7. WaitInv
  BY <1>1, <1>2 DEF WaitInv, Waiting, Unknown, Untouched
<1>8. StreamInv
  BY <1>2 DEF StreamInv, Streams, Leaked, Kept, Sent
<1>9. AlignInv
  BY <1>2 DEF AlignInv, Aligned, AtFirst
<1> QED
  BY <1>1, <1>4, <1>5, <1>6, <1>7, <1>8, <1>9 DEF Inv

(* It holds in every reachable state, for any clients, capacity of the list *)
(* and length of a line, wherever the server (server.c 22-58) and the      *)
(* clients (client.c 14-66) are, and whichever of them were killed.        *)
THEOREM Inductive == Spec => []Inv
<1>1. Inv /\ [Next]_vars => Inv'
  BY FTypeStep, STypeStep, CTypeStep, EndsStep, PhasesStep, OrderStep, WaitStep, StreamStep,
     AlignStep DEF TInv, Inv
<1> QED
  BY InvInit, <1>1, PTL DEF Spec

(* SameStream, always: although the server closes a client's FIFO after    *)
(* "Accepted" and the client its own after each read, what a living client *)
(* has read and will read is "Accepted" and every line taken since, whole, *)
(* once and in order, while the server lives (server.c 30-37, 50-53,       *)
(* client.c 46-53).                                                        *)
THEOREM NothingCutOff == Spec => []SameStream
<1>1. Inv => SameStream
  BY DEF Inv, StreamInv, Streams, Sent, SameStream
<1> QED
  BY Inductive, <1>1, PTL

(* CutOnlyAtFirst, always: a client that read "Accepted" by itself never    *)
(* reads a part of a line; only a first read that got more than that can   *)
(* put it out of step (server.c 31, client.c 50).                          *)
THEOREM WholeLines == Spec => []CutOnlyAtFirst
<1>1. Inv => CutOnlyAtFirst
  <2> SUFFICES ASSUME Inv, NEW c \in Clients, Cut(c)
               PROVE  Len(chunks[c][1]) > 1 /\ chunks[c][1][1] = Accept
    BY DEF CutOnlyAtFirst
  <2>0. Aligned(c) /\ chunks[c] \in Seq(Seq(Cell))
    BY DEF Inv, AlignInv, TInv, CType
  <2>1. PICK i \in DOMAIN chunks[c] : ~Whole(chunks[c][i])
    BY DEF Cut, Whole
  <2>2. i \in 1..Len(chunks[c]) /\ chunks[c] # <<>>
    BY <2>0, <2>1, SeqShape
  <2> QED
    BY <2>0, <2>1, <2>2 DEF Aligned, AtFirst, Behind, InStep
<1> QED
  BY Inductive, <1>1, PTL

(* TypedOrder, always: what the server has listed, taken and will take of   *)
(* one client is its name and lines in the order they were typed, none     *)
(* twice, whatever was lost when it closed its FIFO (server.c 24-40,       *)
(* 44-56).                                                                 *)
THEOREM OrderOfTyping == Spec => []TypedOrder
<1>1. Inv => TypedOrder
  <2> SUFFICES ASSUME Inv PROVE TypedOrder
    OBVIOUS
  <2>0. PICK l, k, s : l = list /\ k = taken /\ s = data[Srv]
    OBVIOUS
  <2>1. l \in Seq(Message) /\ k \in Seq(Message) /\ s \in Seq(Message)
    BY <2>0 DEF Inv, TInv, SType, FType, Items
  <2> DEFINE lk == l \o k
             all == lk \o s
  <2>2. /\ Rising(l) /\ Rising(k) /\ Rising(s)
        /\ Before(l, k) /\ Before(l, s) /\ Before(k, s)
    BY <2>0 DEF Inv, OrderInv
  <2>3. ASSUME NEW x \in Seq(Message), NEW y \in Seq(Message),
               Rising(x), Rising(y), Before(x, y)
        PROVE  Rising(x \o y)
    <3>1. /\ Len(x \o y) = Len(x) + Len(y) /\ Len(x) \in Nat /\ Len(y) \in Nat
          /\ \A i \in 1..Len(x) : (x \o y)[i] = x[i]
          /\ \A i \in 1..Len(y) : (x \o y)[Len(x) + i] = y[i]
      BY ConcatShape, SeqShape
    <3> DEFINE z == x \o y
    <3>2. \A i \in 1..Len(z) : \/ i \in 1..Len(x) /\ z[i] = x[i]
                               \/ i > Len(x) /\ i - Len(x) \in 1..Len(y) /\ z[i] = y[i - Len(x)]
      <4> SUFFICES ASSUME NEW i \in 1..Len(x) + Len(y), i \notin 1..Len(x)
                   PROVE  i > Len(x) /\ i - Len(x) \in 1..Len(y) /\ z[i] = y[i - Len(x)]
        BY <3>1
      <4>1. i > Len(x) /\ i - Len(x) \in 1..Len(y) /\ Len(x) + (i - Len(x)) = i
        BY <3>1
      <4> QED
        BY <3>1, <4>1
    <3> HIDE DEF z
    <3>3. ASSUME NEW a \in 1..Len(z), NEW b \in 1..Len(z), a < b, z[a].from = z[b].from
          PROVE  z[a].k < z[b].k
      <4>1. CASE a \in 1..Len(x) /\ z[a] = x[a] /\ b \in 1..Len(x) /\ z[b] = x[b]
        BY <2>3, <3>3, <4>1 DEF Rising
      <4>2. CASE /\ a \in 1..Len(x) /\ z[a] = x[a]
                 /\ b - Len(x) \in 1..Len(y) /\ z[b] = y[b - Len(x)]
        BY <2>3, <3>3, <4>2 DEF Before
      <4>3. CASE /\ a > Len(x) /\ a - Len(x) \in 1..Len(y) /\ z[a] = y[a - Len(x)]
                 /\ b - Len(x) \in 1..Len(y) /\ z[b] = y[b - Len(x)]
        <5>1. a - Len(x) < b - Len(x)
          BY <3>1, <3>3
        <5> QED
          BY <2>3, <3>3, <4>3, <5>1 DEF Rising
      <4>4. ~(a > Len(x) /\ b \in 1..Len(x))
        BY <3>1, <3>3
      <4> QED
        BY <3>2, <4>1, <4>2, <4>3, <4>4
    <3> QED
      BY <3>3 DEF Rising, z
  <2>4. Rising(lk) /\ lk \in Seq(Message)
    BY <2>1, <2>2, <2>3, ConcatShape
  <2>5. Before(lk, s)
    <3>1. /\ Len(lk) = Len(l) + Len(k) /\ Len(l) \in Nat /\ Len(k) \in Nat
          /\ \A i \in 1..Len(l) : lk[i] = l[i]
          /\ \A i \in 1..Len(k) : lk[Len(l) + i] = k[i]
      BY <2>1, ConcatShape, SeqShape
    <3> HIDE DEF lk
    <3> SUFFICES ASSUME NEW a \in 1..Len(lk), NEW b \in 1..Len(s), lk[a].from = s[b].from
                 PROVE  lk[a].k < s[b].k
      BY DEF Before
    <3>2. CASE a \in 1..Len(l)
      BY <2>2, <3>1, <3>2 DEF Before
    <3>3. CASE a \notin 1..Len(l)
      <4>1. a - Len(l) \in 1..Len(k) /\ Len(l) + (a - Len(l)) = a
        BY <3>1, <3>3
      <4>2. lk[a] = k[a - Len(l)]
        BY <3>1, <4>1
      <4> QED
        BY <2>2, <4>1, <4>2 DEF Before
    <3> QED
      BY <3>2, <3>3
  <2> HIDE DEF lk
  <2>6. Rising(all) /\ all \in Seq(Message)
    BY <2>1, <2>2, <2>3, <2>4, <2>5, ConcatShape
  <2>7. DOMAIN all = 1..Len(all)
    BY <2>6, SeqShape
  <2> HIDE DEF all
  <2>8. \A a, b \in DOMAIN all : a < b /\ all[a].from = all[b].from => all[a].k < all[b].k
    BY <2>6, <2>7 DEF Rising
  <2>9. all = list \o taken \o data[Srv]
    BY <2>0 DEF all, lk
  <2> QED
    BY <2>8, <2>9 DEF TypedOrder
<1> QED
  BY Inductive, <1>1, PTL
=============================================================================
