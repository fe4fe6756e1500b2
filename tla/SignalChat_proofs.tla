-------------------------- MODULE SignalChat_proofs --------------------------
(* Proofs about SignalChat, for any two clients, queue size and bounds.     *)
EXTENDS SignalChat, SequenceTheorems, FiniteSetTheorems, TLAPS

USE DEF Types

(* What a blocking send and a receive do to the queue.                     *)
LEMMA SendQueue ==
  ASSUME mq \in [Types -> Seq(Message)], qnum \in Int,
         NEW t \in Types, NEW m \in Message, msgsnd(t, m)
  PROVE  /\ mq' \in [Types -> Seq(Message)] /\ qnum' \in Int
         /\ mq'[t] = Append(mq[t], m)
         /\ \A u \in Types \ {t} : mq'[u] = mq[u]
BY DEF msgsnd

\* What a receive takes is the first of its type, and it leaves the rest.
LEMMA ReceiveQueue ==
  ASSUME mq \in [Types -> Seq(Message)], qnum \in Int, NEW t \in Types, msgrcv(t)
  PROVE  /\ mq' \in [Types -> Seq(Message)] /\ qnum' \in Int
         /\ mq[t] # <<>> /\ Head(mq[t]) \in Message
         /\ mq'[t] = Tail(mq[t]) /\ Len(mq'[t]) = Len(mq[t]) - 1
         /\ \A u \in Types \ {t} : mq'[u] = mq[u]
<1>1. mq[t] \in Seq(Message) /\ mq[t] # <<>>
  BY DEF msgrcv
<1>2. Head(mq[t]) \in Message /\ Tail(mq[t]) \in Seq(Message) /\ Len(Tail(mq[t])) = Len(mq[t]) - 1
  BY <1>1
<1> QED
  BY <1>1, <1>2 DEF msgrcv

-----------------------------------------------------------------------------
(* The type invariant in parts.                                            *)
QueueType == mq \in [Types -> Seq(Message)] /\ qnum \in Int
ServerType == /\ cl \in Seq(Clients) /\ Len(cl) <= 2
              /\ serving \in Seq(Message) /\ todo \in Seq(Clients) /\ tokill \in Seq(Clients)
              /\ (todo # <<>> => serving # <<>>)
ClientType == /\ cpc \in [Clients -> {"connect", "scanf", "fill", "type", "send"}]
              /\ mtype \in [Clients -> Types]
              /\ mtext \in [Clients -> Text]
              /\ typed \in [Clients -> 0..MaxWords]
              /\ stored \in [Clients -> 0..MaxLen] /\ wlen \in [Clients -> 0..MaxLen]
              /\ \A c \in Clients : cpc[c] = "fill" => 1 <= stored[c] /\ stored[c] <= wlen[c]
SigType == sig \in [Clients -> BOOLEAN]
LogType == relayed \in Seq(Message) /\ shown \in [Clients -> Seq(Message)]
TInv == QueueType /\ ServerType /\ ClientType /\ SigType /\ LogType

\* The two reserved types and the pids are different types.
LEMMA TypesDistinct == /\ ConnectType \in Types /\ ChatType \in Types
                       /\ \A c \in Clients : c \in Types /\ c # ChatType /\ c # ConnectType
                       /\ ChatType # ConnectType /\ MaxWords \in Nat /\ MaxLen \in 1..99
BY ClientsAssumption DEF ClientsAssumption, ConnectType, ChatType

(* A text names the client that typed its first letter; a client's pid is   *)
(* a text that names it.                                                   *)
LEMMA TextNames ==
  /\ \A m \in Message : m.text \in Text /\ m.by \in Clients /\ atoi(m) \in Clients
  /\ \A c \in Clients : Pid(c) \in Text /\ Pid(c)[1].author = c
<1>1. ASSUME NEW m \in Message
      PROVE  m.text \in Text /\ m.by \in Clients /\ atoi(m) \in Clients
  <2>1. m.text \in Text /\ m.by \in Clients
    BY DEF Message
  <2>2. m.text[1] \in Letter
    BY <2>1 DEF Text
  <2> QED
    BY <2>1, <2>2 DEF Letter, atoi
<1>2. ASSUME NEW c \in Clients
      PROVE  Pid(c) \in Text /\ Pid(c)[1].author = c
  <2>1. [author |-> c, k |-> 0, pos |-> 1] \in Letter
    BY TypesDistinct DEF Letter
  <2> QED
    BY <2>1 DEF Pid, Text
<1> QED
  BY <1>1, <1>2

(* What scanf makes of a string: a letter at a place, or a shorter string. *)
LEMMA StoreShape ==
  ASSUME NEW t \in Text, NEW i \in Nat, i > 1, NEW x \in Letter
  PROVE  /\ Store(t, i, x) \in Text
         /\ Len(t) < i - 1 => Store(t, i, x) = t
         /\ ~(Len(t) < i - 1) => /\ Len(Store(t, i, x)) = i
                                 /\ \A j \in 1..i - 1 : Store(t, i, x)[j] = t[j]
                                 /\ Store(t, i, x)[i] = x
<1>1. CASE Len(t) < i - 1
  BY <1>1 DEF Store
<1>2. CASE ~(Len(t) < i - 1)
  <2> DEFINE u == SubSeq(t, 1, i - 1)
  <2>1. t \in Seq(Letter) /\ Len(t) \in Nat /\ i - 1 \in 1..Len(t)
    BY <1>2 DEF Text
  <2>2. u \in Seq(Letter) /\ Len(u) = i - 1 /\ \A j \in 1..i - 1 : u[j] = t[j]
    BY ONLY <2>1, i \in Nat
  <2> HIDE DEF u
  <2>3. /\ Append(u, x) \in Seq(Letter) /\ Len(Append(u, x)) = i
        /\ \A j \in 1..i - 1 : Append(u, x)[j] = u[j]
        /\ Append(u, x)[i] = x
    BY ONLY <2>2, i \in Nat, i > 1, x \in Letter
  <2>4. Append(u, x) # <<>>
    BY <2>3
  <2>5. Store(t, i, x) = Append(u, x)
    BY <1>2 DEF Store, u
  <2> QED
    BY <1>2, <2>2, <2>3, <2>4, <2>5 DEF Text
<1> QED
  BY <1>1, <1>2

\* The NUL at the end of a word cuts a string.
LEMMA CutShape ==
  ASSUME NEW t \in Text, NEW n \in Nat, n >= 1, Len(t) > n
  PROVE  /\ SubSeq(t, 1, n) \in Text /\ Len(SubSeq(t, 1, n)) = n
         /\ \A j \in 1..n : SubSeq(t, 1, n)[j] = t[j]
<1>1. t \in Seq(Letter) /\ Len(t) \in Nat
  BY DEF Text
<1>2. /\ SubSeq(t, 1, n) \in Seq(Letter) /\ Len(SubSeq(t, 1, n)) = n
      /\ \A j \in 1..n : SubSeq(t, 1, n)[j] = t[j]
  BY <1>1
<1> QED
  BY <1>2 DEF Text

\* The server's steps keep the types,
LEMMA ServerTypes ==
  ASSUME TInv, AcceptClient \/ TakeText \/ SendText \/ Signal
  PROVE  TInv'
<1> USE TypesDistinct DEF TInv
<1>1. CASE AcceptClient
  <2>1. Head(mq[ConnectType]) \in Message /\ QueueType'
    BY <1>1, ReceiveQueue DEF AcceptClient, QueueType
  <2>2. ServerType'
    <3>1. atoi(Head(mq[ConnectType])) \in Clients
      BY <2>1, TextNames
    <3> QED
      BY <1>1, <3>1 DEF AcceptClient, ServerType
  <2> QED
    BY <1>1, <2>1, <2>2 DEF AcceptClient, ClientType, SigType, LogType, cvars, hvars
<1>2. CASE TakeText
  <2>1. Head(mq[ChatType]) \in Message /\ QueueType'
    BY <1>2, ReceiveQueue DEF TakeText, QueueType
  <2>2. ServerType' /\ LogType'
    <3> DEFINE m == Head(mq[ChatType])
    <3>1. <<m>> \in Seq(Message) /\ <<m>> # <<>>
      BY <2>1
    <3>2. Append(relayed, m) \in Seq(Message)
      BY <2>1 DEF LogType
    <3>3. serving' = <<m>> /\ relayed' = Append(relayed, m)
          /\ todo' = cl /\ UNCHANGED <<cl, tokill, shown>>
      BY <1>2 DEF TakeText
    <3> HIDE DEF m
    <3> QED
      BY <3>1, <3>2, <3>3 DEF ServerType, LogType
  <2> QED
    BY <1>2, <2>1, <2>2 DEF TakeText, ClientType, SigType, cvars
<1>3. CASE SendText
  <2> DEFINE m == [serving[1] EXCEPT !.relay = Len(relayed)]
  <2>1. serving[1] \in Message /\ Head(todo) \in Clients /\ Tail(todo) \in Seq(Clients)
        /\ <<Head(todo)>> \in Seq(Clients)
    BY <1>3 DEF SendText, ServerType
  <2>2. m \in Message
    BY <2>1 DEF Message
  <2>3. QueueType'
    BY <1>3, <2>1, <2>2, SendQueue DEF SendText, QueueType
  <2>4. ServerType'
    BY <1>3, <2>1 DEF SendText, ServerType
  <2> QED
    BY <1>3, <2>3, <2>4 DEF SendText, ClientType, SigType, LogType, cvars, hvars
<1>4. CASE Signal
  <2>1. SigType'
    <3>1. sig \in [Clients -> BOOLEAN] /\ sig' = [sig EXCEPT ![tokill[1]] = TRUE]
      BY <1>4 DEF Signal, SigType
    <3> QED
      BY <3>1, Zenon DEF SigType
  <2>2. ServerType'
    BY <1>4 DEF Signal, ServerType
  <2> QED
    BY <1>4, <2>1, <2>2 DEF Signal, QueueType, ClientType, LogType, cvars, hvars, qvars
<1> QED
  BY <1>1, <1>2, <1>3, <1>4

\* and a client's, the handler among them.
LEMMA ClientTypes ==
  ASSUME TInv, NEW c \in Clients,
         \/ SendConnect(c) \/ TypeWord(c) \/ StoreLetter(c) \/ EndWord(c)
         \/ SetType(c) \/ SendWord(c) \/ Handler(c)
  PROVE  TInv'
<1> USE TypesDistinct DEF TInv
<1>1. Mesg(c) \in Message
  BY DEF Mesg, Message, ClientType
<1>2. CASE SendConnect(c) \/ SendWord(c)
  <2>1. PICK t \in Types : msgsnd(t, Mesg(c))
    BY <1>2 DEF SendConnect, SendWord, ClientType
  <2>2. QueueType'
    BY <1>1, <2>1, SendQueue DEF QueueType
  <2>3. ClientType'
    BY <1>2 DEF SendConnect, SendWord, ClientType, hvars
  <2> QED
    BY <1>2, <2>2, <2>3 DEF SendConnect, SendWord, ServerType, SigType, LogType, svars, hvars
<1>3. CASE TypeWord(c)
  <2>1. typed[c] + 1 \in 1..MaxWords /\ typed' = [typed EXCEPT ![c] = @ + 1]
    BY <1>3 DEF TypeWord, ClientType
  <2>2. Typed(c, 1)' = [author |-> c, k |-> typed[c] + 1, pos |-> 1]
    BY <2>1 DEF Typed, ClientType
  <2>3. <<Typed(c, 1)'>> \in Text
    <3>1. Typed(c, 1)' \in Letter
      BY <2>1, <2>2 DEF Letter
    <3> QED
      BY <3>1 DEF Text
  <2>4. /\ mtext' = [mtext EXCEPT ![c] = <<Typed(c, 1)'>>]
        /\ stored' = [stored EXCEPT ![c] = 1] /\ \E n \in 1..MaxLen : wlen' = [wlen EXCEPT ![c] = n]
        /\ cpc' = [cpc EXCEPT ![c] = "fill"] /\ mtype' = mtype
    BY <1>3 DEF TypeWord
  <2>5. ClientType'
    <3>1. mtext' \in [Clients -> Text]
      BY <2>3, <2>4 DEF ClientType
    <3>2. typed' \in [Clients -> 0..MaxWords]
      BY <2>1 DEF ClientType
    <3> QED
      BY <2>4, <3>1, <3>2 DEF ClientType
  <2> QED
    BY <1>3, <2>5 DEF TypeWord, QueueType, ServerType, SigType, LogType, qvars, svars
<1>6. CASE StoreLetter(c)
  <2> DEFINE x == Typed(c, stored[c] + 1)
  <2>1. stored[c] + 1 \in 2..MaxLen /\ stored[c] + 1 <= wlen[c] /\ mtext[c] \in Text
    BY <1>6 DEF StoreLetter, ClientType
  <2>2. x \in Letter
    BY <2>1 DEF Typed, Letter, ClientType
  <2>3. Store(mtext[c], stored[c] + 1, x) \in Text
    BY <2>1, <2>2, StoreShape
  <2>4. /\ mtext' = [mtext EXCEPT ![c] = Store(mtext[c], stored[c] + 1, x)]
        /\ stored' = [stored EXCEPT ![c] = stored[c] + 1] /\ UNCHANGED <<cpc, mtype, wlen, typed>>
    BY <1>6 DEF StoreLetter, hvars
  <2> HIDE DEF x
  <2>5. ClientType'
    <3>1. mtext' \in [Clients -> Text]
      BY <2>3, <2>4 DEF ClientType
    <3> QED
      BY <2>1, <2>4, <3>1 DEF ClientType
  <2> QED
    BY <1>6, <2>5 DEF StoreLetter, QueueType, ServerType, SigType, LogType, qvars, svars, hvars
<1>7. CASE EndWord(c)
  <2> DEFINE u == IF Len(mtext[c]) > wlen[c] THEN SubSeq(mtext[c], 1, wlen[c]) ELSE mtext[c]
  <2>1. wlen[c] \in Nat /\ wlen[c] >= 1 /\ mtext[c] \in Text
    BY <1>7 DEF EndWord, ClientType
  <2>2. u \in Text
    BY <2>1, CutShape
  <2>3. /\ mtext' = [mtext EXCEPT ![c] = u] /\ cpc' = [cpc EXCEPT ![c] = "type"]
        /\ stored' = [stored EXCEPT ![c] = 0] /\ wlen' = [wlen EXCEPT ![c] = 0]
        /\ UNCHANGED <<mtype, typed>>
    BY <1>7 DEF EndWord, hvars
  <2> HIDE DEF u
  <2>4. ClientType'
    <3>1. mtext' \in [Clients -> Text]
      BY <2>2, <2>3 DEF ClientType
    <3> QED
      BY <2>3, <3>1 DEF ClientType
  <2> QED
    BY <1>7, <2>4 DEF EndWord, QueueType, ServerType, SigType, LogType, qvars, svars, hvars
<1>4. CASE SetType(c)
  <2>1. ClientType'
    BY <1>4 DEF SetType, ClientType, hvars
  <2> QED
    BY <1>4, <2>1 DEF SetType, QueueType, ServerType, SigType, LogType, qvars, svars, hvars
<1>5. CASE Handler(c)
  <2>1. Head(mq[c]) \in Message /\ QueueType'
    BY <1>5, ReceiveQueue DEF Handler, QueueType
  <2>2. Head(mq[c]).text \in Text
    BY <2>1, TextNames
  <2>3. ClientType'
    BY <1>5, <2>2 DEF Handler, ClientType
  <2>4. LogType'
    BY <1>5, <2>1 DEF Handler, LogType
  <2>5. SigType'
    <3>1. sig \in [Clients -> BOOLEAN] /\ sig' = [sig EXCEPT ![c] = FALSE]
      BY <1>5 DEF Handler, SigType
    <3> QED
      BY <3>1, Zenon DEF SigType
  <2> QED
    BY <1>5, <2>1, <2>3, <2>4, <2>5 DEF Handler, ServerType, svars
<1> QED
  BY <1>2, <1>3, <1>4, <1>5, <1>6, <1>7

\* Every reachable state has these types.
LEMMA TypesHold == Spec => []TInv
<1>1. Init => TInv
  BY TypesDistinct, TextNames DEF Init, msgget, TInv, QueueType, ServerType, ClientType, SigType,
     LogType
<1>2. TInv /\ [Next]_vars => TInv'
  <2>1. TInv /\ UNCHANGED vars => TInv'
    BY DEF TInv, vars, qvars, svars, cvars, hvars, QueueType, ServerType, ClientType,
       SigType, LogType
  <2> QED
    BY <2>1, ServerTypes, ClientTypes DEF Next
<1> QED
  BY <1>1, <1>2, PTL DEF Spec

(* Every reachable state of the queue, the server and the clients is well  *)
(* typed: whatever the handler leaves in mesg is a message of a known type.*)
THEOREM TypeCorrect == Spec => []TypeOK
<1>1. TInv => TypeOK
  BY DEF TInv, QueueType, ServerType, ClientType, SigType, LogType, TypeOK
<1> QED
  BY <1>1, TypesHold, PTL

-----------------------------------------------------------------------------
(* SignalCovered made inductive: a client's messages cover the signal that *)
(* is pending and the one the server has still to send.                    *)
Pending(c) == (IF sig[c] THEN 1 ELSE 0) + (IF tokill # <<>> /\ tokill[1] = c THEN 1 ELSE 0)
Covered == \A c \in Clients : Pending(c) <= Len(mq[c])

\* Every step keeps the signals covered: a text is queued before its signal is sent,
\* and only the handler takes it.
LEMMA CoveredStep ==
  ASSUME TInv, Covered, [Next]_vars
  PROVE  Covered'
<1> USE TypesDistinct DEF TInv
<1>1. \A c \in Clients : mq[c] \in Seq(Message) /\ Len(mq[c]) \in Nat
  BY DEF QueueType
<1>2. ASSUME UNCHANGED <<sig, tokill>>, \A c \in Clients : Len(mq'[c]) >= Len(mq[c])
                                                           /\ Len(mq'[c]) \in Nat
      PROVE  Covered'
  BY <1>1, <1>2 DEF Covered, Pending
<1>3. ASSUME NEW t \in {ConnectType, ChatType}, msgrcv(t)
      PROVE  \A c \in Clients : mq'[c] = mq[c]
  BY <1>3, ReceiveQueue DEF QueueType
<1>4. ASSUME NEW t \in Types, NEW m \in Message, msgsnd(t, m)
      PROVE  \A c \in Clients : Len(mq'[c]) = IF c = t THEN Len(mq[c]) + 1 ELSE Len(mq[c])
  BY <1>1, <1>4, SendQueue DEF QueueType
<1>5. CASE AcceptClient \/ TakeText
  BY <1>1, <1>2, <1>3, <1>5 DEF AcceptClient, TakeText
<1>6. CASE SendText
  <2> DEFINE d == Head(todo)
             m == [serving[1] EXCEPT !.relay = Len(relayed)]
  <2>1. serving[1] \in Message /\ d \in Clients
    BY <1>6 DEF SendText, ServerType
  <2>2. m \in Message
    BY <2>1 DEF Message
  <2>3. \A c \in Clients : Len(mq'[c]) = IF c = d THEN Len(mq[c]) + 1 ELSE Len(mq[c])
    BY <1>4, <1>6, <2>1, <2>2 DEF SendText
  <2>4. tokill = <<>> /\ tokill' = <<d>> /\ sig' = sig
    BY <1>6 DEF SendText
  <2>5. tokill' # <<>> /\ tokill'[1] = d
    BY <2>4
  <2> HIDE DEF d, m
  <2> QED
    BY <1>1, <2>3, <2>4, <2>5 DEF Covered, Pending
<1>7. CASE Signal
  <2>1. PICK d \in Clients : /\ tokill # <<>> /\ tokill[1] = d /\ tokill' = <<>> /\ mq' = mq
                             /\ sig' = [sig EXCEPT ![d] = TRUE]
    <3>1. tokill # <<>> /\ tokill' = <<>> /\ mq' = mq
          /\ sig' = [sig EXCEPT ![tokill[1]] = TRUE]
      BY <1>7 DEF Signal, qvars
    <3>2. tokill[1] \in Clients
      BY <3>1 DEF ServerType
    <3> QED
      BY <3>1, <3>2, Zenon
  <2>2. sig'[d] /\ \A c \in Clients : c # d => sig'[c] = sig[c]
    BY <2>1, Zenon DEF SigType
  <2>3. \A c \in Clients : c # d => Pending(c)' = Pending(c)
    BY <2>1, <2>2 DEF Pending
  <2>4. Pending(d)' = 1 /\ Pending(d) >= 1 /\ Pending(d) \in Nat
    <3>1. (IF sig'[d] THEN 1 ELSE 0) = 1
      BY <2>2
    <3>2. (IF tokill' # <<>> /\ tokill'[1] = d THEN 1 ELSE 0) = 0
      BY <2>1
    <3>3. (IF tokill # <<>> /\ tokill[1] = d THEN 1 ELSE 0) = 1
      BY <2>1
    <3>4. (IF sig[d] THEN 1 ELSE 0) \in {0, 1}
      OBVIOUS
    <3>5. Pending(d)' = (IF sig'[d] THEN 1 ELSE 0)
                        + (IF tokill' # <<>> /\ tokill'[1] = d THEN 1 ELSE 0)
      BY DEF Pending
    <3> QED
      BY <3>1, <3>2, <3>3, <3>4, <3>5 DEF Pending
  <2>5. \A c \in Clients : Pending(c)' <= Len(mq[c])
    <3> SUFFICES ASSUME NEW c \in Clients PROVE Pending(c)' <= Len(mq[c])
      OBVIOUS
    <3>1. Pending(c) <= Len(mq[c]) /\ Len(mq[c]) \in Nat
      BY <1>1 DEF Covered
    <3>2. CASE c = d
      BY <2>4, <3>1, <3>2
    <3>3. CASE c # d
      BY <2>3, <3>1, <3>3
    <3> QED
      BY <3>2, <3>3
  <2> QED
    BY <2>1, <2>5 DEF Covered
<1>8. ASSUME NEW d \in Clients, SendConnect(d) \/ SendWord(d) PROVE Covered'
  <2>1. Mesg(d) \in Message /\ mtype[d] \in Types
    BY DEF Mesg, Message, ClientType
  <2>2. PICK t \in Types : msgsnd(t, Mesg(d))
    BY <1>8, <2>1 DEF SendConnect, SendWord
  <2>3. \A c \in Clients : Len(mq'[c]) >= Len(mq[c]) /\ Len(mq'[c]) \in Nat
    <3>1. \A c \in Clients : Len(mq'[c]) = IF c = t THEN Len(mq[c]) + 1 ELSE Len(mq[c])
      BY <1>4, <2>1, <2>2, Zenon
    <3> QED
      BY <1>1, <3>1
  <2>4. UNCHANGED <<sig, tokill>>
    BY <1>8 DEF SendConnect, SendWord, svars
  <2> QED
    BY <1>2, <2>3, <2>4
<1>9. ASSUME NEW d \in Clients, TypeWord(d) \/ StoreLetter(d) \/ EndWord(d) \/ SetType(d)
      PROVE  Covered'
  BY <1>1, <1>2, <1>9 DEF TypeWord, StoreLetter, EndWord, SetType, qvars, svars
<1>10. ASSUME NEW d \in Clients, Handler(d) PROVE Covered'
  <2>1. /\ sig[d] /\ sig' = [sig EXCEPT ![d] = FALSE] /\ tokill' = tokill
        /\ msgrcv(d)
    BY <1>10 DEF Handler, svars
  <2>2. Len(mq'[d]) = Len(mq[d]) - 1 /\ \A c \in Clients : c # d => mq'[c] = mq[c]
    BY <2>1, ReceiveQueue DEF QueueType
  <2>3. \A c \in Clients : sig'[c] = IF c = d THEN FALSE ELSE sig[c]
    BY <2>1, Zenon DEF SigType
  <2>4. \A c \in Clients : c # d => Pending(c)' = Pending(c)
    BY <2>1, <2>3 DEF Pending
  <2>5. Pending(d)' = Pending(d) - 1
    <3>1. (IF sig[d] THEN 1 ELSE 0) = 1 /\ (IF sig'[d] THEN 1 ELSE 0) = 0
      BY <2>1, <2>3
    <3>2. Pending(d) = 1 + (IF tokill # <<>> /\ tokill[1] = d THEN 1 ELSE 0)
      BY <3>1 DEF Pending
    <3>3. Pending(d)' = 0 + (IF tokill # <<>> /\ tokill[1] = d THEN 1 ELSE 0)
      BY <2>1, <3>1 DEF Pending
    <3> QED
      BY <3>2, <3>3
  <2>6. Pending(d) \in Nat
    BY DEF Pending
  <2> QED
    BY <1>1, <2>2, <2>4, <2>5, <2>6 DEF Covered
<1>11. CASE UNCHANGED vars
  BY <1>1, <1>2, <1>11 DEF vars, qvars, svars
<1> QED
  BY <1>5, <1>6, <1>7, <1>8, <1>9, <1>10, <1>11 DEF Next

(* The signal handler never waits in msgrcv, for any queue size and        *)
(* however signals merge: every signal is covered by a message.            *)
THEOREM HandlerNeverWaits == Spec => []SignalCovered
<1>1. Init => Covered
  BY TypesDistinct DEF Init, msgget, Covered, Pending
<1>2. TInv /\ Covered => SignalCovered
  <2> SUFFICES ASSUME TInv, Covered, NEW c \in Clients, sig[c] PROVE mq[c] # <<>>
    BY DEF SignalCovered
  <2>1. Pending(c) \in Nat /\ Pending(c) >= 1 /\ Pending(c) <= Len(mq[c])
    BY DEF Covered, Pending
  <2> QED
    BY <2>1, TypesDistinct DEF TInv, QueueType
<1> QED
  BY <1>1, <1>2, CoveredStep, TypesHold, PTL DEF Spec

-----------------------------------------------------------------------------
(* TornOnce made inductive: it holds of the queue, and of a client's mesg   *)
(* from the first letter of a word on, whatever the handler does to it.    *)
Honest(m, s) == \E n \in 0..Len(m.text), k \in 1..MaxWords : Torn(m.text, m.by, k, n, s[m.by])
HandHonest == \A c \in Clients : cpc[c] \in {"fill", "type", "send"}
                => /\ typed[c] \in 1..MaxWords
                   /\ \E n \in 0..Len(mtext[c]) : Torn(mtext[c], c, typed[c], n, shown[c])
QueueHonest == \A i \in 1..Len(mq[ChatType]) : Honest(mq[ChatType][i], shown)
LogHonest == \A i \in 1..Len(relayed) : Honest(relayed[i], shown)
Honesty == HandHonest /\ QueueHonest /\ LogHonest

(* What was shown stays shown.                                             *)
LEMMA ShownGrows ==
  ASSUME TInv, [Next]_vars
  PROVE  \A c \in Clients : /\ shown[c] \in Seq(Message) /\ shown'[c] \in Seq(Message)
                            /\ Len(shown[c]) <= Len(shown'[c])
                            /\ \A j \in 1..Len(shown[c]) : shown'[c][j] = shown[c][j]
<1> USE TypesDistinct DEF TInv
<1>1. \A c \in Clients : shown[c] \in Seq(Message)
  BY DEF LogType
<1>2. CASE shown' = shown
  BY <1>1, <1>2
<1>3. ASSUME NEW d \in Clients, Handler(d)
      PROVE  \A c \in Clients : /\ shown'[c] \in Seq(Message)
                            /\ Len(shown[c]) <= Len(shown'[c])
                            /\ \A j \in 1..Len(shown[c]) : shown'[c][j] = shown[c][j]
  <2>1. Head(mq[d]) \in Message
    BY <1>3, ReceiveQueue DEF Handler, QueueType
  <2>2. \A c \in Clients : shown'[c] = IF c = d THEN Append(shown[c], Head(mq[d])) ELSE shown[c]
    BY <1>3 DEF Handler, LogType
  <2>3. ASSUME NEW c \in Clients
        PROVE  /\ shown'[c] \in Seq(Message)
               /\ Len(shown[c]) <= Len(shown'[c])
               /\ \A j \in 1..Len(shown[c]) : shown'[c][j] = shown[c][j]
    <3>1. CASE c # d
      BY <1>1, <2>2, <3>1
    <3>2. CASE c = d
      <4>1. shown'[c] = Append(shown[c], Head(mq[c])) /\ shown[c] \in Seq(Message)
            /\ Head(mq[c]) \in Message
        BY <1>1, <2>1, <2>2, <3>2
      <4> QED
        BY <4>1
    <3> QED
      BY <3>1, <3>2
  <2> QED
    BY <2>3
<1>4. shown' = shown \/ \E d \in Clients : Handler(d)
  BY DEF Next, AcceptClient, TakeText, SendText, Signal, SendConnect, TypeWord, StoreLetter,
     EndWord, SetType, SendWord, vars, hvars
<1> QED
  BY <1>1, <1>2, <1>3, <1>4

(* What was torn once stays so, since nothing shown is taken back.         *)
LEMMA HonestStays ==
  ASSUME TInv, [Next]_vars
  PROVE  /\ \A c \in Clients : \A t, k, n : Torn(t, c, k, n, shown[c]) => Torn(t, c, k, n, shown'[c])
         /\ \A m \in Message : Honest(m, shown) => Honest(m, shown')
<1>1. ASSUME NEW c \in Clients, NEW t, NEW k, NEW n, Torn(t, c, k, n, shown[c])
      PROVE  Torn(t, c, k, n, shown'[c])
  <2>1. /\ shown[c] \in Seq(Message) /\ shown'[c] \in Seq(Message)
        /\ Len(shown[c]) <= Len(shown'[c])
        /\ \A j \in 1..Len(shown[c]) : shown'[c][j] = shown[c][j]
    BY ShownGrows
  <2>2. \A j \in DOMAIN shown[c] : j \in DOMAIN shown'[c] /\ shown'[c][j] = shown[c][j]
    <3>1. DOMAIN shown[c] = 1..Len(shown[c]) /\ DOMAIN shown'[c] = 1..Len(shown'[c])
          /\ Len(shown[c]) \in Nat /\ Len(shown'[c]) \in Nat
      BY ONLY <2>1
    <3> QED
      BY <2>1, <3>1
  <2> QED
    BY <1>1, <2>2 DEF Torn
<1>2. \A m \in Message : m.by \in Clients
  BY TextNames
<1> QED
  BY <1>1, <1>2 DEF Honest

(* One letter more of the same word is stored: behind the tear, or it      *)
(* becomes one.                                                            *)
LEMMA TornStores ==
  ASSUME NEW t \in Text, NEW c, NEW k, NEW i \in Nat, i > 1, NEW n \in 0..Len(t), NEW seen,
         Torn(t, c, k, n, seen), [author |-> c, k |-> k, pos |-> i] \in Letter
  PROVE  LET u == Store(t, i, [author |-> c, k |-> k, pos |-> i])
         IN  \E p \in 0..Len(u) : Torn(u, c, k, p, seen)
<1> DEFINE x == [author |-> c, k |-> k, pos |-> i]
           u == Store(t, i, x)
           p == IF n < i THEN n ELSE i - 1
<1> SUFFICES \E q \in 0..Len(u) : Torn(u, c, k, q, seen)
  OBVIOUS
<1>1. CASE Len(t) < i - 1
  <2>1. u = t
    BY <1>1, StoreShape
  <2> QED
    BY <2>1
<1>2. CASE ~(Len(t) < i - 1)
  <2>1. /\ Len(u) = i /\ \A j \in 1..i - 1 : u[j] = t[j]
        /\ u[i] = x
    BY <1>2, StoreShape
  <2>2. Len(t) \in Nat
    BY DEF Text
  <2> HIDE DEF u, x
  <2>3. p \in 0..i - 1 /\ p <= n /\ p \in 0..Len(u)
    BY <2>1, <2>2
  <2>4. p = 0 \/ \E j \in DOMAIN seen : SameHead(u, seen[j].text, p)
    <3>1. CASE n = 0
      BY <3>1
    <3>2. ASSUME NEW j \in DOMAIN seen, SameHead(t, seen[j].text, n)
          PROVE  SameHead(u, seen[j].text, p)
      <4>1. n <= Len(seen[j].text) /\ \A a \in 1..n : t[a] = seen[j].text[a]
        BY <3>2 DEF SameHead
      <4>2. \A a \in 1..p : a \in 1..n /\ a \in 1..i - 1
        BY <2>2, <2>3
      <4>3. p <= Len(seen[j].text)
        <5>1. CASE p = n
          BY <4>1, <5>1
        <5>2. CASE p # n
          BY <3>2, <2>2, <2>3, <5>2 DEF SameHead
        <5> QED
          BY <5>1, <5>2
      <4> QED
        BY <2>1, <4>1, <4>2, <4>3 DEF SameHead
    <3> QED
      BY <3>1, <3>2 DEF Torn
  <2>5. \A a \in p + 1..Len(u) : u[a] = [author |-> c, k |-> k, pos |-> a]
    <3> SUFFICES ASSUME NEW a \in p + 1..Len(u) PROVE u[a] = [author |-> c, k |-> k, pos |-> a]
      OBVIOUS
    <3>1. CASE a = i
      BY <2>1, <3>1 DEF x
    <3>2. CASE a # i
      <4>1. a \in 1..i - 1 /\ a \in n + 1..Len(t)
        BY <1>2, <2>1, <2>2, <2>3, <3>2
      <4> QED
        BY <2>1, <4>1 DEF Torn
    <3> QED
      BY <3>1, <3>2
  <2> HIDE DEF p
  <2> QED
    BY <2>3, <2>4, <2>5 DEF Torn
<1> QED
  BY <1>1, <1>2

\* A string that is cut keeps its tear, or loses it with its end.
LEMMA TornCut ==
  ASSUME NEW t \in Text, NEW c, NEW k, NEW l \in Nat, l >= 1, Len(t) > l,
         NEW n \in 0..Len(t), NEW seen \in Seq(Message), Torn(t, c, k, n, seen)
  PROVE  \E p \in 0..Len(SubSeq(t, 1, l)) : Torn(SubSeq(t, 1, l), c, k, p, seen)
<1> DEFINE u == SubSeq(t, 1, l)
           p == IF n < l THEN n ELSE l
<1>1. Len(u) = l /\ \A j \in 1..l : u[j] = t[j]
  BY CutShape
<1>2. Len(t) \in Nat
  BY DEF Text
<1> HIDE DEF u
<1>3. p \in 0..l /\ p <= n /\ p \in 0..Len(u)
  BY <1>1, <1>2
<1>4. p = 0 \/ \E j \in DOMAIN seen : SameHead(u, seen[j].text, p)
  <2>1. ASSUME NEW j \in DOMAIN seen, SameHead(t, seen[j].text, n)
        PROVE  SameHead(u, seen[j].text, p)
    <3>1. Len(seen[j].text) \in Nat
      <4>1. seen[j] \in Message
        BY <2>1
      <4>2. seen[j].text \in Seq(Letter)
        BY <4>1, TextNames DEF Text
      <4> QED
        BY <4>2
    <3> QED
      BY <1>1, <1>2, <1>3, <2>1, <3>1 DEF SameHead
  <2> QED
    BY <2>1 DEF Torn
<1>5. \A a \in p + 1..Len(u) : u[a] = [author |-> c, k |-> k, pos |-> a]
  BY <1>1, <1>2 DEF Torn
<1> HIDE DEF p
<1> QED
  BY <1>3, <1>4, <1>5 DEF Torn, u

(* What is in a client's mesg stays torn once: the next letter, the NUL or *)
(* a text the handler shows change nothing of that.                        *)
LEMMA HandStep ==
  ASSUME TInv, HandHonest, [Next]_vars
  PROVE  HandHonest'
<1> USE TypesDistinct DEF TInv
<1> SUFFICES ASSUME NEW c \in Clients, cpc'[c] \in {"fill", "type", "send"}
             PROVE  /\ typed'[c] \in 1..MaxWords
                    /\ \E n \in 0..Len(mtext'[c]) :
                         Torn(mtext'[c], c, typed'[c], n, shown'[c])
  BY DEF HandHonest
<1>1. mtext[c] \in Text /\ shown[c] \in Seq(Message) /\ typed[c] \in 0..MaxWords
  BY DEF ClientType, LogType
<1>2. ASSUME cpc[c] \in {"fill", "type", "send"}, mtext'[c] = mtext[c], typed'[c] = typed[c]
      PROVE  /\ typed'[c] \in 1..MaxWords
             /\ \E n \in 0..Len(mtext'[c]) : Torn(mtext'[c], c, typed'[c], n, shown'[c])
  BY <1>2, HonestStays DEF HandHonest
<1>3. CASE TypeWord(c)
  <2>1. typed'[c] = typed[c] + 1 /\ typed[c] < MaxWords /\ mtext'[c] = <<Typed(c, 1)'>>
    BY <1>3 DEF TypeWord, ClientType
  <2>2. Typed(c, 1)' = [author |-> c, k |-> typed'[c], pos |-> 1]
    BY DEF Typed
  <2>3. Len(mtext'[c]) = 1 /\ mtext'[c][1] = [author |-> c, k |-> typed'[c], pos |-> 1]
    BY <2>1, <2>2
  <2>4. Torn(mtext'[c], c, typed'[c], 0, shown'[c])
    BY <2>3 DEF Torn
  <2> QED
    BY <1>1, <2>1, <2>3, <2>4
<1>4. CASE StoreLetter(c)
  <2> DEFINE i == stored[c] + 1
  <2>1. /\ cpc[c] = "fill" /\ i \in 2..MaxLen /\ typed'[c] = typed[c] /\ shown' = shown
        /\ mtext'[c] = Store(mtext[c], i, [author |-> c, k |-> typed[c], pos |-> i])
    BY <1>4 DEF StoreLetter, ClientType, hvars, Typed
  <2>2. PICK n \in 0..Len(mtext[c]) : Torn(mtext[c], c, typed[c], n, shown[c])
    BY <2>1 DEF HandHonest
  <2>3. typed[c] \in 1..MaxWords
    BY <2>1 DEF HandHonest
  <2>4. [author |-> c, k |-> typed[c], pos |-> i] \in Letter /\ i \in Nat /\ i > 1
    BY <2>1, <2>3 DEF Letter
  <2> HIDE DEF i
  <2>5. \E p \in 0..Len(mtext'[c]) : Torn(mtext'[c], c, typed[c], p, shown[c])
    BY <1>1, <2>1, <2>2, <2>4, TornStores
  <2> QED
    BY <2>1, <2>3, <2>5
<1>5. CASE EndWord(c)
  <2>1. /\ cpc[c] = "fill" /\ wlen[c] \in Nat /\ wlen[c] >= 1
        /\ typed'[c] = typed[c] /\ shown' = shown
        /\ mtext'[c] = IF Len(mtext[c]) > wlen[c] THEN SubSeq(mtext[c], 1, wlen[c]) ELSE mtext[c]
    BY <1>5 DEF EndWord, ClientType, hvars
  <2>2. PICK n \in 0..Len(mtext[c]) : Torn(mtext[c], c, typed[c], n, shown[c])
    BY <2>1 DEF HandHonest
  <2>3. typed[c] \in 1..MaxWords
    BY <2>1 DEF HandHonest
  <2>4. \E p \in 0..Len(mtext'[c]) : Torn(mtext'[c], c, typed[c], p, shown[c])
    BY <1>1, <2>1, <2>2, TornCut
  <2> QED
    BY <2>1, <2>3, <2>4
<1>6. CASE Handler(c)
  <2>1. Head(mq[c]) \in Message
    BY <1>6, ReceiveQueue DEF Handler, QueueType
  <2>2. /\ mtext'[c] = Head(mq[c]).text /\ shown'[c] = Append(shown[c], Head(mq[c]))
        /\ typed'[c] = typed[c] /\ cpc'[c] \in {cpc[c], "scanf"}
    BY <1>6 DEF Handler, ClientType, LogType
  <2>3. mtext'[c] \in Seq(Letter) /\ Len(mtext'[c]) \in Nat
    <3>1. mtext'[c] \in Seq(Letter)
      BY <2>1, <2>2, TextNames DEF Text
    <3> QED
      BY <3>1
  <2>4. \E j \in DOMAIN shown'[c] : shown'[c][j] = Head(mq[c])
    BY <1>1, <2>1, <2>2
  <2>5. Torn(mtext'[c], c, typed'[c], Len(mtext'[c]), shown'[c])
    <3> DEFINE n == Len(mtext'[c])
    <3>1. \A i \in n + 1..n : FALSE
      BY ONLY <2>3
    <3>2. PICK j \in DOMAIN shown'[c] : shown'[c][j].text = mtext'[c]
      BY <2>2, <2>4
    <3>3. SameHead(mtext'[c], shown'[c][j].text, n)
      BY <2>3, <3>2 DEF SameHead
    <3> QED
      BY <3>1, <3>2, <3>3 DEF Torn
  <2>6. typed[c] \in 1..MaxWords
    BY <2>2 DEF HandHonest
  <2> QED
    BY <2>2, <2>3, <2>5, <2>6
<1>7. CASE SetType(c)
  BY <1>2, <1>7 DEF SetType, ClientType, hvars
<1>8. CASE \/ UNCHANGED <<cpc, mtext, typed>>
           \/ \E d \in Clients \ {c} : \/ TypeWord(d) \/ StoreLetter(d) \/ EndWord(d)
                                       \/ SetType(d) \/ Handler(d)
           \/ \E d \in Clients : SendConnect(d) \/ SendWord(d)
  <2>1. cpc'[c] = cpc[c] /\ mtext'[c] = mtext[c] /\ typed'[c] = typed[c]
    BY <1>8 DEF TypeWord, StoreLetter, EndWord, SetType, Handler, SendConnect, SendWord,
       ClientType, cvars, hvars
  <2> QED
    BY <1>2, <2>1
<1> QED
  BY <1>3, <1>4, <1>5, <1>6, <1>7, <1>8
     DEF Next, AcceptClient, TakeText, SendText, Signal, vars, cvars, hvars

\* So does what is queued, from some client's mesg,
LEMMA QueueStep ==
  ASSUME TInv, HandHonest, QueueHonest, [Next]_vars
  PROVE  QueueHonest'
<1> USE TypesDistinct DEF TInv
<1> DEFINE q == mq[ChatType]
           r == mq'[ChatType]
<1>1. q \in Seq(Message) /\ \A i \in 1..Len(q) : q[i] \in Message /\ Honest(q[i], shown')
  <2>1. q \in Seq(Message) /\ \A i \in 1..Len(q) : q[i] \in Message
    BY DEF QueueType
  <2>2. \A i \in 1..Len(q) : Honest(q[i], shown)
    BY DEF QueueHonest
  <2> QED
    BY <2>1, <2>2, HonestStays
<1>2. SUFFICES \A i \in 1..Len(r) : Honest(r[i], shown')
  BY DEF QueueHonest
<1>3. CASE r = q
  BY <1>1, <1>3
<1>4. ASSUME NEW c \in Clients, msgsnd(ChatType, Mesg(c)), cpc[c] = "send"
      PROVE  \A i \in 1..Len(r) : Honest(r[i], shown')
  <2> DEFINE m == Mesg(c)
  <2>1. m \in Message /\ m.by = c /\ m.text = mtext[c]
    BY DEF Mesg, Message, ClientType
  <2>2. Honest(m, shown)
    BY <1>4, <2>1 DEF Honest, HandHonest
  <2>3. Honest(m, shown')
    BY <2>1, <2>2, HonestStays
  <2>4. r = Append(q, m)
    BY <1>4, <2>1, SendQueue DEF QueueType
  <2> HIDE DEF m, q, r
  <2> QED
    BY <1>1, <2>1, <2>3, <2>4
<1>5. CASE r = Tail(q) /\ q # <<>>
  <2> HIDE DEF q, r
  <2> QED
    BY <1>1, <1>5
<1>6. r = q \/ (r = Tail(q) /\ q # <<>>) \/ \E c \in Clients : cpc[c] = "send" /\ msgsnd(ChatType, Mesg(c))
  <2>1. CASE AcceptClient
    BY <2>1, ReceiveQueue DEF AcceptClient, QueueType
  <2>2. CASE TakeText
    BY <2>2, ReceiveQueue DEF TakeText, QueueType
  <2>3. CASE SendText
    <3>1. serving[1] \in Message /\ Head(todo) \in Clients
      BY <2>3 DEF SendText, ServerType
    <3>2. [serving[1] EXCEPT !.relay = Len(relayed)] \in Message
      BY <3>1 DEF Message
    <3> QED
      BY <2>3, <3>1, <3>2, SendQueue DEF SendText, QueueType
  <2>4. CASE Signal \/ UNCHANGED vars
    BY <2>4 DEF Signal, vars, qvars
  <2>5. ASSUME NEW c \in Clients, \/ TypeWord(c) \/ StoreLetter(c) \/ EndWord(c)
                                  \/ SetType(c)
        PROVE  r = q
    BY <2>5 DEF TypeWord, StoreLetter, EndWord, SetType, qvars
  <2>6. ASSUME NEW c \in Clients, Handler(c) PROVE r = q
    BY <2>6, ReceiveQueue DEF Handler, QueueType
  <2>7. ASSUME NEW c \in Clients, SendConnect(c) \/ SendWord(c)
        PROVE  r = q \/ (cpc[c] = "send" /\ msgsnd(ChatType, Mesg(c)))
    <3>1. Mesg(c) \in Message /\ mtype[c] \in Types
      BY DEF Mesg, Message, ClientType
    <3>2. PICK t \in Types : msgsnd(t, Mesg(c)) /\ (t = ChatType => cpc[c] = "send")
      BY <2>7, <3>1 DEF SendConnect, SendWord
    <3>3. CASE t = ChatType
      BY <3>2, <3>3
    <3>4. CASE t # ChatType
      BY <3>1, <3>2, <3>4, SendQueue DEF QueueType
    <3> QED
      BY <3>3, <3>4
  <2> QED
    BY <2>1, <2>2, <2>3, <2>4, <2>5, <2>6, <2>7 DEF Next
<1> QED
  BY <1>3, <1>4, <1>5, <1>6

\* and what the server relays, from the queue.
LEMMA LogStep ==
  ASSUME TInv, QueueHonest, LogHonest, [Next]_vars
  PROVE  LogHonest'
<1> USE TypesDistinct DEF TInv
<1>1. relayed \in Seq(Message)
      /\ \A i \in 1..Len(relayed) : relayed[i] \in Message /\ Honest(relayed[i], shown')
  <2>1. relayed \in Seq(Message) /\ \A i \in 1..Len(relayed) : relayed[i] \in Message
    BY DEF LogType
  <2>2. \A i \in 1..Len(relayed) : Honest(relayed[i], shown)
    BY DEF LogHonest
  <2> QED
    BY <2>1, <2>2, HonestStays
<1>2. CASE relayed' = relayed
  BY <1>1, <1>2 DEF LogHonest
<1>3. CASE TakeText
  <2> DEFINE m == Head(mq[ChatType])
  <2>1. mq[ChatType] \in Seq(Message) /\ mq[ChatType] # <<>>
    BY <1>3 DEF TakeText, msgrcv, QueueType
  <2>2. m \in Message /\ Honest(m, shown)
    BY <2>1 DEF QueueHonest
  <2>3. Honest(m, shown')
    BY <2>2, HonestStays
  <2>4. relayed' = Append(relayed, m)
    BY <1>3 DEF TakeText
  <2> HIDE DEF m
  <2> QED
    BY <1>1, <2>2, <2>3, <2>4 DEF LogHonest
<1>4. relayed' = relayed \/ TakeText
  BY DEF Next, AcceptClient, SendText, Signal, SendConnect, TypeWord, StoreLetter, EndWord,
     SetType, SendWord, Handler, vars, hvars
<1> QED
  BY <1>2, <1>3, <1>4

(* No text the server takes is torn at more than one place, whatever the   *)
(* length of the words and however often the handler comes in between two  *)
(* letters: it is the head of one text its sender was shown, then letters  *)
(* of one word it typed, each at its own place.                            *)
THEOREM NoForgedTexts == Spec => []TornOnce
<1>1. Init => Honesty
  BY TypesDistinct DEF Init, msgget, Honesty, HandHonest, QueueHonest, LogHonest
<1>2. TInv /\ Honesty /\ [Next]_vars => Honesty'
  BY HandStep, QueueStep, LogStep DEF Honesty
<1>3. TInv /\ Honesty => TornOnce
  <2> SUFFICES ASSUME TInv, Honesty, NEW j \in DOMAIN relayed
               PROVE  Honest(relayed[j], shown)
    BY DEF TornOnce, Honest
  <2>1. j \in 1..Len(relayed)
    <3>1. relayed \in Seq(Message)
      BY DEF TInv, LogType
    <3> QED
      BY <3>1
  <2> QED
    BY <2>1 DEF Honesty, LogHonest
<1> QED
  BY <1>1, <1>2, <1>3, TypesHold, PTL DEF Spec

-----------------------------------------------------------------------------
(* What a client has been shown and what waits for it, as one stream.      *)
LEMMA AppendShape ==
  ASSUME NEW s \in Seq(Message), NEW m \in Message
  PROVE  /\ Append(s, m) \in Seq(Message) /\ Len(s) \in Nat /\ DOMAIN s = 1..Len(s)
         /\ DOMAIN Append(s, m) = 1..Len(s) + 1
         /\ Append(s, m)[Len(s) + 1] = m
         /\ \A i \in 1..Len(s) : Append(s, m)[i] = s[i] /\ s[i] \in Message
         /\ \A i \in 1..Len(s) + 1 : i \in 1..Len(s) \/ i = Len(s) + 1
OBVIOUS

\* A message moves from the queue to the screen, or comes behind both.
LEMMA StreamMoves ==
  ASSUME NEW s \in Seq(Message), NEW q \in Seq(Message), NEW m \in Message
  PROVE  /\ s \o q \in Seq(Message)
         /\ s \o Append(q, m) = Append(s \o q, m)
         /\ q # <<>> => Append(s, Head(q)) \o Tail(q) = s \o q
<1>1. s \o q \in Seq(Message) /\ s \o Append(q, m) = Append(s \o q, m)
  OBVIOUS
<1>2. ASSUME q # <<>>
      PROVE  Append(s, Head(q)) \o Tail(q) = s \o q
  <2> DEFINE a == Append(s, Head(q)) \o Tail(q)
             b == s \o q
  <2>1. Head(q) \in Message /\ Tail(q) \in Seq(Message) /\ Len(Tail(q)) = Len(q) - 1
        /\ Len(q) \in Nat \ {0} /\ Len(s) \in Nat /\ Head(q) = q[1]
        /\ \A i \in 1..Len(q) - 1 : Tail(q)[i] = q[i + 1]
    BY <1>2
  <2>2. /\ Append(s, Head(q)) \in Seq(Message) /\ Len(Append(s, Head(q))) = Len(s) + 1
        /\ \A i \in 1..Len(s) : Append(s, Head(q))[i] = s[i]
        /\ Append(s, Head(q))[Len(s) + 1] = q[1]
    BY <2>1
  <2>3. /\ a \in Seq(Message) /\ Len(a) = Len(s) + 1 + (Len(q) - 1)
        /\ \A i \in 1..Len(s) + 1 : a[i] = Append(s, Head(q))[i]
        /\ \A i \in 1..Len(q) - 1 : a[Len(s) + 1 + i] = Tail(q)[i]
    BY <2>1, <2>2
  <2>4. /\ b \in Seq(Message) /\ Len(b) = Len(s) + Len(q)
        /\ \A i \in 1..Len(s) : b[i] = s[i]
        /\ \A i \in 1..Len(q) : b[Len(s) + i] = q[i]
    OBVIOUS
  <2> HIDE DEF a, b
  <2>5. ASSUME NEW i \in 1..Len(s) + Len(q) PROVE a[i] = b[i]
    <3>1. CASE i \in 1..Len(s)
      <4>1. i \in 1..Len(s) + 1
        BY <2>1, <3>1
      <4> QED
        BY <2>2, <2>3, <2>4, <3>1, <4>1
    <3>2. CASE i = Len(s) + 1
      BY <2>1, <2>2, <2>3, <2>4, <3>2
    <3>3. CASE i > Len(s) + 1
      <4> DEFINE j == i - (Len(s) + 1)
      <4>1. j \in 1..Len(q) - 1 /\ i = Len(s) + 1 + j /\ i = Len(s) + (j + 1)
            /\ j + 1 \in 1..Len(q)
        BY <2>1, <3>3
      <4> HIDE DEF j
      <4>2. a[i] = Tail(q)[j] /\ Tail(q)[j] = q[j + 1]
        BY <2>1, <2>3, <4>1
      <4>3. b[i] = q[j + 1]
        BY <2>4, <4>1
      <4> QED
        BY <4>2, <4>3
    <3> QED
      BY <2>1, <3>1, <3>2, <3>3
  <2>6. Len(a) = Len(b)
    BY <2>1, <2>3, <2>4
  <2> QED
    BY <2>3, <2>4, <2>5, <2>6, SeqEqual DEF a, b
<1> QED
  BY <1>1, <1>2

(* A message a client queued changes nothing.                              *)
LEMMA OrderKept ==
  ASSUME NEW s \in Seq(Message), NEW texts, NEW n, NEW m \in Message,
         InOrder(s, texts, n), m.relay = 0
  PROVE  InOrder(Append(s, m), texts, n)
<1> DEFINE t == Append(s, m)
<1>1. Served(t) = Served(s) /\ \A i \in Served(s) : t[i] = s[i]
  BY AppendShape DEF Served
<1> HIDE DEF t
<1> QED
  BY <1>1 DEF InOrder, t

(* The server's next text comes behind all the earlier ones.               *)
LEMMA OrderNext ==
  ASSUME NEW s \in Seq(Message), NEW texts \in Seq(Message), NEW n \in Nat,
         NEW m \in Message, InOrder(s, texts, n), m = [texts[n + 1] EXCEPT !.relay = n + 1]
  PROVE  InOrder(Append(s, m), texts, n + 1)
<1> DEFINE t == Append(s, m)
           l == Len(s) + 1
<1>1. m.relay = n + 1
  BY DEF Message
<1>2. /\ Served(t) = Served(s) \cup {l} /\ t[l] = m
      /\ \A i \in Served(s) : t[i] = s[i] /\ i < l
  <2>1. m.relay # 0
    BY <1>1
  <2> QED
    BY <2>1, AppendShape DEF Served
<1> HIDE DEF t, l
<1>3. /\ {s[i].relay : i \in Served(s)} = 1..n
      /\ \A i \in Served(s) : s[i].relay \in 1..n
  BY DEF InOrder
<1>4. {t[i].relay : i \in Served(t)} = 1..n + 1
  <2>1. \A k : k \in 1..n + 1 <=> k \in 1..n \/ k = n + 1
    OBVIOUS
  <2>2. \A k : k \in {t[i].relay : i \in Served(t)}
                 <=> k \in {s[i].relay : i \in Served(s)} \/ k = n + 1
    BY <1>1, <1>2
  <2> QED
    BY <1>3, <2>1, <2>2
<1>5. \A i, j \in Served(t) : i < j => t[i].relay < t[j].relay
  <2> SUFFICES ASSUME NEW i \in Served(t), NEW j \in Served(t), i < j
               PROVE  t[i].relay < t[j].relay
    OBVIOUS
  <2>1. i # l
    <3>1. l \in Nat /\ \A k \in Served(t) : k \in Nat /\ k <= l
      BY AppendShape DEF Served, t, l
    <3> QED
      BY <3>1
  <2>2. i \in Served(s) /\ t[i] = s[i] /\ t[i].relay \in 1..n
    BY <1>2, <1>3, <2>1
  <2>3. CASE j = l
    <3>1. t[j].relay = n + 1
      BY <1>1, <1>2, <2>3
    <3>2. \A k \in 1..n : k < n + 1
      BY ONLY n \in Nat
    <3> QED
      BY <2>2, <3>1, <3>2
  <2>4. CASE j \in Served(s)
    BY <1>2, <2>2, <2>4 DEF InOrder
  <2> QED
    BY <1>2, <2>3, <2>4
<1>6. \A i \in Served(t) : t[i] = [texts[t[i].relay] EXCEPT !.relay = t[i].relay]
  BY <1>1, <1>2 DEF InOrder
<1> QED
  BY <1>4, <1>5, <1>6 DEF InOrder, t

(* Texts the server takes later are not asked for.                         *)
LEMMA OrderGrows ==
  ASSUME NEW s \in Seq(Message), NEW texts \in Seq(Message), NEW n \in 0..Len(texts),
         NEW x \in Message, InOrder(s, texts, n)
  PROVE  InOrder(s, Append(texts, x), n)
<1>1. \A i \in Served(s) : s[i].relay \in 1..Len(texts)
  <2>1. \A i \in Served(s) : s[i].relay \in 1..n
    BY DEF InOrder
  <2> QED
    BY <2>1
<1>2. \A k \in 1..Len(texts) : Append(texts, x)[k] = texts[k]
  OBVIOUS
<1> QED
  BY <1>1, <1>2 DEF InOrder

-----------------------------------------------------------------------------
(* ShownInOrder made inductive.  A client connects once, and the server     *)
(* does nothing else before both have; a word is never sent as a connect;  *)
(* and what is being relayed is the last text taken, once to each client.  *)
Author(j) == atoi(mq[ConnectType][j])
Once == /\ \A i, j \in 1..Len(cl) : i # j => cl[i] # cl[j]
        /\ \A i, j \in 1..Len(mq[ConnectType]) : i # j => Author(i) # Author(j)
        /\ \A i \in 1..Len(cl), j \in 1..Len(mq[ConnectType]) : cl[i] # Author(j)
        /\ \A i \in 1..Len(cl) : cpc[cl[i]] # "connect"
        /\ \A j \in 1..Len(mq[ConnectType]) : cpc[Author(j)] # "connect"
NotYet == Len(cl) < 2 => /\ todo = <<>> /\ tokill = <<>> /\ relayed = <<>>
                         /\ \A c \in Clients : ~sig[c]
Buffers == \A c \in Clients : /\ cpc[c] = "connect" => mtext[c] = Pid(c)
                              /\ cpc[c] = "send" => mtype[c] # ConnectType
Relaying == /\ \A i, j \in 1..Len(todo) : i # j => todo[i] # todo[j]
            /\ todo # <<>> => relayed # <<>> /\ serving[1] = relayed[Len(relayed)]
RelayInv == Once /\ NotYet /\ Buffers /\ Relaying /\ ShownInOrder

\* With two in the list everybody is, and nobody is going to connect.
LEMMA BothConnected ==
  ASSUME TInv, Once, ~(Len(cl) < 2)
  PROVE  /\ \A c \in Clients : c \in ToSet(cl) /\ cpc[c] # "connect"
         /\ Len(cl) = 2
<1>1. Len(cl) = 2 /\ cl[1] \in Clients /\ cl[2] \in Clients /\ cl[1] # cl[2] /\ DOMAIN cl = 1..2
  <2>1. cl \in Seq(Clients) /\ Len(cl) <= 2
    BY DEF TInv, ServerType
  <2>4. Len(cl) = 2
    <3>1. Len(cl) \in Nat /\ Len(cl) <= 2 /\ ~(Len(cl) < 2)
      BY <2>1
    <3> QED
      BY ONLY <3>1
  <2>2. Len(cl) = 2 /\ DOMAIN cl = 1..2 /\ cl[1] \in Clients /\ cl[2] \in Clients
    BY ONLY <2>1, <2>4
  <2>3. 1 \in 1..Len(cl) /\ 2 \in 1..Len(cl) /\ 1 # 2
    BY <2>2
  <2> QED
    BY <2>2, <2>3 DEF Once
<1>2. IsFiniteSet(Clients) /\ Cardinality(Clients) = 2
  BY ClientsAssumption DEF ClientsAssumption
<1> DEFINE A == Clients \ {cl[1]}
           B == A \ {cl[2]}
<1>3. IsFiniteSet(A) /\ Cardinality(A) = 1
  BY <1>1, <1>2, FS_RemoveElement
<1>4. IsFiniteSet(B) /\ Cardinality(B) = 0
  <2>1. cl[2] \in A
    BY <1>1
  <2> HIDE DEF A
  <2> QED
    BY <1>3, <2>1, FS_RemoveElement
<1>5. B = {}
  <2> HIDE DEF B
  <2> QED
    BY <1>4, FS_EmptySet
<1>6. \A c \in Clients : c = cl[1] \/ c = cl[2]
  BY <1>5
<1> QED
  BY <1>1, <1>6 DEF Once, ToSet

\* What the lemmas below use of the types.
LEMMA Queues ==
  ASSUME TInv
  PROVE  /\ \A t \in Types : mq[t] \in Seq(Message)
         /\ \A c \in Clients : shown[c] \in Seq(Message) /\ ToClient(c) \in Seq(Message)
         /\ relayed \in Seq(Message) /\ Len(relayed) \in Nat
         /\ cl \in Seq(Clients) /\ Len(cl) \in 0..2 /\ todo \in Seq(Clients)
<1>1. /\ \A t \in Types : mq[t] \in Seq(Message)
      /\ \A c \in Clients : shown[c] \in Seq(Message)
      /\ relayed \in Seq(Message) /\ Len(relayed) \in Nat
      /\ cl \in Seq(Clients) /\ Len(cl) \in 0..2 /\ todo \in Seq(Clients)
  <2>1. /\ \A t \in Types : mq[t] \in Seq(Message)
        /\ \A c \in Clients : shown[c] \in Seq(Message)
        /\ relayed \in Seq(Message)
        /\ cl \in Seq(Clients) /\ Len(cl) <= 2 /\ todo \in Seq(Clients)
    BY DEF TInv, QueueType, LogType, ServerType
  <2>2. Len(cl) \in Nat /\ Len(relayed) \in Nat
    BY ONLY <2>1
  <2>3. Len(cl) \in 0..2
    <3>1. \A k \in Nat : k <= 2 => k \in 0..2
      OBVIOUS
    <3> QED
      BY <2>1, <2>2, <3>1
  <2> QED
    BY <2>1, <2>2, <2>3
<1>2. \A c \in Clients : ToClient(c) \in Seq(Message)
  <2>1. \A s, q \in Seq(Message) : s \o q \in Seq(Message)
    OBVIOUS
  <2> QED
    BY <1>1, <2>1, TypesDistinct DEF ToClient
<1> QED
  BY <1>1, <1>2

\* Who is listed, and who waits to be, are clients.
LEMMA Authors ==
  ASSUME TInv
  PROVE  /\ \A i \in 1..Len(cl) : cl[i] \in Clients
         /\ \A j \in 1..Len(mq[ConnectType]) : Author(j) \in Clients
<1> DEFINE q == mq[ConnectType]
<1>1. cl \in Seq(Clients) /\ q \in Seq(Message)
  BY Queues, TypesDistinct
<1>2. /\ \A i \in 1..Len(cl) : cl[i] \in Clients
      /\ \A j \in 1..Len(q) : q[j] \in Message
  BY ONLY <1>1
<1>3. \A j \in 1..Len(q) : atoi(q[j]) \in Clients
  BY <1>2, TextNames
<1> QED
  BY <1>2, <1>3 DEF Author

\* Steps that leave the streams, the connects and the relay alone.
LEMMA OrderQuiet ==
  ASSUME RelayInv, UNCHANGED <<cl, todo, relayed>>,
         \A c \in Clients : ToClient(c)' = ToClient(c)
  PROVE  ShownInOrder'
<1>1. \A c \in Clients : SentTo(c)' = SentTo(c)
  BY DEF SentTo
<1> QED
  BY <1>1 DEF RelayInv, ShownInOrder

\* An accept keeps the invariant: who is accepted was not in the list.
LEMMA AcceptOrder ==
  ASSUME TInv, RelayInv, AcceptClient
  PROVE  RelayInv'
<1> DEFINE q == mq[ConnectType]
           a == Author(1)
<1>1. /\ Len(cl) < 2 /\ cl' = Append(cl, atoi(Head(q)))
      /\ UNCHANGED <<serving, todo, tokill, cpc, mtype, mtext, sig, relayed, shown>>
      /\ q # <<>> /\ mq'[ConnectType] = Tail(q)
      /\ \A c \in Clients : mq'[c] = mq[c]
  BY ReceiveQueue, TypesDistinct DEF AcceptClient, cvars, hvars, TInv, QueueType
<1>2. /\ Len(q) \in Nat \ {0} /\ Len(Tail(q)) = Len(q) - 1 /\ Head(q) = q[1]
      /\ \A i \in 1..Len(q) - 1 : Tail(q)[i] = q[i + 1] /\ i + 1 \in 1..Len(q)
      /\ 1 \in 1..Len(q) /\ a \in Clients
  <2>1. q \in Seq(Message) /\ q # <<>>
    BY <1>1, Queues, TypesDistinct
  <2>2. /\ Len(q) \in Nat \ {0} /\ Len(Tail(q)) = Len(q) - 1 /\ Head(q) = q[1]
        /\ \A i \in 1..Len(q) - 1 : Tail(q)[i] = q[i + 1] /\ i + 1 \in 1..Len(q)
        /\ 1 \in 1..Len(q) /\ q[1] \in Message
    BY ONLY <2>1
  <2> QED
    BY <2>2, TextNames DEF Author
<1>3. /\ Len(cl') = Len(cl) + 1 /\ Len(cl) \in Nat
      /\ cl'[Len(cl) + 1] = a
      /\ \A i \in 1..Len(cl) : cl'[i] = cl[i]
      /\ \A i \in 1..Len(cl) + 1 : i \in 1..Len(cl) \/ i = Len(cl) + 1
  <2>1. cl \in Seq(Clients) /\ a \in Clients /\ cl' = Append(cl, a)
    BY <1>1, <1>2, Queues DEF Author
  <2> QED
    BY ONLY <2>1
<1> HIDE DEF a
<1>4. /\ \A j \in 1..Len(q) - 1 : Author(j)' = Author(j + 1) /\ j + 1 \in 1..Len(q)
      /\ Len(mq'[ConnectType]) = Len(q) - 1
      /\ a = Author(1) /\ 1 \in 1..Len(q) /\ \A j \in 1..Len(q) - 1 : j + 1 # 1
  BY <1>1, <1>2 DEF Author, a
<1>5. Once'
  <2>1. \A i, j \in 1..Len(cl') : i # j => cl'[i] # cl'[j]
    BY <1>3, <1>4 DEF RelayInv, Once
  <2>2. \A i, j \in 1..Len(q) - 1 : i # j => Author(i)' # Author(j)'
    <3> SUFFICES ASSUME NEW i \in 1..Len(q) - 1, NEW j \in 1..Len(q) - 1, i # j
                 PROVE  Author(i + 1) # Author(j + 1)
      BY <1>4
    <3>1. i + 1 # j + 1 /\ i + 1 \in 1..Len(q) /\ j + 1 \in 1..Len(q)
      BY <1>4
    <3> QED
      BY <3>1 DEF RelayInv, Once
  <2>3. \A i \in 1..Len(cl'), j \in 1..Len(q) - 1 : cl'[i] # Author(j)'
    <3> SUFFICES ASSUME NEW i \in 1..Len(cl'), NEW j \in 1..Len(q) - 1
                 PROVE  cl'[i] # Author(j + 1)
      BY <1>4
    <3>1. j + 1 \in 1..Len(q) /\ j + 1 # 1
      BY <1>4
    <3> QED
      BY <1>3, <1>4, <3>1 DEF RelayInv, Once
  <2>4. \A i \in 1..Len(cl') : cpc'[cl'[i]] # "connect"
    BY <1>1, <1>3, <1>4 DEF RelayInv, Once
  <2>5. \A j \in 1..Len(q) - 1 : cpc'[Author(j)'] # "connect"
    BY <1>1, <1>4 DEF RelayInv, Once
  <2> HIDE DEF q
  <2>6. mq'[ConnectType] = mq[ConnectType]' /\ Len(mq'[ConnectType]) = Len(q) - 1
    BY <1>4
  <2> QED
    BY <2>1, <2>2, <2>3, <2>4, <2>5, <2>6 DEF Once
<1>6. NotYet' /\ Buffers' /\ Relaying'
  BY <1>1 DEF RelayInv, NotYet, Buffers, Relaying
<1>7. ShownInOrder'
  <2>1. todo = <<>> /\ relayed = <<>>
    BY <1>1 DEF RelayInv, NotYet
  <2>2. \A c \in Clients : SentTo(c) = 0 /\ SentTo(c)' = 0 /\ ToClient(c)' = ToClient(c)
    <3>1. Len(relayed) = 0 /\ ToSet(todo) = {}
      BY <2>1 DEF ToSet
    <3>2. Len(relayed') = 0 /\ ToSet(todo') = {}
      BY <1>1, <3>1
    <3> QED
      <4>1. \A c \in Clients : ToClient(c)' = ToClient(c)
        BY <1>1 DEF ToClient
      <4>2. \A c \in Clients : SentTo(c) = 0
        BY <1>1 DEF SentTo
      <4>3. \A c \in Clients : SentTo(c)' = IF Len(cl') < 2 THEN 0 ELSE 0 - 0
        BY <3>2 DEF SentTo
      <4> QED
        BY <4>1, <4>2, <4>3
  <2> QED
    BY <1>1, <2>2 DEF RelayInv, ShownInOrder
<1> QED
  BY <1>5, <1>6, <1>7 DEF RelayInv

\* So does taking a text, which starts a relay to everybody,
LEMMA TakeOrder ==
  ASSUME TInv, RelayInv, TakeText
  PROVE  RelayInv'
<1> DEFINE x == Head(mq[ChatType])
<1>1. /\ Len(cl) = 2 /\ todo = <<>> /\ todo' = cl /\ serving' = <<x>>
      /\ relayed' = Append(relayed, x) /\ x \in Message
      /\ UNCHANGED <<cl, tokill, cpc, mtype, mtext, sig, shown>>
      /\ mq'[ConnectType] = mq[ConnectType] /\ \A c \in Clients : mq'[c] = mq[c]
  BY ReceiveQueue, TypesDistinct DEF TakeText, cvars, hvars, TInv, QueueType
<1> HIDE DEF x
<1>2. Once'
  <2>1. \A j : Author(j)' = Author(j)
    BY <1>1 DEF Author
  <2> QED
    BY <1>1, <2>1 DEF RelayInv, Once
<1>3. NotYet' /\ Buffers'
  BY <1>1 DEF RelayInv, NotYet, Buffers
<1>4. /\ relayed \in Seq(Message) /\ Len(relayed) \in Nat
      /\ relayed' # <<>> /\ Len(relayed') = Len(relayed) + 1
      /\ relayed'[Len(relayed) + 1] = x
  <2>1. relayed \in Seq(Message) /\ x \in Message /\ relayed' = Append(relayed, x)
    BY <1>1, Queues
  <2> QED
    BY ONLY <2>1
<1>5. Relaying'
  <2>1. serving'[1] = x
    BY <1>1
  <2> QED
    BY <1>1, <1>4, <2>1 DEF RelayInv, Once, Relaying
<1>6. ShownInOrder'
  <2> SUFFICES ASSUME NEW c \in Clients
               PROVE  InOrder(ToClient(c)', relayed', SentTo(c)')
    BY DEF ShownInOrder
  <2>1. c \in ToSet(cl) /\ c \notin ToSet(todo)
    BY <1>1, BothConnected DEF RelayInv, ToSet
  <2>2. SentTo(c) = Len(relayed) /\ SentTo(c)' = Len(relayed)
    <3>1. Len(relayed) + 1 - 1 = Len(relayed) /\ Len(relayed) - 0 = Len(relayed)
      BY <1>4
    <3> QED
      <4>1. SentTo(c) = Len(relayed) - 0
        BY <1>1, <2>1 DEF SentTo
      <4>2. SentTo(c)' = Len(relayed) + 1 - 1
        <5>1. Len(cl') = 2 /\ c \in ToSet(todo') /\ Len(relayed') = Len(relayed) + 1
          BY <1>1, <1>4, <2>1
        <5>2. SentTo(c)' = Len(relayed') - 1
          BY ONLY <5>1 DEF SentTo
        <5> QED
          BY <5>1, <5>2
      <4> QED
        BY <3>1, <4>1, <4>2
  <2>3. InOrder(ToClient(c), relayed, Len(relayed)) /\ ToClient(c)' = ToClient(c)
    BY <1>1, <2>2 DEF RelayInv, ShownInOrder, ToClient
  <2>4. InOrder(ToClient(c), Append(relayed, x), Len(relayed))
    <3>1. ToClient(c) \in Seq(Message) /\ Len(relayed) \in 0..Len(relayed)
      BY <1>4, Queues
    <3> QED
      BY <1>1, <1>4, <2>3, <3>1, OrderGrows
  <2> QED
    BY <1>1, <2>2, <2>3, <2>4
<1> QED
  BY <1>2, <1>3, <1>5, <1>6 DEF RelayInv

\* queueing it for the next client, behind all its earlier ones,
LEMMA SendTextOrder ==
  ASSUME TInv, RelayInv, SendText
  PROVE  RelayInv'
<1>1. PICK d \in Clients : d = Head(todo)
  BY Queues DEF SendText
<1> DEFINE k == Len(relayed)
           m == [serving[1] EXCEPT !.relay = k]
<1>2. /\ todo # <<>> /\ todo' = Tail(todo) /\ tokill' = <<d>>
      /\ UNCHANGED <<cl, serving, cpc, mtype, mtext, sig, relayed, shown>>
      /\ msgsnd(d, m)
  BY <1>1 DEF SendText, cvars, hvars
<1>3. /\ k \in Nat \ {0} /\ relayed \in Seq(Message) /\ relayed[k] \in Message
      /\ m = [relayed[k] EXCEPT !.relay = k] /\ m \in Message
  <2>1. relayed \in Seq(Message) /\ relayed # <<>> /\ serving[1] = relayed[k]
    BY <1>2, Queues DEF RelayInv, Relaying
  <2>2. k \in Nat \ {0} /\ relayed[k] \in Message
    BY ONLY <2>1
  <2> QED
    BY <2>1, <2>2 DEF Message
<1> HIDE DEF m
<1>4. /\ mq'[d] = Append(mq[d], m) /\ mq'[ConnectType] = mq[ConnectType]
      /\ \A c \in Clients \ {d} : mq'[c] = mq[c]
  BY <1>2, <1>3, SendQueue, TypesDistinct DEF TInv, QueueType
<1>5. Once'
  BY <1>2, <1>4 DEF RelayInv, Once, Author
<1>6. NotYet' /\ Buffers' /\ Len(cl) = 2
  <2>1. ~(Len(cl) < 2)
    BY <1>2 DEF RelayInv, NotYet
  <2>2. Len(cl) = 2
    BY <2>1, BothConnected DEF RelayInv
  <2> QED
    BY <1>2, <2>2 DEF RelayInv, NotYet, Buffers
<1>7. /\ d \in ToSet(todo) /\ d \notin ToSet(todo')
      /\ \A c \in Clients \ {d} : c \in ToSet(todo') <=> c \in ToSet(todo)
      /\ \A i, j \in 1..Len(todo') : i # j => todo'[i] # todo'[j]
  <2>1. /\ todo \in Seq(Clients) /\ todo # <<>> /\ d = Head(todo) /\ todo' = Tail(todo)
        /\ \A i, j \in 1..Len(todo) : i # j => todo[i] # todo[j]
    BY <1>1, <1>2, Queues DEF RelayInv, Relaying
  <2>2. /\ Len(todo) \in Nat \ {0} /\ DOMAIN todo = 1..Len(todo) /\ d = todo[1]
        /\ DOMAIN todo' = 1..Len(todo) - 1 /\ Len(todo') = Len(todo) - 1
        /\ \A i \in 1..Len(todo) - 1 : todo'[i] = todo[i + 1] /\ i + 1 \in 1..Len(todo)
                                       /\ i + 1 # 1
        /\ 1 \in 1..Len(todo)
        /\ \A i \in 1..Len(todo) : i = 1 \/ (i - 1 \in 1..Len(todo) - 1 /\ (i - 1) + 1 = i)
    BY ONLY <2>1
  <2>3. d \in ToSet(todo)
    BY <2>2 DEF ToSet
  <2>4. d \notin ToSet(todo')
    BY <2>1, <2>2 DEF ToSet
  <2>5. ASSUME NEW c \in Clients \ {d}
        PROVE  c \in ToSet(todo') <=> c \in ToSet(todo)
    <3>1. ASSUME c \in ToSet(todo) PROVE c \in ToSet(todo')
      <4>1. PICK i \in 1..Len(todo) : c = todo[i]
        BY <2>2, <3>1 DEF ToSet
      <4>2. i - 1 \in 1..Len(todo) - 1 /\ (i - 1) + 1 = i
        BY <2>2, <4>1
      <4>3. todo'[i - 1] = c
        BY <2>2, <4>1, <4>2
      <4> QED
        BY <2>2, <4>2, <4>3 DEF ToSet
    <3>2. ASSUME c \in ToSet(todo') PROVE c \in ToSet(todo)
      BY <2>2, <3>2 DEF ToSet
    <3> QED
      BY <3>1, <3>2
  <2>6. ASSUME NEW i \in 1..Len(todo'), NEW j \in 1..Len(todo'), i # j
        PROVE  todo'[i] # todo'[j]
    <3>1. /\ todo'[i] = todo[i + 1] /\ i + 1 \in 1..Len(todo)
          /\ todo'[j] = todo[j + 1] /\ j + 1 \in 1..Len(todo) /\ i + 1 # j + 1
      BY <2>2, <2>6
    <3> QED
      BY <2>1, <3>1
  <2> QED
    BY <2>3, <2>4, <2>5, <2>6
<1>8. Relaying'
  BY <1>2, <1>7 DEF RelayInv, Relaying
<1>9. ShownInOrder'
  <2> SUFFICES ASSUME NEW c \in Clients
               PROVE  InOrder(ToClient(c)', relayed, SentTo(c)')
    BY <1>2 DEF ShownInOrder
  <2>1. CASE c # d
    BY <1>2, <1>4, <1>7, <2>1 DEF RelayInv, ShownInOrder, ToClient, SentTo
  <2>2. CASE c = d
    <3>1. SentTo(c) = k - 1 /\ SentTo(c)' = k
      BY <1>2, <1>3, <1>6, <1>7, <2>2 DEF SentTo
    <3>2. ToClient(c)' = Append(ToClient(c), m)
      <4>1. shown[c] \in Seq(Message) /\ mq[c] \in Seq(Message)
        BY Queues, TypesDistinct
      <4>2. shown[c] \o Append(mq[c], m) = Append(shown[c] \o mq[c], m)
        BY <1>3, <4>1, StreamMoves
      <4> QED
        BY <1>2, <1>4, <2>2, <4>2 DEF ToClient
    <3>3. InOrder(ToClient(c), relayed, k - 1)
      BY <3>1 DEF RelayInv, ShownInOrder
    <3>4. /\ k - 1 \in Nat /\ m = [relayed[(k - 1) + 1] EXCEPT !.relay = (k - 1) + 1]
          /\ (k - 1) + 1 = k
      BY <1>3
    <3>5. InOrder(Append(ToClient(c), m), relayed, (k - 1) + 1)
      BY <1>3, <3>3, <3>4, Queues, OrderNext
    <3> QED
      BY <3>1, <3>2, <3>4, <3>5
  <2> QED
    BY <2>1, <2>2
<1> QED
  BY <1>5, <1>6, <1>8, <1>9 DEF RelayInv

\* the signal after it, which moves no text,
LEMMA SignalOrder ==
  ASSUME TInv, RelayInv, Signal
  PROVE  RelayInv'
<1>1. /\ tokill # <<>> /\ tokill' = <<>> /\ (todo # <<>> => serving' = serving)
      /\ UNCHANGED <<mq, cl, todo, cpc, mtype, mtext, relayed, shown>>
  BY DEF Signal, qvars, cvars, hvars
<1>2. ~(Len(cl) < 2)
  BY <1>1 DEF RelayInv, NotYet
<1>3. Once' /\ NotYet' /\ Buffers' /\ Relaying'
  BY <1>1, <1>2 DEF RelayInv, Once, Author, NotYet, Buffers, Relaying
<1>4. ShownInOrder'
  BY <1>1, OrderQuiet DEF ToClient
<1> QED
  BY <1>3, <1>4 DEF RelayInv

\* a client's connect message,
LEMMA ConnectOrder ==
  ASSUME TInv, RelayInv, NEW d \in Clients, SendConnect(d)
  PROVE  RelayInv'
<1> DEFINE q == mq[ConnectType]
<1> PICK l \in Nat : l = Len(q)
  BY Queues, TypesDistinct
<1>1. /\ cpc[d] = "connect" /\ cpc' = [cpc EXCEPT ![d] = "scanf"]
      /\ UNCHANGED <<cl, serving, todo, tokill, mtype, mtext, sig, relayed, shown>>
      /\ msgsnd(ConnectType, Mesg(d))
  BY DEF SendConnect, svars, hvars
<1>2. Mesg(d) \in Message /\ atoi(Mesg(d)) = d
  BY <1>1, TextNames DEF Mesg, Message, TInv, ClientType, RelayInv, Buffers, atoi
<1>3. /\ mq'[ConnectType] = Append(q, Mesg(d))
      /\ \A c \in Clients : mq'[c] = mq[c]
  BY <1>1, <1>2, SendQueue, TypesDistinct DEF TInv, QueueType
<1>4. /\ l \in Nat /\ Len(mq'[ConnectType]) = l + 1
      /\ Author(l + 1)' = d
      /\ \A j \in 1..l : Author(j)' = Author(j)
      /\ \A j \in 1..l + 1 : j \in 1..l \/ j = l + 1
  <2>1. /\ q \in Seq(Message) /\ Mesg(d) \in Message /\ l = Len(q)
        /\ mq'[ConnectType] = Append(q, Mesg(d))
    BY <1>2, <1>3, Queues, TypesDistinct
  <2>2. /\ l \in Nat /\ Len(mq'[ConnectType]) = l + 1
        /\ mq'[ConnectType][l + 1] = Mesg(d)
        /\ \A j \in 1..l : mq'[ConnectType][j] = q[j]
        /\ \A j \in 1..l + 1 : j \in 1..l \/ j = l + 1
    BY ONLY <2>1
  <2> QED
    BY <1>2, <2>2, Zenon DEF Author
<1>5. /\ \A j \in 1..l : Author(j) # d /\ cpc'[Author(j)] # "connect"
      /\ \A i \in 1..Len(cl) : cl[i] # d /\ cpc'[cl[i]] # "connect"
      /\ cpc'[d] = "scanf" /\ \A c \in Clients \ {d} : cpc'[c] = cpc[c]
  <2>1. cpc'[d] = "scanf" /\ \A c \in Clients \ {d} : cpc'[c] = cpc[c]
    BY <1>1 DEF TInv, ClientType
  <2>2. \A j \in 1..l : Author(j) \in Clients
    BY Authors
  <2>3. \A i \in 1..Len(cl) : cl[i] \in Clients
    BY Authors
  <2> QED
    BY <1>1, <2>1, <2>2, <2>3 DEF RelayInv, Once
<1> HIDE DEF q
<1>6. Once'
  <2>1. Once
    BY DEF RelayInv
  <2>2. Len(mq[ConnectType]) = l /\ Len(mq'[ConnectType]) = l + 1
    BY <1>4 DEF q
  <2>3. \A i, j \in 1..l + 1 : i # j => Author(i)' # Author(j)'
    BY <1>4, <1>5, <2>1, <2>2 DEF Once
  <2>4. \A i \in 1..Len(cl), j \in 1..l + 1 : cl[i] # Author(j)'
    BY <1>4, <1>5, <2>1, <2>2 DEF Once
  <2>5. \A j \in 1..l + 1 : cpc'[Author(j)'] # "connect"
    BY <1>4, <1>5
  <2> QED
    BY <1>1, <1>5, <2>1, <2>2, <2>3, <2>4, <2>5 DEF Once
<1>7. NotYet' /\ Buffers' /\ Relaying'
  BY <1>1, <1>5 DEF RelayInv, NotYet, Buffers, Relaying
<1>8. ShownInOrder'
  BY <1>1, <1>3, OrderQuiet DEF ToClient
<1> QED
  BY <1>6, <1>7, <1>8 DEF RelayInv

\* a client's word, which may go to any queue but never connects,
LEMMA SendWordOrder ==
  ASSUME TInv, RelayInv, NEW d \in Clients, SendWord(d)
  PROVE  RelayInv'
<1>1. PICK t \in Types \ {ConnectType} : msgsnd(t, Mesg(d))
  BY DEF SendWord, TInv, ClientType, RelayInv, Buffers
<1>2. /\ cpc' = [cpc EXCEPT ![d] = "scanf"] /\ cpc[d] = "send"
      /\ UNCHANGED <<cl, serving, todo, tokill, mtype, mtext, sig, relayed, shown>>
  BY DEF SendWord, svars, hvars
<1>3. Mesg(d) \in Message /\ Mesg(d).relay = 0
  BY DEF Mesg, Message, TInv, ClientType
<1>4. mq'[t] = Append(mq[t], Mesg(d)) /\ \A u \in Types \ {t} : mq'[u] = mq[u]
  BY <1>1, <1>3, SendQueue DEF TInv, QueueType
<1>5. \A c \in Clients : cpc'[c] = cpc[c] \/ (cpc'[c] = "scanf" /\ cpc[c] = "send")
  BY <1>2 DEF TInv, ClientType
<1>6. Once' /\ NotYet' /\ Buffers' /\ Relaying'
  <2>1. mq'[ConnectType] = mq[ConnectType]
    BY <1>1, <1>4, TypesDistinct
  <2>2. \A j : Author(j)' = Author(j)
    BY <2>1 DEF Author
  <2>3. /\ \A i \in 1..Len(cl) : cl[i] \in Clients
        /\ \A j \in 1..Len(mq[ConnectType]) : Author(j) \in Clients
    BY Authors
  <2>4. Once'
    BY <1>2, <1>5, <2>1, <2>2, <2>3 DEF RelayInv, Once
  <2> QED
    BY <1>2, <1>5, <2>4 DEF RelayInv, NotYet, Buffers, Relaying
<1>7. ShownInOrder'
  <2> SUFFICES ASSUME NEW c \in Clients
               PROVE  InOrder(ToClient(c)', relayed, SentTo(c)')
    BY <1>2 DEF ShownInOrder
  <2>1. SentTo(c)' = SentTo(c) /\ InOrder(ToClient(c), relayed, SentTo(c))
    BY <1>2 DEF SentTo, RelayInv, ShownInOrder
  <2>2. CASE c = t
    <3>1. shown[c] \in Seq(Message) /\ mq[c] \in Seq(Message) /\ ToClient(c) \in Seq(Message)
      BY Queues, TypesDistinct
    <3>2. shown[c] \o Append(mq[c], Mesg(d)) = Append(shown[c] \o mq[c], Mesg(d))
      BY <1>3, <3>1, StreamMoves
    <3>3. ToClient(c)' = Append(ToClient(c), Mesg(d))
      BY <1>2, <1>4, <2>2, <3>2 DEF ToClient
    <3>4. InOrder(Append(ToClient(c), Mesg(d)), relayed, SentTo(c))
      BY <1>3, <2>1, <3>1, OrderKept
    <3> QED
      BY <2>1, <3>3, <3>4
  <2>3. CASE c # t
    BY <1>2, <1>4, <2>1, <2>3, TypesDistinct DEF ToClient
  <2> QED
    BY <2>2, <2>3
<1> QED
  BY <1>6, <1>7 DEF RelayInv

\* and what a client does before it sends.
LEMMA WordOrder ==
  ASSUME TInv, RelayInv, NEW d \in Clients,
         TypeWord(d) \/ StoreLetter(d) \/ EndWord(d) \/ SetType(d)
  PROVE  RelayInv'
<1>1. /\ UNCHANGED <<mq, cl, serving, todo, tokill, sig, relayed, shown>>
      /\ \A c \in Clients : /\ cpc'[c] = "connect" <=> cpc[c] = "connect"
                            /\ cpc[c] = "connect" => mtext'[c] = mtext[c]
                            /\ cpc'[c] = "send" => mtype'[c] = ChatType
                                  \/ (cpc[c] = "send" /\ mtype'[c] = mtype[c])
  <2>1. CASE TypeWord(d)
    BY <2>1 DEF TypeWord, qvars, svars, TInv, ClientType
  <2>2. CASE SetType(d)
    BY <2>2 DEF SetType, qvars, svars, hvars, TInv, ClientType
  <2>3. CASE StoreLetter(d) \/ EndWord(d)
    BY <2>3 DEF StoreLetter, EndWord, qvars, svars, hvars, TInv, ClientType
  <2> QED
    BY <2>1, <2>2, <2>3
<1>2. Once'
  <2>1. \A j : Author(j)' = Author(j)
    BY <1>1 DEF Author
  <2>2. /\ \A i \in 1..Len(cl) : cl[i] \in Clients
        /\ \A j \in 1..Len(mq[ConnectType]) : Author(j) \in Clients
    BY Authors
  <2> QED
    BY <1>1, <2>1, <2>2 DEF RelayInv, Once
<1>3. NotYet' /\ Buffers' /\ Relaying'
  BY <1>1, TypesDistinct DEF RelayInv, NotYet, Buffers, Relaying
<1>4. ShownInOrder'
  BY <1>1, OrderQuiet DEF ToClient
<1> QED
  BY <1>2, <1>3, <1>4 DEF RelayInv

(* The handler only moves a message from the queue to the screen.          *)
LEMMA HandlerOrder ==
  ASSUME TInv, RelayInv, NEW d \in Clients, Handler(d)
  PROVE  RelayInv'
<1>1. /\ sig[d] /\ mtype' = [mtype EXCEPT ![d] = d]
      /\ shown' = [shown EXCEPT ![d] = Append(@, Head(mq[d]))]
      /\ \A c \in Clients \ {d} : mtext'[c] = mtext[c]
      /\ UNCHANGED <<cl, serving, todo, tokill, relayed>>
      /\ \A c \in Clients : cpc'[c] = cpc[c] \/ (cpc'[c] = "scanf" /\ cpc[c] = "send")
  BY DEF Handler, svars, TInv, ClientType
<1>2. /\ mq[d] # <<>> /\ mq'[d] = Tail(mq[d]) /\ mq'[ConnectType] = mq[ConnectType]
      /\ \A c \in Clients \ {d} : mq'[c] = mq[c]
  BY ReceiveQueue, TypesDistinct DEF Handler, TInv, QueueType
<1>3. ~(Len(cl) < 2) /\ cpc[d] # "connect"
  <2>1. ~(Len(cl) < 2)
    BY <1>1 DEF RelayInv, NotYet
  <2> QED
    BY <2>1, BothConnected DEF RelayInv
<1>4. Once' /\ NotYet' /\ Buffers' /\ Relaying'
  <2>1. \A j : Author(j)' = Author(j)
    BY <1>2 DEF Author
  <2>2. /\ \A i \in 1..Len(cl) : cl[i] \in Clients
        /\ \A j \in 1..Len(mq[ConnectType]) : Author(j) \in Clients
    BY Authors
  <2>3. Once'
    BY <1>1, <1>2, <2>1, <2>2 DEF RelayInv, Once
  <2>4. /\ mtype'[d] = d /\ d # ConnectType
        /\ \A c \in Clients \ {d} : mtype'[c] = mtype[c]
    BY <1>1, TypesDistinct DEF TInv, ClientType
  <2>5. Buffers'
    BY <1>1, <1>3, <2>4 DEF RelayInv, Buffers
  <2> QED
    BY <1>1, <1>3, <2>3, <2>5 DEF RelayInv, NotYet, Relaying
<1>5. \A c \in Clients : ToClient(c)' = ToClient(c)
  <2> SUFFICES ASSUME NEW c \in Clients PROVE ToClient(c)' = ToClient(c)
    OBVIOUS
  <2>1. CASE c = d
    <3>1. shown[d] \in Seq(Message) /\ mq[d] \in Seq(Message) /\ mq[d] # <<>>
          /\ Head(mq[d]) \in Message
      <4>1. shown[d] \in Seq(Message) /\ mq[d] \in Seq(Message) /\ mq[d] # <<>>
        BY <1>2, Queues, TypesDistinct
      <4> QED
        BY <4>1
    <3>2. Append(shown[d], Head(mq[d])) \o Tail(mq[d]) = shown[d] \o mq[d]
      BY <3>1, StreamMoves
    <3>3. shown'[d] = Append(shown[d], Head(mq[d]))
      BY <1>1 DEF TInv, LogType
    <3> QED
      BY <1>2, <2>1, <3>2, <3>3 DEF ToClient
  <2>2. CASE c # d
    <3>1. shown'[c] = shown[c] /\ mq'[c] = mq[c]
      BY <1>1, <1>2, <2>2 DEF TInv, LogType
    <3> QED
      BY <3>1 DEF ToClient
  <2> QED
    BY <2>1, <2>2
<1>6. ShownInOrder'
  BY <1>1, <1>5, OrderQuiet
<1> QED
  BY <1>4, <1>6 DEF RelayInv

(* Every text the server took reaches every client's screen or queue once  *)
(* and in order, but for the one being relayed, however signals merge and  *)
(* whatever the clients queue for themselves in between.                   *)
THEOREM TextsInOrder == Spec => []ShownInOrder
<1>1. Init => RelayInv
  <2> SUFFICES ASSUME Init PROVE RelayInv
    OBVIOUS
  <2>1. /\ cl = <<>> /\ todo = <<>> /\ tokill = <<>> /\ relayed = <<>>
        /\ mq[ConnectType] = <<>> /\ \A c \in Clients : ~sig[c]
    BY TypesDistinct DEF Init, msgget
  <2>2. Once /\ NotYet /\ Relaying
    BY <2>1 DEF Once, NotYet, Relaying
  <2>3. Buffers
    BY DEF Init, Buffers
  <2>4. ASSUME NEW c \in Clients
        PROVE  InOrder(ToClient(c), relayed, SentTo(c))
    <3>1. ToClient(c) = <<>>
      <4>1. shown[c] = <<>> /\ mq[c] = <<>>
        BY TypesDistinct DEF Init, msgget
      <4>2. <<>> \o <<>> = <<>>
        OBVIOUS
      <4> QED
        BY <4>1, <4>2 DEF ToClient
    <3>2. SentTo(c) = 0
      BY <2>1 DEF SentTo
    <3>3. Served(<<>>) = {}
      BY DEF Served
    <3>4. InOrder(<<>>, relayed, 0)
      BY <3>3 DEF InOrder
    <3> QED
      BY <3>1, <3>2, <3>4
  <2> QED
    BY <2>2, <2>3, <2>4 DEF RelayInv, ShownInOrder
<1>2. RelayInv /\ TInv /\ [Next]_vars => RelayInv'
  <2> SUFFICES ASSUME RelayInv, TInv, [Next]_vars PROVE RelayInv'
    OBVIOUS
  <2>1. CASE UNCHANGED vars
    <3>1. UNCHANGED <<mq, cl, serving, todo, tokill, cpc, mtype, mtext, sig, relayed, shown>>
      BY <2>1 DEF vars, qvars, svars, cvars, hvars
    <3>2. Once' /\ NotYet' /\ Buffers' /\ Relaying'
      BY <3>1 DEF RelayInv, Once, Author, NotYet, Buffers, Relaying
    <3>3. ShownInOrder'
      BY <3>1, OrderQuiet DEF ToClient
    <3> QED
      BY <3>2, <3>3 DEF RelayInv
  <2> QED
    BY <2>1, AcceptOrder, TakeOrder, SendTextOrder, SignalOrder, ConnectOrder,
       SendWordOrder, WordOrder, HandlerOrder DEF Next
<1> QED
  BY <1>1, <1>2, TypesHold, PTL DEF Spec, RelayInv
=============================================================================
