--------------------------- MODULE GroupChat_proofs ---------------------------
(* Proofs about GroupChat, for any clients, groups, queue size and bounds.  *)
EXTENDS GroupChat, SequenceTheorems, TLAPS

USE DEF qvars, svars, cvars

(* What a blocking send leaves in the queue: one more message, at the end  *)
(* of its type.                                                            *)
LEMMA SendQueue ==
  ASSUME TypeOK, NEW t \in Types, NEW m \in MsgOf(t), msgsnd(t, m)
  PROVE  /\ mq' \in [Types -> Seq(Connect \cup Text)]
         /\ \A u \in Types : mq'[u] \in Seq(MsgOf(u))
         /\ qnum' \in Int
         /\ mq'[t] = Append(mq[t], m)
         /\ \A u \in Types \ {t} : mq'[u] = mq[u]
<1>1. m \in Connect \cup Text
  BY DEF MsgOf
<1> QED
  BY <1>1 DEF TypeOK, msgsnd

(* What a receive takes: the oldest message of its type.                   *)
LEMMA ReceiveQueue ==
  ASSUME TypeOK, NEW t \in Types, msgrcv(t)
  PROVE  /\ mq' \in [Types -> Seq(Connect \cup Text)]
         /\ \A u \in Types : mq'[u] \in Seq(MsgOf(u))
         /\ qnum' \in Int
         /\ mq[t] # <<>>
         /\ Head(mq[t]) \in MsgOf(t)
         /\ mq'[t] = Tail(mq[t])
         /\ \A u \in Types \ {t} : mq'[u] = mq[u]
<1>1. mq[t] \in Seq(MsgOf(t)) /\ mq[t] \in Seq(Connect \cup Text) /\ mq[t] # <<>>
  BY DEF TypeOK, msgrcv
<1>2. Head(mq[t]) \in MsgOf(t) /\ Tail(mq[t]) \in Seq(MsgOf(t))
      /\ Tail(mq[t]) \in Seq(Connect \cup Text)
  BY <1>1
<1> QED
  BY <1>1, <1>2 DEF TypeOK, msgrcv

(* The message types are distinct, so each kind of message is of its type. *)
LEMMA KindOfType ==
  /\ ConnectType \in Types /\ ChatType \in Types /\ Clients \subseteq Types
  /\ MsgOf(ConnectType) = Connect /\ MsgOf(ChatType) = Text
  /\ \A c \in Clients : MsgOf(c) = Text
<1>1. /\ ConnectType \in Types /\ ChatType \in Types /\ Clients \subseteq Types
  BY DEF Types
<1>2. /\ ConnectType # ChatType
      /\ \A c \in Clients : c # ConnectType /\ c # ChatType
  BY PidAssumption DEF PidAssumption, ConnectType, ChatType
<1>3. /\ MsgOf(ConnectType) = Connect /\ MsgOf(ChatType) = Text
      /\ \A c \in Clients : MsgOf(c) = Text
  BY <1>2 DEF MsgOf
<1> QED
  BY <1>1, <1>3

(* The first digit of a group number is the number of a group.             *)
LEMMA FirstDigitGroup == \A g \in Groups : FirstDigit(g) \in Groups
BY GroupAssumption DEF GroupAssumption

(* Every reachable state of server, clients and queue is well typed; in    *)
(* particular the relay loop (server.c 72) never indexes past the member   *)
(* list of the group it relays to.                                         *)
THEOREM TypeCorrect == Spec => []TypeOK
<1> USE KindOfType, FirstDigitGroup
<1>1. Init => TypeOK
  BY BoundAssumption DEF Init, TypeOK, msgget, MsgOf, BoundAssumption
<1>2. TypeOK /\ [Next]_vars => TypeOK'
  <2> SUFFICES ASSUME TypeOK, [Next]_vars PROVE TypeOK'
    OBVIOUS
  <2>1. CASE AcceptClient
    <3> DEFINE m == Head(mq[ConnectType])
    <3>1. m \in Connect
      BY <2>1, ReceiveQueue DEF AcceptClient
    <3>2. m.from \in Clients /\ GroupAsked(m) \in Groups
      BY <3>1 DEF Connect, GroupAsked
    <3>3. client' \in Seq(Clients) /\ grp' \in [Groups -> Seq(Clients)]
          /\ spc' \in {"connect", "recv"}
      BY <2>1, <3>2 DEF AcceptClient, TypeOK
    <3> QED
      BY <2>1, <3>3, ReceiveQueue DEF AcceptClient, TypeOK
  <2>2. CASE TakeLine
    <3> DEFINE m == Head(mq[ChatType])
               g == FirstDigit(m.grp)
    <3>1. m \in Text
      BY <2>2, ReceiveQueue DEF TakeLine
    <3>2. g \in Groups
      BY <3>1 DEF Text
    <3>3. relayed' \in [Groups -> Seq(Text)]
      BY <2>2, <3>1, <3>2 DEF TakeLine, TypeOK
    <3>4. spc' = "relay" => j' \in 1..Len(grp'[Currgrp'])
      BY <2>2, <3>2 DEF TakeLine, TypeOK, Currgrp
    <3>5. /\ mq' \in [Types -> Seq(Connect \cup Text)]
          /\ \A u \in Types : mq'[u] \in Seq(MsgOf(u))
          /\ qnum' \in Int
      BY <2>2, ReceiveQueue DEF TakeLine
    <3>6. spc' \in {"recv", "relay"} /\ message' = m /\ j' = 1
          /\ UNCHANGED <<client, grp, cvars>>
      BY <2>2 DEF TakeLine
    <3> QED
      BY <3>1, <3>3, <3>4, <3>5, <3>6 DEF TypeOK
  <2>3. CASE RelayToMember
    <3>1. message \in Text /\ Currgrp \in Groups /\ j \in 1..Len(grp[Currgrp])
      BY <2>3 DEF RelayToMember, TypeOK, Currgrp, Text
    <3>2. grp[Currgrp][j] \in Clients
      BY <3>1 DEF TypeOK
    <3>3. msgsnd(grp[Currgrp][j], message)
      BY <2>3 DEF RelayToMember, Currgrp
    <3>4. j' \in Nat \ {0} /\ spc' \in {"recv", "relay"}
          /\ (spc' = "relay" => j' \in 1..Len(grp[Currgrp]))
      <4>1. Len(grp[Currgrp]) \in Nat
        BY <3>1 DEF TypeOK
      <4> QED
        BY <2>3, <3>1, <4>1 DEF RelayToMember, MoreMembers, Currgrp
    <3> QED
      BY <2>3, <3>1, <3>2, <3>3, <3>4, SendQueue DEF RelayToMember, TypeOK, Currgrp
  <2>4. ASSUME NEW c \in Clients, Start(c) PROVE TypeOK'
    BY <2>4 DEF Start, TypeOK, Currgrp
  <2>5. ASSUME NEW c \in Clients, SendConnect(c) PROVE TypeOK'
    <3>1. [from |-> c, grp |-> cgrp[c]] \in Connect
      BY DEF Connect, TypeOK
    <3> QED
      BY <2>5, <3>1, SendQueue DEF SendConnect, TypeOK, Currgrp
  <2>6. ASSUME NEW c \in Clients, TypeLine(c) PROVE TypeOK'
    <3>1. sent' \in [Clients -> 0..MaxSends]
      BY <2>6, BoundAssumption DEF TypeLine, TypeOK, BoundAssumption
    <3> QED
      BY <2>6, <3>1, SMTT(30) DEF TypeLine, TypeOK, Currgrp
  <2>7. ASSUME NEW c \in Clients, SendLine(c) PROVE TypeOK'
    <3>1. [from |-> c, grp |-> cgrp[c], k |-> sent[c]] \in Text
      BY <2>7, BoundAssumption DEF SendLine, Text, TypeOK, BoundAssumption
    <3> QED
      BY <2>7, <3>1, SendQueue DEF SendLine, TypeOK, Currgrp
  <2>8. ASSUME NEW c \in Clients, Receive(c) PROVE TypeOK'
    <3>1. /\ mq' \in [Types -> Seq(Connect \cup Text)]
          /\ \A u \in Types : mq'[u] \in Seq(MsgOf(u))
          /\ qnum' \in Int
          /\ Head(mq[c]) \in Text
      BY <2>8, ReceiveQueue DEF Receive
    <3>2. received' \in [Clients -> Seq(Text)]
      BY <2>8, <3>1 DEF Receive, TypeOK
    <3> QED
      BY <2>8, <3>1, <3>2 DEF Receive, TypeOK, Currgrp
  <2>9. ASSUME NEW c \in Clients, Quit(c) PROVE TypeOK'
    BY <2>9 DEF Quit, TypeOK, Currgrp
  <2>10. CASE UNCHANGED vars
    BY <2>10 DEF vars, TypeOK, Currgrp
  <2> QED
    BY <2>1, <2>2, <2>3, <2>4, <2>5, <2>6, <2>7, <2>8, <2>9, <2>10 DEF Next
<1> QED
  BY <1>1, <1>2, PTL DEF Spec

-----------------------------------------------------------------------------
(* Sequences: a text moves from the head of the queue to the end of what   *)
(* was printed, and a new text goes to the end of both.                    *)
LEMMA MoveHead ==
  ASSUME NEW S, NEW a \in Seq(S), NEW b \in Seq(S), b # <<>>
  PROVE  Append(a, Head(b)) \o Tail(b) = a \o b
<1>1. /\ Head(b) \in S /\ Tail(b) \in Seq(S)
      /\ Len(b) >= 1 /\ Len(Tail(b)) = Len(b) - 1
      /\ \A i \in 1..Len(Tail(b)) : Tail(b)[i] = b[i + 1]
      /\ Head(b) = b[1]
  OBVIOUS
<1>2. Append(a, Head(b)) \o Tail(b) \in Seq(S) /\ a \o b \in Seq(S)
  BY <1>1
<1>3. Len(Append(a, Head(b)) \o Tail(b)) = Len(a \o b)
  BY <1>1
<1>4. \A i \in 1..Len(a \o b) : (Append(a, Head(b)) \o Tail(b))[i] = (a \o b)[i]
  BY <1>1
<1> QED
  BY <1>2, <1>3, <1>4, SeqEqual

\* Appending to the second of two joined sequences.
LEMMA AppendEnd ==
  ASSUME NEW S, NEW x \in S, NEW a \in Seq(S), NEW b \in Seq(S)
  PROVE  a \o Append(b, x) = Append(a \o b, x)
<1>1. a \o Append(b, x) \in Seq(S) /\ Append(a \o b, x) \in Seq(S)
  OBVIOUS
<1>2. Len(a \o Append(b, x)) = Len(Append(a \o b, x))
  OBVIOUS
<1>3. \A i \in 1..Len(Append(a \o b, x)) :
        (a \o Append(b, x))[i] = Append(a \o b, x)[i]
  OBVIOUS
<1> QED
  BY <1>1, <1>2, <1>3, SeqEqual

\* What comes after the first of two joined sequences.
LEMMA NextOfConcat ==
  ASSUME NEW S, NEW a \in Seq(S), NEW b \in Seq(S), b # <<>>
  PROVE  /\ Len(a) + 1 \in 1..Len(a \o b)
         /\ (a \o b)[Len(a) + 1] = Head(b)
<1>1. Len(b) >= 1 /\ b[1] = Head(b) /\ Len(a \o b) = Len(a) + Len(b)
  OBVIOUS
<1> QED
  BY <1>1

-----------------------------------------------------------------------------
(* The inductive invariant behind the delivery properties: types, who is   *)
(* in which list, and what each member has got.                            *)
IInv == TypeOK /\ Roster /\ TotalOrder

\* The inductive invariant holds at the start: nobody is listed, no log has a text.
LEMMA InitIInv == Init => Roster /\ TotalOrder
<1> SUFFICES ASSUME Init PROVE Roster /\ TotalOrder
  OBVIOUS
<1>1. /\ \A g \in Groups : grp[g] = <<>> /\ relayed[g] = <<>>
      /\ \A c \in Clients : received[c] = <<>> /\ mq[c] = <<>>
      /\ Waiting = <<>>
  BY KindOfType DEF Init, msgget, Waiting
<1>2. Roster
  BY <1>1 DEF Roster, ListsOK, WaitingOK, UnlistedOK, LogsOK
<1>3. TotalOrder
  BY <1>1 DEF TotalOrder
<1> QED
  BY <1>2, <1>3

(* The shape of the state, in the form the proofs below use it.            *)
LEMMA Shapes ==
  ASSUME TypeOK
  PROVE  /\ \A g \in Groups : grp[g] \in Seq(Clients)
         /\ \A g \in Groups : Len(grp[g]) \in Nat
         /\ \A g \in Groups : \A p \in 1..Len(grp[g]) : grp[g][p] \in Clients
         /\ \A g \in Groups : relayed[g] \in Seq(Text)
         /\ \A g \in Groups : Len(relayed[g]) \in Nat
         /\ \A c \in Clients : received[c] \in Seq(Text)
         /\ \A c \in Clients : mq[c] \in Seq(Text)
BY KindOfType DEF TypeOK

(* What accepting a client does: the pid at the head of the connect        *)
(* messages, in no list before, joins the list of its group and no other.  *)
NewPid == Head(Waiting).from
NewGrp == Head(Waiting).grp

\* What an accept does: who is accepted waited first in the queue, was not listed
\* yet, and names its own group.
LEMMA AcceptStep ==
  ASSUME TypeOK, Roster, AcceptClient
  PROVE  /\ 1 \in 1..Len(Waiting) /\ NewPid = Waiting[1].from
         /\ NewPid \in Clients /\ NewGrp \in Groups
         /\ Len(Waiting') = Len(Waiting) - 1
         /\ \A i \in 1..Len(Waiting') : Waiting'[i] = Waiting[i + 1]
         /\ \A d \in Clients : mq'[d] = mq[d]
         /\ UNCHANGED <<cpc, cgrp, received, relayed>>
         /\ spc = "connect" /\ spc' \in {"connect", "recv"}
         /\ cpc[NewPid] \in {"run", "gone"}
         /\ NewGrp = cgrp[NewPid] /\ ~Listed(NewPid)
         /\ \A q \in 1..Len(Waiting) : q # 1 => Waiting[q].from # NewPid
         /\ \A g \in Groups : \A p \in 1..Len(grp'[g]) :
              \/ p \in 1..Len(grp[g]) /\ grp'[g][p] = grp[g][p]
              \/ g = NewGrp /\ p = Len(grp[g]) + 1 /\ grp'[g][p] = NewPid
         /\ \A d \in Clients : Listed(d)' <=> (Listed(d) \/ d = NewPid)
<1>t. /\ \A g \in Groups : grp[g] \in Seq(Clients)
      /\ \A g \in Groups : Len(grp[g]) \in Nat
      /\ \A g \in Groups : \A p \in 1..Len(grp[g]) : grp[g][p] \in Clients
      /\ \A g \in Groups : relayed[g] \in Seq(Text)
      /\ \A g \in Groups : Len(relayed[g]) \in Nat
      /\ \A c \in Clients : received[c] \in Seq(Text)
      /\ \A c \in Clients : mq[c] \in Seq(Text)
  BY Shapes
<1>d. /\ DOMAIN grp = Groups /\ DOMAIN relayed = Groups
      /\ DOMAIN received = Clients /\ DOMAIN cpc = Clients
  BY DEF TypeOK
<1>w. /\ Waiting \in Seq(Connect)
      /\ Len(Waiting) \in Nat
      /\ \A p \in 1..Len(Waiting) : Waiting[p] \in Connect /\ Waiting[p].from \in Clients
  <2>1. Waiting \in Seq(Connect)
    BY KindOfType DEF TypeOK, Waiting
  <2>2. \A x \in Connect : x.from \in Clients /\ x.grp \in Groups
    BY DEF Connect
  <2> QED
    BY <2>1, <2>2
<1>q. ChatType \notin Clients /\ ConnectType \notin Clients /\ ChatType # ConnectType
  BY PidAssumption DEF PidAssumption, ChatType, ConnectType
<1>1. /\ Waiting # <<>> /\ NewPid = Waiting[1].from /\ NewGrp = Waiting[1].grp
      /\ NewPid \in Clients /\ NewGrp \in Groups
      /\ Waiting' = Tail(Waiting) /\ Len(Waiting') = Len(Waiting) - 1
      /\ \A i \in 1..Len(Waiting') : Waiting'[i] = Waiting[i + 1]
  <2>1. msgrcv(ConnectType)
    BY DEF AcceptClient
  <2>2. Waiting # <<>> /\ Waiting' = Tail(Waiting)
    BY <2>1, ReceiveQueue, KindOfType DEF Waiting
  <2>3. NewPid = Waiting[1].from /\ NewGrp = Waiting[1].grp /\ 1 \in 1..Len(Waiting)
    BY <1>w, <2>2 DEF NewPid, NewGrp
  <2>4. \A x \in Connect : x.from \in Clients /\ x.grp \in Groups
    BY DEF Connect
  <2> QED
    BY <1>w, <2>2, <2>3, <2>4
<1>2. /\ grp' = [grp EXCEPT ![NewGrp] = Append(@, NewPid)]
      /\ \A d \in Clients : mq'[d] = mq[d]
      /\ UNCHANGED <<cpc, cgrp, received, relayed>>
      /\ spc = "connect" /\ spc' \in {"connect", "recv"}
  BY <1>t, <1>q, ReceiveQueue, KindOfType DEF AcceptClient, Waiting, GroupAsked, NewPid, NewGrp
<1>a. Len(Waiting) \in Nat /\ 1 \in 1..Len(Waiting)
  BY <1>w, <1>1
<1>3. /\ cpc[NewPid] \in {"run", "gone"} /\ NewGrp = cgrp[NewPid] /\ ~Listed(NewPid)
      /\ \A q \in 1..Len(Waiting) : q # 1 => Waiting[q].from # NewPid
  BY <1>1, <1>a DEF Roster, ListsOK, WaitingOK, Listed
<1>4. \A g \in Groups : IF g = NewGrp
                         THEN /\ Len(grp'[g]) = Len(grp[g]) + 1
                              /\ grp'[g][Len(grp[g]) + 1] = NewPid
                              /\ \A p \in 1..Len(grp[g]) : grp'[g][p] = grp[g][p]
                         ELSE grp'[g] = grp[g]
  <2> SUFFICES ASSUME NEW g \in Groups
               PROVE  IF g = NewGrp
                        THEN /\ Len(grp'[g]) = Len(grp[g]) + 1
                             /\ grp'[g][Len(grp[g]) + 1] = NewPid
                             /\ \A p \in 1..Len(grp[g]) : grp'[g][p] = grp[g][p]
                        ELSE grp'[g] = grp[g]
    OBVIOUS
  <2>1. CASE g = NewGrp
    <3>1. grp'[g] = Append(grp[g], NewPid) /\ grp[g] \in Seq(Clients) /\ NewPid \in Clients
      BY <1>t, <1>d, <1>1, <1>2, <2>1
    <3> QED
      BY <2>1, <3>1
  <2>2. CASE g # NewGrp
    BY <1>d, <1>2, <2>2
  <2> QED
    BY <2>1, <2>2
<1>b. \A g \in Groups : \A p \in 1..Len(grp'[g]) :
        \/ p \in 1..Len(grp[g]) /\ grp'[g][p] = grp[g][p]
        \/ g = NewGrp /\ p = Len(grp[g]) + 1 /\ grp'[g][p] = NewPid
  BY <1>t, <1>4
<1>5. \A d \in Clients : Listed(d)' => Listed(d) \/ d = NewPid
  BY <1>b DEF Listed
<1>c. \A d \in Clients : Listed(d) \/ d = NewPid => Listed(d)'
  <2> SUFFICES ASSUME NEW d \in Clients, Listed(d) \/ d = NewPid
               PROVE  Listed(d)'
    OBVIOUS
  <2>1. CASE d = NewPid
    <3>1. Len(grp[NewGrp]) + 1 \in 1..Len(grp'[NewGrp]) /\ grp'[NewGrp][Len(grp[NewGrp]) + 1] = NewPid
      BY <1>t, <1>1, <1>4
    <3> QED
      BY <1>1, <2>1, <3>1 DEF Listed
  <2>2. CASE Listed(d)
    <3>0. PICK g \in Groups : \E p \in 1..Len(grp[g]) : grp[g][p] = d
      BY <2>2 DEF Listed
    <3>1. PICK p \in 1..Len(grp[g]) : grp[g][p] = d
      BY <3>0
    <3>2. p \in 1..Len(grp'[g]) /\ grp'[g][p] = d
      BY <1>t, <1>4, <3>1
    <3> QED
      BY <3>2 DEF Listed
  <2> QED
    BY <2>1, <2>2
<1> QED
  BY <1>1, <1>a, <1>2, <1>3, <1>b, <1>5, <1>c

(* A step that leaves the lists, the connect messages and what the members *)
(* have got alone, and takes no client back to before it connected, keeps  *)
(* the invariant.                                                          *)
LEMMA StatusKept ==
  ASSUME TypeOK, Roster, TotalOrder,
         UNCHANGED <<spc, grp, message, j, cgrp, received, relayed>>,
         Waiting' = Waiting,
         \A d \in Clients : mq'[d] = mq[d],
         \A d \in Clients : cpc[d] \in {"run", "gone"} => cpc'[d] \in {"run", "gone"}
  PROVE  Roster' /\ TotalOrder'
<1>1. \A g \in Groups : \A p \in 1..Len(grp[g]) : grp[g][p] \in Clients
  BY DEF TypeOK
<1>2. \A p \in 1..Len(Waiting) : Waiting[p].from \in Clients
  <2>1. Waiting \in Seq(Connect) /\ \A x \in Connect : x.from \in Clients
    BY KindOfType DEF TypeOK, Waiting, Connect
  <2> QED
    BY <2>1
<1>3. ListsOK' /\ WaitingOK'
  BY <1>1, <1>2 DEF Roster, ListsOK, WaitingOK
<1>4. UnlistedOK' /\ LogsOK'
  BY DEF Roster, UnlistedOK, LogsOK, Listed
<1>5. TotalOrder'
  BY <1>1 DEF TotalOrder, Owed, Currgrp, Got
<1> QED
  BY <1>3, <1>4, <1>5 DEF Roster

\* Every step keeps the roster and the order.
LEMMA StepIInv == IInv /\ [Next]_vars => Roster' /\ TotalOrder'
<1> SUFFICES ASSUME TypeOK, Roster, TotalOrder, [Next]_vars PROVE Roster' /\ TotalOrder'
  BY DEF IInv
<1>t. /\ \A g \in Groups : grp[g] \in Seq(Clients)
      /\ \A g \in Groups : Len(grp[g]) \in Nat
      /\ \A g \in Groups : \A p \in 1..Len(grp[g]) : grp[g][p] \in Clients
      /\ \A g \in Groups : relayed[g] \in Seq(Text)
      /\ \A g \in Groups : Len(relayed[g]) \in Nat
      /\ \A c \in Clients : received[c] \in Seq(Text)
      /\ \A c \in Clients : mq[c] \in Seq(Text)
  BY Shapes
<1>d. /\ DOMAIN grp = Groups /\ DOMAIN relayed = Groups
      /\ DOMAIN received = Clients /\ DOMAIN cpc = Clients
  BY DEF TypeOK
<1>w. /\ Waiting \in Seq(Connect)
      /\ Len(Waiting) \in Nat
      /\ \A p \in 1..Len(Waiting) : Waiting[p] \in Connect /\ Waiting[p].from \in Clients
  <2>1. Waiting \in Seq(Connect)
    BY KindOfType DEF TypeOK, Waiting
  <2>2. \A x \in Connect : x.from \in Clients /\ x.grp \in Groups
    BY DEF Connect
  <2> QED
    BY <2>1, <2>2
<1>c. ChatType \notin Clients /\ ConnectType \notin Clients /\ ChatType # ConnectType
  BY PidAssumption DEF PidAssumption, ChatType, ConnectType
<1>1. CASE AcceptClient
  <2>a. /\ \A d \in Clients : mq'[d] = mq[d]
        /\ UNCHANGED <<cpc, cgrp, received, relayed>>
        /\ spc = "connect" /\ spc' \in {"connect", "recv"}
    BY <1>1, AcceptStep
  <2>n. /\ NewPid \in Clients /\ NewGrp \in Groups /\ NewGrp = cgrp[NewPid]
        /\ cpc[NewPid] \in {"run", "gone"} /\ ~Listed(NewPid)
    BY <1>1, AcceptStep
  <2>w. /\ 1 \in 1..Len(Waiting) /\ NewPid = Waiting[1].from
        /\ Len(Waiting') = Len(Waiting) - 1
        /\ \A i \in 1..Len(Waiting') : Waiting'[i] = Waiting[i + 1]
        /\ \A q \in 1..Len(Waiting) : q # 1 => Waiting[q].from # NewPid
    BY <1>1, AcceptStep
  <2>g. \A g \in Groups : \A p \in 1..Len(grp'[g]) :
             \/ p \in 1..Len(grp[g]) /\ grp'[g][p] = grp[g][p]
             \/ g = NewGrp /\ p = Len(grp[g]) + 1 /\ grp'[g][p] = NewPid
    BY <1>1, AcceptStep
  <2>l. \A d \in Clients : Listed(d)' <=> (Listed(d) \/ d = NewPid)
    BY <1>1, AcceptStep
  <2>x. \A q \in 1..Len(Waiting') :
          /\ q + 1 \in 1..Len(Waiting) /\ Waiting'[q] = Waiting[q + 1]
          /\ Waiting'[q].from # NewPid
    BY <1>w, <2>w
  <2>6. Roster'
    <3>1. ListsOK'
      <4> SUFFICES ASSUME NEW g \in Groups, NEW p \in 1..Len(grp'[g])
                   PROVE  /\ cpc[grp'[g][p]] \in {"run", "gone"}
                          /\ cgrp[grp'[g][p]] = g
                          /\ \A q \in 1..Len(grp'[g]) : p # q => grp'[g][p] # grp'[g][q]
                          /\ \A q \in 1..Len(Waiting') : grp'[g][p] # Waiting'[q].from
        BY <2>a DEF ListsOK
      <4>1. CASE p \in 1..Len(grp[g]) /\ grp'[g][p] = grp[g][p]
        <5>1. grp[g][p] # NewPid
          BY <2>w, <4>1 DEF Roster, ListsOK
        <5>2. \A q \in 1..Len(grp'[g]) : p # q => grp[g][p] # grp'[g][q]
          BY <2>g, <4>1, <5>1 DEF Roster, ListsOK
        <5>3. \A q \in 1..Len(Waiting') : grp[g][p] # Waiting'[q].from
          <6>1. \A q \in 1..Len(Waiting) : grp[g][p] # Waiting[q].from
            BY <4>1 DEF Roster, ListsOK
          <6> QED
            BY ONLY <2>x, <6>1
        <5>4. cpc[grp[g][p]] \in {"run", "gone"} /\ cgrp[grp[g][p]] = g
          BY <4>1 DEF Roster, ListsOK
        <5> QED
          BY ONLY <4>1, <5>2, <5>3, <5>4
      <4>2. CASE g = NewGrp /\ p = Len(grp[g]) + 1 /\ grp'[g][p] = NewPid
        <5>1. \A q \in 1..Len(grp'[g]) : p # q => q \in 1..Len(grp[g]) /\ grp'[g][q] = grp[g][q]
          BY <2>g, <4>2
        <5>2. \A q \in 1..Len(grp[g]) : grp[g][q] # NewPid
          BY <2>w DEF Roster, ListsOK
        <5> QED
          BY <2>n, <2>x, <4>2, <5>1, <5>2, SMTT(30)
      <4> QED
        BY <2>g, <4>1, <4>2
    <3>2. WaitingOK'
      <4>1. \A q \in 1..Len(Waiting') : q + 1 \in 1..Len(Waiting) /\ Waiting'[q] = Waiting[q + 1]
        BY <2>x
      <4>2. \A p, q \in 1..Len(Waiting') : p # q => p + 1 # q + 1
        OBVIOUS
      <4>3. \A p \in 1..Len(Waiting') :
              /\ cpc[Waiting'[p].from] \in {"run", "gone"}
              /\ Waiting'[p].grp = cgrp[Waiting'[p].from]
              /\ \A q \in 1..Len(Waiting') : p # q => Waiting'[p].from # Waiting'[q].from
        <5> SUFFICES ASSUME NEW p \in 1..Len(Waiting')
                     PROVE  /\ cpc[Waiting'[p].from] \in {"run", "gone"}
                            /\ Waiting'[p].grp = cgrp[Waiting'[p].from]
                            /\ \A q \in 1..Len(Waiting') :
                                  p # q => Waiting'[p].from # Waiting'[q].from
          OBVIOUS
        <5>1. p + 1 \in 1..Len(Waiting) /\ Waiting'[p] = Waiting[p + 1]
          BY <4>1
        <5>2. /\ cpc[Waiting[p + 1].from] \in {"run", "gone"}
              /\ Waiting[p + 1].grp = cgrp[Waiting[p + 1].from]
              /\ \A r \in 1..Len(Waiting) :
                    p + 1 # r => Waiting[p + 1].from # Waiting[r].from
          BY <5>1 DEF Roster, WaitingOK
        <5>3. ASSUME NEW q \in 1..Len(Waiting'), p # q
              PROVE  Waiting'[p].from # Waiting'[q].from
          <6>1. q + 1 \in 1..Len(Waiting) /\ Waiting'[q] = Waiting[q + 1] /\ p + 1 # q + 1
            BY <4>1, <4>2, <5>3
          <6> QED
            BY <5>1, <5>2, <6>1
        <5> QED
          BY <5>1, <5>2, <5>3
      <4> QED
        BY <2>a, <4>3 DEF WaitingOK
    <3>3. UnlistedOK'
      BY <2>a, <2>l DEF Roster, UnlistedOK
    <3>4. LogsOK'
      BY <2>a DEF Roster, LogsOK
    <3> QED
      BY <3>1, <3>2, <3>3, <3>4 DEF Roster
  <2>7. TotalOrder'
    <3>1. \A g \in Groups : relayed[g] = <<>>
      BY <2>a DEF Roster, LogsOK
    <3>2. \A d \in Clients : received[d] \o mq[d] = <<>>
      <4> SUFFICES ASSUME NEW d \in Clients PROVE received[d] \o mq[d] = <<>>
        OBVIOUS
      <4>1. CASE Listed(d)
        <5>1. PICK g \in Groups : \E p \in 1..Len(grp[g]) : grp[g][p] = d
          BY <4>1 DEF Listed
        <5> QED
          BY <2>a, <3>1, <5>1 DEF TotalOrder, Owed, Got
      <4>2. CASE ~Listed(d)
        BY <4>2 DEF Roster, UnlistedOK
      <4> QED
        BY <4>1, <4>2
    <3>3. \A g \in Groups : \A p \in 1..Len(grp'[g]) : grp'[g][p] \in Clients
      BY <1>t, <2>n, <2>g
    <3>4. \A g \in Groups : \A p \in 1..Len(grp'[g]) :
            /\ ~Owed(g, p)'
            /\ received'[grp'[g][p]] \o mq'[grp'[g][p]] = <<>>
            /\ relayed'[g] = <<>>
      BY <2>a, <3>1, <3>2, <3>3 DEF Owed
    <3> QED
      BY <3>4 DEF TotalOrder, Got
  <2> QED
    BY <2>6, <2>7
<1>2. CASE TakeLine
  <2> DEFINE m == Head(mq[ChatType])
             h == FirstDigit(m.grp)
  <2>1. /\ m \in Text /\ h \in Groups
        /\ \A c \in Clients : mq'[c] = mq[c]
        /\ Waiting' = Waiting
    <3>1. msgrcv(ChatType)
      BY <1>2 DEF TakeLine
    <3>2. m \in Text /\ \A c \in Clients : mq'[c] = mq[c]
      BY <3>1, <1>c, ReceiveQueue, KindOfType DEF Waiting
    <3>3. Waiting' = Waiting
      BY <3>1, <1>c, ReceiveQueue, KindOfType DEF Waiting
    <3> QED
      BY <3>2, <3>3, FirstDigitGroup DEF Text
  <2>2. /\ relayed' = [relayed EXCEPT ![h] = Append(@, m)]
        /\ UNCHANGED <<grp, cpc, cgrp, received>>
        /\ message' = m /\ j' = 1 /\ spc = "recv"
        /\ spc' = IF grp[h] = <<>> THEN "recv" ELSE "relay"
    BY <1>2 DEF TakeLine
  <2>3. \A c \in Clients : Listed(c)' <=> Listed(c)
    BY <2>2 DEF Listed
  <2>4. \A g \in Groups : \A i \in 1..Len(relayed'[g]) :
            FirstDigit(relayed'[g][i].grp) = g
    <3> SUFFICES ASSUME NEW g \in Groups, NEW i \in 1..Len(relayed'[g])
                 PROVE  FirstDigit(relayed'[g][i].grp) = g
      OBVIOUS
    <3>1. CASE g = h
      <4>1. relayed'[g] = Append(relayed[g], m) /\ relayed[g] \in Seq(Text)
        BY <1>t, <1>d, <2>2, <3>1
      <4>2. CASE i \in 1..Len(relayed[g])
        BY <2>1, <4>1, <4>2 DEF Roster, LogsOK
      <4>3. CASE i = Len(relayed[g]) + 1
        BY <2>1, <3>1, <4>1, <4>3
      <4> QED
        BY <2>1, <4>1, <4>2, <4>3
    <3>2. CASE g # h
      BY <1>d, <2>2, <3>2 DEF Roster, LogsOK
    <3> QED
      BY <3>1, <3>2
  <2>5. Roster'
    <3>1. ListsOK' /\ WaitingOK'
      BY <2>1, <2>2 DEF Roster, ListsOK, WaitingOK
    <3>2. UnlistedOK'
      BY <2>1, <2>2, <2>3 DEF Roster, UnlistedOK
    <3>3. LogsOK'
      BY <2>2, <2>4 DEF LogsOK
    <3> QED
      BY <3>1, <3>2, <3>3 DEF Roster
  <2>6. TotalOrder'
    <3> SUFFICES ASSUME NEW g \in Groups, NEW p \in 1..Len(grp[g])
                 PROVE  relayed'[g] = IF Owed(g, p)' THEN Append(Got(grp[g][p])', m)
                                                     ELSE Got(grp[g][p])'
      BY <2>2 DEF TotalOrder
    <3>0. grp[g][p] \in Clients /\ grp'[g][p] = grp[g][p]
      BY <1>t, <2>2
    <3>a. Got(grp[g][p])' = Got(grp[g][p])
      BY <2>1, <2>2, <3>0 DEF Got
    <3>1. relayed[g] = Got(grp[g][p])
      BY <2>2 DEF TotalOrder, Owed
    <3>2. Owed(g, p)' <=> g = h
      BY <1>t, <2>1, <2>2 DEF Owed, Currgrp
    <3> QED
      <4>1. CASE g = h
        BY <1>d, <2>2, <3>a, <3>1, <3>2, <4>1
      <4>2. CASE g # h
        BY <1>d, <2>2, <3>a, <3>1, <3>2, <4>2
      <4> QED
        BY <4>1, <4>2
  <2> QED
    BY <2>5, <2>6
<1>3. CASE RelayToMember
  <2> DEFINE d == grp[Currgrp][j]
  <2>1. /\ Currgrp \in Groups /\ j \in 1..Len(grp[Currgrp]) /\ message \in Text
        /\ d \in Clients /\ spc = "relay"
    BY <1>3, <1>t, FirstDigitGroup DEF RelayToMember, TypeOK, Currgrp, Text
  <2>2. /\ mq'[d] = Append(mq[d], message)
        /\ \A c \in Clients \ {d} : mq'[c] = mq[c]
        /\ Waiting' = Waiting
    <3>1. msgsnd(d, message)
      BY <1>3 DEF RelayToMember, Currgrp
    <3> QED
      BY <2>1, <3>1, <1>c, SendQueue, KindOfType DEF Waiting
  <2>3. /\ UNCHANGED <<grp, message, cpc, cgrp, received, relayed>>
        /\ j' = j + 1
        /\ spc' = IF j < Len(grp[Currgrp]) THEN "relay" ELSE "recv"
    BY <1>3 DEF RelayToMember, MoreMembers, Currgrp
  <2>4. Listed(d) /\ \A c \in Clients : Listed(c)' <=> Listed(c)
    BY <2>1, <2>3 DEF Listed
  <2>5. Roster'
    <3>1. ListsOK' /\ WaitingOK'
      BY <2>2, <2>3 DEF Roster, ListsOK, WaitingOK
    <3>2. UnlistedOK'
      BY <2>2, <2>3, <2>4 DEF Roster, UnlistedOK
    <3>3. LogsOK'
      BY <2>1, <2>3 DEF Roster, LogsOK
    <3> QED
      BY <3>1, <3>2, <3>3 DEF Roster
  <2>a. ASSUME NEW c \in Clients
        PROVE  received[c] \o Append(mq[c], message) = Append(received[c] \o mq[c], message)
    <3>1. message \in Text
      BY <2>1
    <3>2. received[c] \in Seq(Text)
      BY <1>t
    <3>3. mq[c] \in Seq(Text)
      BY <1>t
    <3> QED
      BY ONLY <3>1, <3>2, <3>3, AppendEnd
  <2>6. TotalOrder'
    <3> SUFFICES ASSUME NEW g \in Groups, NEW p \in 1..Len(grp[g])
                 PROVE  relayed[g] = IF Owed(g, p)'
                          THEN Append(received[grp[g][p]] \o mq'[grp[g][p]], message)
                          ELSE received[grp[g][p]] \o mq'[grp[g][p]]
      BY <2>3 DEF TotalOrder, Got
    <3> DEFINE c == grp[g][p]
    <3>0. c \in Clients /\ Len(grp[g]) \in Nat /\ p \in 1..Len(grp[g]) /\ j \in Nat
      BY <1>t, <2>1
    <3>1. relayed[g] = IF Owed(g, p) THEN Append(received[c] \o mq[c], message)
                                     ELSE received[c] \o mq[c]
      BY DEF TotalOrder, Got
    <3>2. CASE g = Currgrp /\ p = j
      <4>1. Owed(g, p) /\ ~Owed(g, p)'
        BY <2>1, <2>3, <3>0, <3>2 DEF Owed, Currgrp
      <4>2. received[c] \o mq'[c] = Append(received[c] \o mq[c], message)
        <5>1. received[c] \in Seq(Text) /\ mq[c] \in Seq(Text) /\ c = d
          BY <1>t, <3>0, <3>2
        <5> QED
          BY <2>2, <2>a, <3>0, <5>1
      <4> QED
        BY <3>1, <4>1, <4>2
    <3>3. CASE g = Currgrp /\ p # j
      <4>1. c # d
        BY <2>1, <3>3 DEF Roster, ListsOK
      <4>2. Owed(g, p)' <=> Owed(g, p)
        BY <2>1, <2>3, <3>0, <3>3 DEF Owed, Currgrp
      <4> QED
        BY <2>2, <3>0, <3>1, <4>1, <4>2
    <3>4. CASE g # Currgrp
      <4>1. c # d
        BY <2>1, <3>4 DEF Roster, ListsOK
      <4>2. ~Owed(g, p)' /\ ~Owed(g, p)
        BY <2>3, <3>4 DEF Owed, Currgrp
      <4> QED
        BY <2>2, <3>0, <3>1, <4>1, <4>2
    <3> QED
      BY <3>2, <3>3, <3>4
  <2> QED
    BY <2>5, <2>6
<1>4. ASSUME NEW c \in Clients, Start(c) PROVE Roster' /\ TotalOrder'
  <2>1. /\ UNCHANGED <<mq, spc, grp, message, j, cgrp, received, relayed>>
        /\ cpc[c] = "start" /\ \A d \in Clients \ {c} : cpc'[d] = cpc[d]
    BY <1>4, <1>d DEF Start
  <2>2. /\ Waiting' = Waiting
        /\ \A d \in Clients : mq'[d] = mq[d]
        /\ \A d \in Clients : cpc[d] \in {"run", "gone"} => cpc'[d] \in {"run", "gone"}
    BY <2>1 DEF Waiting
  <2> QED
    BY <2>1, <2>2, StatusKept
<1>5. ASSUME NEW c \in Clients, SendConnect(c) PROVE Roster' /\ TotalOrder'
  <2> DEFINE m == [from |-> c, grp |-> cgrp[c]]
  <2>1. /\ UNCHANGED <<spc, grp, message, j, cgrp, received, relayed>>
        /\ cpc[c] = "connect" /\ cpc'[c] = "run"
        /\ \A d \in Clients \ {c} : cpc'[d] = cpc[d]
    BY <1>5, <1>d DEF SendConnect
  <2>2. Waiting' = Append(Waiting, m) /\ (\A d \in Clients : mq'[d] = mq[d])
    <3>1. m \in Connect
      BY DEF Connect, TypeOK
    <3> QED
      BY <1>5, <1>c, <3>1, SendQueue, KindOfType DEF SendConnect, Waiting
  <2>3. /\ \A g \in Groups : \A p \in 1..Len(grp[g]) : grp[g][p] # c
        /\ \A p \in 1..Len(Waiting) : Waiting[p].from # c
    BY <2>1 DEF Roster, ListsOK, WaitingOK
  <2>4. /\ Len(Waiting') = Len(Waiting) + 1 /\ Waiting'[Len(Waiting) + 1] = m
        /\ \A p \in 1..Len(Waiting) : Waiting'[p] = Waiting[p]
    BY <1>w, <2>2
  <2>5. \A p \in 1..Len(Waiting') :
          \/ p \in 1..Len(Waiting) /\ Waiting'[p] = Waiting[p]
          \/ p = Len(Waiting) + 1 /\ Waiting'[p] = m
    BY <1>w, <2>4
  <2>6. ListsOK'
    <3> SUFFICES ASSUME NEW g \in Groups, NEW p \in 1..Len(grp[g])
                 PROVE  /\ cpc'[grp[g][p]] \in {"run", "gone"}
                        /\ cgrp[grp[g][p]] = g
                        /\ \A q \in 1..Len(grp[g]) : p # q => grp[g][p] # grp[g][q]
                        /\ \A q \in 1..Len(Waiting') : grp[g][p] # Waiting'[q].from
      BY <2>1 DEF ListsOK
    <3>1. grp[g][p] \in Clients \ {c}
      BY <1>t, <2>3
    <3> QED
      BY <2>1, <2>5, <3>1 DEF Roster, ListsOK
  <2>7. WaitingOK'
    <3> SUFFICES ASSUME NEW p \in 1..Len(Waiting')
                 PROVE  /\ cpc'[Waiting'[p].from] \in {"run", "gone"}
                        /\ Waiting'[p].grp = cgrp[Waiting'[p].from]
                        /\ \A q \in 1..Len(Waiting') :
                              p # q => Waiting'[p].from # Waiting'[q].from
      BY <2>1 DEF WaitingOK
    <3>1. CASE p \in 1..Len(Waiting) /\ Waiting'[p] = Waiting[p]
      <4>1. Waiting[p].from \in Clients \ {c}
        BY <1>w, <2>3, <3>1
      <4> QED
        BY <2>1, <2>5, <3>1, <4>1 DEF Roster, WaitingOK
    <3>2. CASE p = Len(Waiting) + 1 /\ Waiting'[p] = m
      BY <2>1, <2>3, <2>5, <3>2
    <3> QED
      BY <2>5, <3>1, <3>2
  <2>8. UnlistedOK' /\ LogsOK'
    BY <2>1, <2>2 DEF Roster, UnlistedOK, LogsOK, Listed
  <2>9. TotalOrder'
    BY <1>t, <2>1, <2>2 DEF TotalOrder, Owed, Currgrp, Got
  <2> QED
    BY <2>6, <2>7, <2>8, <2>9 DEF Roster
<1>6. ASSUME NEW c \in Clients, TypeLine(c) PROVE Roster' /\ TotalOrder'
  <2>1. UNCHANGED <<mq, cpc, spc, grp, message, j, cgrp, received, relayed>>
    BY <1>6 DEF TypeLine
  <2>2. Waiting' = Waiting
    BY <2>1 DEF Waiting
  <2> QED
    BY <2>1, <2>2, StatusKept
<1>7. ASSUME NEW c \in Clients, SendLine(c) PROVE Roster' /\ TotalOrder'
  <2>1. [from |-> c, grp |-> cgrp[c], k |-> sent[c]] \in Text
    BY <1>7, BoundAssumption DEF SendLine, Text, TypeOK, BoundAssumption
  <2>2. Waiting' = Waiting /\ (\A d \in Clients : mq'[d] = mq[d])
    BY <1>7, <1>c, <2>1, SendQueue, KindOfType DEF SendLine, Waiting
  <2> QED
    BY <1>7, <2>2, StatusKept DEF SendLine
<1>8. ASSUME NEW c \in Clients, Receive(c) PROVE Roster' /\ TotalOrder'
  <2>1. msgrcv(c) /\ UNCHANGED <<spc, grp, message, j, cpc, cgrp, relayed>>
        /\ received' = [received EXCEPT ![c] = Append(@, Head(mq[c]))]
    BY <1>8 DEF Receive
  <2>2. mq[c] # <<>> /\ mq'[c] = Tail(mq[c])
        /\ (\A d \in Clients \ {c} : mq'[d] = mq[d])
    BY <2>1, ReceiveQueue, KindOfType
  <2>3. Waiting' = Waiting
    BY <1>c, <2>1, ReceiveQueue, KindOfType DEF Waiting
  <2>4. \A d \in Clients : Got(d)' = Got(d)
    <3> SUFFICES ASSUME NEW d \in Clients PROVE received'[d] \o mq'[d] = received[d] \o mq[d]
      BY DEF Got
    <3>1. CASE d = c
      <4>1. received'[c] = Append(received[c], Head(mq[c]))
        BY <1>d, <2>1
      <4>2. received[c] \in Seq(Text) /\ mq[c] \in Seq(Text)
        BY <1>t
      <4>3. Append(received[c], Head(mq[c])) \o Tail(mq[c]) = received[c] \o mq[c]
        BY <2>2, <4>2, MoveHead
      <4> QED
        BY <2>2, <3>1, <4>1, <4>3
    <3>2. CASE d # c
      BY <1>d, <2>1, <2>2, <3>2
    <3> QED
      BY <3>1, <3>2
  <2>5. UnlistedOK'
    <3>1. Listed(c)
      BY <2>2 DEF Roster, UnlistedOK
    <3>2. \A d \in Clients \ {c} : received'[d] = received[d] /\ mq'[d] = mq[d]
      BY <1>d, <2>1, <2>2
    <3> QED
      BY <2>1, <3>1, <3>2 DEF Roster, UnlistedOK, Listed
  <2>6. ListsOK' /\ WaitingOK' /\ LogsOK'
    BY <2>1, <2>3 DEF Roster, ListsOK, WaitingOK, LogsOK
  <2>7. TotalOrder'
    BY <1>t, <2>1, <2>4 DEF TotalOrder, Owed, Currgrp
  <2> QED
    BY <2>5, <2>6, <2>7 DEF Roster
<1>9. ASSUME NEW c \in Clients, Quit(c) PROVE Roster' /\ TotalOrder'
  <2>1. /\ UNCHANGED <<mq, spc, grp, message, j, cgrp, received, relayed>>
        /\ cpc'[c] = "gone" /\ \A d \in Clients \ {c} : cpc'[d] = cpc[d]
    BY <1>9, <1>d DEF Quit
  <2>2. /\ Waiting' = Waiting
        /\ \A d \in Clients : mq'[d] = mq[d]
        /\ \A d \in Clients : cpc[d] \in {"run", "gone"} => cpc'[d] \in {"run", "gone"}
    BY <2>1 DEF Waiting
  <2> QED
    BY <2>1, <2>2, StatusKept
<1>10. CASE UNCHANGED vars
  <2>1. UNCHANGED <<mq, cpc, spc, grp, message, j, cgrp, received, relayed>>
    BY <1>10 DEF vars
  <2>2. Waiting' = Waiting
    BY <2>1 DEF Waiting
  <2> QED
    BY <2>1, <2>2, StatusKept
<1> QED
  BY <1>1, <1>2, <1>3, <1>4, <1>5, <1>6, <1>7, <1>8, <1>9, <1>10 DEF Next

(* Every member of a group gets all texts the server took for its group,   *)
(* once each and in the order in which the server took them (server.c      *)
(* 61-79, client.c 42-46), however the processes interleave, however full  *)
(* the queue gets and whoever quits.                                       *)
THEOREM OrderedDelivery == Spec => [](Roster /\ TotalOrder)
<1>1. Init /\ TypeOK => IInv
  BY InitIInv DEF IInv
<1>2. IInv /\ TypeOK' /\ [Next]_vars => IInv'
  BY StepIInv DEF IInv
<1>3. IInv => Roster /\ TotalOrder
  BY DEF IInv
<1> QED
  BY <1>1, <1>2, <1>3, TypeCorrect, PTL DEF Spec

\* What the refinement and Isolation may use of every reachable state.
LEMMA Reachable == Spec => [](TypeOK /\ Roster /\ TotalOrder)
  BY TypeCorrect, OrderedDelivery, PTL

(* What a listed client has got is the beginning of its group's log.       *)
LEMMA GotIsPrefix ==
  ASSUME TypeOK, Roster, TotalOrder, NEW c \in Clients, Listed(c)
  PROVE  /\ cgrp[c] \in Groups
         /\ Len(Got(c)) \in Nat /\ Len(Got(c)) <= Len(relayed[cgrp[c]])
         /\ \A i \in 1..Len(Got(c)) : relayed[cgrp[c]][i] = Got(c)[i]
<1>1. PICK g \in Groups : \E p \in 1..Len(grp[g]) : grp[g][p] = c
  BY DEF Listed
<1>2. PICK p \in 1..Len(grp[g]) : grp[g][p] = c
  BY <1>1
<1>3. cgrp[c] = g
  BY <1>2 DEF Roster, ListsOK
<1>4. Got(c) \in Seq(Text)
  <2>1. received[c] \in Seq(Text) /\ mq[c] \in Seq(Text)
    BY Shapes
  <2> QED
    BY <2>1 DEF Got
<1>5. CASE Owed(g, p)
  <2>1. message \in Text /\ relayed[g] = Append(Got(c), message)
    BY <1>2, <1>5 DEF TotalOrder, Owed, TypeOK
  <2> QED
    BY <1>3, <1>4, <2>1
<1>6. CASE ~Owed(g, p)
  <2>1. relayed[g] = Got(c)
    BY <1>2, <1>6 DEF TotalOrder
  <2> QED
    BY <1>3, <1>4, <2>1
<1> QED
  BY <1>5, <1>6

(* No client is ever sent a text of a group whose number does not begin    *)
(* with the client's own group, and a client in no list is sent nothing    *)
(* (server.c 65-77).                                                       *)
THEOREM Isolation == Spec => []GroupIsolation
<1>1. TypeOK /\ Roster /\ TotalOrder => GroupIsolation
  <2> SUFFICES ASSUME TypeOK, Roster, TotalOrder, NEW c \in Clients
               PROVE  /\ Got(c) # <<>> => Listed(c)
                      /\ \A i \in 1..Len(Got(c)) : FirstDigit(Got(c)[i].grp) = cgrp[c]
    BY DEF GroupIsolation
  <2>1. CASE ~Listed(c)
    <3>1. Got(c) = <<>>
      BY <2>1 DEF Roster, UnlistedOK, Got
    <3> QED
      BY <3>1
  <2>2. CASE Listed(c)
    <3>1. \A i \in 1..Len(Got(c)) :
             i \in 1..Len(relayed[cgrp[c]]) /\ relayed[cgrp[c]][i] = Got(c)[i]
      <4>1. Len(relayed[cgrp[c]]) \in Nat
        BY <2>2, GotIsPrefix, Shapes
      <4> QED
        BY <2>2, <4>1, GotIsPrefix
    <3>2. cgrp[c] \in Groups
      BY <2>2, GotIsPrefix
    <3> QED
      BY <2>2, <3>1, <3>2 DEF Roster, LogsOK
  <2> QED
    BY <2>1, <2>2
<1> QED
  BY <1>1, Reachable, PTL

-----------------------------------------------------------------------------
(* What the four steps that touch a client's lines do to their sequence:   *)
(* the client's next line joins it, another's line does, the oldest queued  *)
(* line moves into the client's log, or into another one.                  *)
LEMMA NumberedNext ==
  ASSUME NEW c \in Clients, NEW s \in Seq(Text), NEW m \in Text, NEW n \in Nat,
         m.from = c, m.k = n + 1, Numbered(c, s, n)
  PROVE  Numbered(c, Append(s, m), n + 1)
<1> DEFINE t == Append(s, m)
<1>1. /\ Len(s) \in Nat /\ DOMAIN s = 1..Len(s) /\ DOMAIN t = 1..Len(s) + 1
      /\ t[Len(s) + 1] = m /\ \A i \in 1..Len(s) : t[i] = s[i]
  OBVIOUS
<1> HIDE DEF t
<1>2. \A i \in LinesOf(c, t) : (i \in LinesOf(c, s) /\ t[i] = s[i]) \/ i = Len(s) + 1
  BY <1>1 DEF LinesOf
<1>3. \A i \in LinesOf(c, s) : i \in LinesOf(c, t) /\ t[i] = s[i] /\ i < Len(s) + 1
  BY <1>1 DEF LinesOf
<1>4. Len(s) + 1 \in LinesOf(c, t) /\ t[Len(s) + 1].k = n + 1
  BY <1>1 DEF LinesOf
<1>5. \A i \in LinesOf(c, t) : t[i].k \in 1..n + 1
  BY <1>2, <1>4 DEF Numbered
<1>6. \A k \in 1..n + 1 : \E i \in LinesOf(c, t) : t[i].k = k
  <2> SUFFICES ASSUME NEW k \in 1..n + 1 PROVE \E i \in LinesOf(c, t) : t[i].k = k
    OBVIOUS
  <2>1. CASE k = n + 1
    BY <2>1, <1>4
  <2>2. CASE k \in 1..n
    BY <2>2, <1>3 DEF Numbered
  <2> QED
    BY <2>1, <2>2
<1>7. \A a, b \in LinesOf(c, t) : a < b => t[a].k < t[b].k
  <2> SUFFICES ASSUME NEW a \in LinesOf(c, t), NEW b \in LinesOf(c, t), a < b
               PROVE  t[a].k < t[b].k
    OBVIOUS
  <2>1. a \in LinesOf(c, s) /\ t[a] = s[a] /\ s[a].k \in 1..n
    BY <1>1, <1>2 DEF Numbered, LinesOf
  <2>2. CASE b = Len(s) + 1
    BY <2>1, <2>2, <1>4
  <2>3. CASE b \in LinesOf(c, s) /\ t[b] = s[b]
    BY <2>1, <2>3 DEF Numbered
  <2> QED
    BY <2>2, <2>3, <1>2
<1> QED
  BY <1>5, <1>6, <1>7 DEF Numbered, t

\* A text of somebody else leaves the numbers of c's lines alone,
LEMMA NumberedOther ==
  ASSUME NEW c \in Clients, NEW s \in Seq(Text), NEW m \in Text, NEW n \in Nat,
         m.from # c, Numbered(c, s, n)
  PROVE  Numbered(c, Append(s, m), n)
<1> DEFINE t == Append(s, m)
<1>1. /\ Len(s) \in Nat /\ DOMAIN s = 1..Len(s) /\ DOMAIN t = 1..Len(s) + 1
      /\ t[Len(s) + 1] = m /\ \A i \in 1..Len(s) : t[i] = s[i]
  OBVIOUS
<1> HIDE DEF t
<1>2. /\ LinesOf(c, t) = LinesOf(c, s)
      /\ \A i \in LinesOf(c, s) : t[i] = s[i]
  BY <1>1 DEF LinesOf
<1> QED
  BY <1>2 DEF Numbered, t

\* and so does its leaving the queue.
LEMMA NumberedDrop ==
  ASSUME NEW c \in Clients, NEW s \in Seq(Text), NEW q \in Seq(Text), NEW n \in Nat,
         q # <<>>, Head(q).from # c, Numbered(c, s \o q, n)
  PROVE  Numbered(c, s \o Tail(q), n)
<1> DEFINE old == s \o q
           new == s \o Tail(q)
           l == Len(s)
<1>1. /\ l \in Nat /\ Len(q) \in Nat /\ Len(q) >= 1
      /\ DOMAIN old = 1..l + Len(q) /\ DOMAIN new = 1..l + Len(q) - 1
      /\ old[l + 1] = Head(q)
      /\ \A i \in 1..l : old[i] = s[i] /\ new[i] = s[i]
      /\ \A i \in l + 1..l + Len(q) - 1 : new[i] = old[i + 1]
  OBVIOUS
<1> HIDE DEF old, new, l
<1>2. \A i \in LinesOf(c, new) :
        \/ i <= l /\ i \in LinesOf(c, old) /\ new[i] = old[i]
        \/ i > l /\ i + 1 \in LinesOf(c, old) /\ new[i] = old[i + 1]
  BY <1>1 DEF LinesOf
<1>3. \A i \in LinesOf(c, old) :
        \/ i <= l /\ i \in LinesOf(c, new) /\ new[i] = old[i]
        \/ i > l + 1 /\ i - 1 \in LinesOf(c, new) /\ new[i - 1] = old[i]
  <2> SUFFICES ASSUME NEW i \in 1..l + Len(q), old[i].from = c
               PROVE  \/ i <= l /\ i \in LinesOf(c, new) /\ new[i] = old[i]
                      \/ i > l + 1 /\ i - 1 \in LinesOf(c, new) /\ new[i - 1] = old[i]
    BY <1>1 DEF LinesOf
  <2>1. CASE i <= l
    BY <1>1, <2>1 DEF LinesOf
  <2>2. i # l + 1
    BY <1>1
  <2>3. CASE i > l + 1
    <3>1. i - 1 \in l + 1..l + Len(q) - 1 /\ (i - 1) + 1 = i
          /\ i - 1 \in 1..l + Len(q) - 1
      BY <1>1, <2>3
    <3>2. new[i - 1] = old[i]
      BY <1>1, <3>1
    <3> QED
      BY <1>1, <2>3, <3>1, <3>2 DEF LinesOf
  <2> QED
    BY <1>1, <2>1, <2>2, <2>3
<1>i. LinesOf(c, new) \subseteq Int
  BY <1>1 DEF LinesOf
<1>5. \A i \in LinesOf(c, new) : new[i].k \in 1..n
  BY <1>2 DEF Numbered, old
<1>6. \A k \in 1..n : \E i \in LinesOf(c, new) : new[i].k = k
  <2> SUFFICES ASSUME NEW k \in 1..n PROVE \E i \in LinesOf(c, new) : new[i].k = k
    OBVIOUS
  <2>1. PICK i \in LinesOf(c, old) : old[i].k = k
    BY DEF Numbered, old
  <2> QED
    BY <2>1, <1>3
<1>7. \A a, b \in LinesOf(c, new) : a < b => new[a].k < new[b].k
  <2> SUFFICES ASSUME NEW a \in LinesOf(c, new), NEW b \in LinesOf(c, new), a < b
               PROVE  new[a].k < new[b].k
    OBVIOUS
  <2>0. /\ a \in Int /\ b \in Int
        /\ \A x, y \in LinesOf(c, old) : x < y => old[x].k < old[y].k
    BY <1>i DEF Numbered, old
  <2>1. CASE a <= l /\ b <= l
    BY <2>0, <2>1, <1>1, <1>2
  <2>2. CASE a <= l /\ b > l
    <3>1. a < b + 1
      BY <2>0
    <3> QED
      BY <2>0, <2>2, <3>1, <1>1, <1>2
  <2>3. CASE a > l /\ b > l
    <3>1. a + 1 < b + 1
      BY <2>0
    <3> QED
      BY <2>0, <2>3, <3>1, <1>1, <1>2
  <2> QED
    BY <2>0, <2>1, <2>2, <2>3, <1>1
<1> QED
  BY <1>5, <1>6, <1>7 DEF Numbered, new

(* NothingLost is inductive once queued lines are known to carry their     *)
(* author's group, so that the server logs them with the author's others.  *)
LinesInv == OwnGroup /\ NothingLost

\* No line is anywhere at the start.
LEMMA InitLines == Init => LinesInv
<1> SUFFICES ASSUME Init PROVE LinesInv
  OBVIOUS
<1>1. mq[ChatType] = <<>> /\ \A g \in Groups : relayed[g] = <<>>
  BY KindOfType DEF Init, msgget
<1>2. ASSUME NEW c \in Clients
      PROVE  Numbered(c, relayed[FirstDigit(cgrp[c])] \o mq[ChatType], HandedOver(c))
  <2>1. FirstDigit(cgrp[c]) \in Groups /\ HandedOver(c) = 0
    BY FirstDigitGroup DEF Init, HandedOver
  <2>2. relayed[FirstDigit(cgrp[c])] \o mq[ChatType] = <<>>
    BY <1>1, <2>1
  <2>3. LinesOf(c, <<>>) = {}
    BY DEF LinesOf
  <2> QED
    BY <2>1, <2>2, <2>3 DEF Numbered
<1> QED
  BY <1>1, <1>2 DEF LinesInv, OwnGroup, NothingLost

\* A step that touches no line.
LEMMA LinesKept ==
  ASSUME LinesInv, UNCHANGED <<cgrp, relayed>>, mq'[ChatType] = mq[ChatType],
         \A c \in Clients : HandedOver(c)' = HandedOver(c)
  PROVE  LinesInv'
<1>1. OwnGroup'
  BY DEF LinesInv, OwnGroup
<1>2. NothingLost'
  BY DEF LinesInv, NothingLost
<1> QED
  BY <1>1, <1>2 DEF LinesInv

\* Every step keeps the lines of every client numbered without a gap.
LEMMA StepLines == TypeOK /\ LinesInv /\ [Next]_vars => LinesInv'
<1> SUFFICES ASSUME TypeOK, LinesInv, [Next]_vars PROVE LinesInv'
  OBVIOUS
<1> DEFINE own(c) == FirstDigit(cgrp[c])
<1>q. ChatType \notin Clients /\ ChatType # ConnectType /\ ChatType \in Types
  BY PidAssumption DEF PidAssumption, ChatType, ConnectType, Types
<1>t. /\ mq[ChatType] \in Seq(Text)
      /\ \A g \in Groups : relayed[g] \in Seq(Text)
      /\ \A c \in Clients : /\ cgrp[c] \in Groups /\ own(c) \in Groups
                            /\ sent[c] \in Nat /\ typed[c] \in BOOLEAN
                            /\ HandedOver(c) \in Nat
  BY KindOfType, FirstDigitGroup, BoundAssumption, Shapes
     DEF BoundAssumption, TypeOK, HandedOver
<1>1. CASE AcceptClient
  BY <1>1, <1>q, ReceiveQueue, KindOfType, LinesKept DEF AcceptClient, HandedOver
<1>2. CASE TakeLine
  <2> DEFINE m == Head(mq[ChatType])
             g == FirstDigit(m.grp)
  <2>1. /\ mq[ChatType] # <<>> /\ mq'[ChatType] = Tail(mq[ChatType]) /\ m \in Text
        /\ relayed' = [relayed EXCEPT ![g] = Append(@, m)]
        /\ UNCHANGED <<cgrp, sent, typed>>
    BY <1>2, <1>q, ReceiveQueue, KindOfType DEF TakeLine
  <2>2. m = mq[ChatType][1] /\ 1 \in DOMAIN mq[ChatType]
    BY <1>t, <2>1
  <2>3. m.from \in Clients /\ m.grp = cgrp[m.from] /\ g \in Groups
    BY <1>t, <2>1, <2>2 DEF Text, LinesInv, OwnGroup
  <2>4. OwnGroup'
    <3>1. \A i \in DOMAIN Tail(mq[ChatType]) :
             i + 1 \in DOMAIN mq[ChatType] /\ Tail(mq[ChatType])[i] = mq[ChatType][i + 1]
      BY <1>t, <2>1
    <3> QED
      BY <2>1, <3>1 DEF LinesInv, OwnGroup
  <2>5. ASSUME NEW c \in Clients
        PROVE  Numbered(c, relayed'[own(c)] \o mq'[ChatType], HandedOver(c))
    <3>0. /\ Numbered(c, relayed[own(c)] \o mq[ChatType], HandedOver(c))
          /\ relayed[own(c)] \in Seq(Text) /\ HandedOver(c) \in Nat
      BY <1>t DEF LinesInv, NothingLost
    <3>1. CASE own(c) = g
      <4>1. relayed'[own(c)] = Append(relayed[own(c)], m)
        BY <2>1, <2>3, <3>1 DEF TypeOK
      <4>2. Append(relayed[own(c)], Head(mq[ChatType])) \o Tail(mq[ChatType])
              = relayed[own(c)] \o mq[ChatType]
        BY <1>t, <2>1, <3>0, MoveHead
      <4> QED
        BY <2>1, <3>0, <4>1, <4>2
    <3>2. CASE own(c) # g
      <4>1. relayed'[own(c)] = relayed[own(c)]
        BY <2>1, <3>2, <1>t DEF TypeOK
      <4>2. Head(mq[ChatType]).from # c
        BY <2>3, <3>2
      <4> QED
        BY <1>t, <2>1, <3>0, <4>1, <4>2, NumberedDrop
    <3> QED
      BY <3>1, <3>2
  <2>6. NothingLost'
    BY <2>1, <2>5 DEF NothingLost, HandedOver
  <2> QED
    BY <2>4, <2>6 DEF LinesInv
<1>3. CASE RelayToMember
  <2>1. message \in Text /\ Currgrp \in Groups /\ j \in 1..Len(grp[Currgrp])
    BY <1>3, FirstDigitGroup DEF RelayToMember, TypeOK, Currgrp, Text
  <2>2. grp[Currgrp][j] \in Clients /\ msgsnd(grp[Currgrp][j], message)
    BY <1>3, <2>1 DEF RelayToMember, TypeOK, Currgrp
  <2>3. mq'[ChatType] = mq[ChatType]
    BY <1>q, <2>1, <2>2, SendQueue, KindOfType
  <2> QED
    BY <1>3, <2>3, LinesKept DEF RelayToMember, HandedOver
<1>4. ASSUME NEW c \in Clients, Start(c) \/ Quit(c) PROVE LinesInv'
  BY <1>4, LinesKept DEF Start, Quit, HandedOver
<1>5. ASSUME NEW c \in Clients, SendConnect(c) PROVE LinesInv'
  <2>1. [from |-> c, grp |-> cgrp[c]] \in Connect
    BY <1>t DEF Connect
  <2>2. mq'[ChatType] = mq[ChatType]
    BY <1>5, <1>q, <2>1, SendQueue, KindOfType DEF SendConnect
  <2> QED
    BY <1>5, <2>2, LinesKept DEF SendConnect, HandedOver
<1>6. ASSUME NEW c \in Clients, TypeLine(c) PROVE LinesInv'
  <2>1. /\ ~typed[c] /\ typed'[c] = TRUE /\ sent'[c] = sent[c] + 1
        /\ \A d \in Clients \ {c} : typed'[d] = typed[d] /\ sent'[d] = sent[d]
    BY <1>6 DEF TypeLine, TypeOK
  <2>2. \A d \in Clients : HandedOver(d)' = HandedOver(d)
    BY <2>1, <1>t DEF HandedOver
  <2> QED
    BY <1>6, <2>2, LinesKept DEF TypeLine
<1>7. ASSUME NEW c \in Clients, SendLine(c) PROVE LinesInv'
  <2> DEFINE m == [from |-> c, grp |-> cgrp[c], k |-> sent[c]]
  <2>1. m \in Text /\ m.from = c /\ m.grp = cgrp[c] /\ m.k = sent[c]
    BY <1>7, BoundAssumption DEF SendLine, Text, TypeOK, BoundAssumption
  <2>2. /\ mq'[ChatType] = Append(mq[ChatType], m)
        /\ UNCHANGED <<cgrp, sent, relayed>> /\ typed[c]
        /\ typed' = [typed EXCEPT ![c] = FALSE]
    BY <1>7, <2>1, SendQueue, KindOfType DEF SendLine
  <2> HIDE DEF m
  <2>3. /\ HandedOver(c)' = HandedOver(c) + 1 /\ m.k = HandedOver(c) + 1
        /\ \A d \in Clients \ {c} : HandedOver(d)' = HandedOver(d)
    BY <2>1, <2>2, <1>t DEF HandedOver, TypeOK
  <2>4. OwnGroup'
    <3>1. \A i \in DOMAIN Append(mq[ChatType], m) :
             \/ i \in DOMAIN mq[ChatType] /\ Append(mq[ChatType], m)[i] = mq[ChatType][i]
             \/ Append(mq[ChatType], m)[i] = m
      BY <1>t, <2>1
    <3> QED
      BY <2>1, <2>2, <3>1 DEF LinesInv, OwnGroup
  <2>5. ASSUME NEW d \in Clients
        PROVE  Numbered(d, relayed[own(d)] \o mq'[ChatType], HandedOver(d)')
    <3> DEFINE s == relayed[own(d)] \o mq[ChatType]
    <3>1. /\ s \in Seq(Text) /\ HandedOver(d) \in Nat /\ Numbered(d, s, HandedOver(d))
          /\ relayed[own(d)] \o mq'[ChatType] = Append(s, m)
      <4>1. relayed[own(d)] \in Seq(Text) /\ HandedOver(d) \in Nat
        BY <1>t
      <4>2. Numbered(d, s, HandedOver(d)) /\ s \in Seq(Text)
        BY <1>t, <4>1 DEF LinesInv, NothingLost
      <4>3. relayed[own(d)] \o Append(mq[ChatType], m) = Append(s, m)
        BY <1>t, <2>1, <4>1, AppendEnd
      <4> QED
        BY <2>2, <4>1, <4>2, <4>3
    <3> HIDE DEF s
    <3>2. CASE d = c
      BY <2>1, <2>3, <3>1, <3>2, NumberedNext
    <3>3. CASE d # c
      BY <2>1, <2>3, <3>1, <3>3, NumberedOther
    <3> QED
      BY <3>2, <3>3
  <2>6. NothingLost'
    BY <2>2, <2>5 DEF NothingLost
  <2> QED
    BY <2>4, <2>6 DEF LinesInv
<1>8. ASSUME NEW c \in Clients, Receive(c) PROVE LinesInv'
  <2>1. mq'[ChatType] = mq[ChatType]
    BY <1>8, <1>q, ReceiveQueue, KindOfType DEF Receive
  <2> QED
    BY <1>8, <2>1, LinesKept DEF Receive, HandedOver
<1>9. CASE UNCHANGED vars
  BY <1>9, LinesKept DEF vars, HandedOver
<1> QED
  BY <1>1, <1>2, <1>3, <1>4, <1>5, <1>6, <1>7, <1>8, <1>9 DEF Next

(* Nobody's lines are lost, doubled or reordered on their way through the  *)
(* shared queue into the server's log (client.c 32-39, server.c 61-70),    *)
(* for any number of clients, lines and places in the queue.               *)
THEOREM LinesArrive == Spec => []NothingLost
<1>1. LinesInv => NothingLost
  BY DEF LinesInv
<1> QED
  BY <1>1, InitLines, StepLines, TypeCorrect, PTL DEF Spec

-----------------------------------------------------------------------------
(* Refinement.                                                             *)

(* -1 is no group number, so "in no group" is told apart from every group. *)
LEMMA NoGroup == -1 \notin Groups
BY GroupAssumption DEF GroupAssumption

(* A step that keeps the lists, the logs and what was printed is invisible *)
(* in the abstract specification.                                          *)
LEMMA Invisible ==
  ASSUME UNCHANGED <<grp, cgrp, received, relayed>>
  PROVE  UNCHANGED Broadcast!avars
<1>1. \A c \in Clients : EnteredIn(c)' = EnteredIn(c)
  BY DEF EnteredIn, Listed
<1> QED
  BY <1>1 DEF Broadcast!avars

(* GroupChat implements GroupBroadcast: accepting a client is a Join,      *)
(* taking a line is a Say, printing a text is a Show of the next text of   *)
(* the member's log, and everything else is invisible.                     *)
THEOREM ChatImplementsBroadcast == Spec => ImplementsBroadcast
<1>1. Init => Broadcast!AInit
  <2> SUFFICES ASSUME Init PROVE Broadcast!AInit
    OBVIOUS
  <2>1. \A c \in Clients : ~Listed(c)
    BY DEF Init, Listed
  <2> QED
    BY <2>1 DEF Init, Broadcast!AInit, EnteredIn
<1>2. TypeOK /\ Roster /\ TotalOrder /\ [Next]_vars => [Broadcast!ANext]_(Broadcast!avars)
  <2> SUFFICES ASSUME TypeOK, Roster, TotalOrder, [Next]_vars
               PROVE  Broadcast!ANext \/ UNCHANGED Broadcast!avars
    OBVIOUS
  <2>1. CASE AcceptClient
    <3>1. /\ NewPid \in Clients /\ NewGrp \in Groups
          /\ NewGrp = cgrp[NewPid] /\ ~Listed(NewPid)
          /\ UNCHANGED <<cgrp, received, relayed>> /\ spc = "connect"
      BY <2>1, AcceptStep
    <3>2. \A d \in Clients : Listed(d)' <=> (Listed(d) \/ d = NewPid)
      BY <2>1, AcceptStep
    <3>3. \A h \in Groups : relayed[h] = <<>>
      BY <3>1 DEF Roster, LogsOK
    <3>4. EnteredIn(NewPid) = -1
      BY <3>1 DEF EnteredIn
    <3>5. \A d \in Clients : EnteredIn(d)' = IF d = NewPid THEN NewGrp ELSE EnteredIn(d)
      BY <3>1, <3>2 DEF EnteredIn
    <3>6. [d \in Clients |-> EnteredIn(d)]'
            = [[d \in Clients |-> EnteredIn(d)] EXCEPT ![NewPid] = NewGrp]
      BY <3>1, <3>5
    <3>7. Broadcast!Join(NewPid, NewGrp)
      BY <3>1, <3>3, <3>4, <3>6 DEF Broadcast!Join
    <3> QED
      BY <3>1, <3>7 DEF Broadcast!ANext
  <2>2. CASE TakeLine
    <3> DEFINE m == Head(mq[ChatType])
    <3>1. m \in Text /\ FirstDigit(m.grp) \in Groups
      <4>1. msgrcv(ChatType)
        BY <2>2 DEF TakeLine
      <4>2. m \in Text
        BY <4>1, ReceiveQueue, KindOfType
      <4> QED
        BY <4>2, FirstDigitGroup DEF Text
    <3>2. UNCHANGED <<grp, cgrp, received>>
      BY <2>2 DEF TakeLine
    <3>3. \A c \in Clients : EnteredIn(c)' = EnteredIn(c)
      BY <3>2 DEF EnteredIn, Listed
    <3>4. relayed' = [relayed EXCEPT ![FirstDigit(m.grp)] = Append(@, m)]
      BY <2>2 DEF TakeLine
    <3>5. Broadcast!Say(m)
      BY <3>2, <3>3, <3>4 DEF Broadcast!Say, HeardIn
    <3> QED
      BY <3>1, <3>5 DEF Broadcast!ANext
  <2>3. CASE RelayToMember
    BY <2>3, Invisible DEF RelayToMember
  <2>4. ASSUME NEW c \in Clients, Start(c) PROVE UNCHANGED Broadcast!avars
    BY <2>4, Invisible DEF Start
  <2>5. ASSUME NEW c \in Clients, SendConnect(c) PROVE UNCHANGED Broadcast!avars
    BY <2>5, Invisible DEF SendConnect
  <2>6. ASSUME NEW c \in Clients, TypeLine(c) PROVE UNCHANGED Broadcast!avars
    BY <2>6, Invisible DEF TypeLine
  <2>7. ASSUME NEW c \in Clients, SendLine(c) PROVE UNCHANGED Broadcast!avars
    BY <2>7, Invisible DEF SendLine
  <2>8. ASSUME NEW c \in Clients, Receive(c) PROVE Broadcast!ANext
    <3>1. mq[c] # <<>> /\ UNCHANGED <<grp, cgrp, relayed>>
          /\ received' = [received EXCEPT ![c] = Append(@, Head(mq[c]))]
      BY <2>8, ReceiveQueue, KindOfType DEF Receive
    <3>2. Listed(c)
      BY <3>1 DEF Roster, UnlistedOK
    <3>3. received[c] \in Seq(Text) /\ mq[c] \in Seq(Text)
      BY Shapes
    <3>4. /\ Len(received[c]) + 1 \in 1..Len(Got(c))
          /\ Got(c)[Len(received[c]) + 1] = Head(mq[c])
      <4>1. received[c] \in Seq(Text) /\ mq[c] \in Seq(Text) /\ mq[c] # <<>>
        BY <3>1, <3>3
      <4>2. /\ Len(received[c]) + 1 \in 1..Len(received[c] \o mq[c])
            /\ (received[c] \o mq[c])[Len(received[c]) + 1] = Head(mq[c])
        BY ONLY <4>1, NextOfConcat
      <4> QED
        BY <4>2 DEF Got
    <3>5. cgrp[c] \in Groups /\ Len(relayed[cgrp[c]]) \in Nat
      BY <3>2, GotIsPrefix, Shapes
    <3>6. /\ Len(received[c]) < Len(relayed[cgrp[c]])
          /\ relayed[cgrp[c]][Len(received[c]) + 1] = Head(mq[c])
      BY <3>2, <3>3, <3>4, <3>5, GotIsPrefix
    <3>7. EnteredIn(c) = cgrp[c] /\ cgrp[c] # -1
      BY <3>2, <3>5, NoGroup DEF EnteredIn
    <3>8. \A d \in Clients : EnteredIn(d)' = EnteredIn(d)
      BY <3>1 DEF EnteredIn, Listed
    <3>9. Broadcast!Show(c)
      BY <3>1, <3>6, <3>7, <3>8 DEF Broadcast!Show
    <3> QED
      BY <3>9 DEF Broadcast!ANext
  <2>9. ASSUME NEW c \in Clients, Quit(c) PROVE UNCHANGED Broadcast!avars
    BY <2>9, Invisible DEF Quit
  <2>10. CASE UNCHANGED vars
    BY <2>10, Invisible DEF vars
  <2> QED
    BY <2>1, <2>2, <2>3, <2>4, <2>5, <2>6, <2>7, <2>8, <2>9, <2>10 DEF Next
<1> QED
  BY <1>1, <1>2, Reachable, PTL DEF Spec, ImplementsBroadcast, Broadcast!ASpec

-----------------------------------------------------------------------------
(* MessageQueue/Chat keeps its list and relays as GroupChat does, without  *)
(* groups, but its server is restarted on the same queue.  What follows is *)
(* about that program: its state has the names of GroupChat's, and more.   *)
CONSTANTS MaxRuns,       \* how often the server is started
          MayDie         \* the clients that may be killed
VARIABLES i,             \* server: the next member to send the text to
          life, home, taken, missed   \* histories of the runs, as in Chat

CH == INSTANCE Chat

(* What Chat assumes of its constants.                                     *)
ChatAssumed == CH!PidAssumption /\ CH!BoundAssumption

USE DEF CH!qvars, CH!svars, CH!cvars, ChatAssumed

(* What a blocking send leaves in the queue: one more message, at the end  *)
(* of its type.                                                            *)
LEMMA ChatSendQueue ==
  ASSUME CH!TypeOK, NEW t \in CH!Types, NEW m \in CH!MsgOf(t), CH!msgsnd(t, m)
  PROVE  /\ mq' \in [CH!Types -> Seq(Clients \cup CH!Text)]
         /\ \A u \in CH!Types : mq'[u] \in Seq(CH!MsgOf(u))
         /\ qnum' \in Int
         /\ mq'[t] = Append(mq[t], m)
         /\ \A u \in CH!Types \ {t} : mq'[u] = mq[u]
<1>1. m \in Clients \cup CH!Text
  BY DEF CH!MsgOf
<1> QED
  BY <1>1 DEF CH!TypeOK, CH!msgsnd

(* What a receive takes: the oldest message of its type.                   *)
LEMMA ChatReceiveQueue ==
  ASSUME CH!TypeOK, NEW t \in CH!Types, CH!msgrcv(t)
  PROVE  /\ mq' \in [CH!Types -> Seq(Clients \cup CH!Text)]
         /\ \A u \in CH!Types : mq'[u] \in Seq(CH!MsgOf(u))
         /\ qnum' \in Int
         /\ mq[t] # <<>>
         /\ Head(mq[t]) \in CH!MsgOf(t)
         /\ mq'[t] = Tail(mq[t])
         /\ \A u \in CH!Types \ {t} : mq'[u] = mq[u]
<1>1. mq[t] \in Seq(CH!MsgOf(t)) /\ mq[t] \in Seq(Clients \cup CH!Text) /\ mq[t] # <<>>
  BY DEF CH!TypeOK, CH!msgrcv
<1>2. Head(mq[t]) \in CH!MsgOf(t) /\ Tail(mq[t]) \in Seq(CH!MsgOf(t))
      /\ Tail(mq[t]) \in Seq(Clients \cup CH!Text)
  BY <1>1
<1> QED
  BY <1>1, <1>2 DEF CH!TypeOK, CH!msgrcv

(* The message types are distinct, so each kind of message is of its type; *)
(* the zeroed global is no text.                                           *)
LEMMA ChatKindOfType ==
  ASSUME ChatAssumed
  PROVE
  /\ CH!ConnectType \in CH!Types /\ CH!ChatType \in CH!Types /\ Clients \subseteq CH!Types
  /\ CH!MsgOf(CH!ConnectType) = Clients /\ CH!MsgOf(CH!ChatType) = CH!Text
  /\ \A c \in Clients : CH!MsgOf(c) = CH!Text /\ c # CH!ConnectType /\ c # CH!ChatType
  /\ CH!ConnectType # CH!ChatType
BY DEF CH!PidAssumption, CH!Types, CH!MsgOf, CH!ConnectType, CH!ChatType

\* The zeroed global is no text of a client.
LEMMA ChatTextIsSome ==
  ASSUME ChatAssumed
  PROVE  CH!NoText \notin CH!Text
<1>1. ASSUME NEW x \in CH!Text PROVE x.k # 0
  BY DEF CH!Text, CH!BoundAssumption
<1> QED
  BY <1>1 DEF CH!NoText

(* Every reachable state of server, clients and queue is well typed; in    *)
(* particular the server relays only with a full list, and its loop        *)
(* (server.c 35) stays inside it, after every restart.                     *)
THEOREM ChatTypeCorrect ==
  ASSUME ChatAssumed
  PROVE  CH!Spec => []CH!TypeOK
<1> USE ChatKindOfType
<1>1. CH!Init => CH!TypeOK
  BY DEF CH!Init, CH!TypeOK, CH!msgget, CH!MsgOf, CH!BoundAssumption
<1>2. CH!TypeOK /\ [CH!Next]_CH!vars => CH!TypeOK'
  <2> SUFFICES ASSUME CH!TypeOK, [CH!Next]_CH!vars PROVE CH!TypeOK'
    OBVIOUS
  <2> USE DEF CH!TypeOK
  <2>1. CASE CH!StartServer
    <3>1. life' \in 0..MaxRuns /\ life' # 0 /\ Len(client') < ConnectMax
      BY <2>1 DEF CH!StartServer, CH!BoundAssumption
    <3> QED
      BY <2>1, <3>1 DEF CH!StartServer
  <2>2. CASE CH!AcceptClient
    <3> DEFINE c == Head(mq[CH!ConnectType])
    <3>1. c \in Clients
      BY <2>2, ChatReceiveQueue DEF CH!AcceptClient
    <3>2. client' \in Seq(Clients) /\ Len(client') = Len(client) + 1
          /\ spc' \in {"connect", "recv"} /\ Len(client) < ConnectMax /\ Len(client) \in Nat
      BY <2>2, <3>1 DEF CH!AcceptClient
    <3>3. /\ spc' = "connect" => Len(client') < ConnectMax
          /\ spc' = "recv" => Len(client') = ConnectMax
      <4>1. spc' = IF Len(client) + 1 < ConnectMax THEN "connect" ELSE "recv"
        BY <2>2 DEF CH!AcceptClient
      <4>2. ConnectMax \in Nat \ {0}
        BY DEF CH!BoundAssumption
      <4> QED
        BY ONLY <3>2, <4>1, <4>2
    <3>4. home' \in [Clients -> 0..MaxRuns]
      BY <2>2, <3>1 DEF CH!AcceptClient
    <3>5. /\ mq' \in [CH!Types -> Seq(Clients \cup CH!Text)]
          /\ \A u \in CH!Types : mq'[u] \in Seq(CH!MsgOf(u))
          /\ qnum' \in Int
      BY <2>2, ChatReceiveQueue DEF CH!AcceptClient
    <3>6. life # 0 /\ UNCHANGED <<message, i, life, taken, missed, CH!cvars>>
      BY <2>2 DEF CH!AcceptClient
    <3> QED
      BY <3>2, <3>3, <3>4, <3>5, <3>6
  <2>3. CASE CH!TakeLine
    <3> DEFINE m == Head(mq[CH!ChatType])
    <3>1. m \in CH!Text
      BY <2>3, ChatReceiveQueue DEF CH!TakeLine
    <3>2. taken' \in [1..MaxRuns -> Seq(CH!Text)]
      <4>1. life \in 1..MaxRuns
        BY <2>3 DEF CH!TakeLine
      <4>2. taken[life] \in Seq(CH!Text)
        BY <4>1
      <4>3. Append(taken[life], m) \in Seq(CH!Text)
        BY ONLY <3>1, <4>2
      <4> QED
        BY <2>3, <4>1, <4>3 DEF CH!TakeLine
    <3>3. /\ mq' \in [CH!Types -> Seq(Clients \cup CH!Text)]
          /\ \A u \in CH!Types : mq'[u] \in Seq(CH!MsgOf(u))
          /\ qnum' \in Int
      BY <2>3, ChatReceiveQueue DEF CH!TakeLine
    <3>4. spc' = "relay" /\ message' = m /\ i' = 1 /\ Len(client) = ConnectMax /\ life # 0
          /\ UNCHANGED <<client, life, home, missed, CH!cvars>>
      BY <2>3 DEF CH!TakeLine
    <3>5. i' \in 1..Len(client') /\ i' \in Nat \ {0} /\ message' \in CH!Text /\ Len(client') = ConnectMax
      BY <3>1, <3>4 DEF CH!BoundAssumption
    <3> QED
      BY <3>2, <3>3, <3>4, <3>5
  <2>4. CASE CH!RelayToMember
    <3>1. message \in CH!Text /\ i \in 1..Len(client) /\ client[i] \in Clients /\ Len(client) \in Nat
      BY <2>4 DEF CH!RelayToMember
    <3>2. /\ mq' \in [CH!Types -> Seq(Clients \cup CH!Text)]
          /\ \A u \in CH!Types : mq'[u] \in Seq(CH!MsgOf(u))
          /\ qnum' \in Int
      BY <2>4, <3>1, ChatSendQueue DEF CH!RelayToMember
    <3>3. i' \in Nat \ {0} /\ spc' \in {"recv", "relay"} /\ (spc' = "relay" => i' \in 1..Len(client))
      <4>1. i' = i + 1 /\ spc' = IF i < Len(client) THEN "relay" ELSE "recv"
        BY <2>4 DEF CH!RelayToMember
      <4> QED
        BY ONLY <3>1, <4>1
    <3>4. UNCHANGED <<client, message, life, home, taken, missed, CH!cvars>> /\ spc = "relay"
      BY <2>4 DEF CH!RelayToMember
    <3> QED
      BY <3>1, <3>2, <3>3, <3>4
  <2>5. CASE CH!KillServer
    BY <2>5 DEF CH!KillServer, CH!Owed
  <2>6. ASSUME NEW c \in Clients, CH!Start(c) PROVE CH!TypeOK'
    BY <2>6 DEF CH!Start
  <2>7. ASSUME NEW c \in Clients, CH!SendConnect(c) PROVE CH!TypeOK'
    <3>1. /\ mq' \in [CH!Types -> Seq(Clients \cup CH!Text)]
          /\ \A u \in CH!Types : mq'[u] \in Seq(CH!MsgOf(u))
          /\ qnum' \in Int
      BY <2>7, ChatSendQueue DEF CH!SendConnect
    <3> QED
      BY <2>7, <3>1 DEF CH!SendConnect
  <2>8. ASSUME NEW c \in Clients, CH!TypeLine(c) PROVE CH!TypeOK'
    <3>1. sent' \in [Clients -> 0..MaxSends] /\ sent'[c] >= 1
      <4>1. sent[c] \in 0..MaxSends /\ sent[c] < MaxSends
        BY <2>8 DEF CH!TypeLine
      <4>2. sent[c] + 1 \in 1..MaxSends
        BY <4>1 DEF CH!BoundAssumption
      <4> QED
        BY <2>8, <4>2 DEF CH!TypeLine
    <3>2. typed' \in [Clients -> BOOLEAN] /\ \A d \in Clients : typed'[d] => sent'[d] >= 1
      BY <2>8, <3>1 DEF CH!TypeLine
    <3> QED
      BY <2>8, <3>1, <3>2 DEF CH!TypeLine
  <2>9. ASSUME NEW c \in Clients, CH!SendLine(c) PROVE CH!TypeOK'
    <3>1. [from |-> c, k |-> sent[c]] \in CH!Text
      BY <2>9 DEF CH!SendLine, CH!Text, CH!BoundAssumption
    <3>2. /\ mq' \in [CH!Types -> Seq(Clients \cup CH!Text)]
          /\ \A u \in CH!Types : mq'[u] \in Seq(CH!MsgOf(u))
          /\ qnum' \in Int
      BY <2>9, <3>1, ChatSendQueue DEF CH!SendLine
    <3> QED
      BY <2>9, <3>2 DEF CH!SendLine
  <2>10. ASSUME NEW c \in Clients, CH!Receive(c) PROVE CH!TypeOK'
    <3>1. /\ mq' \in [CH!Types -> Seq(Clients \cup CH!Text)]
          /\ \A u \in CH!Types : mq'[u] \in Seq(CH!MsgOf(u))
          /\ qnum' \in Int
          /\ Head(mq[c]) \in CH!Text
      BY <2>10, ChatReceiveQueue DEF CH!Receive
    <3>2. received' \in [Clients -> Seq(CH!Text)]
      BY <2>10, <3>1 DEF CH!Receive
    <3> QED
      BY <2>10, <3>1, <3>2 DEF CH!Receive
  <2>11. ASSUME NEW c \in Clients, CH!Kill(c) PROVE CH!TypeOK'
    BY <2>11 DEF CH!Kill
  <2>12. CASE UNCHANGED CH!vars
    BY <2>12 DEF CH!vars
  <2> QED
    BY <2>1, <2>2, <2>3, <2>4, <2>5, <2>6, <2>7, <2>8, <2>9, <2>10, <2>11, <2>12 DEF CH!Next
<1> QED
  BY <1>1, <1>2, PTL DEF CH!Spec

-----------------------------------------------------------------------------
(* The inductive invariant: types, who is listed in which run, and what    *)
(* each of them has got.                                                   *)
ChatIInv == CH!TypeOK /\ CH!Roster /\ CH!OneRunsLines

(* The shape of the state, in the form the proofs below use it.            *)
LEMMA ChatShapes ==
  ASSUME ChatAssumed, CH!TypeOK
  PROVE  /\ client \in Seq(Clients) /\ Len(client) \in Nat
         /\ \A p \in 1..Len(client) : client[p] \in Clients
         /\ \A c \in Clients : received[c] \in Seq(CH!Text) /\ mq[c] \in Seq(CH!Text)
         /\ \A r \in 1..MaxRuns : taken[r] \in Seq(CH!Text)
         /\ life \in 0..MaxRuns /\ i \in Nat \ {0}
         /\ CH!Waiting \in Seq(Clients) /\ Len(CH!Waiting) \in Nat
         /\ \A p \in 1..Len(CH!Waiting) : CH!Waiting[p] \in Clients
         /\ DOMAIN home = Clients /\ DOMAIN received = Clients /\ DOMAIN cpc = Clients
         /\ DOMAIN taken = 1..MaxRuns
         /\ \A c \in Clients : home[c] \in 0..MaxRuns /\ missed[c] \in CH!Text \cup {CH!NoText}
<1>1. CH!Waiting \in Seq(Clients)
  BY ChatKindOfType DEF CH!TypeOK, CH!Waiting
<1>2. client \in Seq(Clients)
  BY DEF CH!TypeOK
<1>3. \A p \in 1..Len(client) : client[p] \in Clients
  BY <1>2
<1>4. \A p \in 1..Len(CH!Waiting) : CH!Waiting[p] \in Clients
  BY <1>1
<1>5. \A c \in Clients : received[c] \in Seq(CH!Text) /\ mq[c] \in Seq(CH!Text)
  BY ChatKindOfType DEF CH!TypeOK
<1>6. /\ \A r \in 1..MaxRuns : taken[r] \in Seq(CH!Text)
      /\ life \in 0..MaxRuns /\ i \in Nat \ {0}
      /\ DOMAIN home = Clients /\ DOMAIN received = Clients /\ DOMAIN cpc = Clients
      /\ DOMAIN taken = 1..MaxRuns
      /\ \A c \in Clients : home[c] \in 0..MaxRuns /\ missed[c] \in CH!Text \cup {CH!NoText}
  BY DEF CH!TypeOK
<1>7. Len(client) \in Nat /\ Len(CH!Waiting) \in Nat
  BY <1>1, <1>2
<1> QED
  BY <1>1, <1>2, <1>3, <1>4, <1>5, <1>6, <1>7

\* The invariant holds at the start.
LEMMA ChatInitIInv ==
  ASSUME ChatAssumed
  PROVE  CH!Init => CH!Roster /\ CH!OneRunsLines
<1> SUFFICES ASSUME CH!Init PROVE CH!Roster /\ CH!OneRunsLines
  OBVIOUS
<1>1. /\ client = <<>> /\ life = 0 /\ spc = "dead" /\ CH!Waiting = <<>>
      /\ \A c \in Clients : /\ home[c] = 0 /\ missed[c] = CH!NoText
                            /\ received[c] = <<>> /\ mq[c] = <<>>
      /\ \A r \in 1..MaxRuns : taken[r] = <<>>
  BY ChatKindOfType DEF CH!Init, CH!msgget, CH!Waiting
<1>2. CH!Roster
  BY <1>1 DEF CH!Roster, CH!MembersOK, CH!WaitingOK, CH!RunsOK
<1>3. CH!OneRunsLines
  BY <1>1 DEF CH!OneRunsLines, CH!Got
<1> QED
  BY <1>2, <1>3

(* A step that leaves the server's side, the connect messages and what the *)
(* clients have got alone, and takes no client back to before it           *)
(* connected, keeps the invariant.                                         *)
LEMMA ChatStatusKept ==
  ASSUME ChatAssumed, CH!TypeOK, CH!Roster, CH!OneRunsLines,
         UNCHANGED CH!svars,
         CH!Waiting' = CH!Waiting,
         \A d \in Clients : CH!Got(d)' = CH!Got(d),
         \A d \in Clients : cpc[d] \in {"run", "gone"} => cpc'[d] \in {"run", "gone"}
  PROVE  CH!Roster' /\ CH!OneRunsLines'
<1>1. \A p \in 1..Len(CH!Waiting) : CH!Waiting[p] \in Clients
  BY ChatShapes
<1>2. CH!MembersOK' /\ CH!WaitingOK' /\ CH!RunsOK'
  BY <1>1 DEF CH!Roster, CH!MembersOK, CH!WaitingOK, CH!RunsOK
<1>3. CH!OneRunsLines'
  BY DEF CH!OneRunsLines, CH!Owed
<1> QED
  BY <1>2, <1>3 DEF CH!Roster

(* Only members of the present run are owed the line being relayed.        *)
LEMMA ChatOwedAreMembers ==
  ASSUME ChatAssumed, CH!TypeOK, CH!Roster, NEW c \in Clients, CH!Owed(c)
  PROVE  home[c] = life /\ life # 0
<1>1. PICK p \in i..Len(client) : client[p] = c
  BY DEF CH!Owed
<1>2. p \in 1..Len(client)
  BY <1>1, ChatShapes
<1> QED
  BY <1>1, <1>2 DEF CH!Roster, CH!MembersOK, CH!TypeOK, CH!Owed

(* One lemma per step of the server.                                       *)
LEMMA ChatStartStep ==
  ASSUME ChatAssumed, CH!TypeOK, CH!Roster, CH!OneRunsLines, CH!StartServer
  PROVE  CH!Roster' /\ CH!OneRunsLines'
<1>1. /\ client' = <<>> /\ life' = life + 1 /\ spc = "dead" /\ spc' = "connect"
      /\ UNCHANGED <<mq, home, taken, missed, cpc, received>> /\ CH!Waiting' = CH!Waiting
      /\ life < MaxRuns
  BY DEF CH!StartServer, CH!Waiting
<1>2. \A c \in Clients : home[c] <= life /\ home[c] \in Nat /\ life \in Nat
  BY ChatShapes DEF CH!Roster, CH!RunsOK
<1>3. CH!MembersOK'
  BY <1>1, <1>2 DEF CH!MembersOK
<1>4. CH!WaitingOK'
  BY <1>1 DEF CH!Roster, CH!WaitingOK
<1>5. CH!RunsOK'
  <2>1. \A r \in 1..MaxRuns : r > life => taken[r] = <<>>
    BY DEF CH!Roster, CH!RunsOK
  <2>2. life \in Nat /\ MaxRuns \in Nat
    BY ChatShapes DEF CH!BoundAssumption
  <2>3. taken[life + 1] = <<>> /\ \A r \in 1..MaxRuns : r > life + 1 => taken[r] = <<>>
    BY <1>1, <2>1, <2>2
  <2>4. \A c \in Clients : home[c] <= life + 1
    BY <1>2
  <2> QED
    BY <1>1, <2>3, <2>4 DEF CH!Roster, CH!RunsOK
<1>6. CH!OneRunsLines'
  BY <1>1 DEF CH!OneRunsLines, CH!Owed, CH!Got
<1> QED
  BY <1>3, <1>4, <1>5, <1>6 DEF CH!Roster

\* The server takes the oldest connect message.
LEMMA ChatAcceptStep ==
  ASSUME ChatAssumed, CH!TypeOK, CH!Roster, CH!OneRunsLines, CH!AcceptClient
  PROVE  CH!Roster' /\ CH!OneRunsLines'
<1> DEFINE c == Head(CH!Waiting)
<1>s. /\ client \in Seq(Clients) /\ Len(client) \in Nat
      /\ \A p \in 1..Len(client) : client[p] \in Clients
      /\ CH!Waiting \in Seq(Clients) /\ Len(CH!Waiting) \in Nat
      /\ DOMAIN home = Clients
  BY ChatShapes
<1>1. /\ CH!Waiting # <<>> /\ CH!Waiting' = Tail(CH!Waiting)
      /\ \A d \in Clients : mq'[d] = mq[d]
  BY ChatReceiveQueue, ChatKindOfType DEF CH!AcceptClient, CH!Waiting
<1>2. /\ c = CH!Waiting[1] /\ c \in Clients /\ 1 \in 1..Len(CH!Waiting)
      /\ Len(CH!Waiting') = Len(CH!Waiting) - 1
      /\ \A p \in 1..Len(CH!Waiting') : CH!Waiting'[p] = CH!Waiting[p + 1] /\ p + 1 \in 1..Len(CH!Waiting)
  BY <1>s, <1>1
<1>3. /\ client' = Append(client, c) /\ home' = [home EXCEPT ![c] = life]
      /\ spc = "connect" /\ spc' \in {"connect", "recv"}
      /\ UNCHANGED <<life, taken, missed, cpc, received>>
  BY DEF CH!AcceptClient, CH!Waiting
<1>4. /\ home'[c] = life /\ \A d \in Clients \ {c} : home'[d] = home[d]
      /\ life > 0 /\ life \in 1..MaxRuns
  BY <1>s, <1>2, <1>3, ChatShapes DEF CH!TypeOK
<1>5. /\ home[c] = 0 /\ cpc[c] \in {"run", "gone"} /\ missed[c] = CH!NoText
      /\ \A p \in 1..Len(CH!Waiting) : p # 1 => CH!Waiting[p] # c
  BY <1>2 DEF CH!Roster, CH!WaitingOK, CH!RunsOK
<1>6. \A p \in 1..Len(client) : client[p] # c
  BY <1>4, <1>5 DEF CH!Roster, CH!MembersOK
<1>7. /\ Len(client') = Len(client) + 1 /\ client'[Len(client) + 1] = c
      /\ \A p \in 1..Len(client) : client'[p] = client[p]
  BY <1>s, <1>2, <1>3
<1>8. \A p \in 1..Len(client') : \/ p \in 1..Len(client) /\ client'[p] = client[p]
                                 \/ p = Len(client) + 1 /\ client'[p] = c
  BY <1>s, <1>7
<1>9. CH!MembersOK'
  <2>1. \A p \in 1..Len(client') : home'[client'[p]] = life
    BY <1>s, <1>4, <1>6, <1>8 DEF CH!Roster, CH!MembersOK
  <2>2. \A p, q \in 1..Len(client') : client'[p] = client'[q] => p = q
    BY <1>6, <1>8 DEF CH!Roster, CH!MembersOK
  <2>3. ASSUME NEW d \in Clients, home'[d] = life
        PROVE  (\E p \in 1..Len(client') : client'[p] = d) /\ missed[d] = CH!NoText
    <3>1. CASE d = c
      <4>1. Len(client) + 1 \in 1..Len(client')
        BY <1>s, <1>7
      <4> QED
        BY <1>5, <1>7, <3>1, <4>1
    <3>2. CASE d # c
      <4>1. home[d] = life
        BY <1>4, <2>3, <3>2
      <4>2. (\E p \in 1..Len(client) : client[p] = d) /\ missed[d] = CH!NoText
        BY <1>3, <1>4, <4>1 DEF CH!Roster, CH!MembersOK
      <4>3. \A p \in 1..Len(client) : p \in 1..Len(client')
        BY <1>s, <1>7
      <4> QED
        BY <1>7, <4>2, <4>3
    <3> QED
      BY <3>1, <3>2
  <2> QED
    BY <1>3, <2>1, <2>2, <2>3 DEF CH!MembersOK
<1>10. CH!WaitingOK'
  <2>1. \A p \in 1..Len(CH!Waiting') : /\ CH!Waiting'[p] \in Clients \ {c}
                                       /\ home[CH!Waiting'[p]] = 0
                                       /\ cpc[CH!Waiting'[p]] \in {"run", "gone"}
    <3>1. ASSUME NEW p \in 1..Len(CH!Waiting')
          PROVE  /\ p + 1 \in 1..Len(CH!Waiting) /\ p + 1 # 1
                 /\ CH!Waiting'[p] = CH!Waiting[p + 1] /\ CH!Waiting[p + 1] \in Clients
      BY <1>s, <1>2
    <3> QED
      BY <1>5, <3>1 DEF CH!Roster, CH!WaitingOK
  <2>2. \A p, q \in 1..Len(CH!Waiting') : CH!Waiting'[p] = CH!Waiting'[q] => p = q
    <3> SUFFICES ASSUME NEW p \in 1..Len(CH!Waiting'), NEW q \in 1..Len(CH!Waiting'),
                        CH!Waiting'[p] = CH!Waiting'[q]
                 PROVE  p = q
      OBVIOUS
    <3>1. p + 1 = q + 1
      BY <1>2 DEF CH!Roster, CH!WaitingOK
    <3> QED
      BY <3>1
  <2> QED
    BY <1>3, <1>4, <2>1, <2>2 DEF CH!WaitingOK
<1>11. CH!RunsOK'
  <2>1. \A d \in Clients :
           /\ home'[d] <= life
           /\ IF home'[d] = 0 THEN missed[d] = CH!NoText ELSE cpc[d] \in {"run", "gone"}
    <3>1. home'[c] <= life
      BY <1>4
    <3>2. \A d \in Clients \ {c} : home'[d] <= life
      BY <1>4 DEF CH!Roster, CH!RunsOK
    <3>3. \A d \in Clients \ {c} :
             IF home'[d] = 0 THEN missed[d] = CH!NoText ELSE cpc[d] \in {"run", "gone"}
      BY <1>4 DEF CH!Roster, CH!RunsOK
    <3> QED
      BY ONLY <1>5, <3>1, <3>2, <3>3
  <2>2. /\ \A r \in 1..MaxRuns : r > life => taken[r] = <<>>
        /\ taken[life] = <<>>
    BY <1>3 DEF CH!Roster, CH!RunsOK
  <2> QED
    BY <1>3, <2>1, <2>2 DEF CH!RunsOK
<1>12. CH!OneRunsLines'
  <2> SUFFICES ASSUME NEW d \in Clients
               PROVE  IF home'[d] = 0 THEN CH!Got(d) = <<>>
                      ELSE taken[home'[d]] = IF missed[d] # CH!NoText THEN Append(CH!Got(d), missed[d])
                                             ELSE CH!Got(d)
    BY <1>1, <1>3 DEF CH!OneRunsLines, CH!Owed, CH!Got
  <2>1. CASE d = c
    <3>1. CH!Got(c) = <<>>
      BY <1>2, <1>5 DEF CH!OneRunsLines
    <3>2. taken[life] = <<>>
      BY <1>3 DEF CH!Roster, CH!RunsOK
    <3> QED
      BY <1>4, <1>5, <2>1, <3>1, <3>2
  <2>2. CASE d # c
    BY <1>3, <1>4, <2>2 DEF CH!OneRunsLines, CH!Owed
  <2> QED
    BY <2>1, <2>2
<1> QED
  BY <1>9, <1>10, <1>11, <1>12 DEF CH!Roster

\* It takes the oldest line, and owes it to every member.
LEMMA ChatTakeStep ==
  ASSUME ChatAssumed, CH!TypeOK, CH!Roster, CH!OneRunsLines, CH!TakeLine
  PROVE  CH!Roster' /\ CH!OneRunsLines'
<1> DEFINE m == Head(mq[CH!ChatType])
<1>1. /\ m \in CH!Text /\ CH!Waiting' = CH!Waiting
      /\ \A d \in Clients : mq'[d] = mq[d]
  BY ChatReceiveQueue, ChatKindOfType DEF CH!TakeLine, CH!Waiting
<1>2. /\ spc = "recv" /\ spc' = "relay" /\ message' = m /\ i' = 1
      /\ taken' = [taken EXCEPT ![life] = Append(@, m)]
      /\ UNCHANGED <<client, life, home, missed, cpc, received>>
  BY DEF CH!TakeLine
<1>3. life \in 1..MaxRuns /\ life > 0
  BY <1>2 DEF CH!TypeOK
<1>4. /\ taken'[life] = Append(taken[life], m)
      /\ \A r \in 1..MaxRuns : r # life => taken'[r] = taken[r]
  BY <1>2, <1>3, ChatShapes
<1>5. CH!MembersOK' /\ CH!WaitingOK'
  BY <1>1, <1>2 DEF CH!Roster, CH!MembersOK, CH!WaitingOK
<1>6. CH!RunsOK'
  BY <1>2, <1>3, <1>4 DEF CH!Roster, CH!RunsOK
<1>7. \A d \in Clients : CH!Owed(d)' <=> home[d] = life
  BY <1>2, <1>3 DEF CH!Owed, CH!Roster, CH!MembersOK
<1>8. CH!OneRunsLines'
  <2> SUFFICES ASSUME NEW d \in Clients
               PROVE  IF home[d] = 0 THEN CH!Got(d) = <<>>
                      ELSE taken'[home[d]] = IF home[d] = life THEN Append(CH!Got(d), m)
                                             ELSE IF missed[d] # CH!NoText THEN Append(CH!Got(d), missed[d])
                                             ELSE CH!Got(d)
    BY <1>1, <1>2, <1>7 DEF CH!OneRunsLines, CH!Got
  <2>0. ~CH!Owed(d) /\ home[d] \in 0..MaxRuns
    BY <1>2, ChatShapes DEF CH!Owed
  <2>1. CASE home[d] = life
    <3>1. missed[d] = CH!NoText
      BY <1>2, <1>3, <2>1 DEF CH!Roster, CH!MembersOK
    <3>2. taken[life] = CH!Got(d)
      BY <1>3, <2>0, <2>1, <3>1 DEF CH!OneRunsLines
    <3> QED
      BY <1>3, <1>4, <2>1, <3>2
  <2>2. CASE home[d] # life
    BY <1>4, <2>0, <2>2 DEF CH!OneRunsLines
  <2> QED
    BY <2>1, <2>2
<1> QED
  BY <1>5, <1>6, <1>8 DEF CH!Roster

\* It pays one of them.
LEMMA ChatRelayStep ==
  ASSUME ChatAssumed, CH!TypeOK, CH!Roster, CH!OneRunsLines, CH!RelayToMember
  PROVE  CH!Roster' /\ CH!OneRunsLines'
<1>0. PICK c \in Clients : c = client[i]
  BY ChatShapes DEF CH!RelayToMember, CH!TypeOK
<1>1. /\ spc = "relay" /\ message \in CH!Text /\ i \in 1..Len(client)
      /\ Len(client) \in Nat
  BY ChatShapes DEF CH!RelayToMember, CH!TypeOK
<1>2. /\ mq'[c] = Append(mq[c], message) /\ CH!Waiting' = CH!Waiting
      /\ \A d \in Clients \ {c} : mq'[d] = mq[d]
  BY <1>0, <1>1, ChatSendQueue, ChatKindOfType DEF CH!RelayToMember, CH!Waiting
<1>3. /\ i' = i + 1 /\ spc' = IF i < Len(client) THEN "relay" ELSE "recv"
      /\ UNCHANGED <<client, message, life, home, taken, missed, cpc, received>>
  BY DEF CH!RelayToMember
<1>4. CH!MembersOK' /\ CH!WaitingOK' /\ CH!RunsOK'
  BY <1>1, <1>2, <1>3 DEF CH!Roster, CH!MembersOK, CH!WaitingOK, CH!RunsOK
<1>5. CH!Owed(c) /\ ~CH!Owed(c)'
  <2>1. \A p \in i + 1..Len(client) : client[p] # c
    BY <1>0, <1>1 DEF CH!Roster, CH!MembersOK
  <2>2. i \in i..Len(client)
    BY <1>1
  <2> QED
    BY <1>0, <1>1, <1>3, <2>1, <2>2 DEF CH!Owed
<1>6. \A d \in Clients : d # c => (CH!Owed(d)' <=> CH!Owed(d))
  <2>1. \A p \in i..Len(client) : p = i \/ p \in i + 1..Len(client)
    BY <1>1
  <2>2. \A p \in i + 1..Len(client) : p \in i..Len(client) /\ i < Len(client)
    BY <1>1
  <2> QED
    BY <1>0, <1>1, <1>3, <2>1, <2>2 DEF CH!Owed
<1>7. /\ home[c] # 0 /\ missed[c] = CH!NoText
  <2>1. home[c] = life /\ life # 0
    BY <1>5, ChatOwedAreMembers
  <2>2. life > 0
    BY <2>1, ChatShapes
  <2> QED
    BY <1>1, <2>1, <2>2 DEF CH!Roster, CH!MembersOK
<1>8. CH!OneRunsLines'
  <2> DEFINE Lines(d) == IF home[d] = 0 THEN CH!Got(d) = <<>>
                         ELSE taken[home[d]] = IF CH!Owed(d) THEN Append(CH!Got(d), message)
                                               ELSE IF missed[d] # CH!NoText
                                                    THEN Append(CH!Got(d), missed[d])
                                               ELSE CH!Got(d)
  <2>0. home' = home /\ taken' = taken /\ missed' = missed /\ message' = message
    BY <1>3
  <2> SUFFICES ASSUME NEW d \in Clients PROVE Lines(d)'
    BY DEF CH!OneRunsLines
  <2>1. CASE d = c
    <3>1. received[c] \in Seq(CH!Text) /\ mq[c] \in Seq(CH!Text)
      BY <1>1, ChatShapes
    <3>2. received[c] \o Append(mq[c], message) = Append(received[c] \o mq[c], message)
      BY <1>1, <3>1, AppendEnd
    <3>3. CH!Got(c)' = Append(CH!Got(c), message)
      BY <1>2, <1>3, <3>2 DEF CH!Got
    <3>4. taken[home[c]] = Append(CH!Got(c), message)
      BY <1>1, <1>5, <1>7 DEF CH!OneRunsLines
    <3> QED
      BY ONLY <1>5, <1>7, <2>0, <2>1, <3>3, <3>4
  <2>2. CASE d # c
    <3>1. CH!Got(d)' = CH!Got(d)
      BY <1>2, <1>3, <2>2 DEF CH!Got
    <3>2. Lines(d)
      BY DEF CH!OneRunsLines
    <3> QED
      BY ONLY <1>6, <2>0, <2>2, <3>1, <3>2
  <2> QED
    BY <2>1, <2>2
<1> QED
  BY <1>4, <1>8 DEF CH!Roster

\* Killed, it leaves the line missing at those it still owed it to.
LEMMA ChatKillStep ==
  ASSUME ChatAssumed, CH!TypeOK, CH!Roster, CH!OneRunsLines, CH!KillServer
  PROVE  CH!Roster' /\ CH!OneRunsLines'
<1>1. /\ spc' = "dead" /\ UNCHANGED <<mq, client, life, home, taken, cpc, received>>
      /\ CH!Waiting' = CH!Waiting
      /\ \A d \in Clients : missed'[d] = IF CH!Owed(d) THEN message ELSE missed[d]
  BY DEF CH!KillServer, CH!Waiting
<1>2. \A d \in Clients : CH!Owed(d) => message # CH!NoText /\ home[d] # 0
  BY ChatOwedAreMembers, ChatTextIsSome DEF CH!Owed, CH!TypeOK
<1>3. CH!MembersOK' /\ CH!WaitingOK' /\ CH!RunsOK'
  BY <1>1, <1>2 DEF CH!Roster, CH!MembersOK, CH!WaitingOK, CH!RunsOK
<1>4. CH!OneRunsLines'
  <2> SUFFICES ASSUME NEW d \in Clients
               PROVE  IF home[d] = 0 THEN CH!Got(d) = <<>>
                      ELSE taken[home[d]] = IF missed'[d] # CH!NoText THEN Append(CH!Got(d), missed'[d])
                                            ELSE CH!Got(d)
    BY <1>1 DEF CH!OneRunsLines, CH!Owed, CH!Got
  <2> QED
    BY <1>1, <1>2 DEF CH!OneRunsLines
<1> QED
  BY <1>3, <1>4 DEF CH!Roster

\* So every step keeps the invariant.
LEMMA ChatStepIInv ==
  ASSUME ChatAssumed
  PROVE  ChatIInv /\ [CH!Next]_CH!vars => CH!Roster' /\ CH!OneRunsLines'
<1> SUFFICES ASSUME CH!TypeOK, CH!Roster, CH!OneRunsLines, [CH!Next]_CH!vars PROVE CH!Roster' /\ CH!OneRunsLines'
  BY DEF ChatIInv
<1>1. CASE CH!StartServer
  BY <1>1, ChatStartStep
<1>2. CASE CH!AcceptClient
  BY <1>2, ChatAcceptStep
<1>3. CASE CH!TakeLine
  BY <1>3, ChatTakeStep
<1>4. CASE CH!RelayToMember
  BY <1>4, ChatRelayStep
<1>5. CASE CH!KillServer
  BY <1>5, ChatKillStep
<1>6. ASSUME NEW c \in Clients, CH!Start(c) PROVE CH!Roster' /\ CH!OneRunsLines'
  <2>1. /\ UNCHANGED <<mq, CH!svars, received>> /\ cpc[c] = "start"
        /\ \A d \in Clients \ {c} : cpc'[d] = cpc[d]
    BY <1>6, ChatShapes DEF CH!Start
  <2> QED
    BY <2>1, ChatStatusKept DEF CH!Waiting, CH!Got
<1>7. ASSUME NEW c \in Clients, CH!SendConnect(c) PROVE CH!Roster' /\ CH!OneRunsLines'
  <2>1. /\ CH!Waiting' = Append(CH!Waiting, c) /\ UNCHANGED <<CH!svars, received>>
        /\ \A d \in Clients : mq'[d] = mq[d]
        /\ cpc[c] = "connect" /\ cpc'[c] = "run" /\ \A d \in Clients \ {c} : cpc'[d] = cpc[d]
    BY <1>7, ChatSendQueue, ChatKindOfType, ChatShapes DEF CH!SendConnect, CH!Waiting
  <2>2. home[c] = 0 /\ \A p \in 1..Len(CH!Waiting) : CH!Waiting[p] # c
    BY <2>1 DEF CH!Roster, CH!RunsOK, CH!WaitingOK
  <2>3. \A p \in 1..Len(CH!Waiting') : \/ p \in 1..Len(CH!Waiting) /\ CH!Waiting'[p] = CH!Waiting[p]
                                       \/ p = Len(CH!Waiting) + 1 /\ CH!Waiting'[p] = c
    <3>1. CH!Waiting \in Seq(Clients) /\ Len(CH!Waiting) \in Nat
      BY ChatShapes
    <3> QED
      BY <2>1, <3>1
  <2>4. \A p \in 1..Len(CH!Waiting) : CH!Waiting[p] \in Clients
    BY ChatShapes
  <2>5. CH!WaitingOK'
    <3>1. \A p \in 1..Len(CH!Waiting') : home[CH!Waiting'[p]] = 0 /\ cpc'[CH!Waiting'[p]] \in {"run", "gone"}
      BY <2>1, <2>2, <2>3, <2>4 DEF CH!Roster, CH!WaitingOK
    <3>2. \A p, q \in 1..Len(CH!Waiting') : CH!Waiting'[p] = CH!Waiting'[q] => p = q
      BY <2>2, <2>3 DEF CH!Roster, CH!WaitingOK
    <3> QED
      BY <2>1, <3>1, <3>2 DEF CH!WaitingOK
  <2>6. CH!MembersOK' /\ CH!RunsOK'
    BY <2>1, <2>2 DEF CH!Roster, CH!MembersOK, CH!RunsOK
  <2>7. CH!OneRunsLines'
    BY <2>1 DEF CH!OneRunsLines, CH!Owed, CH!Got
  <2> QED
    BY <2>5, <2>6, <2>7 DEF CH!Roster
<1>8. ASSUME NEW c \in Clients, CH!TypeLine(c) PROVE CH!Roster' /\ CH!OneRunsLines'
  BY <1>8, ChatStatusKept DEF CH!TypeLine, CH!Waiting, CH!Got
<1>9. ASSUME NEW c \in Clients, CH!SendLine(c) PROVE CH!Roster' /\ CH!OneRunsLines'
  <2>1. [from |-> c, k |-> sent[c]] \in CH!Text
    BY <1>9 DEF CH!SendLine, CH!Text, CH!TypeOK, CH!BoundAssumption
  <2>2. CH!Waiting' = CH!Waiting /\ (\A d \in Clients : mq'[d] = mq[d])
        /\ UNCHANGED <<CH!svars, cpc, received>>
    BY <1>9, <2>1, ChatSendQueue, ChatKindOfType DEF CH!SendLine, CH!Waiting
  <2> QED
    BY <2>2, ChatStatusKept DEF CH!Got
<1>10. ASSUME NEW c \in Clients, CH!Receive(c) PROVE CH!Roster' /\ CH!OneRunsLines'
  <2>1. /\ mq[c] # <<>> /\ mq'[c] = Tail(mq[c]) /\ CH!Waiting' = CH!Waiting
        /\ \A d \in Clients \ {c} : mq'[d] = mq[d]
        /\ received' = [received EXCEPT ![c] = Append(@, Head(mq[c]))]
        /\ UNCHANGED <<CH!svars, cpc>>
    BY <1>10, ChatReceiveQueue, ChatKindOfType DEF CH!Receive, CH!Waiting
  <2>2. /\ received'[c] = Append(received[c], Head(mq[c]))
        /\ \A d \in Clients \ {c} : received'[d] = received[d]
    BY <2>1, ChatShapes
  <2>3. Append(received[c], Head(mq[c])) \o Tail(mq[c]) = received[c] \o mq[c]
    <3>1. received[c] \in Seq(CH!Text) /\ mq[c] \in Seq(CH!Text)
      BY ChatShapes
    <3> QED
      BY <2>1, <3>1, MoveHead
  <2>4. \A d \in Clients : CH!Got(d)' = CH!Got(d)
    BY <2>1, <2>2, <2>3 DEF CH!Got
  <2> QED
    BY <2>1, <2>4, ChatStatusKept
<1>11. ASSUME NEW c \in Clients, CH!Kill(c) PROVE CH!Roster' /\ CH!OneRunsLines'
  <2>1. /\ UNCHANGED <<mq, CH!svars, received>> /\ cpc'[c] = "gone"
        /\ \A d \in Clients \ {c} : cpc'[d] = cpc[d]
    BY <1>11, ChatShapes DEF CH!Kill
  <2> QED
    BY <2>1, ChatStatusKept DEF CH!Waiting, CH!Got
<1>12. CASE UNCHANGED CH!vars
  BY <1>12, ChatStatusKept DEF CH!vars, CH!Waiting, CH!Got
<1> QED
  BY <1>1, <1>2, <1>3, <1>4, <1>5, <1>6, <1>7, <1>8, <1>9, <1>10, <1>11, <1>12 DEF CH!Next

(* However often the server is killed and started again on the same queue, *)
(* a client gets the lines of one run, once each and in the order that run *)
(* took them, but for one that run was killed relaying (server.c 22,       *)
(* 25-41, client.c 41-45).                                                 *)
THEOREM ChatRunsDoNotMix ==
  ASSUME ChatAssumed
  PROVE  CH!Spec => [](CH!Roster /\ CH!OneRunsLines)
<1>1. CH!Init /\ CH!TypeOK => ChatIInv
  BY ChatInitIInv DEF ChatIInv
<1>2. ChatIInv /\ CH!TypeOK' /\ [CH!Next]_CH!vars => ChatIInv'
  BY ChatStepIInv DEF ChatIInv
<1>3. ChatIInv => CH!Roster /\ CH!OneRunsLines
  BY DEF ChatIInv
<1> QED
  BY <1>1, <1>2, <1>3, ChatTypeCorrect, PTL DEF CH!Spec
=============================================================================
