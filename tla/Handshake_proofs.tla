--------------------------- MODULE Handshake_proofs ---------------------------
(* Proofs about Handshake, for any initiators, listeners, buffer size and  *)
(* segments of other programs.                                             *)
EXTENDS Handshake, SequenceTheorems, TLAPS

USE HandshakeAssumption DEF HandshakeAssumption, Procs

(* Types in parts, as the proofs use them. *)
PcType == pc \in [Procs -> {"off", "open", "bound", "wait", "ack", "done",
                            "listen", "answer", "await"}]
LenType == addrlen \in [Procs -> {"negative", "sane"}]
QType == q \in [Procs -> Seq(Segments)]
HType == tcph \in [Procs -> Segments]
OType == others \subseteq ToListen \cup ToInit /\ nothers \in 0..MaxOthers
TInv == PcType /\ LenType /\ QType /\ HType /\ OType

\* The parts are the type invariant.
LEMMA TypesGiven == TInv <=> TypeOK
  BY DEF TInv, PcType, LenType, QType, HType, OType, TypeOK

\* What the programs send are segments,
LEMMA SegTypes ==
  ASSUME NEW s \in BOOLEAN, NEW a \in BOOLEAN, NEW n \in 0..Word - 1, NEW m \in 0..Word - 1
  PROVE  Seg(s, a, n, m) \in Segments
BY DEF Seg, Segments

\* and what they add 1 to stays a number, since it wraps.
LEMMA SuccType == \A n \in 0..Word - 1 : Succ(n) \in 0..Word - 1
BY DEF Succ

(* What a delivery and a receive do to the buffers: they hold segments,    *)
(* and none but the one delivered is new.                                  *)
LEMMA DeliverQueue ==
  ASSUME QType, NEW to, NEW seg \in Segments, Deliver(to, seg)
  PROVE  /\ QType'
         /\ \A p \in Procs : \A k \in 1..Len(q'[p]) :
              q'[p][k] = seg \/ (k \in 1..Len(q[p]) /\ q'[p][k] = q[p][k])
<1>1. ASSUME NEW p \in Procs
      PROVE  /\ q'[p] \in Seq(Segments)
             /\ \A k \in 1..Len(q'[p]) :
                  q'[p][k] = seg \/ (k \in 1..Len(q[p]) /\ q'[p][k] = q[p][k])
  <2>1. q[p] \in Seq(Segments)
    BY <1>1 DEF QType
  <2>2. q'[p] = Append(q[p], seg) \/ q'[p] = q[p]
    BY <1>1 DEF Deliver
  <2>3. CASE q'[p] = q[p]
    BY <2>1, <2>3
  <2>4. CASE q'[p] = Append(q[p], seg)
    <3>1. /\ q'[p] \in Seq(Segments) /\ Len(q'[p]) = Len(q[p]) + 1
          /\ \A k \in 1..Len(q[p]) : q'[p][k] = q[p][k]
          /\ q'[p][Len(q[p]) + 1] = seg
      BY <2>1, <2>4, AppendProperties
    <3>2. Len(q[p]) \in Nat
      BY <2>1
    <3>3. \A k \in 1..Len(q'[p]) : k \in 1..Len(q[p]) \/ k = Len(q[p]) + 1
      BY <3>1, <3>2
    <3> QED
      BY <3>1, <3>3
  <2> QED
    BY <2>2, <2>3, <2>4
<1>2. q' = [p \in Procs |-> q'[p]]
  BY DEF Deliver
<1> QED
  BY <1>1, <1>2 DEF QType

\* What a receive takes is a segment, and it leaves only what was there.
LEMMA ReceiveQueue ==
  ASSUME QType, NEW p \in Procs, NEW s, recvfrom(p, s)
  PROVE  /\ QType'
         /\ 1 \in 1..Len(q[p]) /\ Received(p) = q[p][1] /\ Received(p) \in Segments
         /\ \A r \in Procs : \A k \in 1..Len(q'[r]) :
              \E m \in 1..Len(q[r]) : q'[r][k] = q[r][m]
<1>1. q[p] \in Seq(Segments) /\ q[p] # <<>>
  BY DEF QType, recvfrom
<1>2. /\ 1 \in 1..Len(q[p]) /\ Received(p) = q[p][1] /\ Received(p) \in Segments
      /\ Tail(q[p]) \in Seq(Segments)
      /\ \A k \in 1..Len(Tail(q[p])) : k + 1 \in 1..Len(q[p]) /\ Tail(q[p])[k] = q[p][k + 1]
  BY <1>1 DEF Received
<1>3. /\ q'[p] = Tail(q[p]) /\ \A r \in Procs \ {p} : q'[r] = q[r]
      /\ q' = [q EXCEPT ![p] = Tail(q[p])]
  BY DEF QType, recvfrom
<1>4. QType'
  BY <1>2, <1>3 DEF QType
<1>5. ASSUME NEW r \in Procs, NEW k \in 1..Len(q'[r])
      PROVE  \E m \in 1..Len(q[r]) : q'[r][k] = q[r][m]
  <2>1. CASE r = p
    <3>1. q'[r] = Tail(q[p])
      BY <1>3, <2>1
    <3>2. k + 1 \in 1..Len(q[p]) /\ q'[r][k] = q[p][k + 1]
      BY <1>2, <3>1
    <3>3. QED
      BY <2>1, <3>2
  <2>2. CASE r # p
    <3>1. q'[r] = q[r]
      BY <1>3, <2>2
    <3>2. QED
      BY <3>1
  <2>3. QED
    BY <2>1, <2>2
<1> QED
  BY <1>2, <1>4, <1>5

\* The types hold at the start.
LEMMA InitTypes == Init => TInv
<1> SUFFICES ASSUME Init PROVE TInv
  OBVIOUS
<1>1. PcType /\ LenType /\ OType
  BY DEF Init, PcType, LenType, OType
<1>2. QType
  BY DEF Init, QType
<1>3. 0 \in 0..Word - 1
  BY DEF Init
<1>4. HType
  BY <1>3, SegTypes DEF Init, HType, Zeros
<1> QED
  BY <1>1, <1>2, <1>4 DEF TInv

\* A process goes to one of the states.
LEMMA GoesTypes ==
  ASSUME PcType, NEW p \in Procs,
         NEW s \in {"off", "open", "bound", "wait", "ack", "done", "listen", "answer", "await"},
         Goes(p, s)
  PROVE  PcType'
BY DEF PcType, Goes

\* A datagram is overwritten with a segment.
LEMMA HeaderTypes ==
  ASSUME HType, NEW p \in Procs, NEW h \in Segments, tcph' = [tcph EXCEPT ![p] = h]
  PROVE  HType'
BY DEF HType

\* The header fields are what their names say.
LEMMA FieldTypes == \A s \in Segments : /\ s.syn \in BOOLEAN /\ s.ack \in BOOLEAN
                                         /\ s.seq \in 0..Word - 1 /\ s.ackseq \in 0..Word - 1
BY DEF Segments

\* The answer to a segment is one.
LEMMA AnswerType == \A s \in Segments : Answer(s) \in Segments
<1> TAKE s \in Segments
<1>1. Isn \in 0..Word - 1 /\ Succ(s.seq) \in 0..Word - 1
  BY FieldTypes, SuccType DEF Isn
<1> QED
  BY <1>1, SegTypes DEF Answer

(* A loop of recvfrom in state s that goes on in state next with hdr.       *)
LEMMA LoopTypes ==
  ASSUME TInv, NEW p \in Procs, NEW s, NEW wanted \in BOOLEAN,
         NEW next \in {"ack", "answer", "done"}, NEW hdr,
         Received(p) \in Segments => hdr \in Segments,
         RecvFails(p, s) \/ Skip(p, s, wanted) \/ Accept(p, s, wanted, next, hdr)
  PROVE  TInv'
<1>1. recvfrom(p, s)
  BY DEF RecvFails, Skip, Accept
<1>2. QType' /\ Received(p) \in Segments
  BY <1>1, ReceiveQueue DEF TInv
<1>3. LenType' /\ OType'
  BY <1>1 DEF TInv, recvfrom, LenType, OType
<1>4. HType'
  BY <1>2, HeaderTypes DEF TInv, RecvFails, Skip, Accept
<1>5. PcType'
  BY GoesTypes DEF TInv, PcType, RecvFails, Skip, Accept
<1> QED
  BY <1>2, <1>3, <1>4, <1>5 DEF TInv

\* server.c's steps keep the types,
LEMMA InitiatorTypes == TInv /\ (\E i \in Initiators : Initiator(i)) => TInv'
<1> SUFFICES ASSUME TInv, NEW i \in Initiators, Initiator(i) PROVE TInv'
  OBVIOUS
<1> USE DEF TInv
<1>1. CASE Bind_Initiator(i)
  BY <1>1, GoesTypes DEF Bind_Initiator, LenType, QType, HType, OType
<1>2. CASE SendSyn(i)
  <2>1. tcph[i] \in Segments
    BY DEF HType
  <2>2. QType'
    BY <1>2, <2>1, DeliverQueue DEF SendSyn
  <2> QED
    BY <1>2, <2>2, GoesTypes DEF SendSyn, LenType, HType, OType
<1>3. CASE ReceiveSynAck(i)
  <2> DEFINE h == Seg(FALSE, TRUE, Received(i).seq, Succ(Received(i).seq))
  <2>1. Received(i) \in Segments => h \in Segments /\ SynAck(Received(i)) \in BOOLEAN
    BY FieldTypes, SuccType, SegTypes DEF SynAck
  <2>2. SynAck(Received(i)) \in BOOLEAN
    BY DEF SynAck
  <2> HIDE DEF h
  <2>3. RecvFails(i, "wait") \/ Skip(i, "wait", SynAck(Received(i)))
          \/ Accept(i, "wait", SynAck(Received(i)), "ack", h)
    BY <1>3 DEF ReceiveSynAck, h
  <2> QED
    BY <2>1, <2>2, <2>3, LoopTypes
<1>4. CASE SendAck(i)
  <2>1. tcph[i] \in Segments
    BY DEF HType
  <2>2. QType'
    BY <1>4, <2>1, DeliverQueue DEF SendAck
  <2> QED
    BY <1>4, <2>2, GoesTypes DEF SendAck, LenType, HType, OType
<1> QED
  BY <1>1, <1>2, <1>3, <1>4 DEF Initiator

\* client.c's do,
LEMMA ListenerTypes == TInv /\ (\E l \in Listeners : Listener(l)) => TInv'
<1> SUFFICES ASSUME TInv, NEW l \in Listeners, Listener(l) PROVE TInv'
  OBVIOUS
<1> USE DEF TInv
<1>1. CASE Bind_Listener(l)
  BY <1>1, GoesTypes DEF Bind_Listener, LenType, QType, HType, OType
<1>2. CASE ReceiveSyn(l)
  <2>1. ~(Received(l).syn \in BOOLEAN) => Received(l) \notin Segments
    BY FieldTypes
  <2>2. Received(l) \in Segments
    BY <1>2, ReceiveQueue DEF ReceiveSyn, RecvFails, Skip, Accept
  <2> QED
    BY <1>2, <2>1, <2>2, AnswerType, LoopTypes DEF ReceiveSyn
<1>3. CASE SendSynAck(l)
  <2>1. tcph[l] \in Segments
    BY DEF HType
  <2>2. QType'
    BY <1>3, <2>1, DeliverQueue DEF SendSynAck
  <2>3. [tcph[l] EXCEPT !.ack = FALSE] \in Segments
    BY <2>1 DEF Segments
  <2>4. HType'
    BY <1>3, <2>3 DEF SendSynAck, HType
  <2> QED
    BY <1>3, <2>2, <2>4, GoesTypes DEF SendSynAck, LenType, OType
<1>4. CASE ReceiveAck(l)
  <2>1. Ack(Received(l)) \in BOOLEAN
    BY DEF Ack
  <2> QED
    BY <1>4, <2>1, LoopTypes DEF ReceiveAck
<1> QED
  BY <1>1, <1>2, <1>3, <1>4 DEF Listener

\* and those of other programs.
LEMMA OthersTypes == TInv /\ OtherTraffic => TInv'
<1> SUFFICES ASSUME TInv, OtherTraffic PROVE TInv'
  OBVIOUS
<1> USE DEF TInv
<1>1. PICK s \in ToListen \cup ToInit : /\ \E to : Deliver(to, s)
                                       /\ others' = others \cup {s}
  BY DEF OtherTraffic
<1>2. s \in Segments
  OBVIOUS
<1>3. QType'
  BY <1>1, <1>2, DeliverQueue
<1> QED
  BY <1>1, <1>3 DEF OtherTraffic, PcType, LenType, HType, OType

\* So every step does.
LEMMA TypesKept == TInv /\ [Next]_vars => TInv'
<1> SUFFICES ASSUME TInv, [Next]_vars PROVE TInv'
  OBVIOUS
<1>1. CASE \E p \in Procs : Socket(p)
  BY <1>1, GoesTypes DEF Socket, TInv, LenType, QType, HType, OType
<1>2. CASE UNCHANGED vars
  BY <1>2 DEF vars, TInv, PcType, LenType, QType, HType, OType
<1> QED
  BY <1>1, <1>2, InitiatorTypes, ListenerTypes, OthersTypes DEF Next

(* Every reachable state is well typed; the numbers stay within a word.    *)
THEOREM TypeCorrect == Spec => []TypeOK
<1>1. TInv => TypeOK
  BY TypesGiven
<1> QED
  BY <1>1, InitTypes, TypesKept, PTL DEF Spec

-----------------------------------------------------------------------------
(* The inductive invariant behind NoShortCut and Acknowledged: what the    *)
(* segments in the buffers and in the processes' own datagrams presuppose. *)
SynSeen == Synned \/ \E s \in others : s.syn
Known(n) == n = Succ(Isn) \/ \E s \in others : s.syn /\ s.ack /\ n = Succ(s.seq)
Sound(s) == /\ s.syn => SynSeen
            /\ s.syn /\ s.ack => s \in others \/ (Answered /\ s.seq = Isn)
            /\ s.ack /\ ~s.syn => s \in others \/ (Acked /\ Known(s.ackseq))
Buffers == \A p \in Procs : \A k \in 1..Len(q[p]) : Sound(q[p][k])
Datagrams ==
  /\ \A i \in Initiators : pc[i] \in {"off", "open", "bound"} => tcph[i].syn /\ ~tcph[i].ack
  /\ \A i \in Initiators : pc[i] = "ack" =>
        tcph[i].ack /\ ~tcph[i].syn /\ Known(tcph[i].ackseq)
  /\ \A l \in Listeners : pc[l] = "answer" =>
        tcph[l].syn /\ tcph[l].ack /\ tcph[l].seq = Isn

(* Nothing that has happened is undone.                                    *)
Grown == /\ Synned => Synned'
         /\ Answered => Answered'
         /\ Acked => Acked'
         /\ others \subseteq others'

\* Where a process goes undoes nothing: it leaves the states behind the handshake's
\* steps only for later ones.
LEMMA GoesOn ==
  ASSUME PcType, NEW p \in Procs, NEW s, Goes(p, s),
         \/ pc[p] \notin {"wait", "ack", "done", "await"}
         \/ pc[p] = "wait" /\ s = "ack" /\ p \in Initiators
         \/ pc[p] = "ack" /\ s = "done" /\ p \in Initiators
         \/ pc[p] = "await" /\ s = "done" /\ p \in Listeners
  PROVE  (Synned => Synned') /\ (Answered => Answered') /\ (Acked => Acked')
<1>1. \A r \in Procs : pc'[r] = IF r = p THEN s ELSE pc[r]
  BY DEF Goes, PcType
<1>2. Synned => Synned'
  BY <1>1 DEF Synned
<1>3. Answered => Answered'
  BY <1>1 DEF Answered
<1>4. Acked => Acked'
  BY <1>1 DEF Acked
<1> QED
  BY <1>2, <1>3, <1>4

\* Who has done what depends on where the processes are, and on nothing else.
LEMMA PcSame == UNCHANGED pc => /\ Synned' <=> Synned
                                /\ Answered' <=> Answered
                                /\ Acked' <=> Acked
BY DEF Synned, Answered, Acked

\* No step undoes what has happened.
LEMMA Grows == PcType /\ [Next]_vars => Grown
<1> SUFFICES ASSUME PcType, [Next]_vars PROVE Grown
  OBVIOUS
<1>1. CASE UNCHANGED pc
  <2>1. others \subseteq others'
    BY DEF Next, vars, Socket, Initiator, Bind_Initiator, SendSyn, ReceiveSynAck, SendAck,
           Listener, Bind_Listener, ReceiveSyn, SendSynAck, ReceiveAck, OtherTraffic,
           RecvFails, Skip, Accept, recvfrom
  <2> QED
    BY <1>1, <2>1, PcSame DEF Grown
<1>2. ASSUME NEW p \in Procs, Socket(p) PROVE Grown
  BY <1>2, GoesOn DEF Socket, Grown
<1>3. ASSUME NEW i \in Initiators, Initiator(i), ~UNCHANGED pc PROVE Grown
  <2>1. CASE Bind_Initiator(i)
    BY <2>1, GoesOn DEF Bind_Initiator, Grown
  <2>2. CASE SendSyn(i)
    BY <2>2, GoesOn DEF SendSyn, Grown
  <2>3. CASE ReceiveSynAck(i)
    BY <1>3, <2>3, GoesOn DEF ReceiveSynAck, RecvFails, Skip, Accept, recvfrom, Grown
  <2>4. CASE SendAck(i)
    BY <2>4, GoesOn DEF SendAck, Grown
  <2> QED
    BY <1>3, <2>1, <2>2, <2>3, <2>4 DEF Initiator
<1>4. ASSUME NEW l \in Listeners, Listener(l), ~UNCHANGED pc PROVE Grown
  <2>1. CASE Bind_Listener(l)
    BY <2>1, GoesOn DEF Bind_Listener, Grown
  <2>2. CASE ReceiveSyn(l)
    BY <1>4, <2>2, GoesOn DEF ReceiveSyn, RecvFails, Skip, Accept, recvfrom, Grown
  <2>3. CASE SendSynAck(l)
    BY <2>3, GoesOn DEF SendSynAck, Grown
  <2>4. CASE ReceiveAck(l)
    BY <1>4, <2>4, GoesOn DEF ReceiveAck, RecvFails, Skip, Accept, recvfrom, Grown
  <2> QED
    BY <1>4, <2>1, <2>2, <2>3, <2>4 DEF Listener
<1> QED
  BY <1>1, <1>2, <1>3, <1>4 DEF Next, vars, OtherTraffic

\* A known number stays known,
LEMMA KnownGrows == ASSUME Grown, NEW n, Known(n) PROVE Known(n)'
BY DEF Grown, Known

\* and a sound segment sound.
LEMMA SoundGrows == ASSUME Grown, NEW s, Sound(s) PROVE Sound(s)'
<1>1. SynSeen => SynSeen'
  BY DEF Grown, SynSeen
<1>2. \A n : Known(n) => Known(n)'
  BY KnownGrows
<1> QED
  BY <1>1, <1>2 DEF Grown, Sound

\* Acknowledged, in the terms of the invariant.
LEMMA AcknowledgedKnown ==
  Acknowledged <=> \A l \in Listeners : pc[l] = "done" =>
                      tcph[l] \in others \/ Known(tcph[l].ackseq)
BY DEF Acknowledged, Known

(* A receive and a delivery keep the buffers sound.                        *)
LEMMA SoundReceived ==
  ASSUME QType, Buffers, Grown, NEW p \in Procs, NEW s, recvfrom(p, s)
  PROVE  Buffers' /\ Sound(Received(p))
<1>1. Sound(Received(p))
  BY ReceiveQueue DEF Buffers
<1>2. ASSUME NEW r \in Procs, NEW k \in 1..Len(q'[r]) PROVE Sound(q[r][k])'
  <2>1. PICK m \in 1..Len(q[r]) : q'[r][k] = q[r][m]
    BY <1>2, ReceiveQueue
  <2>2. Sound(q[r][m])
    BY DEF Buffers
  <2>3. SynSeen => SynSeen'
    BY DEF Grown, SynSeen
  <2>4. \A n : Known(n) => Known(n)'
    BY KnownGrows
  <2> QED
    BY <2>1, <2>2, <2>3, <2>4 DEF Sound, Grown
<1> QED
  BY <1>1, <1>2 DEF Buffers

\* A segment that is sound when it is sent keeps the buffers sound.
LEMMA SoundDelivered ==
  ASSUME QType, Buffers, Grown, NEW to, NEW seg \in Segments, Deliver(to, seg),
         seg.syn => SynSeen',
         seg.syn /\ seg.ack => seg \in others' \/ (Answered' /\ seg.seq = Isn),
         seg.ack /\ ~seg.syn => seg \in others' \/ (Acked' /\ Known(seg.ackseq)')
  PROVE  Buffers'
<1>1. ASSUME NEW r \in Procs, NEW k \in 1..Len(q'[r]) PROVE Sound(q[r][k])'
  <2>1. SynSeen => SynSeen'
    BY DEF Grown, SynSeen
  <2>2. \A n : Known(n) => Known(n)'
    BY KnownGrows
  <2>3. CASE q'[r][k] = seg
    BY <2>3 DEF Sound
  <2>4. CASE k \in 1..Len(q[r]) /\ q'[r][k] = q[r][k]
    <3>1. Sound(q[r][k])
      BY <2>4 DEF Buffers
    <3> QED
      BY <3>1, <2>4, <2>1, <2>2 DEF Sound, Grown
  <2> QED
    BY <1>1, <2>3, <2>4, DeliverQueue
<1> QED
  BY <1>1 DEF Buffers

(* The five clauses hold after a step of p that sets p's own state and      *)
(* datagram, given the clause p itself is now in.                          *)
OthersKept(p) == \A r \in Procs \ {p} : pc'[r] = pc[r] /\ tcph'[r] = tcph[r]
Shortcuts(p) ==
  /\ p \in Listeners /\ pc[p] \in {"answer", "await", "done"} => SynSeen
  /\ p \in Initiators /\ pc[p] \in {"ack", "done"} =>
       Answered \/ \E s \in others : s.syn /\ s.ack
  /\ p \in Listeners /\ pc[p] = "done" => Acked \/ \E s \in others : s.ack /\ ~s.syn
Datagram(p) ==
  /\ p \in Initiators /\ pc[p] \in {"off", "open", "bound"} => tcph[p].syn /\ ~tcph[p].ack
  /\ p \in Initiators /\ pc[p] = "ack" =>
        tcph[p].ack /\ ~tcph[p].syn /\ Known(tcph[p].ackseq)
  /\ p \in Listeners /\ pc[p] = "answer" => tcph[p].syn /\ tcph[p].ack /\ tcph[p].seq = Isn
  /\ p \in Listeners /\ pc[p] = "done" => tcph[p] \in others \/ Known(tcph[p].ackseq)
Good(p) == Shortcuts(p) /\ Datagram(p)

\* What is good for each process is what the two properties and Datagrams say.
LEMMA GoodAll == (\A p \in Procs : Good(p)) <=> Datagrams /\ NoShortCut /\ Acknowledged
BY AcknowledgedKnown DEF Good, Shortcuts, Datagram, Datagrams, NoShortCut, SynSeen

\* A process that does nothing stays good.
LEMMA GoodGrows ==
  ASSUME Grown, NEW p \in Procs, Good(p), pc'[p] = pc[p], tcph'[p] = tcph[p]
  PROVE  Good(p)'
<1>1. \A n : Known(n) => Known(n)'
  BY KnownGrows
<1>2. SynSeen => SynSeen'
  BY DEF Grown, SynSeen
<1>3. Shortcuts(p)'
  BY <1>2 DEF Good, Shortcuts, Grown
<1>4. Datagram(p)'
  BY <1>1 DEF Good, Datagram, Grown
<1> QED
  BY <1>3, <1>4 DEF Good

\* A step of p that leaves p good leaves all good.
LEMMA GoodStep ==
  ASSUME Grown, \A r \in Procs : Good(r), NEW p \in Procs, OthersKept(p), Good(p)'
  PROVE  \A r \in Procs : Good(r)'
<1> TAKE r \in Procs
<1>1. CASE r # p
  BY <1>1, GoodGrows DEF OthersKept
<1> QED
  BY <1>1

(* One round of a loop of recvfrom, in a state s in which the datagram may  *)
(* hold anything.                                                          *)
LEMMA GoodLoop ==
  ASSUME TInv, Buffers, Grown, \A r \in Procs : Good(r),
         NEW p \in Procs, NEW s, NEW wanted, NEW hdr,
         NEW next \in {"ack", "answer", "done"},
         (s = "wait" /\ p \in Initiators) \/ (s \in {"listen", "await"} /\ p \in Listeners),
         RecvFails(p, s) \/ Skip(p, s, wanted) \/ Accept(p, s, wanted, next, hdr),
         Accept(p, s, wanted, next, hdr) => Good(p)'
  PROVE  Buffers' /\ \A r \in Procs : Good(r)'
<1>1. recvfrom(p, s)
  BY DEF RecvFails, Skip, Accept
<1>2. Buffers'
  BY <1>1, SoundReceived DEF TInv
<1>3. OthersKept(p)
  BY DEF OthersKept, TInv, PcType, HType, RecvFails, Skip, Accept, Goes
<1>4. CASE RecvFails(p, s) \/ Skip(p, s, wanted)
  <2>1. pc' = pc /\ others' = others
    BY <1>4 DEF RecvFails, Skip, recvfrom
  <2>2. pc[p] = s
    BY <1>1 DEF recvfrom
  <2>3. Shortcuts(p)'
    BY <2>1, <2>2, PcSame DEF Good, Shortcuts, SynSeen, Grown
  <2>4. Datagram(p)'
    BY <2>1, <2>2 DEF Good, Datagram
  <2>5. Good(p)'
    BY <2>3, <2>4 DEF Good
  <2> QED
    BY <1>2, <1>3, <2>5, GoodStep
<1> QED
  BY <1>2, <1>3, <1>4, GoodStep

CInv == TInv /\ Buffers /\ \A p \in Procs : Good(p)

\* The invariant holds at the start: nothing is in a buffer.
LEMMA InitGood == Init => CInv
<1> SUFFICES ASSUME Init PROVE CInv
  OBVIOUS
<1>1. Buffers
  BY DEF Init, Buffers
<1>2. ASSUME NEW p \in Procs PROVE Good(p)
  BY DEF Init, Good, Shortcuts, Datagram, Seg
<1> QED
  BY <1>1, <1>2, InitTypes DEF CInv

\* server.c's steps keep it: a SYN first, an ACK for a SYN-ACK,
LEMMA InitiatorGood == CInv /\ Grown /\ (\E i \in Initiators : Initiator(i)) => CInv'
<1> SUFFICES ASSUME CInv, Grown, NEW i \in Initiators, Initiator(i) PROVE CInv'
  OBVIOUS
<1>1. TInv' /\ TInv
  BY InitiatorTypes DEF CInv
<1>2. /\ Buffers /\ QType /\ PcType /\ HType /\ \A p \in Procs : Good(p)
      /\ tcph[i] \in Segments /\ i \notin Listeners
  BY <1>1 DEF CInv, TInv, HType
<1>3. CASE Bind_Initiator(i)
  <2>1. Buffers'
    BY <1>2, <1>3, SoundGrows DEF Bind_Initiator, Buffers
  <2>2. OthersKept(i) /\ Good(i)'
    BY <1>2, <1>3 DEF Bind_Initiator, OthersKept, PcType, Goes, Good, Shortcuts, Datagram
  <2> QED
    BY <1>1, <1>2, <2>1, <2>2, GoodStep DEF CInv
<1>4. CASE SendSyn(i)
  <2>1. pc'[i] = "wait" /\ OthersKept(i) /\ tcph' = tcph /\ others' = others
    BY <1>2, <1>4 DEF SendSyn, OthersKept, PcType, Goes
  <2>2. SynSeen'
    BY <2>1 DEF SynSeen, Synned
  <2>3. ~tcph[i].ack
    BY <1>2, <1>4 DEF Good, Datagram, SendSyn
  <2>4. Buffers'
    BY <1>2, <1>4, <2>2, <2>3, SoundDelivered DEF SendSyn
  <2>5. Good(i)'
    BY <1>2, <2>1 DEF Good, Shortcuts, Datagram
  <2> QED
    BY <1>1, <1>2, <2>1, <2>4, <2>5, GoodStep DEF CInv
<1>5. CASE ReceiveSynAck(i)
  <2> DEFINE m == Received(i)
             h == Seg(FALSE, TRUE, m.seq, Succ(m.seq))
  <2>1. recvfrom(i, "wait")
    BY <1>5 DEF ReceiveSynAck, RecvFails, Skip, Accept
  <2>2. Sound(m)
    BY <1>2, <2>1, SoundReceived
  <2>3. ASSUME Accept(i, "wait", SynAck(m), "ack", h) PROVE Good(i)'
    <3>1. m.syn /\ m.ack /\ others' = others
      BY <2>3, <2>1 DEF Accept, SynAck, recvfrom
    <3>2. tcph'[i] = h /\ pc'[i] = "ack"
      BY <1>2, <2>3 DEF Accept, Goes, PcType, HType
    <3>3. m \in others \/ (Answered /\ m.seq = Isn)
      BY <2>2, <3>1 DEF Sound
    <3>4. PICK n : n = Succ(m.seq) /\ Known(n)
      BY <3>1, <3>3 DEF Known
    <3>5. Known(n)'
      BY <3>4, KnownGrows
    <3>6. h.ack /\ ~h.syn /\ h.ackseq = n
      BY <3>4 DEF Seg
    <3>7. Datagram(i)'
      BY <1>2, <3>2, <3>5, <3>6 DEF Datagram, Known
    <3>8. Shortcuts(i)'
      BY <1>2, <3>1, <3>2, <3>3 DEF Shortcuts, Grown
    <3> QED
      BY <3>7, <3>8 DEF Good
  <2>4. RecvFails(i, "wait") \/ Skip(i, "wait", SynAck(m))
          \/ Accept(i, "wait", SynAck(m), "ack", h)
    BY <1>5 DEF ReceiveSynAck
  <2> HIDE DEF m, h
  <2> QED
    BY <1>1, <1>2, <2>3, <2>4, GoodLoop DEF CInv
<1>6. CASE SendAck(i)
  <2>1. pc'[i] = "done" /\ OthersKept(i) /\ tcph' = tcph /\ others' = others
    BY <1>2, <1>6 DEF SendAck, OthersKept, PcType, Goes
  <2>2. Acked'
    BY <2>1 DEF Acked
  <2>3. tcph[i].ack /\ ~tcph[i].syn /\ Known(tcph[i].ackseq)
    BY <1>2, <1>6 DEF Good, Datagram, SendAck
  <2>4. Known(tcph[i].ackseq)'
    BY <2>1, <2>3 DEF Known
  <2>5. Buffers'
    BY <1>2, <1>6, <2>1, <2>2, <2>3, <2>4, SoundDelivered DEF SendAck
  <2>6. Good(i)'
    BY <1>2, <1>6, <2>1 DEF Good, Shortcuts, Datagram, SendAck, Grown
  <2> QED
    BY <1>1, <1>2, <2>1, <2>5, <2>6, GoodStep DEF CInv
<1> QED
  BY <1>3, <1>4, <1>5, <1>6 DEF Initiator

\* client.c's do: a SYN-ACK for a SYN, and the end after an ACK.
LEMMA ListenerGood == CInv /\ Grown /\ (\E l \in Listeners : Listener(l)) => CInv'
<1> SUFFICES ASSUME CInv, Grown, NEW l \in Listeners, Listener(l) PROVE CInv'
  OBVIOUS
<1>1. TInv' /\ TInv
  BY ListenerTypes DEF CInv
<1>2. /\ Buffers /\ QType /\ PcType /\ HType /\ \A p \in Procs : Good(p)
      /\ tcph[l] \in Segments /\ l \notin Initiators
  BY <1>1 DEF CInv, TInv, HType
<1>3. SynSeen => SynSeen'
  BY DEF Grown, SynSeen
<1>4. CASE Bind_Listener(l)
  <2>1. Buffers'
    BY <1>2, <1>4, SoundGrows DEF Bind_Listener, Buffers
  <2>2. OthersKept(l) /\ Good(l)'
    BY <1>2, <1>4 DEF Bind_Listener, OthersKept, PcType, Goes, Good, Shortcuts, Datagram
  <2> QED
    BY <1>1, <1>2, <2>1, <2>2, GoodStep DEF CInv
<1>5. CASE ReceiveSyn(l)
  <2> DEFINE m == Received(l)
  <2>1. recvfrom(l, "listen")
    BY <1>5 DEF ReceiveSyn, RecvFails, Skip, Accept
  <2>2. Sound(m)
    BY <1>2, <2>1, SoundReceived
  <2>3. ASSUME Accept(l, "listen", m.syn, "answer", Answer(m)) PROVE Good(l)'
    <3>1. SynSeen'
      BY <1>3, <2>2, <2>3 DEF Accept, Sound
    <3>2. tcph'[l] = Answer(m) /\ pc'[l] = "answer"
      BY <1>2, <2>3 DEF Accept, Goes, PcType, HType
    <3>3. Answer(m).syn /\ Answer(m).ack /\ Answer(m).seq = Isn
      BY DEF Answer, Seg
    <3>4. Datagram(l)'
      BY <1>2, <3>2, <3>3 DEF Datagram
    <3>5. Shortcuts(l)'
      BY <1>2, <3>1, <3>2 DEF Shortcuts
    <3> QED
      BY <3>4, <3>5 DEF Good
  <2>4. RecvFails(l, "listen") \/ Skip(l, "listen", m.syn)
          \/ Accept(l, "listen", m.syn, "answer", Answer(m))
    BY <1>5 DEF ReceiveSyn
  <2> HIDE DEF m
  <2> QED
    BY <1>1, <1>2, <2>3, <2>4, GoodLoop DEF CInv
<1>6. CASE SendSynAck(l)
  <2>1. pc'[l] = "await" /\ OthersKept(l) /\ others' = others
    BY <1>2, <1>6 DEF SendSynAck, OthersKept, PcType, HType, Goes
  <2>2. Answered'
    BY <2>1 DEF Answered
  <2>3. tcph[l].syn /\ tcph[l].ack /\ tcph[l].seq = Isn /\ SynSeen
    BY <1>2, <1>6 DEF Good, Datagram, Shortcuts, SendSynAck
  <2>4. Buffers'
    BY <1>2, <1>3, <1>6, <2>2, <2>3, SoundDelivered DEF SendSynAck
  <2>5. Good(l)'
    BY <1>2, <1>3, <2>1, <2>3 DEF Good, Shortcuts, Datagram
  <2> QED
    BY <1>1, <1>2, <2>1, <2>4, <2>5, GoodStep DEF CInv
<1>7. CASE ReceiveAck(l)
  <2> DEFINE m == Received(l)
  <2>1. recvfrom(l, "await")
    BY <1>7 DEF ReceiveAck, RecvFails, Skip, Accept
  <2>2. Sound(m)
    BY <1>2, <2>1, SoundReceived
  <2>3. ASSUME Accept(l, "await", Ack(m), "done", m) PROVE Good(l)'
    <3>1. m.ack /\ ~m.syn /\ others' = others
      BY <2>3, <2>1 DEF Accept, Ack, recvfrom
    <3>2. tcph'[l] = m /\ pc'[l] = "done" /\ pc[l] = "await"
      BY <1>2, <2>1, <2>3 DEF Accept, Goes, PcType, HType, recvfrom
    <3>3. m \in others \/ (Acked /\ Known(m.ackseq))
      BY <2>2, <3>1 DEF Sound
    <3>4. PICK n : n = m.ackseq
      OBVIOUS
    <3>5. Datagram(l)'
      <4>1. m \in others \/ Known(n)'
        BY <3>3, <3>4, KnownGrows
      <4> QED
        BY <1>2, <3>1, <3>2, <3>4, <4>1 DEF Datagram, Known
    <3>6. SynSeen'
      BY <1>2, <1>3, <3>2 DEF Good, Shortcuts
    <3>7. Shortcuts(l)'
      BY <1>2, <3>1, <3>2, <3>3, <3>6 DEF Shortcuts, Grown
    <3> QED
      BY <3>5, <3>7 DEF Good
  <2>4. RecvFails(l, "await") \/ Skip(l, "await", Ack(m)) \/ Accept(l, "await", Ack(m), "done", m)
    BY <1>7 DEF ReceiveAck
  <2> HIDE DEF m
  <2> QED
    BY <1>1, <1>2, <2>3, <2>4, GoodLoop DEF CInv
<1> QED
  BY <1>4, <1>5, <1>6, <1>7 DEF Listener

\* So every step does.
LEMMA GoodKept == CInv /\ [Next]_vars => CInv'
<1> SUFFICES ASSUME CInv, [Next]_vars PROVE CInv'
  OBVIOUS
<1>1. TInv /\ TInv' /\ Grown /\ Buffers /\ \A p \in Procs : Good(p)
  BY TypesKept, Grows DEF CInv, TInv
<1>2. ASSUME NEW p \in Procs, Socket(p) PROVE CInv'
  <2>1. Buffers'
    BY <1>1, <1>2, SoundGrows DEF Socket, Buffers
  <2>2. OthersKept(p) /\ Good(p)'
    BY <1>1, <1>2 DEF Socket, OthersKept, TInv, PcType, Goes, Good, Shortcuts, Datagram
  <2> QED
    BY <1>1, <2>1, <2>2, GoodStep DEF CInv
<1>3. CASE OtherTraffic
  <2>1. PICK s \in ToListen \cup ToInit : /\ \E to : Deliver(to, s)
                                         /\ others' = others \cup {s}
    BY <1>3 DEF OtherTraffic
  <2>2. s \in Segments /\ s \in others' /\ (s.syn => SynSeen')
    BY <2>1 DEF SynSeen
  <2>3. Buffers'
    BY <1>1, <2>1, <2>2, SoundDelivered DEF TInv
  <2>4. \A p \in Procs : Good(p)'
    BY <1>1, <1>3, GoodGrows DEF OtherTraffic
  <2> QED
    BY <1>1, <2>3, <2>4 DEF CInv
<1>4. CASE UNCHANGED vars
  <2>1. \A p \in Procs : Good(p)'
    BY <1>1, <1>4, GoodGrows DEF vars
  <2>2. Buffers'
    BY <1>1, <1>4, SoundGrows DEF vars, Buffers
  <2> QED
    BY <1>1, <2>1, <2>2 DEF CInv
<1> QED
  BY <1>1, <1>2, <1>3, <1>4, InitiatorGood, ListenerGood DEF Next

(* No step of the handshake comes before one it answers, however many      *)
(* programs run and whatever other programs send (server.c 160, client.c   *)
(* 93, 138).                                                               *)
THEOREM StepsInOrder == Spec => []NoShortCut
<1>1. CInv => NoShortCut
  BY GoodAll DEF CInv
<1> QED
  BY <1>1, InitGood, GoodKept, PTL DEF Spec

(* A listener ends with an acknowledgement of a listener's number, or with *)
(* one another program is to blame for (server.c 167, client.c 102-103).   *)
THEOREM NumbersKnown == Spec => []Acknowledged
<1>1. CInv => Acknowledged
  BY GoodAll DEF CInv
<1> QED
  BY <1>1, InitGood, GoodKept, PTL DEF Spec
=============================================================================
