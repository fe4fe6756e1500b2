------------------------------ MODULE Handshake ------------------------------
(***************************************************************************)
(* experiments/3way: TCP's three-way handshake by hand, over raw sockets.  *)
(* server.c initiates (127.0.0.3), client.c listens (127.0.0.2).  A raw    *)
(* socket gets a copy of EVERY segment to its address, and until bind of   *)
(* every segment to any address: processes started twice hear each other,  *)
(* and so do they hear other programs.  Nothing is sent twice and nothing  *)
(* but the SYN and ACK bits is looked at.  On the loopback device nothing  *)
(* gets lost but what finds no socket or a full one.  The checksum 0 keeps *)
(* the kernel's own TCP silent.  Numbers are as the programs see them, in  *)
(* the host's byte order; addrlen is never initialised: if it happens to   *)
(* be negative, every recvfrom takes a segment and then fails.             *)
(***************************************************************************)
EXTENDS Naturals, Sequences

CONSTANTS Initiators, Listeners,
          Word,          \* 2^32, the numbers a sequence field has
          QMax,          \* segments a socket's buffer holds
          ToListen, ToInit,  \* segments other programs send to either address
          MaxOthers      \* bound: how many of them they send

Procs == Initiators \cup Listeners
Segments == [syn : BOOLEAN, ack : BOOLEAN, seq : 0..Word - 1, ackseq : 0..Word - 1]

ASSUME HandshakeAssumption ==
  /\ Initiators \cap Listeners = {}
  /\ Word \in Nat /\ Word > 10 /\ QMax \in Nat /\ MaxOthers \in Nat
  /\ ToListen \subseteq Segments /\ ToInit \subseteq Segments

VARIABLES pc,            \* "off", "open" (not bound yet), then
                         \*   initiator: "bound", "wait", "ack", "done"
                         \*   listener: "listen", "answer", "await", "done"
          addrlen,       \* whether the uninitialised variable is negative
          q,             \* the socket's receive buffer
          tcph,          \* the TCP header in the process's datagram
          others,        \* what other programs have sent
          nothers        \*   and how many segments that were

vars == <<pc, addrlen, q, tcph, others, nothers>>

Seg(s, a, n, m) == [syn |-> s, ack |-> a, seq |-> n, ackseq |-> m]
Zeros == Seg(FALSE, FALSE, 0, 0)
Succ(n) == (n + 1) % Word
Isn == 10

Init == /\ pc = [p \in Procs |-> "off"]
        /\ addrlen \in [Procs -> {"negative", "sane"}]
        /\ q = [p \in Procs |-> <<>>]
        /\ tcph = [p \in Procs |-> IF p \in Initiators THEN Seg(TRUE, FALSE, 0, 0)
                                                       ELSE Zeros]
        /\ others = {} /\ nothers = 0

-----------------------------------------------------------------------------
\* The kernel: a segment to the address of the processes in `to`.
Hears(p, to) == pc[p] = "open" \/ (pc[p] \notin {"off", "done"} /\ p \in to)
Deliver(to, seg) ==
  q' = [p \in Procs |-> IF Hears(p, to) /\ Len(q[p]) < QMax THEN Append(q[p], seg)
                                                            ELSE q[p]]

Goes(p, s) == pc' = [pc EXCEPT ![p] = s]

\* socket() and bind(): until bind the socket has no address.
Socket(p) == /\ pc[p] = "off"
             /\ Goes(p, "open")
             /\ UNCHANGED <<addrlen, q, tcph, others, nothers>>

Bind_Initiator(i) == /\ pc[i] = "open"
                     /\ Goes(i, "bound")
                     /\ UNCHANGED <<addrlen, q, tcph, others, nothers>>
Bind_Listener(l) == /\ pc[l] = "open"
                    /\ Goes(l, "listen")
                    /\ UNCHANGED <<addrlen, q, tcph, others, nothers>>

\* recvfrom in state s: the datagram is overwritten with the next segment.
\* With a negative addrlen it is lost all the same, and the loop goes round.
Received(p) == Head(q[p])
recvfrom(p, s) == /\ pc[p] = s /\ q[p] # <<>>
                  /\ q' = [q EXCEPT ![p] = Tail(@)]
                  /\ UNCHANGED <<addrlen, others, nothers>>
RecvFails(p, s) == /\ recvfrom(p, s)
                   /\ addrlen[p] = "negative"
                   /\ tcph' = [tcph EXCEPT ![p] = Received(p)]
                   /\ UNCHANGED pc
Skip(p, s, wanted) == /\ recvfrom(p, s)
                      /\ addrlen[p] = "sane" /\ ~wanted
                      /\ tcph' = [tcph EXCEPT ![p] = Received(p)]
                      /\ UNCHANGED pc
Accept(p, s, wanted, next, hdr) == /\ recvfrom(p, s)
                                   /\ addrlen[p] = "sane" /\ wanted
                                   /\ tcph' = [tcph EXCEPT ![p] = hdr]
                                   /\ Goes(p, next)

-----------------------------------------------------------------------------
\* server.c, the initiator.
SendSyn(i) == /\ pc[i] = "bound"
              /\ Deliver(Listeners, tcph[i])
              /\ Goes(i, "wait")
              /\ UNCHANGED <<addrlen, tcph, others, nothers>>

SynAck_AnySyn(seg) == seg.syn                                  \* mutant
SynAck(seg) == seg.ack /\ seg.syn

ReceiveSynAck(i) ==
  \/ RecvFails(i, "wait")
  \/ Skip(i, "wait", SynAck(Received(i)))
  \/ Accept(i, "wait", SynAck(Received(i)), "ack",
            Seg(FALSE, TRUE, Received(i).seq, Succ(Received(i).seq)))

SendAck(i) == /\ pc[i] = "ack"
              /\ Deliver(Listeners, tcph[i])
              /\ Goes(i, "done")
              /\ UNCHANGED <<addrlen, tcph, others, nothers>>

-----------------------------------------------------------------------------
\* client.c, the listener.
Answer_NoIsn(seg) == Seg(TRUE, TRUE, seg.seq, Succ(seg.seq))   \* mutant: no seq = 10
Answer_NoAck(seg) == Seg(TRUE, FALSE, Isn, Succ(seg.seq))      \* mutant: no ack = 1
Answer(seg) == Seg(TRUE, TRUE, Isn, Succ(seg.seq))

ReceiveSyn(l) ==
  \/ RecvFails(l, "listen")
  \/ Skip(l, "listen", Received(l).syn)
  \/ Accept(l, "listen", Received(l).syn, "answer", Answer(Received(l)))

\* It is routed to whoever sent the SYN, but the header names 127.0.0.3: on
\* the loopback device it comes to the initiators all the same.
SendSynAck(l) == /\ pc[l] = "answer"
                 /\ Deliver(Initiators, tcph[l])
                 /\ tcph' = [tcph EXCEPT ![l].ack = FALSE]
                 /\ Goes(l, "await")
                 /\ UNCHANGED <<addrlen, others, nothers>>

Ack(seg) == seg.ack /\ ~seg.syn
ReceiveAck(l) ==
  \/ RecvFails(l, "await")
  \/ Skip(l, "await", Ack(Received(l)))
  \/ Accept(l, "await", Ack(Received(l)), "done", Received(l))

-----------------------------------------------------------------------------
\* Other programs that use TCP on these two addresses.
OtherTraffic ==
  /\ nothers < MaxOthers /\ nothers' = nothers + 1
  /\ \/ \E s \in ToListen : Deliver(Listeners, s) /\ others' = others \cup {s}
     \/ \E s \in ToInit : Deliver(Initiators, s) /\ others' = others \cup {s}
  /\ UNCHANGED <<pc, addrlen, tcph>>

Initiator(i) == Bind_Initiator(i) \/ SendSyn(i) \/ ReceiveSynAck(i) \/ SendAck(i)
Listener(l) == Bind_Listener(l) \/ ReceiveSyn(l) \/ SendSynAck(l) \/ ReceiveAck(l)

Next == \/ \E p \in Procs : Socket(p)
        \/ \E i \in Initiators : Initiator(i)
        \/ \E l \in Listeners : Listener(l)
        \/ OtherTraffic

Spec == Init /\ [][Next]_vars

\* Nobody has to start a program, but one that runs goes on.
Fairness == /\ \A i \in Initiators : WF_vars(Initiator(i))
            /\ \A l \in Listeners : WF_vars(Listener(l))
FairSpec == Spec /\ Fairness

-----------------------------------------------------------------------------
(* Type invariant of every variable of the model.                          *)
TypeOK == /\ pc \in [Procs -> {"off", "open", "bound", "wait", "ack", "done",
                               "listen", "answer", "await"}]
          /\ addrlen \in [Procs -> {"negative", "sane"}]
          /\ q \in [Procs -> Seq(Segments)]
          /\ tcph \in [Procs -> Segments]
          /\ others \subseteq ToListen \cup ToInit
          /\ nothers \in 0..MaxOthers

Synned == \E i \in Initiators : pc[i] \in {"wait", "ack", "done"}
Answered == \E l \in Listeners : pc[l] \in {"await", "done"}
Acked == \E i \in Initiators : pc[i] = "done"

(* Nobody takes a step of the handshake before the step it answers: a       *)
(* listener answers after some SYN, an initiator acknowledges after some   *)
(* SYN-ACK, a listener ends after some ACK, of this pair, of another one   *)
(* or of another program (server.c 160, client.c 93, 138).                 *)
NoShortCut ==
  /\ \A l \in Listeners : pc[l] \in {"answer", "await", "done"} =>
       Synned \/ \E s \in others : s.syn
  /\ \A i \in Initiators : pc[i] \in {"ack", "done"} =>
       Answered \/ \E s \in others : s.syn /\ s.ack
  /\ \A l \in Listeners : pc[l] = "done" => Acked \/ \E s \in others : s.ack /\ ~s.syn

(* The number in the ACK that ends a listener follows the listeners' own    *)
(* number, or that of a SYN-ACK of another program, unless the ACK is one. *)
(* It holds even for a listener that took a SYN-ACK for a SYN, and nothing *)
(* compares the numbers (server.c 167, client.c 102-103).                  *)
Acknowledged ==
  \A l \in Listeners : pc[l] = "done" =>
    \/ tcph[l] \in others
    \/ tcph[l].ackseq = Succ(Isn)
    \/ \E s \in others : s.syn /\ s.ack /\ tcph[l].ackseq = Succ(s.seq)

Sane(p) == addrlen[p] = "sane"
Queued(p, P(_)) == \E k \in 1..Len(q[p]) : P(q[p][k])
IsSyn(s) == s.syn
IsSynAck(s) == s.syn /\ s.ack

HeardSyn(i, l) == pc[i] = "wait" /\ pc[l] \in {"open", "listen"} /\ Queued(l, IsSyn)
HeardAnswer(i, l) == pc[l] = "await" /\ pc[i] = "wait" /\ Queued(i, IsSynAck)

(* Nobody ever repeats a segment.  Still an initiator that waits while a    *)
(* listener has a SYN in its buffer, its own or not, ends, for the answer  *)
(* goes to everyone at its address; and a listener whose answer is in the  *)
(* buffer of a waiting initiator ends (server.c 155-190, client.c 87-143). *)
HandshakeCompletes ==
  \A i \in Initiators, l \in Listeners : Sane(i) /\ Sane(l) =>
    /\ HeardSyn(i, l) ~> pc[i] = "done"
    /\ HeardAnswer(i, l) ~> pc[l] = "done"
=============================================================================
