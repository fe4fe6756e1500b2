------------------------------ MODULE SysVQueue ------------------------------
(***************************************************************************)
(* The System V message queue the programs under MessageQueue/, minor/ and *)
(* midques/ share.  It belongs to the kernel, not to the repository: it is *)
(* modelled from the calls the programs make.                              *)
(*                                                                         *)
(* Every msgrcv of these programs names one positive type and no flag, so  *)
(* it takes the OLDEST message OF THAT TYPE and blocks while there is      *)
(* none.  Messages of different types never overtake each other in a way a *)
(* receiver could see, so the queue is one FIFO per type.  Every msgsnd    *)
(* has flags 0: it blocks while the queue, all types together, is full.    *)
(* All messages of one program have the same size, so the kernel's bound   *)
(* on bytes (msg_qbytes) is a bound QMax on the number of messages.        *)
(***************************************************************************)
EXTENDS Integers, Sequences

CONSTANT QMax            \* how many messages fit into the queue

ASSUME QMaxAssumption == QMax \in Nat \ {0}

VARIABLES mq,            \* mq[t]: the queued messages of type t, oldest first
          qnum           \* number of queued messages of all types (msg_qnum)

qvars == <<mq, qnum>>

\* A fresh queue that knows the message types in types (msgget, IPC_CREAT).
msgget(types) == /\ mq = [t \in types |-> <<>>]
                 /\ qnum = 0

\* msgsnd(id, m, size, 0) of a message of type t: waits for room.
msgsnd(t, m) == /\ qnum < QMax
                /\ mq' = [mq EXCEPT ![t] = Append(@, m)]
                /\ qnum' = qnum + 1

\* msgrcv(id, &m, size, t, 0): waits for a message of type t; it is Head(mq[t]).
msgrcv(t) == /\ mq[t] # <<>>
             /\ mq' = [mq EXCEPT ![t] = Tail(@)]
             /\ qnum' = qnum - 1
=============================================================================
