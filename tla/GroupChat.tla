------------------------------ MODULE GroupChat ------------------------------
(***************************************************************************)
(* MessageQueue/GroupChat: a server and its clients, each client two       *)
(* processes after a fork (the child types and sends, the parent receives),*)
(* all of them on ONE System V queue.                                      *)
(*                                                                         *)
(*   type 999   "pid-group"   client -> server, once, to connect           *)
(*   type 1000  "group-text"  client -> server, every line of the user     *)
(*   type pid   "text"        server -> the client with that pid           *)
(*                                                                         *)
(* A client is identified with its pid.  The server first takes ConnectMax *)
(* connect messages, then relays for ever, member by member.               *)
(***************************************************************************)
EXTENDS SysVQueue

CONSTANTS Clients,       \* the pids of the clients that may be started
          Groups,        \* the group numbers users may enter
          ConnectMax,    \* how many clients the connect phase waits for
          MaxSends,      \* bound: lines one user types
          MayQuit        \* the clients whose user may press Ctrl-C

ConnectType == 999
ChatType == 1000

\* grp[100][100]: a group number has one or two digits.  The connect phase
\* parses all of them, the chat phase only looks at the first.
FirstDigit(g) == IF g < 10 THEN g ELSE g \div 10

ASSUME PidAssumption == ConnectType \notin Clients /\ ChatType \notin Clients
ASSUME GroupAssumption == /\ Groups \subseteq 0..99
                          /\ \A g \in Groups : FirstDigit(g) \in Groups
ASSUME BoundAssumption == ConnectMax \in Nat \ {0} /\ MaxSends \in Nat
ASSUME QuitAssumption == MayQuit \subseteq Clients

Types == {ConnectType, ChatType} \cup Clients
Connect == [from : Clients, grp : Groups]
Text == [from : Clients, grp : Groups, k : 1..MaxSends]

VARIABLES spc,           \* server: "connect", "recv" or "relay"
          client,        \* server: client[0..n-1], the pids connected so far
          grp,           \* server: grp[g], the members of g (grpctr[g] is its length)
          message,       \* server: the text being relayed
          j,             \* server: the next member to send it to (from 1)
          cpc,           \* client: "start", "connect", "run" or "gone"
          cgrp,          \* client: the group its user entered
          typed,         \* client: TRUE while the child holds a line to send
          sent,          \* client: number of lines typed so far
          received,      \* client: the texts its parent has printed
          relayed        \* history: relayed[g], the texts the server took for g

svars == <<spc, client, grp, message, j>>
cvars == <<cpc, cgrp, typed, sent, received>>
vars == <<mq, qnum, svars, cvars, relayed>>

NoText == [from |-> 0, grp |-> 0, k |-> 0]    \* the zeroed global

Init == /\ msgget(Types)
        /\ spc = "connect"
        /\ client = <<>>
        /\ grp = [g \in Groups |-> <<>>]
        /\ message = NoText
        /\ j = 1
        /\ cpc = [c \in Clients |-> "start"]
        /\ cgrp \in [Clients -> Groups]
        /\ typed = [c \in Clients |-> FALSE]
        /\ sent = [c \in Clients |-> 0]
        /\ received = [c \in Clients |-> <<>>]
        /\ relayed = [g \in Groups |-> <<>>]

-----------------------------------------------------------------------------
(* The client.                                                             *)

\* The user has started client c and entered its group; "pid-grp" is built.
Start(c) == /\ cpc[c] = "start"
            /\ cpc' = [cpc EXCEPT ![c] = "connect"]
            /\ UNCHANGED <<qvars, svars, cgrp, typed, sent, received, relayed>>

\* The connect message goes out, and the client forks.
SendConnect(c) == /\ cpc[c] = "connect"
                  /\ msgsnd(ConnectType, [from |-> c, grp |-> cgrp[c]])
                  /\ cpc' = [cpc EXCEPT ![c] = "run"]
                  /\ UNCHANGED <<svars, cgrp, typed, sent, received, relayed>>

\* Child: gets(msg) returns the user's next line.
TypeLine(c) == /\ cpc[c] = "run" /\ ~typed[c]
               /\ sent[c] < MaxSends
               /\ typed' = [typed EXCEPT ![c] = TRUE]
               /\ sent' = [sent EXCEPT ![c] = @ + 1]
               /\ UNCHANGED <<qvars, svars, cpc, cgrp, received, relayed>>

\* Child: the line goes out as "grp-msg".  (Mutant: with IPC_NOWAIT, the
\* line is dropped when the queue is full.)
SendLine_NoWait(c) ==
  /\ cpc[c] = "run" /\ typed[c]
  /\ \/ msgsnd(ChatType, [from |-> c, grp |-> cgrp[c], k |-> sent[c]])
     \/ qnum = QMax /\ UNCHANGED qvars
  /\ typed' = [typed EXCEPT ![c] = FALSE]
  /\ UNCHANGED <<svars, cpc, cgrp, sent, received, relayed>>
SendLine(c) == /\ cpc[c] = "run" /\ typed[c]
               /\ msgsnd(ChatType, [from |-> c, grp |-> cgrp[c], k |-> sent[c]])
               /\ typed' = [typed EXCEPT ![c] = FALSE]
               /\ UNCHANGED <<svars, cpc, cgrp, sent, received, relayed>>

\* Parent: the next text addressed to this pid is printed.  (Mutant: without
\* the fork, one process both sends and receives.)
Receive_NoFork(c) ==
  /\ cpc[c] = "run" /\ ~typed[c]
  /\ msgrcv(c)
  /\ received' = [received EXCEPT ![c] = Append(@, Head(mq[c]))]
  /\ UNCHANGED <<svars, cpc, cgrp, typed, sent, relayed>>
Receive(c) == /\ cpc[c] = "run"
              /\ msgrcv(c)
              /\ received' = [received EXCEPT ![c] = Append(@, Head(mq[c]))]
              /\ UNCHANGED <<svars, cpc, cgrp, typed, sent, relayed>>

\* Ctrl-C in a client's terminal ends its parent and its child.  What is
\* queued for the pid stays queued.
Quit(c) == /\ c \in MayQuit
           /\ cpc[c] = "run"
           /\ cpc' = [cpc EXCEPT ![c] = "gone"]
           /\ UNCHANGED <<qvars, svars, cgrp, typed, sent, received, relayed>>

-----------------------------------------------------------------------------
(* The server.                                                             *)

\* The group a connect message asks for: atoi of everything after the '-'.
GroupAsked_FirstDigit(m) == FirstDigit(m.grp)        \* mutant
GroupAsked(m) == m.grp

\* while(n<3): one more client is entered under its pid and its group.
AcceptClient ==
  /\ spc = "connect"
  /\ msgrcv(ConnectType)
  /\ LET m == Head(mq[ConnectType]) IN
       /\ client' = Append(client, m.from)
       /\ grp' = [grp EXCEPT ![GroupAsked(m)] = Append(@, m.from)]
  /\ spc' = IF Len(client) + 1 < ConnectMax THEN "connect" ELSE "recv"
  /\ UNCHANGED <<message, j, cvars, relayed>>

\* The next line of anybody; its group is the first character.  A group
\* without members ends the relay loop at once.
TakeLine ==
  /\ spc = "recv"
  /\ msgrcv(ChatType)
  /\ message' = Head(mq[ChatType])
  /\ LET currgrp == FirstDigit(Head(mq[ChatType]).grp) IN
       /\ relayed' = [relayed EXCEPT ![currgrp] = Append(@, Head(mq[ChatType]))]
       /\ spc' = IF grp[currgrp] = <<>> THEN "recv" ELSE "relay"
  /\ j' = 1
  /\ UNCHANGED <<client, grp, cvars>>

\* The loop over the members of g goes on after member k.
MoreMembers_OneTooFew(g, k) == k + 1 < Len(grp[g])   \* mutant
MoreMembers(g, k) == k < Len(grp[g])

\* for(j=0; j<grpctr[currgrp]; j++): one blocking msgsnd per member.
RelayToMember ==
  /\ spc = "relay"
  /\ LET currgrp == FirstDigit(message.grp) IN
       /\ msgsnd(grp[currgrp][j], message)
       /\ spc' = IF MoreMembers(currgrp, j) THEN "relay" ELSE "recv"
  /\ j' = j + 1
  /\ UNCHANGED <<client, grp, message, cvars, relayed>>

-----------------------------------------------------------------------------
Next == \/ AcceptClient \/ TakeLine \/ RelayToMember
        \/ \E c \in Clients : \/ Start(c) \/ SendConnect(c)
                              \/ TypeLine(c) \/ SendLine(c)
                              \/ Receive(c) \/ Quit(c)

Spec == Init /\ [][Next]_vars

\* Every process runs when it can; whether a user starts a client, types a
\* line or presses Ctrl-C is up to the user.
Fairness == /\ WF_vars(AcceptClient) /\ WF_vars(TakeLine) /\ WF_vars(RelayToMember)
            /\ \A c \in Clients : /\ WF_vars(SendConnect(c))
                                  /\ WF_vars(SendLine(c))
                                  /\ WF_vars(Receive(c))

FairSpec == Spec /\ Fairness

-----------------------------------------------------------------------------
(* The group whose members the server is sending message to.               *)
Currgrp == FirstDigit(message.grp)

(* Type invariant of every variable of the model; the relay loop (server.c *)
(* 72) never indexes past the member list of the group it relays to.       *)
MsgOf(t) == IF t = ConnectType THEN Connect ELSE Text

TypeOK == /\ mq \in [Types -> Seq(Connect \cup Text)]
          /\ \A t \in Types : mq[t] \in Seq(MsgOf(t))
          /\ qnum \in Int
          /\ spc \in {"connect", "recv", "relay"}
          /\ client \in Seq(Clients)
          /\ grp \in [Groups -> Seq(Clients)]
          /\ message \in Text \cup {NoText}
          /\ j \in Nat \ {0}
          /\ cpc \in [Clients -> {"start", "connect", "run", "gone"}]
          /\ cgrp \in [Clients -> Groups]
          /\ typed \in [Clients -> BOOLEAN]
          /\ sent \in [Clients -> 0..MaxSends]
          /\ \A c \in Clients : typed[c] => sent[c] >= 1
          /\ received \in [Clients -> Seq(Text)]
          /\ relayed \in [Groups -> Seq(Text)]
          /\ (spc = "relay") =>
                /\ message \in Text
                /\ j \in 1..Len(grp[Currgrp])

(* The message at position p of group g is still in the server's hands.    *)
Owed(g, p) == spc = "relay" /\ Currgrp = g /\ j <= p

(* What c has printed, then what is queued for it.                         *)
Got(c) == received[c] \o mq[c]

(* Total order (the relay loop of server.c 61-79 and the receive loop of    *)
(* client.c 42-46): what a member has printed, followed by what is queued  *)
(* for it, followed by the text the loop has not reached it with, is the   *)
(* sequence of ALL texts the server took for its group.  So no member      *)
(* misses a text, sees one twice, or sees two in another order.            *)
TotalOrder ==
  \A g \in Groups : \A p \in 1..Len(grp[g]) :
     relayed[g] = IF Owed(g, p) THEN Append(Got(grp[g][p]), message)
                                ELSE Got(grp[g][p])

(* What the two halves of the roster owe each other (server.c 29-49,       *)
(* client.c 25-27): every client that has connected is either queued once  *)
(* under type 999 or entered once in the list of its own group; a client   *)
(* in no list has been sent nothing; nothing is relayed while the lists    *)
(* are being built, and each log holds lines whose first digit is its      *)
(* group.  With TotalOrder this is inductive.                              *)
Listed(c) == \E g \in Groups : \E p \in 1..Len(grp[g]) : grp[g][p] = c
Waiting == mq[ConnectType]
ListsOK == \A g \in Groups : \A p \in 1..Len(grp[g]) :
             /\ cpc[grp[g][p]] \in {"run", "gone"}
             /\ cgrp[grp[g][p]] = g
             /\ \A q \in 1..Len(grp[g]) : p # q => grp[g][p] # grp[g][q]
             /\ \A q \in 1..Len(Waiting) : grp[g][p] # Waiting[q].from
WaitingOK == \A p \in 1..Len(Waiting) :
               /\ cpc[Waiting[p].from] \in {"run", "gone"}
               /\ Waiting[p].grp = cgrp[Waiting[p].from]
               /\ \A q \in 1..Len(Waiting) :
                     p # q => Waiting[p].from # Waiting[q].from
UnlistedOK == \A c \in Clients : ~Listed(c) => received[c] = <<>> /\ mq[c] = <<>>
LogsOK == /\ spc = "connect" => \A g \in Groups : relayed[g] = <<>>
          /\ \A g \in Groups : \A i \in 1..Len(relayed[g]) :
                FirstDigit(relayed[g][i].grp) = g
Roster == ListsOK /\ WaitingOK /\ UnlistedOK /\ LogsOK

(* Nobody outside a group's list is ever sent a text (server.c 72-74 index  *)
(* only the list built in 47-48), and all texts a client gets name a group *)
(* that begins with its own group number (comment, server.c 65).           *)
GroupIsolation ==
  \A c \in Clients :
     /\ Got(c) # <<>> => Listed(c)
     /\ \A i \in 1..Len(Got(c)) : FirstDigit(Got(c)[i].grp) = cgrp[c]

(* Nothing a user typed is lost, doubled or reordered on the way to the    *)
(* server, whatever the other processes do to the shared queue: the lines  *)
(* of c in what the server took, and then in the queue, are lines 1, 2, .. *)
(* up to the last one its child has handed over (client.c 32-39).          *)
LinesOf(c, s) == {i \in DOMAIN s : s[i].from = c}
Numbered(c, s, n) ==
  /\ \A i \in LinesOf(c, s) : s[i].k \in 1..n
  /\ \A k \in 1..n : \E i \in LinesOf(c, s) : s[i].k = k
  /\ \A a, b \in LinesOf(c, s) : a < b => s[a].k < s[b].k
HandedOver(c) == sent[c] - (IF typed[c] THEN 1 ELSE 0)
NothingLost ==
  \A c \in Clients :
     Numbered(c, relayed[FirstDigit(cgrp[c])] \o mq[ChatType], HandedOver(c))

(* A queued line carries the group its author entered (client.c 34).       *)
OwnGroup == \A i \in DOMAIN mq[ChatType] :
              mq[ChatType][i].grp = cgrp[mq[ChatType][i].from]

(* Nobody can move any more although the server has work: the queue is     *)
(* full and holds nothing for the server's next msgrcv nor for a client    *)
(* that is running.                                                        *)
Wedged == /\ qnum = QMax
          /\ spc = "recv" => mq[ChatType] = <<>>
          /\ \A c \in Clients : cpc[c] = "run" => mq[c] = <<>>

MembersOf(g) == {grp[g][p] : p \in 1..Len(grp[g])}
Printed(c, from, k) == \E i \in DOMAIN received[c] :
                          received[c][i].from = from /\ received[c][i].k = k

(* Once the connect phase is over, each line a user typed is printed by    *)
(* every member of its group that is running, unless its author quits      *)
(* before it is sent or the queue is wedged: full of lines and connect     *)
(* messages that only the blocked server would take, and of texts for      *)
(* clients that have gone (server.c 72-77 sends with no flag).             *)
DeliveredOrWedged ==
  \A c \in Clients, k \in 1..MaxSends :
     (sent[c] >= k /\ spc # "connect")
       ~> \/ Wedged \/ cpc[c] = "gone"
          \/ \A m \in Clients : m \in MembersOf(FirstDigit(cgrp[c])) =>
                cpc[m] = "gone" \/ Printed(m, c, k)

-----------------------------------------------------------------------------
(* GroupChat implements GroupBroadcast.  A client is a member of the group *)
(* the server's lists have it in (server.c 48).                            *)
EnteredIn(c) == IF Listed(c) THEN cgrp[c] ELSE -1

\* A line is for the group its first digit names (server.c 65-66), group 1 for
\* one of group 12.
HeardIn(t) == FirstDigit(t.grp)

Broadcast == INSTANCE GroupBroadcast WITH
               Members <- Clients, GroupIds <- Groups, Texts <- Text, Nobody <- -1, Home <- HeardIn,
               group <- [c \in Clients |-> EnteredIn(c)],
               log <- relayed, printed <- received

(* Every step of server and clients is a step of the abstract broadcast or *)
(* leaves it unchanged (server.c 29-78, client.c 42-46).  In particular a  *)
(* line gets into the log its first digit names, and only the members the  *)
(* connect phase entered there, under the whole number, ever see it.       *)
ImplementsBroadcast == Broadcast!ASpec
=============================================================================
