-------------------------------- MODULE Chat --------------------------------
(***************************************************************************)
(* MessageQueue/Chat: a server that takes two clients and relays every     *)
(* line to both, over one System V queue.                                  *)
(*                                                                         *)
(*   type 1    "pid"   client -> server, once, to connect                  *)
(*   type 2    "text"  client -> server, every line of the user            *)
(*   type pid  "text"  server -> the client with that pid                  *)
(*                                                                         *)
(* The server's msgctl(IPC_RMID) is behind its endless loop: the queue and *)
(* what is in it outlive every run of the server.  A server that was       *)
(* killed may be started again, with an empty list; clients that have      *)
(* connected once do not notice and never connect again.                   *)
(*                                                                         *)
(* A client is identified with its pid, which is not given to another, and *)
(* is neither 1 nor 2.                                                     *)
(***************************************************************************)
EXTENDS SysVQueue

CONSTANTS Clients,       \* the pids of the clients that may be started
          ConnectMax,    \* how many clients the connect phase waits for
          MaxSends,      \* bound: lines one user types
          MaxRuns,       \* bound: how often the server is started
          MayDie         \* the clients that may be killed (Ctrl-C)

ConnectType == 1
ChatType == 2

ASSUME PidAssumption == ConnectType \notin Clients /\ ChatType \notin Clients
ASSUME BoundAssumption == /\ ConnectMax \in Nat \ {0} /\ MaxSends \in Nat
                          /\ MaxRuns \in Nat /\ MayDie \subseteq Clients

Types == {ConnectType, ChatType} \cup Clients
Text == [from : Clients, k : 1..MaxSends]

VARIABLES spc,           \* server: "connect", "recv", "relay"; "dead"
          client,        \* server: client[0..n-1], the pids connected so far
          message,       \* server: the text being relayed
          i,             \* server: the next member to send it to (from 1)
          cpc,           \* client: "start", "connect", "run" or "gone"
          typed,         \* client: TRUE while the child holds a line to send
          sent,          \* client: number of lines typed so far
          received,      \* client: the texts its parent has printed
          life,          \* history: how often the server was started
          home,          \* history: home[c], the run that has listed c, or 0
          taken,         \* history: taken[r], the texts run r took
          missed         \* history: the text c did not get since the server
                         \*   was killed while relaying it, or NoText

svars == <<spc, client, message, i, life, home, taken, missed>>
cvars == <<cpc, typed, sent, received>>
vars == <<mq, qnum, svars, cvars>>

NoText == [from |-> 0, k |-> 0]      \* the zeroed global

Init == /\ msgget(Types)
        /\ spc = "dead" /\ client = <<>> /\ message = NoText /\ i = 1
        /\ cpc = [c \in Clients |-> "start"]
        /\ typed = [c \in Clients |-> FALSE]
        /\ sent = [c \in Clients |-> 0]
        /\ received = [c \in Clients |-> <<>>]
        /\ life = 0 /\ home = [c \in Clients |-> 0]
        /\ taken = [r \in 1..MaxRuns |-> <<>>]
        /\ missed = [c \in Clients |-> NoText]

-----------------------------------------------------------------------------
\* client.c.  The user starts it; it connects and forks.
Start(c) == /\ cpc[c] = "start"
            /\ cpc' = [cpc EXCEPT ![c] = "connect"]
            /\ UNCHANGED <<qvars, svars, typed, sent, received>>
SendConnect(c) == /\ cpc[c] = "connect"
                  /\ msgsnd(ConnectType, c)
                  /\ cpc' = [cpc EXCEPT ![c] = "run"]
                  /\ UNCHANGED <<svars, typed, sent, received>>

\* Child: gets returns the user's next line, msgsnd waits for room.
TypeLine(c) == /\ cpc[c] = "run" /\ ~typed[c] /\ sent[c] < MaxSends
               /\ typed' = [typed EXCEPT ![c] = TRUE]
               /\ sent' = [sent EXCEPT ![c] = @ + 1]
               /\ UNCHANGED <<qvars, svars, cpc, received>>
SendLine(c) == /\ cpc[c] = "run" /\ typed[c]
               /\ msgsnd(ChatType, [from |-> c, k |-> sent[c]])
               /\ typed' = [typed EXCEPT ![c] = FALSE]
               /\ UNCHANGED <<svars, cpc, sent, received>>

\* Parent: the next text for this pid.  (Mutant: no fork, one process.)
Receive_NoFork(c) ==
  /\ cpc[c] = "run" /\ ~typed[c]
  /\ msgrcv(c)
  /\ received' = [received EXCEPT ![c] = Append(@, Head(mq[c]))]
  /\ UNCHANGED <<svars, cpc, typed, sent>>
Receive(c) == /\ cpc[c] = "run"
              /\ msgrcv(c)
              /\ received' = [received EXCEPT ![c] = Append(@, Head(mq[c]))]
              /\ UNCHANGED <<svars, cpc, typed, sent>>

\* Both processes end; what is queued from them and for them stays.
Kill(c) == /\ c \in MayDie /\ cpc[c] = "run"
           /\ cpc' = [cpc EXCEPT ![c] = "gone"]
           /\ UNCHANGED <<qvars, svars, typed, sent, received>>

-----------------------------------------------------------------------------
\* server.c.  msgget finds the queue there is.  (Mutant: it starts with a
\* fresh one.)
StartServer_Fresh == /\ spc = "dead" /\ life < MaxRuns
                     /\ mq' = [t \in Types |-> <<>>] /\ qnum' = 0
                     /\ spc' = "connect" /\ life' = life + 1
                     /\ client' = <<>> /\ message' = NoText /\ i' = 1
                     /\ UNCHANGED <<home, taken, missed, cvars>>
StartServer == /\ spc = "dead" /\ life < MaxRuns
               /\ spc' = "connect" /\ life' = life + 1
               /\ client' = <<>> /\ message' = NoText /\ i' = 1
               /\ UNCHANGED <<qvars, home, taken, missed, cvars>>

\* while(n<2): whoever is next in the queue, alive or not.
AcceptClient == /\ spc = "connect"
                /\ msgrcv(ConnectType)
                /\ client' = Append(client, Head(mq[ConnectType]))
                /\ home' = [home EXCEPT ![Head(mq[ConnectType])] = life]
                /\ spc' = IF Len(client) + 1 < ConnectMax THEN "connect" ELSE "recv"
                /\ UNCHANGED <<message, i, life, taken, missed, cvars>>

\* The next line of anybody, listed or not.
TakeLine == /\ spc = "recv"
            /\ msgrcv(ChatType)
            /\ message' = Head(mq[ChatType]) /\ i' = 1
            /\ taken' = [taken EXCEPT ![life] = Append(@, Head(mq[ChatType]))]
            /\ spc' = "relay"
            /\ UNCHANGED <<client, life, home, missed, cvars>>

\* for(i=0; i<n; i++): one blocking msgsnd per member.
RelayToMember == /\ spc = "relay"
                 /\ msgsnd(client[i], message)
                 /\ i' = i + 1
                 /\ spc' = IF i < Len(client) THEN "relay" ELSE "recv"
                 /\ UNCHANGED <<client, message, life, home, taken, missed, cvars>>

\* The member at position p has not been sent message yet.
Owed(c) == spc = "relay" /\ \E p \in i..Len(client) : client[p] = c
KillServer == /\ spc # "dead"
              /\ spc' = "dead"
              /\ missed' = [c \in Clients |-> IF Owed(c) THEN message ELSE missed[c]]
              /\ UNCHANGED <<qvars, client, message, i, life, home, taken, cvars>>

-----------------------------------------------------------------------------
Next == \/ StartServer \/ AcceptClient \/ TakeLine \/ RelayToMember \/ KillServer
        \/ \E c \in Clients : \/ Start(c) \/ SendConnect(c) \/ TypeLine(c)
                              \/ SendLine(c) \/ Receive(c) \/ Kill(c)

Spec == Init /\ [][Next]_vars

\* Every process runs when it can; starting and killing programs and typing
\* is up to the users.
Fairness == /\ WF_vars(AcceptClient) /\ WF_vars(TakeLine) /\ WF_vars(RelayToMember)
            /\ \A c \in Clients : /\ WF_vars(SendConnect(c))
                                  /\ WF_vars(SendLine(c))
                                  /\ WF_vars(Receive(c))

FairSpec == Spec /\ Fairness

-----------------------------------------------------------------------------
(* Type invariant of every variable; the relay loop (server.c 35) stays    *)
(* inside the list, and the list of a run is full before it relays.        *)
MsgOf(t) == IF t = ConnectType THEN Clients ELSE Text

TypeOK == /\ mq \in [Types -> Seq(Clients \cup Text)]
          /\ \A t \in Types : mq[t] \in Seq(MsgOf(t))
          /\ qnum \in Int
          /\ spc \in {"connect", "recv", "relay", "dead"}
          /\ client \in Seq(Clients)
          /\ message \in Text \cup {NoText}
          /\ i \in Nat \ {0}
          /\ cpc \in [Clients -> {"start", "connect", "run", "gone"}]
          /\ typed \in [Clients -> BOOLEAN]
          /\ sent \in [Clients -> 0..MaxSends]
          /\ \A c \in Clients : typed[c] => sent[c] >= 1
          /\ received \in [Clients -> Seq(Text)]
          /\ life \in 0..MaxRuns
          /\ spc # "dead" => life # 0
          /\ home \in [Clients -> 0..MaxRuns]
          /\ taken \in [1..MaxRuns -> Seq(Text)]
          /\ missed \in [Clients -> Text \cup {NoText}]
          /\ spc = "connect" => Len(client) < ConnectMax
          /\ spc \in {"recv", "relay"} => Len(client) = ConnectMax
          /\ spc = "relay" => message \in Text /\ i \in 1..Len(client)

Got(c) == received[c] \o mq[c]

(* What a client has printed, and then what is queued for it, is the whole *)
(* sequence of lines that the one run of the server that has listed it     *)
(* took, be their authors listed or not; only the line that run is         *)
(* relaying, or was killed relaying, may be missing, at the end.  Nothing  *)
(* of another run is among them, although all runs share the queue         *)
(* (server.c 22, 25-41, client.c 41-45).                                   *)
OneRunsLines ==
  \A c \in Clients :
     IF home[c] = 0 THEN Got(c) = <<>>
     ELSE taken[home[c]] = IF Owed(c) THEN Append(Got(c), message)
                           ELSE IF missed[c] # NoText THEN Append(Got(c), missed[c])
                           ELSE Got(c)

(* Why it holds, over all runs (server.c 25-29, client.c 24-26): a client  *)
(* is either queued once to be connected or listed in one run, and those   *)
(* of the present run are just the members of the list.                    *)
Waiting == mq[ConnectType]
MembersOK == /\ \A p \in 1..Len(client) : home[client[p]] = life
             /\ \A p, q \in 1..Len(client) : client[p] = client[q] => p = q
             /\ life > 0 => \A c \in Clients : home[c] = life =>
                   /\ \E p \in 1..Len(client) : client[p] = c
                   /\ spc # "dead" => missed[c] = NoText
WaitingOK == /\ \A p \in 1..Len(Waiting) : /\ home[Waiting[p]] = 0
                                           /\ cpc[Waiting[p]] \in {"run", "gone"}
             /\ \A p, q \in 1..Len(Waiting) : Waiting[p] = Waiting[q] => p = q
RunsOK == /\ \A c \in Clients :
               /\ home[c] <= life
               /\ IF home[c] = 0 THEN missed[c] = NoText ELSE cpc[c] \in {"run", "gone"}
          /\ \A r \in 1..MaxRuns : r > life => taken[r] = <<>>
          /\ spc = "connect" => taken[life] = <<>>
Roster == MembersOK /\ WaitingOK /\ RunsOK

Runs(c) == cpc[c] = "run"

(* Nobody can move although there is work: the queue is full, and of no    *)
(* message the server's msgrcv waits for or a running client does.         *)
Wedged == /\ qnum = QMax
          /\ spc = "connect" => Waiting = <<>>
          /\ spc = "recv" => mq[ChatType] = <<>>
          /\ \A c \in Clients : Runs(c) => mq[c] = <<>>

\* Everybody waits for a user: nothing is held back that could be sent.
Idle == /\ spc = "connect" => Waiting = <<>>
        /\ spc = "recv" => mq[ChatType] = <<>>
        /\ spc # "relay"
        /\ \A c \in Clients : cpc[c] # "connect" /\ (Runs(c) => ~typed[c] /\ mq[c] = <<>>)

(* In the end there is no server, or all running members of the last one   *)
(* have printed every line it took, the lines of earlier members included; *)
(* unless the queue is full of texts for clients that have gone, of their  *)
(* stale connect messages, or of lines while a second client is waited for *)
(* and cannot announce itself (server.c 25-28, 33-38).                     *)
SettledOrWedged ==
  <>[](\/ spc = "dead" \/ Wedged
       \/ /\ Idle
          /\ \A c \in Clients : Runs(c) /\ home[c] = life => received[c] = taken[life])
=============================================================================
