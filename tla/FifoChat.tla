------------------------------ MODULE FifoChat ------------------------------
(***************************************************************************)
(* FIFO/Chat: a chat over named pipes.  A client writes its name to        *)
(* /tmp/server, forks, and reads from a FIFO of its own; its child writes  *)
(* lines to /tmp/server.  The server takes three names, opens each one's   *)
(* FIFO to write "Accepted", and then relays what it reads to all three.   *)
(*                                                                         *)
(* Names and lines both have 100 bytes, "Accepted" has 8.  A client's FIFO *)
(* is a stream of cells: "Accepted" is one, a line MsgCells of them.       *)
(* The server closes /tmp/server after every line and opens it again, but  *)
(* never closes a client's FIFO it has relayed to.  Files named like a     *)
(* line do not exist; descriptors, 1024 of them, do not run out.           *)
(***************************************************************************)
EXTENDS Fifo, SequencesExt

CONSTANTS Clients, Srv,  \* Srv is the server and its FIFO
          ConnectMax,    \* 3: names the server takes
          MsgCells,      \* cells of a line, and of a client's read
          MaxLines,      \* bound: lines each user types
          MayDie         \* clients that may be killed (Ctrl-C)

ASSUME FifoChatAssumption ==
  /\ Srv \notin Clients /\ MayDie \subseteq Clients /\ MaxLines \in Nat
  /\ ConnectMax \in Nat \ {0} /\ MsgCells \in Nat /\ MsgCells > 1

Names == Clients \cup {Srv}
Message == [from : Clients, k : 0..MaxLines]      \* k = 0: its name
Accept == [from |-> Srv, k |-> 0, part |-> 1]
Cell == [from : Clients, k : 0..MaxLines, part : 1..MsgCells] \cup {Accept}
Cells(m) == [i \in 1..MsgCells |-> [from |-> m.from, k |-> m.k, part |-> i]]

VARIABLES spc,           \* server: "start", "name", "greet", "accept", "leave",
                         \*   then "open", "read", "relay", "send", "close"; "dead"
          list,          \* client[0..n-1], by the message each came in
          msg,           \* the server's buffer
          j,             \* the relay loop's i, from 1
          wpc,           \* client's main, later its child: "off", "open",
                         \*   "write", "close", "type", "dead"
          rpc,           \* client's parent: "off", "open", "read", "close", "dead"
          line,          \* line[c]: lines c has typed
          taken,         \* history: messages the server has relayed, or does now
          chunks,        \* history: chunks[c], what each read of c returned
          got            \* history: got[c], the same, one behind the other

svars == <<spc, list, msg, j, taken>>
cvars == <<wpc, rpc, line, chunks, got>>
vars == <<fvars, svars, cvars>>

NoMsg == [from |-> Srv, k |-> 0]

Init == /\ mkfifos(Names)
        /\ spc = "start" /\ list = <<>> /\ msg = NoMsg /\ j = 1 /\ taken = <<>>
        /\ wpc = [c \in Clients |-> "off"] /\ rpc = [c \in Clients |-> "off"]
        /\ line = [c \in Clients |-> 0]
        /\ chunks = [c \in Clients |-> <<>>] /\ got = [c \in Clients |-> <<>>]

-----------------------------------------------------------------------------
\* server.c: names.  The list's full length ends the loop; end of file does not.
OpenServer == /\ spc \in {"start", "open"}
              /\ open_rd(Srv, Srv)
              /\ spc' = IF spc = "start" THEN "name" ELSE "read"
              /\ UNCHANGED <<list, msg, j, taken, cvars>>

AfterName(l) == IF Len(l) < ConnectMax THEN "name" ELSE "close"

\* A line for a name: there is no such file, and nobody is greeted.
TakeName == /\ spc = "name" /\ Opened(Srv, Srv)
            /\ read(Srv, 1)
            /\ msg' = Head(data[Srv])
            /\ list' = Append(list, msg')
            /\ spc' = IF msg'.k = 0 THEN "greet" ELSE AfterName(list')
            /\ UNCHANGED <<j, taken, cvars>>

OpenGreeted == /\ spc = "greet"
               /\ open_wr(Srv, msg.from)
               /\ spc' = "accept"
               /\ UNCHANGED <<list, msg, j, taken, cvars>>
WriteAccept == /\ spc = "accept" /\ Opened(Srv, msg.from)
               /\ write(msg.from, <<Accept>>)
               /\ spc' = "leave"
               /\ UNCHANGED <<list, msg, j, taken, cvars>>
LeaveGreeted == /\ spc = "leave"
                /\ close(Srv, {msg.from})
                /\ spc' = AfterName(list)
                /\ UNCHANGED <<list, msg, j, taken, cvars>>

\* server.c: lines.
\* Mutant: what read returns is not looked at.
ReadLine_Unchecked == /\ spc = "read" /\ Opened(Srv, Srv)
                      /\ \/ /\ read(Srv, 1)
                            /\ msg' = Head(data[Srv])
                         \/ Eof(Srv) /\ msg # NoMsg /\ UNCHANGED <<fvars, msg>>
                      /\ taken' = Append(taken, msg')
                      /\ j' = 1 /\ spc' = "relay"
                      /\ UNCHANGED <<list, cvars>>
ReadLine == /\ spc = "read" /\ Opened(Srv, Srv)
            /\ \/ /\ read(Srv, 1)
                  /\ msg' = Head(data[Srv])
                  /\ taken' = Append(taken, msg')
                  /\ j' = 1 /\ spc' = "relay"
               \/ /\ Eof(Srv)
                  /\ spc' = "close"
                  /\ UNCHANGED <<fvars, msg, j, taken>>
            /\ UNCHANGED <<list, cvars>>

CloseServer == /\ spc = "close"
               /\ close(Srv, {Srv})
               /\ spc' = "open"
               /\ UNCHANGED <<list, msg, j, taken, cvars>>

RelayTo == /\ spc = "relay" /\ j <= Len(list) /\ list[j].k = 0
           /\ open_wr(Srv, list[j].from)
           /\ spc' = "send"
           /\ UNCHANGED <<list, msg, j, taken, cvars>>
SkipMember == /\ spc = "relay" /\ j <= Len(list) /\ list[j].k > 0
              /\ j' = j + 1
              /\ UNCHANGED <<fvars, spc, list, msg, taken, cvars>>
\* Mutant: the descriptors do not leak.
EndRelay_CloseAll == /\ spc = "relay" /\ j > Len(list)
                     /\ close(Srv, Clients)
                     /\ spc' = "close"
                     /\ UNCHANGED <<list, msg, j, taken, cvars>>
EndRelay == /\ spc = "relay" /\ j > Len(list)
            /\ spc' = "close"
            /\ UNCHANGED <<fvars, list, msg, j, taken, cvars>>
SendLine == /\ spc = "send" /\ Opened(Srv, list[j].from)
            /\ write(list[j].from, Cells(msg))
            /\ j' = j + 1 /\ spc' = "relay"
            /\ UNCHANGED <<list, msg, taken, cvars>>

\* SIGPIPE: the reader closed its end between the server's open and write.
ServerDies == /\ \/ spc = "accept" /\ Opened(Srv, msg.from) /\ Broken(msg.from)
                 \/ spc = "send" /\ Opened(Srv, list[j].from) /\ Broken(list[j].from)
              /\ close(Srv, Names)
              /\ spc' = "dead"
              /\ UNCHANGED <<list, msg, j, taken, cvars>>

-----------------------------------------------------------------------------
\* client.c: the name, then (in the child) each line: open, write, close.
StartClient(c) == /\ wpc[c] = "off"
                  /\ wpc' = [wpc EXCEPT ![c] = "open"]
                  /\ UNCHANGED <<fvars, svars, rpc, line, chunks, got>>
TypeLine(c) == /\ wpc[c] = "type" /\ line[c] < MaxLines
               /\ line' = [line EXCEPT ![c] = @ + 1]
               /\ wpc' = [wpc EXCEPT ![c] = "open"]
               /\ UNCHANGED <<fvars, svars, rpc, chunks, got>>
OpenUp(c) == /\ wpc[c] = "open"
             /\ open_wr(c, Srv)
             /\ wpc' = [wpc EXCEPT ![c] = "write"]
             /\ UNCHANGED <<svars, rpc, line, chunks, got>>
WriteUp(c) == /\ wpc[c] = "write" /\ Opened(c, Srv)
              /\ write(Srv, <<[from |-> c, k |-> line[c]]>>)
              /\ wpc' = [wpc EXCEPT ![c] = "close"]
              /\ UNCHANGED <<svars, rpc, line, chunks, got>>
WriterDies(c) == /\ wpc[c] = "write" /\ Opened(c, Srv) /\ Broken(Srv)
                 /\ close(c, {Srv})
                 /\ wpc' = [wpc EXCEPT ![c] = "dead"]
                 /\ rpc' = IF line[c] = 0 THEN [rpc EXCEPT ![c] = "dead"] ELSE rpc
                 /\ UNCHANGED <<svars, line, chunks, got>>
\* After the name it forks.
CloseUp(c) == /\ wpc[c] = "close"
              /\ close(c, {Srv})
              /\ wpc' = [wpc EXCEPT ![c] = "type"]
              /\ rpc' = IF line[c] = 0 THEN [rpc EXCEPT ![c] = "open"] ELSE rpc
              /\ UNCHANGED <<svars, line, chunks, got>>

\* client.c: the parent.  read takes up to 100 bytes of whatever is there.
OpenDown(c) == /\ rpc[c] = "open"
               /\ open_rd(c, c)
               /\ rpc' = [rpc EXCEPT ![c] = "read"]
               /\ UNCHANGED <<svars, wpc, line, chunks, got>>
\* Mutants: sizeof(msg) of a pointer; the loop ends at end of file.
ReadDown_Short(c) ==
  /\ rpc[c] = "read" /\ Opened(c, c)
  /\ \/ /\ read(c, 1)
        /\ chunks' = [chunks EXCEPT ![c] = Append(@, Chunk(c, 1))]
        /\ got' = [got EXCEPT ![c] = @ \o Chunk(c, 1)]
     \/ Eof(c) /\ UNCHANGED <<fvars, chunks, got>>
  /\ rpc' = [rpc EXCEPT ![c] = "close"]
  /\ UNCHANGED <<svars, wpc, line>>
ReadDown_UntilEof(c) ==
  /\ rpc[c] = "read" /\ Opened(c, c)
  /\ \/ /\ read(c, MsgCells)
        /\ chunks' = [chunks EXCEPT ![c] = Append(@, Chunk(c, MsgCells))]
        /\ got' = [got EXCEPT ![c] = @ \o Chunk(c, MsgCells)]
        /\ rpc' = [rpc EXCEPT ![c] = "close"]
     \/ Eof(c) /\ rpc' = [rpc EXCEPT ![c] = "off"] /\ UNCHANGED <<fvars, chunks, got>>
  /\ UNCHANGED <<svars, wpc, line>>
ReadDown(c) == /\ rpc[c] = "read" /\ Opened(c, c)
               /\ \/ /\ read(c, MsgCells)
                     /\ chunks' = [chunks EXCEPT ![c] = Append(@, Chunk(c, MsgCells))]
                     /\ got' = [got EXCEPT ![c] = @ \o Chunk(c, MsgCells)]
                  \/ Eof(c) /\ UNCHANGED <<fvars, chunks, got>>
               /\ rpc' = [rpc EXCEPT ![c] = "close"]
               /\ UNCHANGED <<svars, wpc, line>>
CloseDown(c) == /\ rpc[c] = "close"
                /\ close(c, {c})
                /\ rpc' = [rpc EXCEPT ![c] = "open"]
                /\ UNCHANGED <<svars, wpc, line, chunks, got>>

\* Ctrl-C ends both processes.
KillClient(c) == /\ c \in MayDie /\ rpc[c] # "dead" /\ wpc[c] # "off"
                 /\ close(c, Names)
                 /\ wpc' = [wpc EXCEPT ![c] = "dead"] /\ rpc' = [rpc EXCEPT ![c] = "dead"]
                 /\ UNCHANGED <<svars, line, chunks, got>>

Server == \/ OpenServer \/ TakeName \/ OpenGreeted \/ WriteAccept \/ LeaveGreeted
          \/ ReadLine \/ CloseServer \/ RelayTo \/ SkipMember \/ EndRelay \/ SendLine
          \/ ServerDies
Writer(c) == OpenUp(c) \/ WriteUp(c) \/ WriterDies(c) \/ CloseUp(c)
Reader(c) == OpenDown(c) \/ ReadDown(c) \/ CloseDown(c)

Next == \/ Server
        \/ \E c \in Clients : \/ StartClient(c) \/ TypeLine(c) \/ Writer(c)
                              \/ Reader(c) \/ KillClient(c)

Spec == Init /\ [][Next]_vars

\* A process that can go on goes on; users need not start or type anything.
Fairness == /\ WF_vars(Server)
            /\ \A c \in Clients : WF_vars(Writer(c)) /\ WF_vars(Reader(c))

FairSpec == Spec /\ Fairness

-----------------------------------------------------------------------------
(* Type invariant of every variable of the model.                          *)
TypeOK == /\ data \in [Names -> Seq(Message \cup Cell)] /\ data[Srv] \in Seq(Message)
          /\ \A c \in Clients : data[c] \in Seq(Cell)
          /\ rd \in [Names -> SUBSET Names] /\ wr \in [Names -> SUBSET Names]
          /\ blocked \subseteq Names \X Names
          /\ spc \in {"start", "name", "greet", "accept", "leave", "open", "read", "relay",
                     "send", "close", "dead"}
          /\ list \in Seq(Message) /\ Len(list) <= ConnectMax
          /\ msg \in Message \cup {NoMsg} /\ (spc \in {"greet", "accept", "leave"} => msg.k = 0)
          /\ j \in 1..Len(list) + 1 /\ (spc = "send" => j <= Len(list) /\ list[j].k = 0)
          /\ taken \in Seq(Message) /\ (spc \in {"relay", "send"} => taken # <<>>)
          /\ wpc \in [Clients -> {"off", "open", "write", "close", "type", "dead"}]
          /\ rpc \in [Clients -> {"off", "open", "read", "close", "dead"}]
          /\ line \in [Clients -> 0..MaxLines]
          /\ chunks \in [Clients -> Seq(Seq(Cell))] /\ got \in [Clients -> Seq(Cell)]

Alive(c) == rpc[c] # "dead"
Place(c) == {i \in DOMAIN list : list[i] = [from |-> c, k |-> 0]}

\* Of what the server has taken, what it has written to the i-th of the list.
Owed(i) == spc \in {"relay", "send"} /\ j <= i
SentTo(i) == IF Owed(i) THEN Front(taken) ELSE taken
Greeted(c) == ~(spc \in {"greet", "accept"} /\ msg = [from |-> c, k |-> 0])

\* What c has read and what it can still read; the cell p of the n-th line in
\* such a stream; the stream that is "Accepted" and the lines q.
Stream(c) == got[c] \o data[c]
At(n, p) == 1 + (n - 1) * MsgCells + p
Carries(s, q) ==
  /\ Len(s) = 1 + Len(q) * MsgCells
  /\ s[1] = Accept
  /\ \A n \in 1..Len(q), p \in 1..MsgCells : s[At(n, p)] = Cells(q[n])[p]

(* The server closes a client's FIFO after "Accepted", and a client its own *)
(* after every read.  Still, while both live, nothing on the way to a      *)
(* client of the list is lost, repeated or out of order: what it has read  *)
(* and what is in its FIFO is "Accepted" and all lines taken since         *)
(* (server.c 30-37, 50-53; client.c 46-53).                                *)
SameStream ==
  spc # "dead" => \A c \in Clients : \A i \in Place(c) : Alive(c) =>
    IF Greeted(c) THEN Carries(Stream(c), SentTo(i)) ELSE Stream(c) = <<>>

(* A client reads whole lines, provided it has read "Accepted" by itself;   *)
(* if a line came in with it, the rest of that line is read with the next, *)
(* and so on for ever (server.c 31, client.c 50).                          *)
Cut(c) == \E i \in DOMAIN chunks[c] : chunks[c][i] # <<Accept>>
                                       /\ \A m \in Message : chunks[c][i] # Cells(m)
CutOnlyAtFirst == \A c \in Clients : Cut(c) => Len(chunks[c][1]) > 1 /\ chunks[c][1][1] = Accept

(* Lines get lost when the server closes its FIFO, and a line may be taken  *)
(* for a name; but of one client the server takes name and lines in the     *)
(* order typed, none twice (server.c 24-40, 44-56).                        *)
TypedOrder ==
  LET all == list \o taken \o data[Srv] IN
  \A a, b \in DOMAIN all : a < b /\ all[a].from = all[b].from => all[a].k < all[b].k

\* The server waits for a client that is gone, or has died writing to one.
Stuck == \/ spc = "dead"
         \/ spc = "accept" /\ ~Opened(Srv, msg.from) /\ ~Alive(msg.from)
         \/ spc = "send" /\ ~Opened(Srv, list[j].from) /\ ~Alive(list[j].from)
Idle == \/ spc = "name" /\ data[Srv] = <<>>
        \/ spc = "read" /\ ~Opened(Srv, Srv)

(* In the end every client has read all that was written to it, and the    *)
(* server waits for more to do, unless a client's end stopped it for good  *)
(* (server.c 30, 51-52).                                                   *)
SettlesOrStuck ==
  <>[](Stuck \/ (Idle /\ \A c \in Clients : Alive(c) /\ Place(c) # {} => data[c] = <<>>))
=============================================================================
