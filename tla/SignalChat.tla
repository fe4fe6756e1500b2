----------------------------- MODULE SignalChat -----------------------------
(***************************************************************************)
(* minor/que2: a chat of two clients over a message queue.  The server     *)
(* takes texts (type 3) and sends each to every client, as a message of    *)
(* type pid followed by SIGUSR1; the client's signal handler receives it.  *)
(*                                                                         *)
(* The client has ONE buffer, the global mesg: main reads the user's word  *)
(* into mesg_text, letter by letter, sets mesg_type and sends it, and the  *)
(* handler, which may run between any two of these steps, receives into the *)
(* same mesg.  SIGUSR1's that arrive while one is pending are merged into it.   *)
(* A blocked msgsnd is never restarted after a handler (signal(7)).        *)
(***************************************************************************)
EXTENDS SysVQueue, SequencesExt

CONSTANTS Clients,       \* the pids of the two clients
          MaxWords,      \* bound: words typed by one client
          MaxLen         \* bound: letters of a word

ConnectType == 2
ChatType == 3

ASSUME ClientsAssumption == /\ Clients \cap {ConnectType, ChatType} = {}
                            /\ IsFiniteSet(Clients) /\ Cardinality(Clients) = 2
                            /\ MaxWords \in Nat /\ MaxLen \in 1..99

Types == Clients \cup {ConnectType, ChatType}

\* A letter is known by who typed it, in which word (0: the pid) and at which
\* place.  A message: the string in mesg_text, the client that queued it, and
\* its number among the texts the server relays, once it does.
Letter == [author : Clients, k : 0..MaxWords, pos : 1..MaxLen]
Text == Seq(Letter) \ {<<>>}
Message == [text : Text, by : Clients, relay : Nat]
Pid(c) == <<[author |-> c, k |-> 0, pos |-> 1]>>

VARIABLES cl,            \* server: cl[0..i-1], the clients accepted
          serving,       \* server: the text being relayed, or none
          todo,          \* server: clients to send it to, in order
          tokill,        \* server: the client to signal next, or none
          cpc,           \* client: "connect", "scanf", "fill", "type" or "send"
          mtype, mtext,  \* client: the two fields of the global mesg
          stored, wlen,  \* client, in scanf: letters stored, letters of the word
          sig,           \* sig[c]: SIGUSR1 is pending
          typed,         \* history: words typed by c
          relayed,       \* history: texts the server took, in order
          shown          \* history: shown[c], what c's handler printed

svars == <<cl, serving, todo, tokill>>
cvars == <<cpc, mtype, mtext, stored, wlen>>
hvars == <<typed, relayed, shown>>
vars == <<qvars, svars, cvars, sig, hvars>>

Init == /\ msgget(Types)
        /\ cl = <<>> /\ serving = <<>> /\ todo = <<>> /\ tokill = <<>>
        /\ cpc = [c \in Clients |-> "connect"]
        /\ mtype = [c \in Clients |-> ConnectType]
        /\ mtext = [c \in Clients |-> Pid(c)]
        /\ stored = [c \in Clients |-> 0] /\ wlen = [c \in Clients |-> 0]
        /\ sig = [c \in Clients |-> FALSE]
        /\ typed = [c \in Clients |-> 0]
        /\ relayed = <<>> /\ shown = [c \in Clients |-> <<>>]

\* What client c's msgsnd(&mesg) puts into the queue.
Mesg(c) == [text |-> mtext[c], by |-> c, relay |-> 0]

-----------------------------------------------------------------------------
\* server.c: the two connects.
atoi(m) == m.text[1].author
AcceptClient ==
  /\ Len(cl) < 2
  /\ msgrcv(ConnectType)
  /\ cl' = Append(cl, atoi(Head(mq[ConnectType])))
  /\ UNCHANGED <<serving, todo, tokill, cvars, sig, hvars>>

\* msgrcv of a text, then for each client: msgsnd, kill.
TakeText ==
  /\ Len(cl) = 2 /\ todo = <<>> /\ tokill = <<>>
  /\ msgrcv(ChatType)
  /\ serving' = <<Head(mq[ChatType])>>
  /\ todo' = cl
  /\ relayed' = Append(relayed, Head(mq[ChatType]))
  /\ UNCHANGED <<cl, tokill, cvars, sig, typed, shown>>

SendText_NoWait ==                   \* mutant: IPC_NOWAIT, the text is dropped
  /\ todo # <<>> /\ tokill = <<>>
  /\ \/ msgsnd(Head(todo), [serving[1] EXCEPT !.relay = Len(relayed)])
     \/ qnum = QMax /\ UNCHANGED qvars
  /\ tokill' = <<Head(todo)>>
  /\ todo' = Tail(todo)
  /\ UNCHANGED <<cl, serving, cvars, sig, hvars>>
SendText ==
  /\ todo # <<>> /\ tokill = <<>>
  /\ msgsnd(Head(todo), [serving[1] EXCEPT !.relay = Len(relayed)])
  /\ tokill' = <<Head(todo)>>
  /\ todo' = Tail(todo)
  /\ UNCHANGED <<cl, serving, cvars, sig, hvars>>

Signal ==
  /\ tokill # <<>>
  /\ sig' = [sig EXCEPT ![tokill[1]] = TRUE]
  /\ tokill' = <<>>
  /\ serving' = IF todo = <<>> THEN <<>> ELSE serving
  /\ UNCHANGED <<qvars, cl, todo, cvars, hvars>>

-----------------------------------------------------------------------------
\* client.c: main.
SendConnect(c) ==
  /\ cpc[c] = "connect"
  /\ msgsnd(ConnectType, Mesg(c))
  /\ cpc' = [cpc EXCEPT ![c] = "scanf"]
  /\ UNCHANGED <<svars, mtype, mtext, stored, wlen, sig, hvars>>

\* scanf("%s", mesg.mesg_text) stores a letter at place i of the string t.  If t
\* ends before i, the letter comes behind the NUL and nobody sees it.
Typed(c, i) == [author |-> c, k |-> typed[c], pos |-> i]
Store(t, i, x) == IF Len(t) < i - 1 THEN t ELSE Append(SubSeq(t, 1, i - 1), x)

\* The word arrives; its first letter is stored whatever mesg_text holds.
TypeWord(c) ==
  /\ cpc[c] = "scanf" /\ typed[c] < MaxWords
  /\ typed' = [typed EXCEPT ![c] = @ + 1]
  /\ \E n \in 1..MaxLen : wlen' = [wlen EXCEPT ![c] = n]
  /\ mtext' = [mtext EXCEPT ![c] = <<Typed(c, 1)'>>]
  /\ stored' = [stored EXCEPT ![c] = 1]
  /\ cpc' = [cpc EXCEPT ![c] = "fill"]
  /\ UNCHANGED <<qvars, svars, mtype, sig, relayed, shown>>

StoreLetter(c) ==
  /\ cpc[c] = "fill" /\ stored[c] < wlen[c]
  /\ stored' = [stored EXCEPT ![c] = @ + 1]
  /\ mtext' = [mtext EXCEPT ![c] = Store(@, stored[c] + 1, Typed(c, stored[c] + 1))]
  /\ UNCHANGED <<qvars, svars, cpc, mtype, wlen, sig, hvars>>

\* scanf stores the NUL: what is longer than the word is cut.
EndWord(c) ==
  /\ cpc[c] = "fill" /\ stored[c] = wlen[c]
  /\ mtext' = [mtext EXCEPT ![c] = IF Len(@) > wlen[c] THEN SubSeq(@, 1, wlen[c]) ELSE @]
  /\ stored' = [stored EXCEPT ![c] = 0] /\ wlen' = [wlen EXCEPT ![c] = 0]
  /\ cpc' = [cpc EXCEPT ![c] = "type"]
  /\ UNCHANGED <<qvars, svars, mtype, sig, hvars>>

SetType(c) ==
  /\ cpc[c] = "type"
  /\ mtype' = [mtype EXCEPT ![c] = ChatType]
  /\ cpc' = [cpc EXCEPT ![c] = "send"]
  /\ UNCHANGED <<qvars, svars, mtext, stored, wlen, sig, hvars>>

\* msgsnd sends whatever mesg holds by now, to whatever type it holds.
SendWord(c) ==
  /\ cpc[c] = "send"
  /\ msgsnd(mtype[c], Mesg(c))
  /\ cpc' = [cpc EXCEPT ![c] = "scanf"]
  /\ UNCHANGED <<svars, mtype, mtext, stored, wlen, sig, hvars>>

\* client.c: the handler.  If it interrupts a msgsnd that waits for room, that
\* msgsnd fails and main goes on.
Handler_ReadsAll(c) ==               \* mutant: takes every message there is
  /\ sig[c]
  /\ mq[c] # <<>>
  /\ mq' = [mq EXCEPT ![c] = <<>>] /\ qnum' = qnum - Len(mq[c])
  /\ mtype' = [mtype EXCEPT ![c] = c]
  /\ mtext' = [mtext EXCEPT ![c] = Head(mq[c]).text]
  /\ shown' = [shown EXCEPT ![c] = @ \o mq[c]]
  /\ sig' = [sig EXCEPT ![c] = FALSE]
  /\ cpc' = cpc
  /\ UNCHANGED <<svars, stored, wlen, typed, relayed>>
Handler_Quiet(c) ==                  \* mutant: no printf while main is sending
  /\ sig[c]
  /\ msgrcv(c)
  /\ mtype' = [mtype EXCEPT ![c] = c]
  /\ mtext' = [mtext EXCEPT ![c] = Head(mq[c]).text]
  /\ shown' = IF cpc[c] = "scanf" THEN [shown EXCEPT ![c] = Append(@, Head(mq[c]))] ELSE shown
  /\ sig' = [sig EXCEPT ![c] = FALSE]
  /\ cpc' = cpc
  /\ UNCHANGED <<svars, stored, wlen, typed, relayed>>
Handler(c) ==
  /\ sig[c]
  /\ msgrcv(c)
  /\ mtype' = [mtype EXCEPT ![c] = c]
  /\ mtext' = [mtext EXCEPT ![c] = Head(mq[c]).text]
  /\ shown' = [shown EXCEPT ![c] = Append(@, Head(mq[c]))]
  /\ sig' = [sig EXCEPT ![c] = FALSE]
  /\ \/ cpc' = cpc
     \/ /\ cpc[c] = "send" /\ qnum = QMax
        /\ cpc' = [cpc EXCEPT ![c] = "scanf"]
  /\ UNCHANGED <<svars, stored, wlen, typed, relayed>>

Next == \/ AcceptClient \/ TakeText \/ SendText \/ Signal
        \/ \E c \in Clients : \/ SendConnect(c) \/ TypeWord(c) \/ StoreLetter(c) \/ EndWord(c)
                              \/ SetType(c) \/ SendWord(c) \/ Handler(c)

Spec == Init /\ [][Next]_vars

\* Server and clients run and signals are delivered; users need not type.
Fairness == /\ WF_vars(AcceptClient) /\ WF_vars(TakeText)
            /\ WF_vars(SendText) /\ WF_vars(Signal)
            /\ \A c \in Clients : /\ WF_vars(SendConnect(c)) /\ WF_vars(SetType(c))
                                  /\ WF_vars(StoreLetter(c)) /\ WF_vars(EndWord(c))
                                  /\ WF_vars(SendWord(c)) /\ WF_vars(Handler(c))

FairSpec == Spec /\ Fairness

-----------------------------------------------------------------------------
(* Type invariant of every variable of the model.                          *)
TypeOK == /\ mq \in [Types -> Seq(Message)] /\ qnum \in Int
          /\ cl \in Seq(Clients) /\ Len(cl) <= 2
          /\ serving \in Seq(Message) /\ todo \in Seq(Clients) /\ tokill \in Seq(Clients)
          /\ (todo # <<>> => serving # <<>>)
          /\ cpc \in [Clients -> {"connect", "scanf", "fill", "type", "send"}]
          /\ mtype \in [Clients -> Types]
          /\ mtext \in [Clients -> Text]
          /\ stored \in [Clients -> 0..MaxLen] /\ wlen \in [Clients -> 0..MaxLen]
          /\ sig \in [Clients -> BOOLEAN]
          /\ typed \in [Clients -> 0..MaxWords]
          /\ relayed \in Seq(Message) /\ shown \in [Clients -> Seq(Message)]

(* The handler never waits: while a SIGUSR1 is pending there is a message  *)
(* for it, although signals merge and clients also queue messages for      *)
(* themselves (server.c 31-34, client.c 16-18).                            *)
SignalCovered == \A c \in Clients : sig[c] => mq[c] # <<>>

\* What c has been shown and what waits for c; of that, what the server sent;
\* and how many texts the server has sent to c.
ToClient(c) == shown[c] \o mq[c]
Served(s) == {i \in DOMAIN s : s[i].relay # 0}
SentTo(c) == IF Len(cl) < 2 THEN 0
             ELSE Len(relayed) - (IF c \in ToSet(todo) THEN 1 ELSE 0)

(* Merged signals delay what a client sees and never reorder or lose it:   *)
(* what c has been shown and what still waits for c is exactly what the    *)
(* server took, but for the text it is relaying, each text once and in the *)
(* order in which the server took them (server.c 28-35).                   *)
InOrder(s, texts, n) ==
  /\ {s[i].relay : i \in Served(s)} = 1..n
  /\ \A i, j \in Served(s) : i < j => s[i].relay < s[j].relay
  /\ \A i \in Served(s) : s[i] = [texts[s[i].relay] EXCEPT !.relay = s[i].relay]
ShownInOrder == \A c \in Clients : InOrder(ToClient(c), relayed, SentTo(c))

\* t is, up to place n, the string x.
SameHead(t, x, n) == n <= Len(x) /\ \A i \in 1..n : t[i] = x[i]

\* t is the head of one of the texts in seen, or empty up to place n, and from
\* there on letters of c's k-th word, each at its place.
Torn(t, c, k, n, seen) ==
  /\ n = 0 \/ \E j \in DOMAIN seen : SameHead(t, seen[j].text, n)
  /\ \A i \in n + 1..Len(t) : t[i] = [author |-> c, k |-> k, pos |-> i]

(* The handler may overwrite mesg_text while scanf fills it (client.c 17,  *)
(* 34), so that what goes out is neither what was typed nor what was shown. *)
(* But every text the server takes is torn at one place at most: the head   *)
(* of a single text its sender was shown, then letters of a single word it *)
(* typed, however many handlers ran.                                       *)
TornOnce ==
  \A j \in DOMAIN relayed :
    LET m == relayed[j] IN
    \E n \in 0..Len(m.text), k \in 1..MaxWords : Torn(m.text, m.by, k, n, shown[m.by])

(* Messages that wait for a client nobody will signal any more: merged     *)
(* signals and texts the client sent to itself (client.c 33-37) leave them *)
(* behind.                                                                 *)
Stranded == \A c \in Clients : ~sig[c]

(* A relay of the server ends, unless the queue is full and no signal is   *)
(* left that would make a client take a message out of it (server.c 33).   *)
RelayEndsOrStrands ==
  (todo # <<>>) ~> (todo = <<>> \/ (qnum = QMax /\ Stranded))
=============================================================================
