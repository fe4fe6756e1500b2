------------------------------- MODULE Standby -------------------------------
(***************************************************************************)
(* unixsocket/standby: a main server that hands the clients it accepts     *)
(* during maintenance to a backup server (by passing the descriptor over a *)
(* Unix socket), and on "stop" tells those clients to "switch", that is,   *)
(* to connect again.                                                       *)
(*                                                                         *)
(* Both servers start one thread per connection and give it the ADDRESS of *)
(* the variable nsfd of their accept loop.  A thread of mainsrv reads the  *)
(* variable once, when it first runs; a thread of backupsrv reads it again *)
(* before every recv.  The variable then holds the latest connection,      *)
(* whichever thread asks.  Neither server ever closes a descriptor, so a   *)
(* connection is named by its number in the order of connecting, which is  *)
(* the order in which it is accepted and passed on.                        *)
(*                                                                         *)
(* Either server may be killed.  mainsrv then dies of SIGPIPE at the next  *)
(* hand-off, and backupsrv of the null cmsg it gets at the end of file:    *)
(* its descriptors, and those on their way to it, are closed.  What the    *)
(* dead have left behind is kept in the variables, and used by nobody.     *)
(*                                                                         *)
(* Clients and mainsrv call scanf("%s") after select has found the terminal *)
(* readable.  A blank line makes it readable and gives scanf no word: the   *)
(* loop then waits in scanf for a word nobody needs to type, and neither   *)
(* reads its socket nor accepts.  accept is given an addrlen that nobody   *)
(* sets: if it is negative accept fails, and the client taken from the     *)
(* queue is dropped.                                                       *)
(***************************************************************************)
EXTENDS Integers

CONSTANTS Clients,
          MaxConns,      \* bound: connections made in all
          MaxWords,      \* bound: words typed in all
          MaxMaint,      \* bound: "maint" commands
          MaxBlanks,     \* bound: blank lines
          MaxKills       \* bound: clients and servers killed

\* fds[100] in mainsrv holds every connection that can be forwarded.
ASSUME StandbyAssumption == /\ MaxConns \in 1..100 /\ MaxWords \in Nat
                            /\ MaxMaint \in Nat /\ MaxBlanks \in Nat /\ MaxKills \in Nat

Conns == 1..MaxConns
NoConn == 0
Backlog == 5             \* listen(sfd, 5)

VARIABLES conn,          \* conn[i]: the connection of client i, NoConn if none
          nul,           \* nul[i]: client i's buf[6] is a NUL byte
          gone,          \* clients killed
          words,         \* history: words typed so far
          nconn,         \* connections made so far
          closed,        \* connections the client has closed
          up,            \* up[c]: words sent over c, not yet received
          down,          \* down[c]: "none", "switch" on its way, or "read"
          nacc,          \* mainsrv: connections accepted
          nsfd,          \* mainsrv: the variable nsfd
          maint,         \* mainsrv: 1 during maintenance
          nmaint,        \* history: maintenance periods so far
          fds,           \* mainsrv: fds[0..fdn-1]
          mthreads,      \* mainsrv: connections a thread was started for
          mserves,       \* mserves[k]: what that thread receives from
          handoff,       \* connections sent to backupsrv, not yet received
          bnsfd,         \* backupsrv: the variable nsfd
          bthreads,      \* backupsrv: live threads, by connection
          bserves,       \* bserves[k]: what that thread receives from
          mup, bup,      \* mainsrv, backupsrv are running
          stuck,         \* clients whose loop waits in scanf
          mstuck,        \* mainsrv: its loop waits in scanf
          blanks, kills, \* history: blank lines typed, and kills, so far
          addrlen,       \* mainsrv: "negative" or "sane", never set
          told           \* history: told[c], times "switch" was sent over c

cvars == <<conn, nul, gone, words, nconn, closed>>
mvars == <<nacc, nsfd, maint, nmaint, fds, mthreads, mserves>>
bvars == <<bnsfd, bthreads, bserves>>
running == <<mup, bup>>
faults == <<stuck, mstuck, blanks, addrlen, kills>>
vars == <<cvars, up, down, mvars, handoff, bvars, running, faults, told>>

Init == /\ conn = [i \in Clients |-> NoConn] /\ nul \in [Clients -> BOOLEAN]
        /\ gone = {} /\ words = 0 /\ nconn = 0 /\ closed = {}
        /\ up = [c \in Conns |-> 0] /\ down = [c \in Conns |-> "none"]
        /\ nacc = 0 /\ nsfd = NoConn /\ maint = 0 /\ nmaint = 0 /\ fds = {}
        /\ mthreads = {} /\ mserves = [k \in Conns |-> NoConn]
        /\ handoff = {} /\ bnsfd = NoConn
        /\ bthreads = {} /\ bserves = [k \in Conns |-> NoConn]
        /\ mup = TRUE /\ bup = TRUE
        /\ stuck = {} /\ mstuck = FALSE /\ blanks = 0 /\ kills = 0 /\ addrlen \in {"negative", "sane"}
        /\ told = [c \in Conns |-> 0]

-----------------------------------------------------------------------------
\* client.c.  connect() succeeds while the accept queue has room.  After the
\* main server's death it is refused, and the client can only wait or die.
Connect(i) == /\ mup /\ nconn < MaxConns /\ nconn - nacc <= Backlog
              /\ nconn' = nconn + 1
              /\ conn' = [conn EXCEPT ![i] = nconn + 1]

StartClient(i) ==
  /\ conn[i] = NoConn /\ i \notin gone
  /\ Connect(i)
  /\ UNCHANGED <<nul, gone, words, closed, up, down, mvars, handoff, bvars, running, faults, told>>

\* No server has the connection: words are lost, until one is a SIGPIPE.
Dropped == IF addrlen = "negative" THEN 1..nacc ELSE {}
Forwarded == ((1..nacc) \ mthreads) \ Dropped
Broken(c) == c \in Dropped \/ (~mup /\ ~(bup /\ c \in Forwarded))
Leave(i) == /\ closed' = closed \cup {conn[i]}
            /\ conn' = [conn EXCEPT ![i] = NoConn]

\* A blank line: scanf finds no word and waits, behind select, for one.
BlankLine(i) ==
  /\ conn[i] # NoConn /\ i \notin stuck /\ blanks < MaxBlanks
  /\ stuck' = stuck \cup {i} /\ blanks' = blanks + 1
  /\ UNCHANGED <<cvars, up, down, mvars, handoff, bvars, running, mstuck, addrlen, kills, told>>

\* scanf("%s", buf): a word of six letters ends in buf[6], a longer one goes
\* over it, a shorter one leaves it as it was.  Then send.
TypeWord(i) ==
  /\ conn[i] # NoConn /\ words < MaxWords
  /\ words' = words + 1
  /\ \/ nul' = [nul EXCEPT ![i] = TRUE]
     \/ nul' = [nul EXCEPT ![i] = FALSE]
     \/ nul' = nul
  /\ up' = IF Broken(conn[i]) THEN up ELSE [up EXCEPT ![conn[i]] = @ + 1]
  /\ stuck' = stuck \ {i}
  /\ UNCHANGED <<conn, gone, nconn, closed, down, mvars, handoff, bvars, running, mstuck, blanks, addrlen, kills, told>>

TypeInVain(i) ==
  /\ conn[i] # NoConn /\ Broken(conn[i]) /\ words < MaxWords
  /\ words' = words + 1 /\ gone' = gone \cup {i}
  /\ Leave(i) /\ stuck' = stuck \ {i}
  /\ UNCHANGED <<nul, nconn, up, down, mvars, handoff, bvars, running, mstuck, blanks, addrlen, kills, told>>

\* recv writes the six letters of "switch" and no NUL: strcmp finds the word
\* only if buf[6] happens to be one.  close() then frees the descriptor the
\* new socket gets, so the outer sfd names the new connection.
ReadSwitch(i) ==
  /\ conn[i] # NoConn /\ i \notin stuck /\ down[conn[i]] = "switch"
  /\ down' = [down EXCEPT ![conn[i]] = "read"]
  /\ \/ nul[i] /\ closed' = closed \cup {conn[i]} /\ Connect(i)
     \/ nul[i] /\ ~mup /\ Leave(i) /\ UNCHANGED nconn
     \/ ~nul[i] /\ UNCHANGED <<closed, conn, nconn>>
  /\ UNCHANGED <<nul, gone, words, up, mvars, handoff, bvars, running, faults, told>>

KillClient(i) ==
  /\ conn[i] # NoConn /\ kills < MaxKills
  /\ Leave(i) /\ gone' = gone \cup {i} /\ stuck' = stuck \ {i}
  /\ kills' = kills + 1
  /\ UNCHANGED <<nul, words, nconn, up, down, mvars, handoff, bvars, running, mstuck, blanks, addrlen, told>>

-----------------------------------------------------------------------------
\* Both servers' end of the Unix socket: it keeps the order.
send_fd(c) == /\ handoff' = IF bup THEN handoff \cup {c} ELSE handoff
              /\ mup' = bup
recv_fd(c) == /\ c \in handoff /\ \A d \in handoff : c <= d
              /\ handoff' = handoff \ {c}

\* mainsrv.c: accept; a thread of its own, or the list fds and the backup.
AcceptClient_Overwrites ==           \* mutant: fds[fdn] = nsfd, no fdn++
  /\ mup /\ ~mstuck /\ nacc < nconn /\ addrlen = "sane"
  /\ nacc' = nacc + 1
  /\ nsfd' = nacc + 1
  /\ IF maint = 0
     THEN mthreads' = mthreads \cup {nsfd'} /\ UNCHANGED <<fds, handoff, mup>>
     ELSE fds' = {nsfd'} /\ send_fd(nsfd') /\ UNCHANGED mthreads
  /\ UNCHANGED <<cvars, up, down, maint, nmaint, mserves, bvars, bup, faults, told>>
AcceptClient ==
  /\ mup /\ ~mstuck /\ nacc < nconn /\ addrlen = "sane"
  /\ nacc' = nacc + 1
  /\ nsfd' = nacc + 1
  /\ IF maint = 0
     THEN mthreads' = mthreads \cup {nsfd'} /\ UNCHANGED <<fds, handoff, mup>>
     ELSE fds' = fds \cup {nsfd'} /\ send_fd(nsfd') /\ UNCHANGED mthreads
  /\ UNCHANGED <<cvars, up, down, maint, nmaint, mserves, bvars, bup, faults, told>>

\* accept returns -1; a thread that receives from -1, or a -1 on the list and
\* a sendmsg that fails, do nothing to anybody.
AcceptFails ==
  /\ mup /\ ~mstuck /\ nacc < nconn /\ addrlen = "negative"
  /\ nacc' = nacc + 1 /\ nsfd' = NoConn
  /\ UNCHANGED <<cvars, up, down, maint, nmaint, fds, mthreads, mserves, handoff, bvars, running, faults, told>>

\* The new thread's bck = *nsfd.
StartMainThread(k) ==
  /\ mup /\ k \in mthreads /\ mserves[k] = NoConn
  /\ mserves' = [mserves EXCEPT ![k] = nsfd]
  /\ UNCHANGED <<cvars, up, down, nacc, nsfd, maint, nmaint, fds, mthreads, handoff, bvars, running, faults, told>>

\* One recv takes one word or several.  At end of file it spins and changes nothing.
TakeWords(c) == \E n \in 1..up[c] : up' = [up EXCEPT ![c] = @ - n]

MainThreadReads(k) ==
  /\ mup /\ k \in mthreads /\ mserves[k] # NoConn
  /\ TakeWords(mserves[k])
  /\ UNCHANGED <<cvars, down, mvars, handoff, bvars, running, faults, told>>

\* scanf("%s", buf) of a command; after a blank line it waits for one.
BlankCommand ==
  /\ mup /\ ~mstuck /\ blanks < MaxBlanks
  /\ mstuck' = TRUE /\ blanks' = blanks + 1
  /\ UNCHANGED <<cvars, up, down, mvars, handoff, bvars, running, stuck, addrlen, kills, told>>

Scanned == mstuck' = FALSE /\ UNCHANGED <<stuck, blanks, addrlen, kills>>

TypeMaint ==
  /\ mup /\ nmaint < MaxMaint /\ maint = 0
  /\ nmaint' = nmaint + 1 /\ maint' = 1 /\ Scanned
  /\ UNCHANGED <<cvars, up, down, nacc, nsfd, fds, mthreads, mserves, handoff, bvars, running, told>>

\* Any other word, or a command that changes nothing.
TypeOther == /\ mup /\ mstuck /\ Scanned
             /\ UNCHANGED <<cvars, up, down, mvars, handoff, bvars, running, told>>

\* "stop": tell everyone on the list, then empty it.
TypeStop_KeepsList ==                \* mutant: no fdn = 0
  /\ mup /\ maint = 1
  /\ down' = [c \in Conns |-> IF c \in fds THEN "switch" ELSE down[c]]
  /\ told' = [c \in Conns |-> IF c \in fds THEN told[c] + 1 ELSE told[c]]
  /\ maint' = 0 /\ Scanned
  /\ UNCHANGED <<cvars, up, nacc, nsfd, nmaint, fds, mthreads, mserves, handoff, bvars, running>>
TypeStop ==
  /\ mup /\ maint = 1
  /\ down' = [c \in Conns |-> IF c \in fds THEN "switch" ELSE down[c]]
  /\ told' = [c \in Conns |-> IF c \in fds THEN told[c] + 1 ELSE told[c]]
  /\ fds' = {} /\ maint' = 0 /\ Scanned
  /\ UNCHANGED <<cvars, up, nacc, nsfd, nmaint, mthreads, mserves, handoff, bvars, running>>

-----------------------------------------------------------------------------
\* backupsrv.c: recv_fd returns the connections in the order they were sent.
ReceiveHandoff_OneThread ==          \* mutant: starts a thread for the first only
  \E c \in Conns :
    /\ bup /\ recv_fd(c)
    /\ bnsfd' = c
    /\ bthreads' = IF bnsfd = NoConn THEN {c} ELSE bthreads
    /\ UNCHANGED <<cvars, up, down, mvars, bserves, running, faults, told>>
ReceiveHandoff ==
  \E c \in Conns :
    /\ bup /\ recv_fd(c)
    /\ bnsfd' = c
    /\ bthreads' = bthreads \cup {c}
    /\ UNCHANGED <<cvars, up, down, mvars, bserves, running, faults, told>>

\* recv(*nsfd, ...): the variable is read when the thread gets there.
LookUp(k) ==
  /\ bup /\ k \in bthreads /\ bserves[k] = NoConn
  /\ bserves' = [bserves EXCEPT ![k] = bnsfd]
  /\ UNCHANGED <<cvars, up, down, mvars, handoff, bnsfd, bthreads, running, faults, told>>

BackupThreadReads(k) ==
  /\ bup /\ k \in bthreads /\ bserves[k] # NoConn
  /\ TakeWords(bserves[k])
  /\ bserves' = [bserves EXCEPT ![k] = NoConn]
  /\ UNCHANGED <<cvars, down, mvars, handoff, bnsfd, bthreads, running, faults, told>>

\* End of file: the thread ends.
Drained(c) == up[c] = 0 /\ c \in closed
EndThread(k) ==
  /\ bup /\ k \in bthreads /\ bserves[k] # NoConn /\ Drained(bserves[k])
  /\ bthreads' = bthreads \ {k}
  /\ UNCHANGED <<cvars, up, down, mvars, handoff, bnsfd, bserves, running, faults, told>>

\* Ctrl-C.  Both exit with all their threads.
Kill == /\ kills < MaxKills /\ kills' = kills + 1
        /\ UNCHANGED <<cvars, up, down, mvars, handoff, bvars, stuck, mstuck, blanks, addrlen, told>>
KillMain == mup /\ mup' = FALSE /\ bup' = bup /\ Kill
KillBackup == bup /\ bup' = FALSE /\ mup' = mup /\ Kill
\* At end of file recvmsg leaves no control message, CMSG_FIRSTHDR is NULL.
BackupFaults == /\ bup /\ ~mup /\ handoff = {}
                /\ bup' = FALSE
                /\ UNCHANGED <<cvars, up, down, mvars, handoff, bvars, mup, faults, told>>

Next == \/ \E i \in Clients : StartClient(i) \/ TypeWord(i) \/ ReadSwitch(i) \/ KillClient(i)
                              \/ TypeInVain(i) \/ BlankLine(i)
        \/ AcceptClient \/ AcceptFails \/ BlankCommand \/ TypeMaint \/ TypeStop \/ TypeOther
        \/ ReceiveHandoff
        \/ KillMain \/ KillBackup \/ BackupFaults
        \/ \E k \in Conns : \/ StartMainThread(k) \/ MainThreadReads(k)
                            \/ LookUp(k) \/ BackupThreadReads(k) \/ EndThread(k)

Spec == Init /\ [][Next]_vars

\* Processes and threads run, unless they wait in scanf; users need not type,
\* nor "stop" ever come.
Fairness == /\ WF_vars(AcceptClient) /\ WF_vars(AcceptFails)
            /\ WF_vars(ReceiveHandoff) /\ WF_vars(BackupFaults)
            /\ \A i \in Clients : WF_vars(ReadSwitch(i))
            /\ \A k \in Conns : /\ WF_vars(StartMainThread(k)) /\ WF_vars(MainThreadReads(k))
                                /\ WF_vars(LookUp(k)) /\ WF_vars(BackupThreadReads(k))
                                /\ WF_vars(EndThread(k))

FairSpec == Spec /\ Fairness

-----------------------------------------------------------------------------
(* Type invariant; every connection the servers know of has been made.     *)
TypeOK == /\ nconn \in 0..MaxConns /\ nacc \in 0..nconn
          /\ conn \in [Clients -> 0..nconn] /\ nul \in [Clients -> BOOLEAN]
          /\ gone \subseteq Clients /\ words \in Nat /\ closed \subseteq 1..nconn
          /\ up \in [Conns -> Nat] /\ down \in [Conns -> {"none", "switch", "read"}]
          /\ nsfd = (IF addrlen = "sane" THEN nacc ELSE NoConn) /\ maint \in {0, 1} /\ nmaint \in 0..MaxMaint
          /\ fds \subseteq 1..nacc /\ mthreads \subseteq 1..nacc
          /\ mserves \in [Conns -> 0..nacc]
          /\ handoff \subseteq 1..nacc /\ bnsfd \in 0..nacc
          /\ bthreads \subseteq 1..bnsfd /\ bserves \in [Conns -> 0..bnsfd]
          /\ mup \in BOOLEAN /\ bup \in BOOLEAN
          /\ stuck \subseteq Clients /\ mstuck \in BOOLEAN /\ blanks \in 0..MaxBlanks /\ kills \in 0..MaxKills
          /\ addrlen \in {"negative", "sane"}
          /\ told \in [Conns -> Nat]

(* Every connection passed to the backup is on mainsrv's list until the    *)
(* next "stop", and is told to switch once, then and never again; nobody    *)
(* else is ever told (mainsrv.c 112, 124-132).                             *)
ToldOnce ==
  /\ maint = 0 => fds = {}
  /\ \A c \in Conns : told[c] = IF c \in Forwarded \ fds THEN 1 ELSE 0
  /\ \A c \in Conns : down[c] = "none" <=> told[c] = 0
  /\ handoff \subseteq Forwarded /\ fds \subseteq Forwarded

(* Whatever the threads make of the shared variable, the latest connection *)
(* of a server is served: some thread receives from it or is about to read *)
(* the variable (mainsrv.c 53, 108; backupsrv.c 45, 81).                   *)
LatestServed ==
  /\ nsfd \in mthreads => \E k \in mthreads : mserves[k] \in {NoConn, nsfd}
  /\ bnsfd # NoConn /\ ~Drained(bnsfd) => \E k \in bthreads : bserves[k] \in {NoConn, bnsfd}

(* A connection that is no thread's any more although its server has it.   *)
PassedOver(c) ==
  \/ c \in mthreads /\ c # nsfd /\ \A k \in mthreads : mserves[k] \notin {NoConn, c}
  \/ c \in Forwarded \ handoff /\ c # bnsfd
       /\ \A k \in bthreads : bserves[k] # c

(* A client that was told to switch, but whose buffer hides the word.      *)
Deaf(c) == down[c] = "read" /\ c \notin closed

(* If maintenance ends for good, every client of the backup leaves it, unless *)
(* the last long word it typed hides the word "switch" (client.c 41-44): it *)
(* then stays with the backup, which nobody will tell it again; or unless  *)
(* its loop waits in scanf after a blank line (client.c 36), where it stays *)
(* until somebody types a word.                                            *)
SwitchesOrDeaf ==
  <>[](maint = 1 \/ \A c \in Forwarded : \/ c \in closed \/ Deaf(c)
                                         \/ \E i \in stuck : conn[i] = c)

(* What a client types is received, unless the connection is passed over:   *)
(* then nobody receives from it again (backupsrv.c 45, mainsrv.c 53); or   *)
(* accept dropped it (mainsrv.c 102), or will not run, as mainsrv waits in *)
(* scanf after a blank line (119); or its server has died.  If that was    *)
(* mainsrv, backupsrv has died too, and its clients are no better off      *)
(* (backupsrv.c 33-36, mainsrv.c 15-21).                                   *)
WordsReceived ==
  <>[](\A c \in Conns : \/ up[c] = 0 \/ PassedOver(c)
                        \/ c \in Dropped \/ (mstuck /\ c > nacc)
                        \/ (~bup /\ (~mup \/ c \in Forwarded)))
=============================================================================
