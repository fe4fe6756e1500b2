------------------------------- MODULE TwoPort -------------------------------
(***************************************************************************)
(* midques/que3: one server on two ports.  A client of port 1 is handed to *)
(* a process s1 that shows its text on the server's terminal and answers   *)
(* with a line of the operator's; a client of port 2 is answered by a      *)
(* thread with the length of its text.  Clients send one text, wait for    *)
(* one answer and exit (client.c).                                         *)
(*                                                                         *)
(* Every thread is given the ADDRESS of main's nsfd and reads it twice,    *)
(* for recv and for send.  The number of threads is counted in ctr2, which *)
(* main and the threads change without a lock.  The processes s1 should be *)
(* counted in shared memory, but *ctr++ moves the pointer and leaves the   *)
(* number at 0.  No descriptor is ever closed: a connection is named by    *)
(* its number in the order of accepting, and after FdMax of them accept    *)
(* fails for ever, which nobody checks.  Already before that the child's   *)
(* dup(0) and dup(1) fail, and no descriptor is left to load s1 with.  The *)
(* addrlen accept is given is never set: a negative one makes it fail with *)
(* the client taken from the backlog.                                      *)
(***************************************************************************)
EXTENDS Integers, FiniteSets

CONSTANTS FdMax,         \* connections the descriptor table has room for
          Limit1, Limit2,\* 25 and 15
          PageInts,      \* ints in the shared memory page
          Max1, Max2,    \* bound: clients that connect to port 1, to port 2
          MaxWorkers     \* bound: processes and threads started

ASSUME TwoPortAssumption ==
  /\ FdMax \in Nat \ {0} /\ Limit1 \in Nat \ {0} /\ Limit2 \in Nat \ {0}
  /\ PageInts \in Nat \ {0} /\ Max1 \in Nat /\ Max2 \in Nat /\ MaxWorkers \in Nat

Conns == 1..FdMax
BadFd == FdMax + 1       \* -1, which accept returns once the table is full
Workers == 1..MaxWorkers

VARIABLES pend,          \* pend[p]: clients of port p that wait to be accepted
          came,          \* came[p]: clients that have connected to port p so far
          text,          \* accepted connections whose text is unread
          answered,      \* connections an answer was sent to
          gone,          \* connections whose client has exited
          broken,        \* connections something was sent to after that
          pc,            \* main: "select", "one", "two", "load", "store", "create", "dead"
          ready,         \* main: the ports select() found, still to be served
          nsfd,          \* main: the variable nsfd, 0 before the first accept
          addrlen,       \* main: "negative" or "sane", never set
          reg,           \* main: ctr2 as loaded by ctr2++
          pos, shm,      \* ctr - its first value, and what the page holds
          ctr2,          \* the threads' counter
          nw,            \* workers started
          kind, own,     \* of worker w: 1 a process, 2 a thread; its connection
          wpc,           \* its control state, "none" before it starts
          at,            \* of a thread: the descriptor of its recv
          wreg,          \* of a thread: ctr2 as loaded by ctr2--
          prompts, lines,\* terminal: texts without a line yet; lines not read
          raced          \* history: an update of ctr2 overwrote another

kvars == <<pend, came, gone>>
nvars == <<text, answered, broken>>
mvars == <<ready, nsfd, addrlen, reg, pos, shm>>
wvars == <<nw, kind, own, wpc, at, wreg>>
tvars == <<prompts, lines>>
cvars == <<ctr2, raced>>
vars == <<kvars, nvars, pc, mvars, wvars, tvars, cvars>>

Init == /\ pend = [p \in {1, 2} |-> 0]
        /\ came = [p \in {1, 2} |-> 0] /\ gone = {}
        /\ text = {} /\ answered = {} /\ broken = {}
        /\ pc = "select" /\ ready = {} /\ nsfd = 0 /\ reg = 0
        /\ addrlen \in {"negative", "sane"}
        /\ pos = 0 /\ shm = [i \in 0..PageInts - 1 |-> 0]
        /\ nw = 0 /\ kind = [w \in Workers |-> 1] /\ own = [w \in Workers |-> 0]
        /\ wpc = [w \in Workers |-> "none"]
        /\ at = [w \in Workers |-> 0] /\ wreg = [w \in Workers |-> 0]
        /\ prompts = 0 /\ lines = 0 /\ ctr2 = 0 /\ raced = FALSE

-----------------------------------------------------------------------------
\* client.c: connect and send; receive one answer and exit.
ClientConnects(p) ==
  /\ came[p] < (IF p = 1 THEN Max1 ELSE Max2)
  /\ came' = [came EXCEPT ![p] = @ + 1]
  /\ pend' = [pend EXCEPT ![p] = @ + 1]
  /\ UNCHANGED <<gone, nvars, pc, mvars, wvars, tvars, cvars>>

ClientExits(c) ==
  /\ c \in answered \ gone
  /\ gone' = gone \cup {c}
  /\ UNCHANGED <<pend, came, nvars, pc, mvars, wvars, tvars, cvars>>

-----------------------------------------------------------------------------
\* server.c: main.  accept fails once the table is full, and the client goes
\* on waiting; with a negative addrlen it fails and the client is dropped.
NextFd == IF nsfd < BadFd /\ addrlen = "sane" THEN nsfd + 1 ELSE BadFd
accept_Twice(p) == /\ nsfd' = IF nsfd > 1 THEN nsfd - 1 ELSE NextFd  \* mutant
                   /\ pend' = [pend EXCEPT ![p] = @ - 1]
                   /\ text' = text \cup ({nsfd'} \cap Conns)
accept(p) == /\ nsfd' = NextFd
             /\ text' = text \cup ({nsfd'} \cap Conns)
             /\ IF nsfd' = BadFd /\ addrlen = "sane" THEN UNCHANGED pend
                ELSE pend' = [pend EXCEPT ![p] = @ - 1]

\* fork or pthread_create: a worker of kind k for the descriptor fd.
StartWorker(k, fd, start) ==
  /\ nw < MaxWorkers
  /\ nw' = nw + 1
  /\ kind' = [kind EXCEPT ![nw'] = k]
  /\ own' = [own EXCEPT ![nw'] = fd]
  /\ wpc' = [wpc EXCEPT ![nw'] = start]
  /\ UNCHANGED <<at, wreg>>

Select == /\ pc = "select"
          /\ ready' = {p \in {1, 2} : pend[p] > 0}
          /\ ready' # {}
          /\ pc' = "one"
          /\ UNCHANGED <<kvars, nvars, nsfd, addrlen, reg, pos, shm, wvars, tvars, cvars>>

\* What *ctr may be: beyond the page, anything (or a fault, see Fault).
Counts(v) == pos \in DOMAIN shm => v = shm[pos]

\* *ctr++: the pointer moves, the number stays.
Count1 == pos' = pos + 1 /\ UNCHANGED shm

PortOneIdle == /\ pc = "one" /\ 1 \notin ready
               /\ pc' = "two"
               /\ UNCHANGED <<kvars, nvars, mvars, wvars, tvars, cvars>>

PortOneSkip == /\ pc = "one" /\ 1 \in ready
               /\ \E v \in 0..Limit1 : Counts(v) /\ v >= Limit1
               /\ pc' = "two"
               /\ UNCHANGED <<kvars, nvars, mvars, wvars, tvars, cvars>>

PortOneAccept == /\ pc = "one" /\ 1 \in ready
                 /\ \E v \in 0..Limit1 : Counts(v) /\ v < Limit1
                 /\ accept(1)
                 /\ Count1
                 /\ StartWorker(1, nsfd', "read")
                 /\ ready' = ready \ {1}
                 /\ pc' = "two"
                 /\ UNCHANGED <<came, gone, answered, broken, addrlen, reg, tvars, cvars>>

Fault == /\ pc = "one" /\ 1 \in ready /\ pos \notin DOMAIN shm
         /\ pc' = "dead"
         /\ UNCHANGED <<kvars, nvars, mvars, wvars, tvars, cvars>>

PortTwoSkip == /\ pc = "two" /\ (2 \in ready => ctr2 >= Limit2)
               /\ pc' = "select"
               /\ UNCHANGED <<kvars, nvars, mvars, wvars, tvars, cvars>>

PortTwoAccept == /\ pc = "two" /\ 2 \in ready /\ ctr2 < Limit2
                 /\ accept(2)
                 /\ pc' = "load"
                 /\ UNCHANGED <<came, gone, answered, broken, ready, addrlen, reg, pos, shm,
                                wvars, tvars, cvars>>

\* ctr2++ loads the counter and stores one more, whatever came in between.
Load == /\ pc = "load"
        /\ reg' = ctr2
        /\ pc' = "store"
        /\ UNCHANGED <<kvars, nvars, ready, nsfd, addrlen, pos, shm, wvars, tvars, cvars>>
SetCtr2(old, new) == ctr2' = new /\ raced' = (raced \/ ctr2 # old)
Store == /\ pc = "store"
         /\ SetCtr2(reg, reg + 1)
         /\ pc' = "create"
         /\ UNCHANGED <<kvars, nvars, mvars, wvars, tvars>>
Create == /\ pc = "create"
          /\ StartWorker(2, nsfd, "new")
          /\ pc' = "select"
          /\ UNCHANGED <<kvars, nvars, mvars, tvars, cvars>>

-----------------------------------------------------------------------------
\* server.c: func, the thread w.  It ends with the server.
Thread(w, s) == wpc[w] = s /\ kind[w] = 2 /\ pc # "dead"
Goes(w, s) == wpc' = [wpc EXCEPT ![w] = s]
Ends(w) == /\ Goes(w, "done")
           /\ own' = [own EXCEPT ![w] = 0]
           /\ at' = [at EXCEPT ![w] = 0] /\ wreg' = [wreg EXCEPT ![w] = 0]
           /\ UNCHANGED <<nw, kind>>

PickSocket(w) == /\ Thread(w, "new")
                 /\ at' = [at EXCEPT ![w] = nsfd]
                 /\ Goes(w, "recv")
                 /\ UNCHANGED <<kvars, nvars, pc, mvars, nw, kind, own, wreg, tvars, cvars>>

\* recv returns with the text, or because the client has gone or fd is bad.
Recv(fd) == /\ fd \in text \cup gone \cup {BadFd}
            /\ text' = text \ {fd}
Receive(w) == /\ Thread(w, "recv")
              /\ Recv(at[w])
              /\ Goes(w, "send")
              /\ UNCHANGED <<kvars, answered, broken, pc, mvars, nw, kind, own, at, wreg,
                             tvars, cvars>>

Send(fd) == /\ answered' = answered \cup ({fd} \cap Conns)
            /\ broken' = broken \cup ({fd} \cap gone)
Answer_Own(w) == /\ Thread(w, "send")        \* mutant: sends to the thread's own client
                 /\ Send(own[w])
                 /\ Goes(w, "load")
                 /\ UNCHANGED <<kvars, text, pc, mvars, nw, kind, own, at, wreg, tvars, cvars>>
Answer(w) == /\ Thread(w, "send")
             /\ Send(nsfd)
             /\ Goes(w, "load")
             /\ UNCHANGED <<kvars, text, pc, mvars, nw, kind, own, at, wreg, tvars, cvars>>

\* A second send to a client that has gone may be answered by SIGPIPE.
BrokenPipe(w) == /\ Thread(w, "send") /\ nsfd \in broken
                 /\ pc' = "dead"
                 /\ UNCHANGED <<kvars, nvars, mvars, wvars, tvars, cvars>>

LoadDown(w) == /\ Thread(w, "load")
               /\ wreg' = [wreg EXCEPT ![w] = ctr2]
               /\ Goes(w, "store")
               /\ UNCHANGED <<kvars, nvars, pc, mvars, nw, kind, own, at, tvars, cvars>>
StoreDown_Forgotten(w) == /\ Thread(w, "store")                \* mutant: no ctr2--
                          /\ Ends(w)
                          /\ UNCHANGED <<kvars, nvars, pc, mvars, tvars, cvars>>
StoreDown(w) == /\ Thread(w, "store")
                /\ SetCtr2(wreg[w], wreg[w] - 1)
                /\ Ends(w)
                /\ UNCHANGED <<kvars, nvars, pc, mvars, tvars>>

-----------------------------------------------------------------------------
\* server.c: what the child does before execvp.  It duplicates 0 and 1 with
\* the descriptors that are left, dup(0) first, and puts the connection in
\* their place, or leaves the terminal there if accept had failed.
Used(w) == IF own[w] \in Conns THEN own[w] ELSE IF addrlen = "sane" THEN FdMax ELSE 0
Spare(w) == FdMax - Used(w)
OldIn(w) == Spare(w) >= 1
OldOut(w) == Spare(w) >= 2

Process(w, s) == wpc[w] = s /\ kind[w] = 1

\* With none left after that, a dynamically linked s1 cannot be loaded.
LoaderFails(w) == /\ Process(w, "read") /\ Spare(w) <= 2
                  /\ Goes(w, "failed")
                  /\ UNCHANGED <<kvars, nvars, pc, mvars, nw, kind, own, at, wreg, tvars, cvars>>

\* s1.c.  Whatever it reads first it shows on the terminal, if it still has
\* it, and the next line anybody types there may be its answer.
ShowText(w) == /\ Process(w, "read")
               /\ \/ own[w] # BadFd /\ Recv(own[w]) /\ UNCHANGED lines
                  \/ own[w] = BadFd /\ lines > 0 /\ lines' = lines - 1 /\ UNCHANGED text
               /\ prompts' = IF OldOut(w) THEN prompts + 1 ELSE prompts
               /\ Goes(w, "ask")
               /\ UNCHANGED <<kvars, answered, broken, pc, mvars, nw, kind, own, at, wreg, cvars>>

OperatorTypes == /\ prompts > 0
                 /\ prompts' = prompts - 1 /\ lines' = lines + 1
                 /\ UNCHANGED <<kvars, nvars, pc, mvars, wvars, cvars>>

\* Without the terminal it answers with the text it was sent; without a
\* connection the answer is shown on the terminal.  *ctr-- moves a pointer
\* of s1's own.
PassLine(w) == /\ Process(w, "ask")
               /\ IF OldIn(w) THEN lines > 0 /\ lines' = lines - 1 ELSE UNCHANGED lines
               /\ prompts' = IF own[w] = BadFd THEN prompts + 1 ELSE prompts
               /\ Send(own[w])
               /\ Ends(w)
               /\ UNCHANGED <<kvars, text, pc, mvars, cvars>>

-----------------------------------------------------------------------------
Main == \/ Select \/ PortOneIdle \/ PortOneSkip \/ PortOneAccept \/ Fault
        \/ PortTwoSkip \/ PortTwoAccept \/ Load \/ Store \/ Create
Step(w) == \/ PickSocket(w) \/ Receive(w) \/ Answer(w) \/ LoadDown(w) \/ StoreDown(w)
           \/ LoaderFails(w) \/ ShowText(w) \/ PassLine(w)

Next == \/ \E p \in {1, 2} : ClientConnects(p)
        \/ \E c \in Conns : ClientExits(c)
        \/ Main \/ OperatorTypes
        \/ \E w \in Workers : Step(w) \/ BrokenPipe(w)

Spec == Init /\ [][Next]_vars

\* Every process and thread runs; the operator answers what is shown.  An s1
\* that waits for a line is not passed over for ever.
Fairness == /\ WF_vars(Main) /\ WF_vars(OperatorTypes)
            /\ \A c \in Conns : WF_vars(ClientExits(c))
            /\ \A w \in Workers : SF_vars(Step(w))

FairSpec == Spec /\ Fairness

-----------------------------------------------------------------------------
(* Type invariant of every variable of the model.                          *)
TypeOK == /\ pend \in [{1, 2} -> Nat] /\ came \in [{1, 2} -> Nat]
          /\ text \subseteq Conns /\ answered \subseteq Conns
          /\ gone \subseteq answered /\ broken \subseteq gone
          /\ pc \in {"select", "one", "two", "load", "store", "create", "dead"}
          /\ ready \subseteq {1, 2} /\ nsfd \in 0..BadFd /\ reg \in Int
          /\ addrlen \in {"negative", "sane"}
          /\ pos \in Nat /\ shm \in [0..PageInts - 1 -> Int] /\ ctr2 \in Int
          /\ nw \in 0..MaxWorkers /\ kind \in [Workers -> {1, 2}]
          /\ own \in [Workers -> 0..nsfd]
          /\ wpc \in [Workers -> {"none", "new", "recv", "send", "load", "store",
                                  "read", "failed", "ask", "done"}]
          /\ at \in [Workers -> 0..nsfd] /\ wreg \in [Workers -> Int]
          /\ prompts \in Nat /\ lines \in Nat /\ raced \in BOOLEAN

Threads == {w \in Workers : w <= nw /\ kind[w] = 2}

(* A thread receives from its own client or one accepted later, and sends  *)
(* to that one or one accepted later still: the shared nsfd diverts        *)
(* answers forward, never back (server.c 20, 22, 89).                      *)
DivertedForward ==
  \A w \in Threads : wpc[w] \in {"recv", "send"} => own[w] <= at[w] /\ at[w] <= nsfd

Running == {w \in Threads : wpc[w] # "done"}
Counted == Cardinality(Running) + (IF pc = "create" THEN 1 ELSE 0)

(* While the server lives, ctr2 is the number of threads, and at most       *)
(* Limit2 of them run, unless an unlocked update has overwritten another   *)
(* one (server.c 23, 81-84).                                               *)
CounterExact == ~raced /\ pc # "dead" => ctr2 = Counted /\ Counted <= Limit2

(* Nobody is refused at port 1 while ctr points into its page: *ctr stays  *)
(* 0 there, so the limit of 25 is never reached (server.c 63, 67).         *)
PortOneUnlimited == pc = "two" /\ 1 \in ready => pos \notin DOMAIN shm

\* The process w could not be loaded, or waits for a line that nobody is
\* asked for, because dup(1) failed.
CutOff(w) == /\ kind[w] = 1
             /\ wpc[w] = "failed" \/ (wpc[w] = "ask" /\ OldIn(w) /\ ~OldOut(w))

(* Clients of port 2 are all accepted in the end, unless the server died   *)
(* or ran out of descriptors: updates of ctr2 get lost and threads wait    *)
(* for ever for texts others have taken, but never for all 15 places: who  *)
(* took a text from the thread started last lowers ctr2 after it, unless   *)
(* it was an s1 without the descriptors to answer (server.c 20, 70, 81).   *)
PortTwoServed ==
  <>[](\/ pend[2] = 0 \/ pc = "dead" \/ nw = MaxWorkers
       \/ nsfd = BadFd /\ addrlen = "sane"
       \/ \E w \in Workers, t \in Threads : CutOff(w) /\ wpc[t] = "recv" /\ at[t] = own[w])

(* The client accepted last is always answered while the server lives,     *)
(* though perhaps by a thread or process that was started for another, or  *)
(* with its own text, unless its s1 lacks the descriptors (server.c 70-75). *)
LastAnswered ==
  <>[](nsfd \in Conns => \/ nsfd \in answered \/ pc = "dead" \/ nw = MaxWorkers
                         \/ \E w \in Workers : CutOff(w) /\ own[w] = nsfd)
=============================================================================
