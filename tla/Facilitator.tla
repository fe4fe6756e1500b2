----------------------------- MODULE Facilitator -----------------------------
(***************************************************************************)
(* midques/que5: a facilitator that starts services on the operator's      *)
(* command and forwards to them the addresses of clients that ask for a    *)
(* service by its number.  A service starts one thread per read, and gives *)
(* it the ADDRESS of its only buffer.                                      *)
(*                                                                         *)
(* Buffers keep what a shorter text does not overwrite, and scanf reads a  *)
(* whole line of the terminal to return one word of it.  A number is the   *)
(* sequence of its digits, an address is its client.  The client's attempt *)
(* to listen on a closed descriptor fails at once and reaches nobody: what *)
(* counts is which address a thread copies.                                *)
(***************************************************************************)
EXTENDS Integers, SequencesExt

CONSTANTS Clients,
          Numbers,       \* numbers users may ask for, as sequences of digits
          Lines,         \* lines the operator may type: at most two words (bound),
                         \*   "good" or "bad", a path that does not exist
          MaxLines,      \* bound: lines typed
          MaxThreads,    \* bound: threads of a service
          MayDie         \* clients that may be killed before they send

ASSUME FacilitatorAssumption ==
  /\ Numbers \subseteq Seq(0..9) /\ <<>> \notin Numbers
  /\ Lines \subseteq Seq({"good", "bad"}) /\ \A l \in Lines : Len(l) <= 2
  /\ MaxLines \in Nat /\ MaxThreads \in Nat /\ MayDie \subseteq Clients

VARIABLES tty,           \* lines typed, not yet read
          stdio,         \* words left of the line scanf has read
          typed,         \* history: how many lines were typed
          fpc,           \* "select", "scan", "accept", "recv", "write", "dead"
          ready,         \* descriptors select has found readable
          backlog,       \* clients connected, not yet accepted
          addrlen,       \* uninitialised: "negative", "short" or "full"
          c_addr,        \* the client's address, or Junk
          nsfd,          \* the client, or Nobody if accept failed
          sbuf,          \* the digits in the facilitator's buffer
          born,          \* history: what it held before anything was received
          sfd,           \* sfd[0..n-1]: the services, "good" or "bad"
          pipe,          \* pipe[i]: addresses written to the i-th service
          cpc,           \* client: "off", "send", "sent", "killed"
          number,        \* the number the client's user has typed
          spc,           \* service: "read" or "create"
          buf,           \* the address at the front of the service's buffer
          reads,         \* history: reads[i], what each read returned
          took, ends,    \* of its j-th thread's copy: the addresses the first and
                         \* the last letter are from, Nothing before it has them
          fwd            \* history: requests received, and what became of them

opvars == <<tty, stdio, typed>>
fvars == <<fpc, ready, backlog, addrlen, c_addr, nsfd, sbuf, born, sfd>>
cvars == <<cpc, number>>
svars == <<spc, buf, reads, took, ends>>
vars == <<opvars, fvars, pipe, cvars, svars, fwd>>

Junk == "junk"
Nobody == "nobody"
Nothing == "nothing"
Slots == 1..MaxLines * 2           \* services there can be
Services == DOMAIN sfd

Init == /\ tty = <<>> /\ stdio = <<>> /\ typed = 0
        /\ fpc = "select" /\ ready = {} /\ backlog = <<>>
        /\ addrlen \in {"negative", "short", "full"} /\ c_addr = Junk /\ nsfd = Nobody
        /\ born \in {<<>>, <<0, 0>>} /\ sbuf = born /\ sfd = <<>>
        /\ pipe = [i \in Slots |-> <<>>]
        /\ cpc = [c \in Clients |-> "off"] /\ number = [c \in Clients |-> <<>>]
        /\ spc = [i \in Slots |-> "read"] /\ buf = [i \in Slots |-> Junk]
        /\ reads = [i \in Slots |-> <<>>]
        /\ took = [i \in Slots |-> <<>>] /\ ends = [i \in Slots |-> <<>>]
        /\ fwd = <<>>

\* recv writes no NUL: longer digits stay behind shorter ones.
Overlay(new, old) == new \o SubSeq(old, Len(new) + 1, Len(old))
atoi(s) == FoldLeft(LAMBDA res, d : 10 * res + d, 0, s)

-----------------------------------------------------------------------------
\* facilitator.c
TypeLine(l) == /\ typed < MaxLines
               /\ typed' = typed + 1 /\ tty' = Append(tty, l)
               /\ UNCHANGED <<stdio, fvars, pipe, cvars, svars, fwd>>

Select_Max ==                        \* mutant: select(max, ...), not max + 1
  /\ fpc = "select" /\ tty # <<>>
  /\ ready' = {"tty"} /\ fpc' = "scan"
  /\ UNCHANGED <<opvars, backlog, addrlen, c_addr, nsfd, sbuf, born, sfd, pipe,
                 cvars, svars, fwd>>
Select == /\ fpc = "select"
          /\ ready' = (IF tty # <<>> THEN {"tty"} ELSE {})
                      \cup (IF backlog # <<>> THEN {"msfd"} ELSE {})
          /\ ready' # {}
          /\ fpc' = IF "tty" \in ready' THEN "scan" ELSE "accept"
          /\ UNCHANGED <<opvars, backlog, addrlen, c_addr, nsfd, sbuf, born, sfd, pipe,
                         cvars, svars, fwd>>

\* scanf: the next word it has; else the next line, which may be blank.
ScanLine == /\ fpc = "scan" /\ stdio = <<>> /\ tty # <<>>
            /\ stdio' = Head(tty) /\ tty' = Tail(tty)
            /\ UNCHANGED <<typed, fvars, pipe, cvars, svars, fwd>>
OpenService == /\ fpc = "scan" /\ stdio # <<>>
               /\ sfd' = Append(sfd, Head(stdio)) /\ stdio' = Tail(stdio)
               /\ fpc' = IF "msfd" \in ready THEN "accept" ELSE "select"
               /\ UNCHANGED <<tty, typed, ready, backlog, addrlen, c_addr, nsfd, sbuf, born,
                              pipe, cvars, svars, fwd>>

\* A negative addrlen makes accept drop the connection; a short one cuts
\* the address, and then holds its length.
Accept == /\ fpc = "accept"
          /\ backlog' = Tail(backlog)
          /\ nsfd' = IF addrlen = "negative" THEN Nobody ELSE Head(backlog)
          /\ c_addr' = IF addrlen = "full" THEN Head(backlog) ELSE c_addr
          /\ addrlen' = IF addrlen = "short" THEN "full" ELSE addrlen
          /\ fpc' = "recv"
          /\ UNCHANGED <<opvars, ready, sbuf, born, sfd, pipe, cvars, svars, fwd>>

\* recv: the number; nothing from a client that has gone, or from nobody.
Received == IF nsfd # Nobody /\ cpc[nsfd] = "sent" THEN number[nsfd] ELSE <<>>
Recv == /\ fpc = "recv"
        /\ nsfd # Nobody => cpc[nsfd] # "send"
        /\ sbuf' = Overlay(Received, sbuf)
        /\ fpc' = "write"
        /\ UNCHANGED <<opvars, ready, backlog, addrlen, c_addr, nsfd, born, sfd, pipe,
                       cvars, svars, fwd>>

\* sfd[atoi(sbuf)]: beyond the services it is any descriptor, or none.
\* (Mutant: numbers from 1.)
Targets_FromOne == LET k == atoi(sbuf) IN IF k \in Services THEN {k} ELSE Services \cup {0}
Targets == LET k == atoi(sbuf) + 1 IN IF k \in Services THEN {k} ELSE Services \cup {0}
Write == \E k \in Targets :
           /\ fpc = "write"
           /\ IF k # 0 /\ sfd[k] = "good"
              THEN pipe' = [pipe EXCEPT ![k] = Append(@, c_addr)]
              ELSE pipe' = pipe
           /\ fwd' = Append(fwd, [from |-> nsfd, digits |-> Received, addr |-> c_addr,
                                  to |-> k, n |-> Len(sfd)])
           /\ \/ fpc' = "select"
              \/ k # 0 /\ sfd[k] = "bad" /\ fpc' = "dead"        \* SIGPIPE
           /\ UNCHANGED <<opvars, ready, backlog, addrlen, c_addr, nsfd, sbuf, born, sfd,
                          cvars, svars>>

-----------------------------------------------------------------------------
\* client.c: connect, send; then it ends, whatever the facilitator does.
Connect(c, s) == /\ cpc[c] = "off" /\ fpc # "dead"
                 /\ number' = [number EXCEPT ![c] = s]
                 /\ cpc' = [cpc EXCEPT ![c] = "send"]
                 /\ backlog' = Append(backlog, c)
                 /\ UNCHANGED <<opvars, fpc, ready, addrlen, c_addr, nsfd, sbuf, born, sfd,
                                pipe, svars, fwd>>
Send(c) == /\ cpc[c] = "send"
           /\ cpc' = [cpc EXCEPT ![c] = "sent"]
           /\ UNCHANGED <<opvars, fvars, pipe, number, svars, fwd>>
Kill(c) == /\ c \in MayDie /\ cpc[c] = "send"
           /\ cpc' = [cpc EXCEPT ![c] = "killed"]
           /\ UNCHANGED <<opvars, fvars, pipe, number, svars, fwd>>

-----------------------------------------------------------------------------
\* service.c: read, sleep, create a thread.  read takes all addresses there
\* are, one behind the other; after the facilitator's end it returns at once.
Runs(i) == i \in Services /\ sfd[i] = "good"
Ended(i) == fpc = "dead" /\ pipe[i] = <<>>
NewBuf_First(i) == IF buf[i] = Junk THEN Head(pipe[i]) ELSE buf[i]     \* mutant
NewBuf(i) == Head(pipe[i])
ServiceReads(i) ==
  /\ Runs(i) /\ spc[i] = "read" /\ Len(reads[i]) < MaxThreads
  /\ pipe[i] # <<>> \/ Ended(i)
  /\ buf' = IF pipe[i] # <<>> THEN [buf EXCEPT ![i] = NewBuf(i)] ELSE buf
  /\ reads' = [reads EXCEPT ![i] = Append(@, pipe[i])]
  /\ pipe' = [pipe EXCEPT ![i] = <<>>]
  /\ spc' = [spc EXCEPT ![i] = "create"]
  /\ UNCHANGED <<opvars, fvars, cvars, took, ends, fwd>>
CreateThread(i) ==
  /\ spc[i] = "create"
  /\ took' = [took EXCEPT ![i] = Append(@, Nothing)]
  /\ ends' = [ends EXCEPT ![i] = Append(@, Nothing)]
  /\ spc' = [spc EXCEPT ![i] = "read"]
  /\ UNCHANGED <<opvars, fvars, pipe, cvars, buf, reads, fwd>>

\* strcpy(sbuf, arg), when the thread gets there, letter by letter: the next
\* read may come between the first and the last.
ThreadCopies(i, j) ==
  /\ j \in DOMAIN took[i] /\ took[i][j] = Nothing
  /\ took' = [took EXCEPT ![i][j] = buf[i]]
  /\ UNCHANGED <<opvars, fvars, pipe, cvars, spc, buf, reads, ends, fwd>>
ThreadEnds(i, j) ==
  /\ j \in DOMAIN ends[i] /\ took[i][j] # Nothing /\ ends[i][j] = Nothing
  /\ ends' = [ends EXCEPT ![i][j] = buf[i]]
  /\ UNCHANGED <<opvars, fvars, pipe, cvars, spc, buf, reads, took, fwd>>

Facilitates == Select \/ ScanLine \/ OpenService \/ Accept \/ Recv \/ Write
Serves(i) == \/ ServiceReads(i) \/ CreateThread(i)
             \/ \E j \in 1..MaxThreads : ThreadCopies(i, j) \/ ThreadEnds(i, j)

Next == \/ Facilitates
        \/ \E l \in Lines : TypeLine(l)
        \/ \E c \in Clients : Send(c) \/ Kill(c) \/ \E s \in Numbers : Connect(c, s)
        \/ \E i \in Slots : Serves(i)

Spec == Init /\ [][Next]_vars

\* Programs and threads run; users need not start or type anything, but a
\* client that has connected sends or is killed.
Fairness == /\ WF_vars(Facilitates)
            /\ \A c \in Clients : WF_vars(Send(c))
            /\ \A i \in Slots : WF_vars(Serves(i))

FairSpec == Spec /\ Fairness

-----------------------------------------------------------------------------
Digits == 0..9
Address == Clients \cup {Junk}
Request == [from : Clients \cup {Nobody}, digits : Seq(Digits), addr : Address,
            to : Nat, n : Nat]

(* Type invariant of every variable; there are not more services than slots *)
(* for them, since a line has two words at most.                           *)
TypeOK == /\ tty \in Seq(Lines) /\ stdio \in Seq({"good", "bad"}) /\ typed \in 0..MaxLines
          /\ fpc \in {"select", "scan", "accept", "recv", "write", "dead"}
          /\ ready \subseteq {"tty", "msfd"} /\ backlog \in Seq(Clients)
          /\ addrlen \in {"negative", "short", "full"}
          /\ c_addr \in Address /\ nsfd \in Clients \cup {Nobody}
          /\ sbuf \in Seq(Digits) /\ born \in Seq(Digits)
          /\ sfd \in Seq({"good", "bad"}) /\ Services \subseteq Slots
          /\ pipe \in [Slots -> Seq(Address)]
          /\ cpc \in [Clients -> {"off", "send", "sent", "killed"}]
          /\ number \in [Clients -> Seq(Digits)]
          /\ spc \in [Slots -> {"read", "create"}] /\ buf \in [Slots -> Address]
          /\ reads \in [Slots -> Seq(Seq(Address))]
          /\ took \in [Slots -> Seq(Address \cup {Nothing})]
          /\ ends \in [Slots -> Seq(Address \cup {Nothing})]
          /\ fwd \in Seq(Request)

(* A request goes to the service with the number the client sent, and with *)
(* the client's address.  It goes astray only if the buffer held more      *)
(* digits before, if there is no such service, or if the client sent       *)
(* nothing; the address is wrong only if addrlen was (facilitator.c 56-63). *)
Hidden(n) == \/ Len(born) > Len(fwd[n].digits)
             \/ \E m \in 1..n - 1 : Len(fwd[m].digits) > Len(fwd[n].digits)
RightService ==
  \A n \in DOMAIN fwd :
    /\ \/ fwd[n].to = atoi(fwd[n].digits) + 1
       \/ fwd[n].digits = <<>> \/ Hidden(n) \/ atoi(fwd[n].digits) + 1 \notin 1..fwd[n].n
    /\ fwd[n].addr = fwd[n].from \/ fwd[n].from = Nobody \/ n = 1

(* Every letter a thread copies is from the address its service read       *)
(* before it was created, or from one of a later read, never one of an     *)
(* earlier read; addresses that came together with another in one read are *)
(* nobody's, except the first (service.c 15, 43-48).  A read at the end of *)
(* the file is empty.                                                      *)
Empty(i, S) == \A k \in S : reads[i][k] = <<>>
NeverAnEarlier ==
  \A i \in Slots : \A j \in DOMAIN took[i] : \A a \in {took[i][j], ends[i][j]} \ {Nothing} :
    \/ \E m \in DOMAIN reads[i] : /\ reads[i][m] # <<>> /\ Empty(i, m + 1..j)
                                 /\ a = reads[i][m][1]
    \/ Empty(i, 1..j) /\ a = Junk

(* The facilitator waits for a word although clients wait for it: a line   *)
(* was blank.                                                              *)
Blocked == fpc = "scan" /\ stdio = <<>> /\ tty = <<>>

(* In the end every request has been forwarded, and every address was taken *)
(* up by a thread or lost to one before it; unless the facilitator waits   *)
(* for the operator inside scanf, or has died writing to a service that    *)
(* does not exist (facilitator.c 38-41, 49, 63).                           *)
ForwardedOrBlocked ==
  <>[]( /\ Blocked \/ fpc = "dead" \/ (fpc = "select" /\ backlog = <<>> /\ tty = <<>>)
        /\ \A i \in Services : Runs(i) =>
             /\ pipe[i] = <<>> \/ Len(reads[i]) = MaxThreads
             /\ spc[i] = "read" /\ \A j \in DOMAIN took[i] : ends[i][j] # Nothing
             /\ \A m \in DOMAIN reads[i] : reads[i][m] # <<>> /\ Empty(i, m + 1..Len(reads[i])) =>
                  took[i][m] = buf[i] /\ ends[i][m] = buf[i])
=============================================================================
