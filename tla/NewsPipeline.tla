---------------------------- MODULE NewsPipeline ----------------------------
(***************************************************************************)
(* midques/que4: reporters write into pipes the editor has popen'ed; the   *)
(* editor turns what it reads into queue messages of type 1 and 2 in turn; *)
(* newsreader r takes messages of type r, under the semaphore "mysem1",    *)
(* and writes them into /tmp/fifo<r>; the screen prints both FIFOs.        *)
(*                                                                         *)
(* Pipes and FIFOs are byte streams: one read takes all that is there, up  *)
(* to the 100 bytes of the buffer, and leaves the rest of the buffer as it *)
(* was.  A report is 7 to 9 bytes long and not terminated, so such a read  *)
(* may cut one in the middle.  The elements of all streams are therefore   *)
(* pieces of reports: a report is a number of pieces out of Sizes, written *)
(* by one write, and a buffer holds BufSlots pieces.  No buffer is ever    *)
(* terminated or cleared either, so what an earlier, longer read left      *)
(* behind is passed on again: such a piece of a text is not fresh.         *)
(***************************************************************************)
EXTENDS SysVQueue, FiniteSets, SequencesExt

CONSTANTS NReporters,    \* how many reporters the editor starts (3)
          Sizes,         \* how many pieces a report may have
          BufSlots,      \* how many pieces fit into a buffer
          MaxPieces,     \* bound: MaxPieces[i], pieces reporter i writes
          MaxKills       \* bound: Ctrl-C's in the newsreaders' terminals

Reporters == 1..NReporters
Readers == {1, 2}

ASSUME NewsAssumption == /\ NReporters \in Nat \ {0} /\ BufSlots \in Nat \ {0}
                         /\ Sizes \subseteq Nat \ {0}
                         /\ MaxPieces \in [Reporters -> Nat] /\ MaxKills \in Nat

\* The k-th piece of all that reporter from writes.
Piece == [from : Reporters, k : Nat, fresh : BOOLEAN]

VARIABLES pipe,          \* pipe[i]: what of reporter i's output the editor has not read
          nrep,          \* nrep[i]: how many pieces i has written
          epc,           \* editor: "select", "scan" or "send"
          ready,         \* editor: the reporters select() found, not yet served
          type,          \* editor: the type of the next message
          buf,           \* editor: its buffer, and the text of mesg
          msgid,         \* editor: its msg_id, "ok", or "wild" once overwritten
          rpc,           \* newsreader: "off", "open", "sem", "recv", "write", "post"
          sem,           \* newsreader: the semaphore it has opened
          hand,          \* newsreader: the text it has received, not yet written
          semval,        \* the values of the semaphores made so far
          semname,       \* the semaphore "mysem1" names, 0 if none
          fifo,          \* fifo[r]: pieces in /tmp/fifo<r>
          stage,         \* screen: 1, 2: opening that FIFO; 3: select; 4: reading
          found,         \* screen: the FIFOs select() found, not yet read
          sbuf,          \* screen: its buffer
          shown,         \* history: shown[r], pieces printed from fifo r
          kills,         \* history: newsreaders interrupted so far
          lost,          \* history: fresh pieces that have gone where nobody reads
          stranded       \* history: semaphores whose holder was interrupted

evars == <<epc, ready, type, buf, msgid>>
rvars == <<rpc, sem, hand, semval, semname>>
svars == <<stage, found, sbuf, shown>>
hvars == <<kills, lost, stranded>>
vars == <<qvars, pipe, nrep, evars, rvars, fifo, svars, hvars>>

Init == /\ msgget(Readers)
        /\ pipe = [i \in Reporters |-> <<>>] /\ nrep = [i \in Reporters |-> 0]
        /\ epc = "select" /\ ready = {} /\ type = 1 /\ buf = <<>>
        /\ msgid = "ok"
        /\ rpc = [r \in Readers |-> "off"] /\ sem = [r \in Readers |-> 0]
        /\ hand = [r \in Readers |-> <<>>]
        /\ semval = <<>> /\ semname = 0
        /\ fifo = [r \in Readers |-> <<>>]
        /\ stage = 1 /\ found = {} /\ sbuf = <<>>
        /\ shown = [r \in Readers |-> <<>>]
        /\ kills = 0 /\ lost = {} /\ stranded = {}

\* The loops of editor and screen serve what select() found in order.
LeastOf(S) == {x \in S : \A y \in S : x <= y}

\* What one read of the stream s returns, what it leaves in the stream, which
\* may begin inside a report, and what the buffer b holds afterwards.
Lesser(a, b) == IF a < b THEN a ELSE b
Chunk(s) == SubSeq(s, 1, Lesser(Len(s), BufSlots))
Rest_Dropped(s) == <<>>                                       \* mutant
Rest_LastAgain(s) == SubSeq(s, Lesser(Len(s), BufSlots - 1) + 1, Len(s)) \* mutant
Rest(s) == SubSeq(s, Lesser(Len(s), BufSlots) + 1, Len(s))
Stale(s) == [i \in 1..Len(s) |-> [s[i] EXCEPT !.fresh = FALSE]]
Overlay(new, b) == new \o Stale(SubSeq(b, Len(new) + 1, Len(b)))
Fresh(s) == {x \in ToSet(s) : x.fresh}

-----------------------------------------------------------------------------
\* reporter.c: one more "Mesg: ...", in one write.
NthPiece(i, n) == [from |-> i, k |-> n, fresh |-> TRUE]
NewReport(i, w) == [n \in 1..w |-> NthPiece(i, nrep[i] + n)]
WriteReport(i) ==
  \E w \in Sizes :
    /\ nrep[i] + w <= MaxPieces[i]
    /\ nrep' = [nrep EXCEPT ![i] = @ + w]
    /\ pipe' = [pipe EXCEPT ![i] = @ \o NewReport(i, w)]
    /\ UNCHANGED <<qvars, evars, rvars, fifo, svars, hvars>>

\* editor.c: select() over the pipes.
EditorSelect ==
  /\ epc = "select"
  /\ ready' = {i \in Reporters : pipe[i] # <<>>}
  /\ ready' # {}
  /\ epc' = "scan"
  /\ UNCHANGED <<qvars, pipe, nrep, type, buf, msgid, rvars, fifo, svars, hvars>>

\* editor.c: read, strcpy, and the type for this message.  A full buffer has no
\* NUL: strcpy copies what lies behind it too, and the NUL it finds there may
\* end up in the low byte of msg_id, which follows mesg in memory.
EditorRead ==
  /\ epc = "scan"
  /\ \E i \in LeastOf(ready) :
       /\ buf' = Overlay(Chunk(pipe[i]), buf)
       /\ pipe' = [pipe EXCEPT ![i] = Rest(@)]
       /\ ready' = ready \ {i}
  /\ msgid' \in (IF Len(buf') = BufSlots THEN {msgid, "wild"} ELSE {msgid})
  /\ epc' = "send"
  /\ UNCHANGED <<qvars, nrep, type, rvars, fifo, svars, hvars>>

\* editor.c: the message goes out; the next one is of the other type.
NextType(t) == IF t = 1 THEN 2 ELSE 1
EditorSend ==
  /\ epc = "send" /\ msgid = "ok"
  /\ msgsnd(type, buf)
  /\ type' = NextType(type)
  /\ epc' = IF ready = {} THEN "select" ELSE "scan"
  /\ UNCHANGED <<pipe, nrep, ready, buf, msgid, rvars, fifo, svars, hvars>>

\* msgsnd to an overwritten msg_id fails at once, and nobody looks.
SendFails ==
  /\ epc = "send" /\ msgid = "wild"
  /\ lost' = lost \cup Fresh(buf)
  /\ type' = NextType(type)
  /\ epc' = IF ready = {} THEN "select" ELSE "scan"
  /\ UNCHANGED <<qvars, pipe, nrep, ready, buf, msgid, rvars, fifo, svars, kills, stranded>>

-----------------------------------------------------------------------------
\* A newsreader is started; it blocks in open until the screen opens its FIFO.
StartReader(r) ==
  /\ rpc[r] = "off"
  /\ rpc' = [rpc EXCEPT ![r] = "open"]
  /\ UNCHANGED <<qvars, pipe, nrep, evars, sem, hand, semval, semname, fifo, svars, hvars>>

\* open(fifo, O_WRONLY), then sem_open("mysem1", O_CREAT, 0644, 1).
OpenReader_Unlink(r) ==              \* mutant: sem_unlink before sem_open
  /\ rpc[r] = "open" /\ stage >= r
  /\ rpc' = [rpc EXCEPT ![r] = "sem"]
  /\ semval' = Append(semval, 1)
  /\ semname' = Len(semval) + 1
  /\ sem' = [sem EXCEPT ![r] = semname']
  /\ UNCHANGED <<qvars, pipe, nrep, evars, hand, fifo, svars, hvars>>
OpenReader(r) ==
  /\ rpc[r] = "open" /\ stage >= r
  /\ rpc' = [rpc EXCEPT ![r] = "sem"]
  /\ semval' = IF semname = 0 THEN Append(semval, 1) ELSE semval
  /\ semname' = IF semname = 0 THEN Len(semval) + 1 ELSE semname
  /\ sem' = [sem EXCEPT ![r] = semname']
  /\ UNCHANGED <<qvars, pipe, nrep, evars, hand, fifo, svars, hvars>>

SemWait(r) ==
  /\ rpc[r] = "sem" /\ semval[sem[r]] > 0
  /\ semval' = [semval EXCEPT ![sem[r]] = @ - 1]
  /\ rpc' = [rpc EXCEPT ![r] = "recv"]
  /\ UNCHANGED <<qvars, pipe, nrep, evars, sem, hand, semname, fifo, svars, hvars>>

\* msgrcv of the reader's own type, inside the semaphore.
ReceiveNews(r) ==
  /\ rpc[r] = "recv"
  /\ msgrcv(r)
  /\ hand' = [hand EXCEPT ![r] = Head(mq[r])]
  /\ rpc' = [rpc EXCEPT ![r] = "write"]
  /\ UNCHANGED <<pipe, nrep, evars, sem, semval, semname, fifo, svars, hvars>>

WriteNews(r) ==
  /\ rpc[r] = "write"
  /\ fifo' = [fifo EXCEPT ![r] = @ \o hand[r]]
  /\ hand' = [hand EXCEPT ![r] = <<>>]
  /\ rpc' = [rpc EXCEPT ![r] = "post"]
  /\ UNCHANGED <<qvars, pipe, nrep, evars, sem, semval, semname, svars, hvars>>

SemPost_Forgotten(r) ==              \* mutant
  /\ rpc[r] = "post"
  /\ rpc' = [rpc EXCEPT ![r] = "sem"]
  /\ UNCHANGED <<qvars, pipe, nrep, evars, sem, semval, hand, semname, fifo, svars, hvars>>
SemPost(r) ==
  /\ rpc[r] = "post"
  /\ semval' = [semval EXCEPT ![sem[r]] = @ + 1]
  /\ rpc' = [rpc EXCEPT ![r] = "sem"]
  /\ UNCHANGED <<qvars, pipe, nrep, evars, sem, hand, semname, fifo, svars, hvars>>

\* Ctrl-C: the handler unlinks the semaphore's NAME and exits.
InSection(r) == rpc[r] \in {"recv", "write", "post"}
Interrupt(r) ==
  /\ rpc[r] # "off" /\ kills < MaxKills
  /\ kills' = kills + 1
  /\ rpc' = [rpc EXCEPT ![r] = "off"]
  /\ semname' = 0
  /\ lost' = lost \cup Fresh(hand[r])
  /\ hand' = [hand EXCEPT ![r] = <<>>]
  /\ stranded' = IF InSection(r) THEN stranded \cup {sem[r]} ELSE stranded
  /\ UNCHANGED <<qvars, pipe, nrep, evars, sem, semval, fifo, svars>>

-----------------------------------------------------------------------------
\* screen.c: open(/tmp/fifo<stage>, O_RDONLY) waits for a writer to open it.
ScreenOpen ==
  /\ stage \in Readers /\ rpc[stage] # "off"
  /\ stage' = stage + 1
  /\ UNCHANGED <<qvars, pipe, nrep, evars, rvars, fifo, found, sbuf, shown, hvars>>

\* A FIFO is readable when it holds data or has no writer (end of file); a
\* newsreader counts as a writer from the moment it calls open.
NoWriter(r) == rpc[r] = "off"
ScreenSelect ==
  /\ stage = 3
  /\ found' = {r \in Readers : fifo[r] # <<>> \/ NoWriter(r)}
  /\ found' # {}
  /\ stage' = 4
  /\ UNCHANGED <<qvars, pipe, nrep, evars, rvars, fifo, sbuf, shown, hvars>>

\* read and printf; at end of file the old buffer is printed again.
ScreenRead ==
  /\ stage = 4
  /\ \E r \in LeastOf(found) :
       /\ fifo[r] # <<>> \/ NoWriter(r)
       /\ sbuf' = Overlay(Chunk(fifo[r]), sbuf)
       /\ shown' = [shown EXCEPT ![r] = @ \o Chunk(fifo[r])]
       /\ fifo' = [fifo EXCEPT ![r] = Rest(@)]
       /\ found' = found \ {r}
  /\ stage' = IF found' = {} THEN 3 ELSE 4
  /\ UNCHANGED <<qvars, pipe, nrep, evars, rvars, hvars>>

Next == \/ EditorSelect \/ EditorRead \/ EditorSend \/ SendFails
        \/ ScreenOpen \/ ScreenSelect \/ ScreenRead
        \/ \E i \in Reporters : WriteReport(i)
        \/ \E r \in Readers : \/ StartReader(r) \/ OpenReader(r) \/ SemWait(r)
                              \/ ReceiveNews(r) \/ WriteNews(r) \/ SemPost(r)
                              \/ Interrupt(r)

Spec == Init /\ [][Next]_vars

\* The processes run; the operator starts both newsreaders.  After sem_post a
\* newsreader sleeps for a second, so a waiting one is not overtaken for ever.
Fairness == /\ WF_vars(EditorSelect) /\ WF_vars(EditorRead)
            /\ WF_vars(EditorSend) /\ WF_vars(SendFails)
            /\ WF_vars(ScreenOpen) /\ WF_vars(ScreenSelect) /\ WF_vars(ScreenRead)
            /\ \A r \in Readers :
                 /\ WF_vars(StartReader(r)) /\ WF_vars(OpenReader(r))
                 /\ SF_vars(SemWait(r)) /\ WF_vars(ReceiveNews(r))
                 /\ WF_vars(WriteNews(r)) /\ WF_vars(SemPost(r))

FairSpec == Spec /\ Fairness

-----------------------------------------------------------------------------
(* Type invariant of every variable of the model.                          *)
TypeOK == /\ mq \in [Readers -> Seq(Seq(Piece))] /\ qnum \in Int
          /\ pipe \in [Reporters -> Seq(Piece)]
          /\ nrep \in [Reporters -> Nat]
          /\ epc \in {"select", "scan", "send"}
          /\ ready \subseteq Reporters /\ (epc = "scan" => ready # {})
          /\ type \in {1, 2} /\ buf \in Seq(Piece) /\ msgid \in {"ok", "wild"}
          /\ rpc \in [Readers -> {"off", "open", "sem", "recv", "write", "post"}]
          /\ semval \in Seq(Nat) /\ semname \in 0..Len(semval)
          /\ sem \in [Readers -> 0..Len(semval)]
          /\ hand \in [Readers -> Seq(Piece)]
          /\ fifo \in [Readers -> Seq(Piece)]
          /\ stage \in 1..4 /\ found \subseteq Readers /\ (stage = 4 => found # {})
          /\ sbuf \in Seq(Piece) /\ shown \in [Readers -> Seq(Piece)]
          /\ kills \in 0..MaxKills /\ lost \subseteq Piece
          /\ stranded \subseteq 1..Len(semval)

(* Two newsreaders are between sem_wait and sem_post (newsreader.c 45-50)   *)
(* at once only after one has been interrupted, whose handler unlinks the  *)
(* name: the next one to start makes a second semaphore (lines 18-22, 37). *)
Exclusion == \A r, q \in Readers :
               r # q /\ InSection(r) /\ InSection(q) => sem[r] # sem[q] /\ kills > 0

(* A semaphore is 0 exactly while a newsreader is inside, or for ever      *)
(* after a newsreader was interrupted inside: unlinking its name does not  *)
(* post it, so whoever waits for it waits for ever.                        *)
SemaphoreHeld ==
  /\ \A r \in Readers : InSection(r) =>
        sem[r] \in (1..Len(semval)) \ stranded /\ semval[sem[r]] = 0
  /\ \A s \in 1..Len(semval) :
        /\ semval[s] \in {0, 1}
        /\ semval[s] = 0 <=> s \in stranded \/ \E r \in Readers : InSection(r) /\ sem[r] = s

(* Where the pieces on their way through newsreader r are: printed, in its *)
(* FIFO or in its hands; in its messages; in the editor; in the pipes.     *)
Out(r) == shown[r] \o fifo[r] \o hand[r]
Unsent == IF epc = "send" THEN buf ELSE <<>>
Line(r) == <<Out(r)>> \o mq[r] \o <<Unsent>> \o pipe

OnRoute(r) == Fresh(Out(r)) \cup UNION {Fresh(mq[r][m]) : m \in DOMAIN mq[r]}
InPipes == UNION {Fresh(pipe[i]) : i \in Reporters}
Written == UNION {{NthPiece(i, n) : n \in 1..nrep[i]} : i \in Reporters}

(* Every piece of every report written is in exactly one place: a pipe, the *)
(* editor, on the route through one of the newsreaders, or lost, which     *)
(* takes a newsreader that was interrupted or an editor whose msg_id was   *)
(* overwritten (editor.c 55-67, newsreader.c 18-22, 46-50).  By RouteOrder *)
(* no place holds it twice.  What is not fresh comes on top.  The pieces   *)
(* of ONE report may be in several places: a read that fills the buffer    *)
(* sends its head to one newsreader and its tail to the other.             *)
Places == <<InPipes, Fresh(Unsent), OnRoute(1), OnRoute(2), lost>>
Conservation ==
  LET place == Places IN
  /\ UNION {place[a] : a \in 1..5} = Written
  /\ \A a, b \in 1..5 : a # b => place[a] \cap place[b] = {}
  /\ lost # {} => kills > 0 \/ msgid = "wild"

(* Each newsreader passes on what one reporter has written in the order in *)
(* which it was written, no piece twice, and before what is still behind   *)
(* it, although the screen's and the editor's reads cut the streams inside *)
(* reports and each buffer keeps what its last reads left (editor.c 55-67, *)
(* screen.c 31-39).                                                        *)
Below(S, T) == \A x \in S, y \in T : x.from = y.from => x.k < y.k
Rising(s) == \A a, b \in DOMAIN s :
               a < b /\ s[a].fresh /\ s[b].fresh /\ s[a].from = s[b].from => s[a].k < s[b].k
RouteOrder ==
  \A r \in Readers : LET line == Line(r) IN
    \A a, b \in DOMAIN line : /\ Rising(line[a])
                              /\ a < b => Below(Fresh(line[a]), Fresh(line[b]))

Other(r) == 3 - r
(* A newsreader sits in the critical section waiting for a message of its  *)
(* own type while messages of the other type wait for the other one.       *)
HeldBack == \E r \in Readers :
              rpc[r] = "recv" /\ mq[r] = <<>> /\ mq[Other(r)] # <<>>

\* Or it waits for a semaphore nobody will ever post.
ShutOut == \E r \in Readers : rpc[r] = "sem" /\ sem[r] \in stranded

\* Or the screen waits in read for a FIFO that select() found closed, and that
\* a newsreader has opened again.
Misled == \E r \in LeastOf(found) : fifo[r] = <<>> /\ ~NoWriter(r)

AllShown == \A x \in Written : x \in lost \/ \E r \in Readers : x \in ToSet(shown[r])

(* When the reporters have nothing more to say, everything reaches the     *)
(* screen but what was lost with an interrupted newsreader or an editor    *)
(* whose msg_id was overwritten; or it stays held back, because msgrcv     *)
(* waits for ONE type while the semaphore keeps the other newsreader out,  *)
(* or because a newsreader was interrupted while it held the semaphore, or *)
(* was restarted while the screen was between select and read              *)
(* (newsreader.c 18-22, 45-50; screen.c 31-39; editor.c 55-67).            *)
SettlesShownOrHeldBack == <>[](AllShown \/ HeldBack \/ ShutOut \/ Misled)
=============================================================================
