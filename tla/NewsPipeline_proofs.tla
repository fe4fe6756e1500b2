------------------------- MODULE NewsPipeline_proofs -------------------------
(* Proofs about NewsPipeline, for any reporters, buffers, queue and bounds. *)
EXTENDS NewsPipeline, SequenceTheorems, TLAPS

USE DEF Readers

(* What is left of a stream, and what a read leaves in the buffer.         *)
LEMMA ChunkRest ==
  ASSUME NEW s \in Seq(Piece)
  PROVE  Chunk(s) \in Seq(Piece) /\ Rest(s) \in Seq(Piece)
<1>1. /\ Lesser(Len(s), BufSlots) \in 0..Len(s)
      /\ \A i \in 1..Len(s) : s[i] \in Piece
  BY NewsAssumption DEF Lesser, NewsAssumption
<1>2. \A a \in 1..Len(s) + 1, b \in 0..Len(s) : SubSeq(s, a, b) \in Seq(Piece)
  BY <1>1, SubSeqProperties
<1> QED
  BY <1>1, <1>2 DEF Chunk, Rest

\* What a read leaves in a buffer are pieces.
LEMMA OverlayPieces ==
  ASSUME NEW s \in Seq(Piece), NEW b \in Seq(Piece)
  PROVE  Overlay(s, b) \in Seq(Piece)
<1> DEFINE t == SubSeq(b, Len(s) + 1, Len(b))
<1>1. t \in Seq(Piece)
  BY SubSeqProperties
<1>2. \A x \in Piece : [x EXCEPT !.fresh = FALSE] \in Piece
  BY DEF Piece
<1>3. Stale(t) \in Seq(Piece)
  <2> HIDE DEF t
  <2>1. \A i \in 1..Len(t) : t[i] \in Piece
    BY <1>1
  <2>2. \A i \in 1..Len(t) : [t[i] EXCEPT !.fresh = FALSE] \in Piece
    BY <1>2, <2>1
  <2>3. Len(t) \in Nat
    BY <1>1
  <2> QED
    BY <2>2, <2>3 DEF Stale
<1> QED
  BY <1>3 DEF Overlay

(* What a blocking send and a receive do to the queue.                     *)
LEMMA SendQueue ==
  ASSUME mq \in [Readers -> Seq(Seq(Piece))], qnum \in Int,
         NEW t \in Readers, NEW m \in Seq(Piece), msgsnd(t, m)
  PROVE  mq' \in [Readers -> Seq(Seq(Piece))] /\ qnum' \in Int
BY DEF msgsnd

\* What a receive takes, and leaves, are messages of pieces.
LEMMA ReceiveQueue ==
  ASSUME mq \in [Readers -> Seq(Seq(Piece))], qnum \in Int,
         NEW t \in Readers, msgrcv(t)
  PROVE  /\ mq' \in [Readers -> Seq(Seq(Piece))] /\ qnum' \in Int
         /\ Head(mq[t]) \in Seq(Piece)
<1>1. mq[t] \in Seq(Seq(Piece)) /\ mq[t] # <<>>
  BY DEF msgrcv
<1>2. Head(mq[t]) \in Seq(Piece) /\ Tail(mq[t]) \in Seq(Seq(Piece))
  BY <1>1
<1> QED
  BY <1>2 DEF msgrcv

-----------------------------------------------------------------------------
(* Mutual exclusion, made inductive: a newsreader past sem_open has opened  *)
(* a semaphore that exists; no two are inside with the same one; and while *)
(* nobody has been interrupted there is only the one the name stands for.  *)
SemOpened == \A r \in Readers :
               rpc[r] \in {"sem", "recv", "write", "post"} => sem[r] \in 1..Len(semval)
Apart == \A r, q \in Readers : r # q /\ InSection(r) /\ InSection(q) => sem[r] # sem[q]
OneName == kills \in Nat /\ (kills = 0 => Len(semval) <= 1 /\ semname = Len(semval))
SemType == /\ semval \in Seq(Nat) /\ semname \in 0..Len(semval)
           /\ sem \in [Readers -> 0..Len(semval)]
           /\ stranded \subseteq 1..Len(semval)
RpcType == rpc \in [Readers -> {"off", "open", "sem", "recv", "write", "post"}]
SemInv == RpcType /\ SemType /\ SemOpened /\ Apart /\ OneName /\ SemaphoreHeld

semvars == <<rpc, sem, semval, semname, kills, stranded>>

(* Steps outside sem_open, sem_wait, sem_post and the Ctrl-C handler keep   *)
(* the newsreaders that are inside the section inside it.                  *)
LEMMA SemQuiet ==
  ASSUME SemInv, UNCHANGED <<sem, semval, semname, kills, stranded>>, RpcType',
         \A r \in Readers : InSection(r)' <=> InSection(r),
         \A r \in Readers : rpc'[r] \in {"sem", "recv", "write", "post"}
                              => rpc[r] \in {"sem", "recv", "write", "post"}
  PROVE  SemInv'
<1>1. SemType' /\ SemOpened' /\ OneName'
  BY DEF SemInv, SemType, SemOpened, OneName
<1>2. Apart'
  BY DEF SemInv, Apart
<1>3. SemaphoreHeld'
  BY DEF SemInv, SemaphoreHeld
<1> QED
  BY <1>1, <1>2, <1>3 DEF SemInv

\* A newsreader that opens the semaphore finds the one of its name, or makes one.
LEMMA SemOpenStep ==
  ASSUME SemInv, NEW r \in Readers, OpenReader(r)
  PROVE  SemInv'
<1> USE DEF SemInv
<1>1. /\ RpcType' /\ rpc[r] = "open" /\ rpc'[r] = "sem"
      /\ \A q \in Readers \ {r} : rpc'[q] = rpc[q] /\ sem'[q] = sem[q]
      /\ \A q \in Readers : InSection(q)' <=> InSection(q)
      /\ \A q \in Readers : InSection(q) => q # r
  BY DEF OpenReader, RpcType, SemType, InSection
<1>2. CASE semname # 0
  <2>1. semval' = semval /\ semname' = semname /\ sem' = [sem EXCEPT ![r] = semname]
        /\ stranded' = stranded /\ kills' = kills
    BY <1>2 DEF OpenReader, hvars
  <2>2. SemType' /\ SemOpened' /\ OneName'
    BY <1>1, <1>2, <2>1 DEF SemType, SemOpened, OneName
  <2>3. Apart' /\ SemaphoreHeld'
    BY <1>1, <2>1 DEF Apart, SemaphoreHeld
  <2> QED
    BY <1>1, <2>2, <2>3
<1>3. CASE semname = 0
  <2> DEFINE n == Len(semval) + 1
  <2>1. semval' = Append(semval, 1) /\ semname' = n /\ sem' = [sem EXCEPT ![r] = n]
        /\ stranded' = stranded /\ kills' = kills
    BY <1>3 DEF OpenReader, hvars
  <2>2. Len(semval') = n /\ n \in Nat /\ semval'[n] = 1 /\ semval' \in Seq(Nat)
        /\ \A i \in 1..Len(semval) : semval'[i] = semval[i]
    BY <2>1 DEF SemType
  <2>3. SemType' /\ SemOpened' /\ OneName'
    <3>1. SemType'
      BY <2>1, <2>2 DEF SemType
    <3>2. SemOpened'
      BY <1>1, <2>1, <2>2 DEF SemType, SemOpened
    <3>3. OneName'
      BY <1>3, <2>1, <2>2 DEF OneName, SemType
    <3> QED
      BY <3>1, <3>2, <3>3
  <2>4. \A q \in Readers : InSection(q) => sem'[q] = sem[q] /\ sem[q] \in 1..Len(semval)
    BY <1>1 DEF SemaphoreHeld
  <2>5. Apart'
    BY <1>1, <2>4 DEF Apart
  <2>6. SemaphoreHeld'
    <3>1. \A q \in Readers : InSection(q)' =>
             sem'[q] \in (1..Len(semval')) \ stranded' /\ semval'[sem'[q]] = 0
      BY <1>1, <2>1, <2>2, <2>4 DEF SemaphoreHeld, SemType
    <3>2. ASSUME NEW s \in 1..Len(semval)
          PROVE  /\ semval'[s] \in {0, 1}
                 /\ semval'[s] = 0 <=> s \in stranded'
                                       \/ \E q \in Readers : InSection(q)' /\ sem'[q] = s
      BY <1>1, <2>1, <2>2, <2>4 DEF SemaphoreHeld, SemType
    <3>3. /\ n \notin stranded'
          /\ ~ \E q \in Readers : InSection(q)' /\ sem'[q] = n
      BY <1>1, <2>1, <2>2, <2>4 DEF SemType
    <3> QED
      BY <2>2, <3>1, <3>2, <3>3, SMTT(30) DEF SemaphoreHeld, SemType
  <2> QED
    BY <1>1, <2>3, <2>5, <2>6
<1> QED
  BY <1>2, <1>3

(* sem_wait: the semaphore was 1, so nobody was inside with it.            *)
LEMMA SemWaitStep ==
  ASSUME SemInv, NEW r \in Readers, SemWait(r)
  PROVE  SemInv'
<1> USE DEF SemInv
<1> DEFINE s == sem[r]
<1>1. /\ RpcType' /\ rpc[r] = "sem" /\ rpc'[r] = "recv"
      /\ \A q \in Readers \ {r} : rpc'[q] = rpc[q]
      /\ InSection(r)' /\ ~ InSection(r)
      /\ \A q \in Readers \ {r} : InSection(q)' <=> InSection(q)
      /\ UNCHANGED <<sem, semname, kills, stranded>>
  BY DEF SemWait, RpcType, InSection, hvars
<1>2. s \in 1..Len(semval) /\ semval[s] = 1
      /\ s \notin stranded /\ \A q \in Readers : InSection(q) => sem[q] # s
  BY <1>1 DEF SemWait, SemOpened, SemaphoreHeld, SemType
<1>3. /\ Len(semval') = Len(semval) /\ semval'[s] = 0 /\ semval' \in Seq(Nat)
      /\ \A i \in 1..Len(semval) : i # s => semval'[i] = semval[i]
  BY <1>2 DEF SemWait, SemType
<1>4. SemType' /\ SemOpened' /\ OneName'
  BY <1>1, <1>3 DEF SemType, SemOpened, OneName
<1>5. Apart'
  BY <1>1, <1>2 DEF Apart
<1>6. SemaphoreHeld'
  <2>1. \A q \in Readers : InSection(q)' =>
           sem'[q] \in (1..Len(semval')) \ stranded' /\ semval'[sem'[q]] = 0
    <3> SUFFICES ASSUME NEW q \in Readers, InSection(q)'
                 PROVE  sem[q] \in (1..Len(semval)) \ stranded /\ semval'[sem[q]] = 0
      BY <1>1, <1>3
    <3>1. CASE q = r
      BY <3>1, <1>2, <1>3
    <3>2. CASE q # r
      BY <3>2, <1>1, <1>2, <1>3 DEF SemaphoreHeld
    <3> QED
      BY <3>1, <3>2
  <2>2. ASSUME NEW i \in 1..Len(semval)
        PROVE  /\ semval'[i] \in {0, 1}
               /\ semval'[i] = 0 <=> i \in stranded'
                                     \/ \E q \in Readers : InSection(q)' /\ sem'[q] = i
    <3>1. CASE i = s
      BY <3>1, <1>1, <1>2, <1>3
    <3>2. CASE i # s
      BY <3>2, <1>1, <1>2, <1>3 DEF SemaphoreHeld
    <3> QED
      BY <3>1, <3>2
  <2> QED
    BY <1>3, <2>1, <2>2 DEF SemaphoreHeld
<1> QED
  BY <1>1, <1>4, <1>5, <1>6

(* sem_post: only the poster was inside with its semaphore.                *)
LEMMA SemPostStep ==
  ASSUME SemInv, NEW r \in Readers, SemPost(r)
  PROVE  SemInv'
<1> USE DEF SemInv
<1> DEFINE s == sem[r]
<1>1. /\ RpcType' /\ rpc[r] = "post" /\ rpc'[r] = "sem"
      /\ \A q \in Readers \ {r} : rpc'[q] = rpc[q]
      /\ InSection(r) /\ ~ InSection(r)'
      /\ \A q \in Readers \ {r} : InSection(q)' <=> InSection(q)
      /\ UNCHANGED <<sem, semname, kills, stranded>>
  BY DEF SemPost, RpcType, InSection, hvars
<1>2. s \in 1..Len(semval) /\ semval[s] = 0 /\ s \notin stranded
      /\ \A q \in Readers \ {r} : InSection(q) => sem[q] # s
  BY <1>1 DEF SemOpened, SemaphoreHeld, SemType, Apart
<1>3. /\ Len(semval') = Len(semval) /\ semval'[s] = 1 /\ semval' \in Seq(Nat)
      /\ \A i \in 1..Len(semval) : i # s => semval'[i] = semval[i]
  BY <1>2 DEF SemPost, SemType
<1>4. SemType' /\ SemOpened' /\ OneName'
  BY <1>1, <1>3 DEF SemType, SemOpened, OneName
<1>5. Apart'
  BY <1>1 DEF Apart
<1>6. SemaphoreHeld'
  BY <1>1, <1>2, <1>3, SMTT(30) DEF SemaphoreHeld, SemType
<1> QED
  BY <1>1, <1>4, <1>5, <1>6

(* Ctrl-C: a semaphore held at that moment is 0 for ever.                  *)
LEMMA InterruptStep ==
  ASSUME SemInv, NEW r \in Readers, Interrupt(r)
  PROVE  SemInv'
<1> USE DEF SemInv
<1>1. /\ RpcType' /\ rpc'[r] = "off" /\ ~ InSection(r)'
      /\ \A q \in Readers \ {r} : rpc'[q] = rpc[q]
      /\ \A q \in Readers \ {r} : InSection(q)' <=> InSection(q)
      /\ UNCHANGED <<sem, semval>> /\ semname' = 0 /\ kills' = kills + 1
      /\ stranded' = IF InSection(r) THEN stranded \cup {sem[r]} ELSE stranded
  BY DEF Interrupt, RpcType, InSection
<1>2. InSection(r) => sem[r] \in 1..Len(semval)
                      /\ \A q \in Readers \ {r} : InSection(q) => sem[q] # sem[r]
  BY DEF SemaphoreHeld, Apart
<1>3. SemType' /\ SemOpened' /\ OneName'
  <2>1. SemType'
    <3>1. stranded' \subseteq 1..Len(semval)
      BY <1>1, <1>2 DEF SemType
    <3>2. 0 \in 0..Len(semval)
      BY DEF SemType
    <3> QED
      BY <1>1, <3>1, <3>2 DEF SemType
  <2> QED
    BY <2>1, <1>1 DEF SemOpened, OneName
<1>4. Apart'
  BY <1>1 DEF Apart
<1>5. SemaphoreHeld'
  <2>1. ASSUME NEW q \in Readers, InSection(q)'
        PROVE  sem'[q] \in (1..Len(semval')) \ stranded' /\ semval'[sem'[q]] = 0
    BY <1>1, <1>2, <2>1 DEF SemaphoreHeld
  <2>2. ASSUME NEW s \in 1..Len(semval')
        PROVE  /\ semval'[s] \in {0, 1}
               /\ semval'[s] = 0 <=> s \in stranded'
                                     \/ \E q \in Readers : InSection(q)' /\ sem'[q] = s
    <3>1. /\ semval[s] \in {0, 1}
          /\ semval[s] = 0 <=> s \in stranded
                               \/ \E q \in Readers : InSection(q) /\ sem[q] = s
      BY <1>1 DEF SemaphoreHeld
    <3> QED
      BY <1>1, <1>2, <3>1
  <2> QED
    BY <2>1, <2>2 DEF SemaphoreHeld
<1> QED
  BY <1>1, <1>3, <1>4, <1>5

\* In every reachable state a semaphore is 0 exactly while somebody is inside, or
\* was when interrupted.
LEMMA SemInvHolds == Spec => []SemInv
<1>1. Init => SemInv
  BY NewsAssumption DEF Init, NewsAssumption, SemInv, RpcType, SemType, SemOpened, Apart,
     OneName, SemaphoreHeld, InSection
<1>2. SemInv /\ [Next]_vars => SemInv'
  <2> SUFFICES ASSUME SemInv, [Next]_vars PROVE SemInv'
    OBVIOUS
  <2>1. ASSUME UNCHANGED semvars PROVE SemInv'
    BY <2>1, SemQuiet DEF semvars, SemInv, RpcType, InSection
  <2>2. CASE EditorSelect \/ EditorRead \/ EditorSend \/ SendFails
    BY <2>1, <2>2 DEF EditorSelect, EditorRead, EditorSend, SendFails, semvars, rvars, hvars
  <2>3. CASE ScreenOpen \/ ScreenSelect \/ ScreenRead
    BY <2>1, <2>3 DEF ScreenOpen, ScreenSelect, ScreenRead, semvars, rvars, hvars
  <2>4. ASSUME NEW i \in Reporters, WriteReport(i) PROVE SemInv'
    BY <2>1, <2>4 DEF WriteReport, semvars, rvars, hvars
  <2>5. ASSUME NEW r \in Readers, StartReader(r) \/ ReceiveNews(r) \/ WriteNews(r)
        PROVE  SemInv'
    <3>1. UNCHANGED <<sem, semval, semname, kills, stranded>>
      BY <2>5 DEF StartReader, ReceiveNews, WriteNews, hvars
    <3>2. rpc \in [Readers -> {"off", "open", "sem", "recv", "write", "post"}]
      BY DEF SemInv, RpcType
    <3>3. /\ RpcType'
          /\ \A q \in Readers : InSection(q)' <=> InSection(q)
          /\ \A q \in Readers : rpc'[q] \in {"sem", "recv", "write", "post"}
                              => rpc[q] \in {"sem", "recv", "write", "post"}
      <4>1. \/ rpc[r] = "off" /\ rpc' = [rpc EXCEPT ![r] = "open"]
            \/ rpc[r] = "recv" /\ rpc' = [rpc EXCEPT ![r] = "write"]
            \/ rpc[r] = "write" /\ rpc' = [rpc EXCEPT ![r] = "post"]
        BY <2>5 DEF StartReader, ReceiveNews, WriteNews
      <4> QED
        BY ONLY <3>2, <4>1 DEF RpcType, InSection
    <3>4. SemInv
      OBVIOUS
    <3> QED
      BY ONLY <3>1, <3>3, <3>4, SemQuiet, Zenon
  <2>6. ASSUME NEW r \in Readers, OpenReader(r) \/ SemWait(r) \/ SemPost(r) \/ Interrupt(r)
        PROVE  SemInv'
    BY <2>6, SemOpenStep, SemWaitStep, SemPostStep, InterruptStep
  <2>7. CASE UNCHANGED vars
    BY <2>1, <2>7 DEF vars, semvars, rvars, hvars
  <2> QED
    BY <2>2, <2>3, <2>4, <2>5, <2>6, <2>7 DEF Next
<1> QED
  BY <1>1, <1>2, PTL DEF Spec

(* A semaphore is 0 exactly while a newsreader is between its sem_wait and *)
(* its sem_post, or after one was interrupted there (newsreader.c 45-50).  *)
THEOREM SemaphoreTracksSection == Spec => []SemaphoreHeld
BY SemInvHolds, PTL DEF SemInv

(* Two newsreaders are in the critical section together only after a       *)
(* Ctrl-C has unlinked the name, and then never with the same semaphore.   *)
THEOREM MutualExclusion == Spec => []Exclusion
<1>1. SemInv => Exclusion
  <2> SUFFICES ASSUME SemInv, NEW r \in Readers, NEW q \in Readers, r # q,
                      InSection(r), InSection(q)
               PROVE  sem[r] # sem[q] /\ kills > 0
    BY DEF Exclusion
  <2>1. sem[r] # sem[q]
    BY DEF SemInv, Apart
  <2>2. sem[r] \in 1..Len(semval) /\ sem[q] \in 1..Len(semval)
    BY DEF SemInv, SemaphoreHeld
  <2>3. kills # 0
    BY <2>1, <2>2 DEF SemInv, OneName, SemType
  <2> QED
    BY <2>1, <2>3 DEF SemInv, OneName
<1> QED
  BY <1>1, SemInvHolds, PTL

-----------------------------------------------------------------------------
(* The parts of the type invariant, process by process.                    *)
QueueType == mq \in [Readers -> Seq(Seq(Piece))] /\ qnum \in Int
PipeType == pipe \in [Reporters -> Seq(Piece)] /\ nrep \in [Reporters -> Nat]
EditorType == /\ epc \in {"select", "scan", "send"}
              /\ ready \subseteq Reporters /\ (epc = "scan" => ready # {})
              /\ type \in {1, 2} /\ buf \in Seq(Piece) /\ msgid \in {"ok", "wild"}
ReaderType == /\ rpc \in [Readers -> {"off", "open", "sem", "recv", "write", "post"}]
              /\ hand \in [Readers -> Seq(Piece)]
ScreenType == /\ stage \in 1..4 /\ found \subseteq Readers /\ (stage = 4 => found # {})
              /\ sbuf \in Seq(Piece)
FifoType == fifo \in [Readers -> Seq(Piece)] /\ shown \in [Readers -> Seq(Piece)]
KillType == kills \in 0..MaxKills /\ lost \subseteq Piece
TInv == /\ QueueType /\ PipeType /\ EditorType /\ ReaderType
        /\ ScreenType /\ FifoType /\ KillType

(* A step of the editor, of a reporter, of a newsreader, of the screen.     *)
LEMMA EditorTypes ==
  ASSUME TInv, EditorSelect \/ EditorRead \/ EditorSend \/ SendFails
  PROVE  TInv'
<1> USE DEF TInv
<1>1. CASE EditorSelect
  BY <1>1 DEF EditorSelect, QueueType, PipeType, EditorType, ReaderType, ScreenType,
     FifoType, KillType, qvars, rvars, svars, hvars
<1>2. CASE EditorRead
  <2>1. PICK i \in ready : /\ buf' = Overlay(Chunk(pipe[i]), buf)
                           /\ pipe' = [pipe EXCEPT ![i] = Rest(@)]
                           /\ ready' = ready \ {i}
    BY <1>2 DEF EditorRead, LeastOf
  <2>2. i \in Reporters /\ pipe[i] \in Seq(Piece) /\ buf \in Seq(Piece)
    BY DEF EditorType, PipeType
  <2>3. buf' \in Seq(Piece) /\ Rest(pipe[i]) \in Seq(Piece)
    BY <2>1, <2>2, ChunkRest, OverlayPieces
  <2>4. PipeType' /\ EditorType'
    BY <1>2, <2>1, <2>2, <2>3 DEF EditorRead, PipeType, EditorType
  <2> QED
    BY <1>2, <2>4 DEF EditorRead, QueueType, ReaderType, ScreenType, FifoType, KillType,
       qvars, rvars, svars, hvars
<1>3. CASE EditorSend
  <2>1. type \in Readers /\ buf \in Seq(Piece)
    BY DEF EditorType
  <2>2. QueueType'
    BY <1>3, <2>1, SendQueue DEF EditorSend, QueueType
  <2>3. EditorType'
    BY <1>3 DEF EditorSend, EditorType, NextType
  <2> QED
    BY <1>3, <2>2, <2>3 DEF EditorSend, PipeType, ReaderType, ScreenType, FifoType,
       KillType, rvars, svars, hvars
<1>4. CASE SendFails
  <2>1. Fresh(buf) \subseteq Piece
    BY DEF EditorType, Fresh, ToSet
  <2>2. EditorType' /\ KillType'
    BY <1>4, <2>1 DEF SendFails, EditorType, KillType, NextType
  <2> QED
    BY <1>4, <2>2 DEF SendFails, QueueType, PipeType, ReaderType, ScreenType, FifoType,
       qvars, rvars, svars
<1> QED
  BY <1>1, <1>2, <1>3, <1>4

\* What a reporter writes are w pieces that follow on those it has written.
LEMMA NewPieces ==
  ASSUME TInv, NEW i \in Reporters, NEW w \in Nat
  PROVE  /\ NewReport(i, w) \in Seq(Piece) /\ DOMAIN NewReport(i, w) = 1..w
         /\ \A n \in 1..w : NewReport(i, w)[n] = NthPiece(i, nrep[i] + n)
         /\ \A n \in Nat : NthPiece(i, n) \in Piece
<1>1. \A n \in Nat : NthPiece(i, n) \in Piece
  BY DEF Piece, NthPiece
<1>2. \A n \in 1..w : nrep[i] + n \in Nat
  BY DEF TInv, PipeType
<1>3. /\ NewReport(i, w) = [n \in 1..w |-> NthPiece(i, nrep[i] + n)]
      /\ \A n \in 1..w : NthPiece(i, nrep[i] + n) \in Piece
  BY <1>1, <1>2 DEF NewReport
<1>4. NewReport(i, w) \in Seq(Piece)
  BY ONLY <1>3, w \in Nat
<1> QED
  BY <1>1, <1>3, <1>4

\* A reporter's write keeps the types,
LEMMA ReporterTypes ==
  ASSUME TInv, NEW i \in Reporters, WriteReport(i)
  PROVE  TInv'
<1> USE DEF TInv
<1>1. PICK w \in Nat : /\ nrep' = [nrep EXCEPT ![i] = @ + w]
                      /\ pipe' = [pipe EXCEPT ![i] = @ \o NewReport(i, w)]
  BY NewsAssumption DEF NewsAssumption, WriteReport
<1>2. pipe[i] \o NewReport(i, w) \in Seq(Piece)
  BY NewPieces DEF PipeType
<1>3. PipeType'
  BY <1>1, <1>2 DEF PipeType
<1> QED
  BY <1>3 DEF WriteReport, QueueType, EditorType, ReaderType, ScreenType, FifoType,
     KillType, qvars, evars, rvars, svars, hvars

\* a newsreader's steps do,
LEMMA NewsreaderTypes ==
  ASSUME TInv, NEW r \in Readers,
         \/ StartReader(r) \/ OpenReader(r) \/ SemWait(r) \/ ReceiveNews(r)
         \/ WriteNews(r) \/ SemPost(r) \/ Interrupt(r)
  PROVE  TInv'
<1> USE DEF TInv
<1>1. CASE StartReader(r) \/ OpenReader(r) \/ SemWait(r) \/ SemPost(r)
  <2>1. ReaderType'
    BY <1>1 DEF ReaderType, StartReader, OpenReader, SemWait, SemPost
  <2> QED
    BY <1>1, <2>1 DEF StartReader, OpenReader, SemWait, SemPost, QueueType, PipeType,
       EditorType, ScreenType, FifoType, KillType, qvars, evars, svars, hvars
<1>2. CASE ReceiveNews(r)
  <2>1. QueueType' /\ Head(mq[r]) \in Seq(Piece)
    BY <1>2, ReceiveQueue DEF ReceiveNews, QueueType
  <2>2. ReaderType'
    BY <1>2, <2>1 DEF ReceiveNews, ReaderType
  <2> QED
    BY <1>2, <2>1, <2>2 DEF ReceiveNews, PipeType, EditorType, ScreenType, FifoType,
       KillType, evars, svars, hvars
<1>3. CASE WriteNews(r)
  <2>1. fifo[r] \o hand[r] \in Seq(Piece) /\ <<>> \in Seq(Piece)
    BY DEF FifoType, ReaderType
  <2>2. FifoType' /\ ReaderType'
    BY <1>3, <2>1 DEF WriteNews, FifoType, ReaderType, svars
  <2> QED
    BY <1>3, <2>2 DEF WriteNews, QueueType, PipeType, EditorType, ScreenType, KillType,
       qvars, evars, svars, hvars
<1>4. CASE Interrupt(r)
  <2>1. kills + 1 \in 0..MaxKills
    BY <1>4, NewsAssumption DEF NewsAssumption, Interrupt, KillType
  <2>2. ToSet(hand[r]) \subseteq Piece
    BY DEF ReaderType, ToSet
  <2>3. KillType'
    BY <1>4, <2>1, <2>2 DEF Interrupt, KillType, Fresh
  <2>4. ReaderType'
    BY <1>4 DEF Interrupt, ReaderType
  <2> QED
    BY <1>4, <2>3, <2>4 DEF Interrupt, QueueType, PipeType, EditorType, ScreenType,
       FifoType, qvars, evars, svars
<1> QED
  BY <1>1, <1>2, <1>3, <1>4

\* and the screen's.
LEMMA ScreenTypes ==
  ASSUME TInv, ScreenOpen \/ ScreenSelect \/ ScreenRead
  PROVE  TInv'
<1> USE DEF TInv
<1>1. CASE ScreenOpen \/ ScreenSelect
  <2>1. ScreenType'
    BY <1>1 DEF ScreenOpen, ScreenSelect, ScreenType
  <2> QED
    BY <1>1, <2>1 DEF ScreenOpen, ScreenSelect, QueueType, PipeType, EditorType,
       ReaderType, FifoType, KillType, qvars, evars, rvars, hvars
<1>2. CASE ScreenRead
  <2>1. PICK r \in found : /\ sbuf' = Overlay(Chunk(fifo[r]), sbuf)
                           /\ shown' = [shown EXCEPT ![r] = @ \o Chunk(fifo[r])]
                           /\ fifo' = [fifo EXCEPT ![r] = Rest(@)]
                           /\ found' = found \ {r}
    BY <1>2 DEF ScreenRead, LeastOf
  <2>2. r \in Readers /\ fifo[r] \in Seq(Piece) /\ shown[r] \in Seq(Piece)
        /\ sbuf \in Seq(Piece)
    BY DEF ScreenType, FifoType
  <2>3. sbuf' \in Seq(Piece) /\ Rest(fifo[r]) \in Seq(Piece)
        /\ shown[r] \o Chunk(fifo[r]) \in Seq(Piece)
    BY <2>1, <2>2, ChunkRest, OverlayPieces
  <2>4. ScreenType'
    <3>1. found' \subseteq Readers
      BY <2>1 DEF ScreenType
    <3>2. stage' = IF found' = {} THEN 3 ELSE 4
      BY <1>2 DEF ScreenRead
    <3> QED
      BY <2>3, <3>1, <3>2 DEF ScreenType
  <2>5. FifoType'
    BY <2>1, <2>2, <2>3 DEF FifoType
  <2> QED
    BY <1>2, <2>4, <2>5 DEF ScreenRead, QueueType, PipeType, EditorType, ReaderType,
       KillType, qvars, evars, rvars, hvars
<1> QED
  BY <1>1, <1>2

\* Every reachable state has these types.
LEMMA TInvHolds == Spec => []TInv
<1>1. Init => TInv
  BY NewsAssumption DEF NewsAssumption, Init, TInv, QueueType, PipeType, EditorType,
     ReaderType, ScreenType, FifoType, KillType, msgget
<1>2. TInv /\ [Next]_vars => TInv'
  <2> SUFFICES ASSUME TInv, [Next]_vars PROVE TInv'
    OBVIOUS
  <2>1. CASE UNCHANGED vars
    BY <2>1 DEF TInv, vars, qvars, evars, rvars, svars, hvars, QueueType, PipeType,
       EditorType, ReaderType, ScreenType, FifoType, KillType
  <2> QED
    BY <2>1, EditorTypes, ReporterTypes, NewsreaderTypes, ScreenTypes DEF Next
<1> QED
  BY <1>1, <1>2, PTL DEF Spec

(* Every reachable state is well typed: no stream, buffer or message ever  *)
(* holds anything but reports, and select loops serve only what was found. *)
THEOREM TypeCorrect == Spec => []TypeOK
<1>1. TInv /\ SemInv => TypeOK
  BY DEF TInv, QueueType, PipeType, EditorType, ReaderType, ScreenType, FifoType,
     KillType, SemInv, SemType, TypeOK
<1> QED
  BY <1>1, TInvHolds, SemInvHolds, PTL

-----------------------------------------------------------------------------
(* Streams: the fresh reports of a concatenation, and its order.           *)
LEMMA FreshConcat ==
  ASSUME NEW s \in Seq(Piece), NEW t \in Seq(Piece)
  PROVE  /\ Fresh(s \o t) = Fresh(s) \cup Fresh(t)
         /\ Fresh(s) \subseteq Piece /\ Fresh(<<>>) = {}
<1>1. /\ Len(s) \in Nat /\ Len(t) \in Nat
      /\ DOMAIN s = 1..Len(s) /\ DOMAIN t = 1..Len(t)
      /\ DOMAIN (s \o t) = 1..Len(s) + Len(t)
      /\ \A i \in 1..Len(s) : (s \o t)[i] = s[i] /\ s[i] \in Piece
      /\ \A i \in 1..Len(t) : (s \o t)[Len(s) + i] = t[i]
      /\ \A i \in 1..Len(s) + Len(t) :
            i \in 1..Len(s) \/ (i - Len(s) \in 1..Len(t) /\ (s \o t)[i] = t[i - Len(s)])
  OBVIOUS
<1>2. \A x : x \in ToSet(s \o t) <=> x \in ToSet(s) \/ x \in ToSet(t)
  <2>1. ASSUME NEW x \in ToSet(s \o t) PROVE x \in ToSet(s) \/ x \in ToSet(t)
    <3>1. PICK i \in 1..Len(s) + Len(t) : x = (s \o t)[i]
      BY <1>1, <2>1 DEF ToSet
    <3> QED
      BY <1>1, <3>1 DEF ToSet
  <2>2. ASSUME NEW x \in ToSet(s) PROVE x \in ToSet(s \o t)
    <3>1. PICK i \in 1..Len(s) : x = s[i]
      BY <1>1, <2>2 DEF ToSet
    <3>2. i \in 1..Len(s) + Len(t)
      BY <1>1
    <3> QED
      BY <1>1, <3>1, <3>2 DEF ToSet
  <2>3. ASSUME NEW x \in ToSet(t) PROVE x \in ToSet(s \o t)
    <3>1. PICK i \in 1..Len(t) : x = t[i]
      BY <1>1, <2>3 DEF ToSet
    <3>2. Len(s) + i \in 1..Len(s) + Len(t)
      BY <1>1
    <3> QED
      BY <1>1, <3>1, <3>2 DEF ToSet
  <2> QED
    BY <2>1, <2>2, <2>3
<1>3. Fresh(s) \subseteq Piece /\ Fresh(<<>>) = {}
  BY <1>1 DEF Fresh, ToSet
<1> QED
  BY <1>2, <1>3 DEF Fresh

\* Joined streams rise if both do and the first lies below the second.
LEMMA RisingConcat ==
  ASSUME NEW s \in Seq(Piece), NEW t \in Seq(Piece)
  PROVE  Rising(s \o t) <=> Rising(s) /\ Rising(t) /\ Below(Fresh(s), Fresh(t))
<1> DEFINE u == s \o t
           l == Len(s)
<1>1. /\ l \in Nat /\ Len(t) \in Nat
      /\ DOMAIN s = 1..l /\ DOMAIN t = 1..Len(t) /\ DOMAIN u = 1..l + Len(t)
      /\ \A i \in 1..l : u[i] = s[i]
      /\ \A i \in 1..Len(t) : u[l + i] = t[i]
      /\ \A i \in 1..l + Len(t) : i <= l \/ (i - l \in 1..Len(t) /\ u[i] = t[i - l])
  OBVIOUS
<1> HIDE DEF u, l
<1>2. ASSUME Rising(u)
      PROVE  Rising(s) /\ Rising(t) /\ Below(Fresh(s), Fresh(t))
  <2>1. Rising(s)
    BY <1>1, <1>2 DEF Rising
  <2>2. Rising(t)
    <3> SUFFICES ASSUME NEW a \in 1..Len(t), NEW b \in 1..Len(t), a < b,
                        t[a].fresh, t[b].fresh, t[a].from = t[b].from
                 PROVE  t[a].k < t[b].k
      BY <1>1 DEF Rising
    <3>1. /\ l + a \in 1..l + Len(t) /\ l + b \in 1..l + Len(t) /\ l + a < l + b
          /\ u[l + a] = t[a] /\ u[l + b] = t[b]
      BY <1>1
    <3>2. \A x, y \in 1..l + Len(t) : x < y /\ u[x].fresh /\ u[y].fresh
                                         /\ u[x].from = u[y].from => u[x].k < u[y].k
      BY <1>1, <1>2 DEF Rising
    <3>3. u[l + a].k < u[l + b].k
      BY <3>1, <3>2
    <3> QED
      BY <3>1, <3>3
  <2>3. Below(Fresh(s), Fresh(t))
    <3> SUFFICES ASSUME NEW x \in Fresh(s), NEW y \in Fresh(t), x.from = y.from
                 PROVE  x.k < y.k
      BY DEF Below
    <3>1. PICK a \in 1..l : x = s[a] /\ s[a].fresh
      BY <1>1 DEF Fresh, ToSet
    <3>2. PICK b \in 1..Len(t) : y = t[b] /\ t[b].fresh
      BY <1>1 DEF Fresh, ToSet
    <3>3. /\ a \in 1..l + Len(t) /\ l + b \in 1..l + Len(t) /\ a < l + b
          /\ u[a] = s[a] /\ u[l + b] = t[b]
      BY <1>1
    <3> QED
      BY <1>1, <1>2, <3>1, <3>2, <3>3 DEF Rising
  <2> QED
    BY <2>1, <2>2, <2>3
<1>3. ASSUME Rising(s), Rising(t), Below(Fresh(s), Fresh(t))
      PROVE  Rising(u)
  <2> SUFFICES ASSUME NEW a \in 1..l + Len(t), NEW b \in 1..l + Len(t), a < b,
                      u[a].fresh, u[b].fresh, u[a].from = u[b].from
               PROVE  u[a].k < u[b].k
    BY <1>1 DEF Rising
  <2>1. CASE b <= l
    <3>1. a \in 1..l /\ b \in 1..l
      BY <1>1, <2>1
    <3> QED
      BY <1>1, <1>3, <3>1 DEF Rising
  <2>2. CASE a <= l /\ b > l
    <3>1. a \in 1..l /\ b - l \in 1..Len(t) /\ u[b] = t[b - l] /\ u[a] = s[a]
      BY <1>1, <2>2
    <3>2. u[a] \in Fresh(s) /\ u[b] \in Fresh(t)
      BY <1>1, <3>1 DEF Fresh, ToSet
    <3> QED
      BY <1>3, <3>2 DEF Below
  <2>3. CASE a > l
    <3>1. /\ a - l \in 1..Len(t) /\ u[a] = t[a - l] /\ a - l < b - l
          /\ b - l \in 1..Len(t) /\ u[b] = t[b - l]
      BY <1>1, <2>3
    <3>2. \A x, y \in 1..Len(t) : x < y /\ t[x].fresh /\ t[y].fresh
                                  /\ t[x].from = t[y].from => t[x].k < t[y].k
      BY <1>1, <1>3 DEF Rising
    <3>3. t[a - l].k < t[b - l].k
      BY <3>1, <3>2
    <3> QED
      BY <3>1, <3>3
  <2> QED
    BY <1>1, <2>1, <2>2, <2>3
<1> QED
  BY <1>2, <1>3 DEF u

\* A read takes a stream apart, and puts nothing fresh behind what it took.
LEMMA ReadSplits ==
  ASSUME NEW s \in Seq(Piece)
  PROVE  /\ Chunk(s) \in Seq(Piece) /\ Rest(s) \in Seq(Piece)
         /\ Chunk(s) \o Rest(s) = s
         /\ Fresh(Chunk(s)) \cup Fresh(Rest(s)) = Fresh(s)
         /\ Rising(s) => Rising(Chunk(s)) /\ Rising(Rest(s))
                         /\ Below(Fresh(Chunk(s)), Fresh(Rest(s)))
<1>1. Chunk(s) \in Seq(Piece) /\ Rest(s) \in Seq(Piece)
  BY ChunkRest
<1>2. Chunk(s) \o Rest(s) = s
  <2> DEFINE n == Lesser(Len(s), BufSlots)
  <2>1. n \in 0..Len(s) /\ Len(s) \in Nat
    BY NewsAssumption DEF Lesser, NewsAssumption
  <2> HIDE DEF n
  <2>2. SubSeq(s, 1, n) \o SubSeq(s, n + 1, Len(s)) = SubSeq(s, 1, Len(s))
    <3>1. 1 \in 1..Len(s) + 1 /\ n \in 1 - 1..Len(s) /\ Len(s) \in n..Len(s)
      BY <2>1
    <3> QED
      BY <3>1, ConcatAdjacentSubSeq
  <2>3. SubSeq(s, 1, Len(s)) = s
    BY SubSeqFull
  <2> QED
    BY <2>2, <2>3 DEF Chunk, Rest, n
<1> QED
  BY <1>1, <1>2, FreshConcat, RisingConcat

\* Leftovers are not fresh: they add no report to a buffer and change no order.
LEMMA OverlayFresh ==
  ASSUME NEW s \in Seq(Piece), NEW t \in Seq(Piece)
  PROVE  /\ Overlay(s, t) \in Seq(Piece)
         /\ Fresh(Overlay(s, t)) = Fresh(s)
         /\ Rising(s) => Rising(Overlay(s, t))
<1> DEFINE old == SubSeq(t, Len(s) + 1, Len(t))
           st == Stale(old)
<1>1. old \in Seq(Piece)
  <2>1. /\ Len(s) + 1 \in Int /\ Len(t) \in Int
        /\ \A i \in Len(s) + 1..Len(t) : t[i] \in Piece
    OBVIOUS
  <2> QED
    BY <2>1, SubSeqProperties
<1>s. \A x \in Piece : /\ [x EXCEPT !.fresh = FALSE] \in Piece
                        /\ ~[x EXCEPT !.fresh = FALSE].fresh
  BY DEF Piece
<1> HIDE DEF old
<1>2. /\ st \in Seq(Piece) /\ \A i \in DOMAIN st : ~st[i].fresh
  <2>1. \A i \in 1..Len(old) : /\ old[i] \in Piece
                               /\ [old[i] EXCEPT !.fresh = FALSE] \in Piece
                               /\ ~[old[i] EXCEPT !.fresh = FALSE].fresh
    BY <1>1, <1>s
  <2>2. Len(old) \in Nat
    BY <1>1
  <2>3. st = [i \in 1..Len(old) |-> [old[i] EXCEPT !.fresh = FALSE]]
    BY DEF Stale
  <2> HIDE DEF st
  <2>4. st \in Seq(Piece)
    BY <2>1, <2>2, <2>3
  <2> QED
    BY <2>1, <2>2, <2>3, <2>4
<1> HIDE DEF st
<1>3. Fresh(st) = {} /\ Rising(st)
  BY <1>2 DEF Fresh, ToSet, Rising
<1>4. Overlay(s, t) = s \o st
  BY DEF Overlay, st, old
<1>5. Below(Fresh(s), Fresh(st))
  BY <1>3 DEF Below
<1>6. s \o st \in Seq(Piece) /\ Fresh(s \o st) = Fresh(s)
  <2>1. st \in Seq(Piece)
    BY <1>2
  <2>2. Fresh(s \o st) = Fresh(s) \cup Fresh(st)
    BY <2>1, FreshConcat
  <2> QED
    BY <2>1, <2>2, <1>3
<1>7. Rising(s) => Rising(s \o st)
  BY <1>2, <1>3, <1>5, RisingConcat
<1> QED
  BY <1>4, <1>6, <1>7

-----------------------------------------------------------------------------
(* The inductive invariant of the order: along the route through r, from   *)
(* the screen back to the pipes, everything comes before what is behind it. *)
(* A pipe holds its own reporter's latest pieces, and a newsreader has    *)
(* empty hands but for the text it is about to write.                      *)
MessagesInOrder(r) ==
  \A m \in DOMAIN mq[r] :
    /\ Rising(mq[r][m])
    /\ Below(Fresh(Out(r)), Fresh(mq[r][m]))
    /\ \A n \in DOMAIN mq[r] : m < n => Below(Fresh(mq[r][m]), Fresh(mq[r][n]))
    /\ Below(Fresh(mq[r][m]), Fresh(Unsent))
    /\ \A i \in Reporters : Below(Fresh(mq[r][m]), Fresh(pipe[i]))
OutInOrder(r) ==
  /\ Rising(Out(r))
  /\ Below(Fresh(Out(r)), Fresh(Unsent))
  /\ \A i \in Reporters : Below(Fresh(Out(r)), Fresh(pipe[i]))
SourcesInOrder ==
  /\ Rising(Unsent)
  /\ \A i \in Reporters : Rising(pipe[i]) /\ Below(Fresh(Unsent), Fresh(pipe[i]))
OrderInv == SourcesInOrder /\ \A r \in Readers : OutInOrder(r) /\ MessagesInOrder(r)

PipesOwn == \A i \in Reporters : \A x \in Fresh(pipe[i]) : x.from = i
HandsEmpty == \A r \in Readers : rpc[r] # "write" => hand[r] = <<>>
(* Conservation, with the five places spelt out.                           *)
PlacesApart ==
  /\ InPipes \cup Fresh(Unsent) \cup OnRoute(1) \cup OnRoute(2) \cup lost = Written
  /\ OnRoute(1) \cap OnRoute(2) = {}
  /\ \A r \in Readers : OnRoute(r) \cap (InPipes \cup Fresh(Unsent) \cup lost) = {}
  /\ InPipes \cap (Fresh(Unsent) \cup lost) = {}
  /\ Fresh(Unsent) \cap lost = {}

\* What it takes to lose a piece.
LostCause == lost # {} => kills > 0 \/ msgid = "wild"

FlowInv == OrderInv /\ PlacesApart /\ PipesOwn /\ HandsEmpty

\* What the proofs below use of the types.
LEMMA Streams ==
  ASSUME TInv
  PROVE  /\ \A r \in Readers : /\ shown[r] \in Seq(Piece) /\ fifo[r] \in Seq(Piece)
                                /\ hand[r] \in Seq(Piece) /\ Out(r) \in Seq(Piece)
                                /\ mq[r] \in Seq(Seq(Piece))
                                /\ \A m \in DOMAIN mq[r] : mq[r][m] \in Seq(Piece)
         /\ \A i \in Reporters : pipe[i] \in Seq(Piece)
         /\ Unsent \in Seq(Piece) /\ buf \in Seq(Piece)
         /\ DOMAIN pipe = Reporters /\ DOMAIN mq = Readers
<1>1. \A r \in Readers : shown[r] \in Seq(Piece) /\ fifo[r] \in Seq(Piece)
                         /\ hand[r] \in Seq(Piece) /\ mq[r] \in Seq(Seq(Piece))
  BY DEF TInv, FifoType, ReaderType, QueueType
<1>2. /\ \A i \in Reporters : pipe[i] \in Seq(Piece)
      /\ Unsent \in Seq(Piece) /\ buf \in Seq(Piece)
      /\ DOMAIN pipe = Reporters /\ DOMAIN mq = Readers
  BY DEF TInv, PipeType, EditorType, QueueType, Unsent
<1> QED
  BY <1>1, <1>2 DEF Out

\* Two sequences joined.
LEMMA ConcatShape ==
  ASSUME NEW S, NEW s \in Seq(S), NEW t \in Seq(S)
  PROVE  /\ s \o t \in Seq(S)
         /\ Len(s \o t) = Len(s) + Len(t)
         /\ DOMAIN (s \o t) = 1..Len(s) + Len(t)
         /\ \A i \in 1..Len(s) : (s \o t)[i] = s[i]
         /\ \A i \in 1..Len(t) : (s \o t)[Len(s) + i] = t[i]
OBVIOUS

\* The parts of Line(r), one after the other, and what is in which.
LEMMA LineInOrder ==
  ASSUME TInv, OrderInv, PipesOwn
  PROVE  RouteOrder
<1> SUFFICES ASSUME NEW r \in Readers, NEW a \in DOMAIN Line(r), NEW b \in DOMAIN Line(r)
             PROVE  /\ Rising(Line(r)[a])
                    /\ a < b => Below(Fresh(Line(r)[a]), Fresh(Line(r)[b]))
  BY DEF RouteOrder
<1> DEFINE n == Len(mq[r])
           line == Line(r)
<1>1. /\ n \in Nat /\ DOMAIN mq[r] = 1..n /\ NReporters \in Nat
      /\ Reporters = 1..NReporters
  <2>1. mq[r] \in Seq(Seq(Piece))
    BY Streams
  <2>2. Len(mq[r]) \in Nat /\ DOMAIN mq[r] = 1..Len(mq[r])
    BY ONLY <2>1
  <2> QED
    BY <2>2, NewsAssumption DEF NewsAssumption, Reporters
<1>2. /\ DOMAIN line = 1..n + 2 + NReporters
      /\ line[1] = Out(r)
      /\ \A m \in 1..n : line[m + 1] = mq[r][m]
      /\ line[n + 2] = Unsent
      /\ \A i \in 1..NReporters : line[n + 2 + i] = pipe[i]
  <2> DEFINE one == <<Out(r)>>
             two == one \o mq[r]
             three == two \o <<Unsent>>
  <2>1. Out(r) \in Seq(Piece) /\ mq[r] \in Seq(Seq(Piece)) /\ Unsent \in Seq(Piece)
    BY Streams
  <2>2. /\ pipe \in Seq(Seq(Piece)) /\ Len(pipe) = NReporters
        /\ DOMAIN pipe = 1..NReporters
    <3>1. pipe \in [1..NReporters -> Seq(Piece)]
      BY <1>1 DEF TInv, PipeType
    <3> QED
      BY <1>1, <3>1
  <2>3. /\ two \in Seq(Seq(Piece)) /\ Len(two) = n + 1
        /\ two[1] = Out(r) /\ \A m \in 1..n : two[m + 1] = mq[r][m]
    BY <1>1, <2>1
  <2> HIDE DEF two, one
  <2>4. /\ three \in Seq(Seq(Piece)) /\ Len(three) = n + 2
        /\ \A m \in 1..n + 1 : three[m] = two[m]
        /\ three[n + 2] = Unsent
    <3>1. /\ <<Unsent>> \in Seq(Seq(Piece)) /\ Len(<<Unsent>>) = 1
          /\ <<Unsent>>[1] = Unsent /\ 1 \in 1..1
      BY <2>1
    <3>2. /\ three \in Seq(Seq(Piece)) /\ Len(three) = n + 1 + 1
          /\ \A m \in 1..n + 1 : three[m] = two[m]
          /\ three[n + 1 + 1] = Unsent
      <4> DEFINE last == <<Unsent>>
      <4>1. two \in Seq(Seq(Piece)) /\ last \in Seq(Seq(Piece)) /\ Len(last) = 1
        BY <2>3, <3>1
      <4>2. last[1] = Unsent /\ 1 \in 1..Len(last) /\ three = two \o last
        BY <3>1
      <4> HIDE DEF last, three
      <4>3. /\ two \o last \in Seq(Seq(Piece)) /\ Len(two \o last) = Len(two) + Len(last)
            /\ \A m \in 1..Len(two) : (two \o last)[m] = two[m]
            /\ \A m \in 1..Len(last) : (two \o last)[Len(two) + m] = last[m]
        BY ONLY <4>1, ConcatShape
      <4> QED
        BY <2>3, <4>1, <4>2, <4>3
    <3>3. n + 1 + 1 = n + 2
      BY <1>1
    <3> QED
      BY <3>2, <3>3
  <2> HIDE DEF three
  <2>5. /\ Len(three \o pipe) = n + 2 + NReporters
        /\ DOMAIN (three \o pipe) = 1..n + 2 + NReporters
        /\ \A m \in 1..n + 2 : (three \o pipe)[m] = three[m]
        /\ \A i \in 1..NReporters : (three \o pipe)[n + 2 + i] = pipe[i]
    <3>1. three \in Seq(Seq(Piece)) /\ pipe \in Seq(Seq(Piece))
      BY <2>2, <2>4
    <3>2. /\ Len(three \o pipe) = Len(three) + Len(pipe)
          /\ DOMAIN (three \o pipe) = 1..Len(three) + Len(pipe)
          /\ \A m \in 1..Len(three) : (three \o pipe)[m] = three[m]
          /\ \A i \in 1..Len(pipe) : (three \o pipe)[Len(three) + i] = pipe[i]
      BY ONLY <3>1, ConcatShape
    <3> QED
      BY <2>2, <2>4, <3>2
  <2>6. line = three \o pipe
    BY DEF Line, three, two, one
  <2>7. line[1] = Out(r) /\ line[n + 2] = Unsent
    <3>1. 1 \in 1..n + 1 /\ 1 \in 1..n + 2 /\ n + 2 \in 1..n + 2
      BY <1>1
    <3> QED
      BY <2>3, <2>4, <2>5, <2>6, <3>1
  <2>8. \A m \in 1..n : line[m + 1] = mq[r][m]
    <3>1. \A m \in 1..n : m + 1 \in 1..n + 1 /\ m + 1 \in 1..n + 2
      BY <1>1
    <3> QED
      BY <2>3, <2>4, <2>5, <2>6, <3>1
  <2> QED
    BY <2>5, <2>6, <2>7, <2>8
<1> HIDE DEF line, n
<1>3. \A c \in 1..n + 2 + NReporters :
        \/ c = 1
        \/ c - 1 \in 1..n /\ line[c] = mq[r][c - 1]
        \/ c = n + 2
        \/ c > n + 2 /\ c - (n + 2) \in Reporters /\ line[c] = pipe[c - (n + 2)]
  <2> SUFFICES ASSUME NEW c \in 1..n + 2 + NReporters, c # 1, c # n + 2
               PROVE  \/ c - 1 \in 1..n /\ line[c] = mq[r][c - 1]
                      \/ c > n + 2 /\ c - (n + 2) \in Reporters /\ line[c] = pipe[c - (n + 2)]
    OBVIOUS
  <2>1. CASE c < n + 2
    <3>1. c - 1 \in 1..n /\ c = (c - 1) + 1
      BY <1>1, <2>1
    <3> QED
      BY <1>2, <3>1
  <2>2. CASE c > n + 2
    <3>1. c - (n + 2) \in 1..NReporters /\ c = n + 2 + (c - (n + 2))
      BY <1>1, <2>2
    <3> QED
      BY <1>1, <1>2, <2>2, <3>1
  <2> QED
    BY <1>1, <2>1, <2>2
<1>4. /\ OutInOrder(r) /\ MessagesInOrder(r) /\ SourcesInOrder
      /\ a \in 1..n + 2 + NReporters /\ b \in 1..n + 2 + NReporters
  BY <1>2 DEF OrderInv, line
<1>5. Rising(line[a])
  BY <1>1, <1>2, <1>3, <1>4 DEF OutInOrder, MessagesInOrder, SourcesInOrder
<1>6. ASSUME a < b
      PROVE  Below(Fresh(line[a]), Fresh(line[b]))
  <2>1. CASE a = 1
    <3>1. b # 1
      BY <1>6, <2>1
    <3> QED
      BY <1>1, <1>2, <1>3, <1>4, <2>1, <3>1 DEF OutInOrder, MessagesInOrder
  <2>2. CASE a - 1 \in 1..n /\ line[a] = mq[r][a - 1]
    <3>1. CASE b - 1 \in 1..n /\ line[b] = mq[r][b - 1]
      <4>1. a - 1 < b - 1 /\ a - 1 \in DOMAIN mq[r] /\ b - 1 \in DOMAIN mq[r]
        BY <1>1, <1>4, <1>6, <2>2, <3>1
      <4> QED
        BY <1>4, <2>2, <3>1, <4>1 DEF MessagesInOrder
    <3>2. b # 1
      BY <1>1, <1>4, <1>6, <2>2
    <3> QED
      BY <1>1, <1>2, <1>3, <1>4, <2>2, <3>1, <3>2 DEF MessagesInOrder
  <2>3. CASE a = n + 2
    <3>1. b > n + 2 /\ b # 1 /\ b # n + 2 /\ ~(b - 1 \in 1..n)
      BY <1>1, <1>4, <1>6, <2>3
    <3> QED
      BY <1>2, <1>3, <1>4, <2>3, <3>1 DEF SourcesInOrder
  <2>4. CASE a > n + 2 /\ a - (n + 2) \in Reporters /\ line[a] = pipe[a - (n + 2)]
    <3>1. b > n + 2 /\ b # 1 /\ b # n + 2 /\ ~(b - 1 \in 1..n)
      BY <1>1, <1>4, <1>6, <2>4
    <3>2. b - (n + 2) \in Reporters /\ line[b] = pipe[b - (n + 2)]
      BY <1>3, <1>4, <3>1
    <3>3. a - (n + 2) # b - (n + 2)
      BY <1>1, <1>4, <1>6
    <3> QED
      BY <2>4, <3>2, <3>3 DEF PipesOwn, Below
  <2> QED
    BY <1>3, <1>4, <2>1, <2>2, <2>3, <2>4
<1> QED
  BY <1>5, <1>6 DEF line

-----------------------------------------------------------------------------
(* Conservation follows from its spelt out form.                           *)
LEMMA Apart5 == PlacesApart /\ LostCause => Conservation
<1> SUFFICES ASSUME PlacesApart, LostCause PROVE Conservation
  OBVIOUS
<1>1. /\ Places[1] = InPipes /\ Places[2] = Fresh(Unsent) /\ Places[3] = OnRoute(1)
      /\ Places[4] = OnRoute(2) /\ Places[5] = lost /\ 1..5 = {1, 2, 3, 4, 5}
  BY DEF Places
<1>2. UNION {Places[a] : a \in 1..5} = Written
  <2>1. UNION {Places[a] : a \in 1..5}
          = InPipes \cup Fresh(Unsent) \cup OnRoute(1) \cup OnRoute(2) \cup lost
    BY <1>1
  <2> QED
    BY <2>1 DEF PlacesApart
<1>3. ASSUME NEW a \in 1..5, NEW b \in 1..5, a # b
      PROVE  Places[a] \cap Places[b] = {}
  <2>1. /\ OnRoute(1) \cap (InPipes \cup Fresh(Unsent) \cup lost) = {}
        /\ OnRoute(2) \cap (InPipes \cup Fresh(Unsent) \cup lost) = {}
    BY DEF PlacesApart
  <2> DEFINE A == InPipes
             B == Fresh(Unsent)
             C == OnRoute(1)
             D == OnRoute(2)
             E == lost
  <2>2. /\ Places[1] = A /\ Places[2] = B /\ Places[3] = C
        /\ Places[4] = D /\ Places[5] = E
    BY <1>1
  <2>3. /\ A \cap (B \cup E) = {} /\ B \cap E = {} /\ C \cap D = {}
        /\ C \cap (A \cup B \cup E) = {} /\ D \cap (A \cup B \cup E) = {}
    BY <2>1 DEF PlacesApart
  <2> HIDE DEF A, B, C, D, E
  <2>4. /\ A \cap B = {} /\ A \cap C = {} /\ A \cap D = {} /\ A \cap E = {}
        /\ B \cap C = {} /\ B \cap D = {} /\ B \cap E = {}
        /\ C \cap D = {} /\ C \cap E = {} /\ D \cap E = {}
    BY <2>3
  <2>5. a \in {1, 2, 3, 4, 5} /\ b \in {1, 2, 3, 4, 5}
    BY <1>1
  <2> QED
    BY <1>3, <2>2, <2>4, <2>5, SMTT(30)
<1> QED
  BY <1>2, <1>3 DEF Conservation, LostCause

\* What comes before something is not the same.
LEMMA BelowApart ==
  ASSUME NEW S \in SUBSET Piece, NEW T, Below(S, T)
  PROVE  S \cap T = {}
<1> SUFFICES ASSUME NEW x \in S, x \in T PROVE FALSE
  OBVIOUS
<1>1. x.k \in Int /\ x.k < x.k
  BY DEF Below, Piece
<1> QED
  BY <1>1

\* Steps that move no report from one place to another.
LEMMA FlowKept ==
  ASSUME FlowInv, UNCHANGED <<mq, pipe, nrep, lost>>, Unsent' = Unsent,
         \A r \in Readers : Out(r)' = Out(r), HandsEmpty'
  PROVE  FlowInv'
<1>1. OrderInv'
  BY DEF FlowInv, OrderInv, SourcesInOrder, OutInOrder, MessagesInOrder
<1>2. /\ \A r \in Readers : OnRoute(r)' = OnRoute(r)
      /\ InPipes' = InPipes /\ Written' = Written /\ Fresh(Unsent)' = Fresh(Unsent)
  BY DEF OnRoute, InPipes, Written
<1>3. PlacesApart'
  BY <1>2 DEF FlowInv, PlacesApart
<1>4. PipesOwn'
  BY DEF FlowInv, PipesOwn
<1> QED
  BY <1>1, <1>3, <1>4 DEF FlowInv

\* Whatever is on its way has been written.
LEMMA AllWritten ==
  ASSUME TInv, PlacesApart
  PROVE  /\ \A r \in Readers : /\ Fresh(Out(r)) \subseteq Written
                                /\ \A m \in DOMAIN mq[r] : Fresh(mq[r][m]) \subseteq Written
         /\ \A i \in Reporters : Fresh(pipe[i]) \subseteq Written
         /\ Fresh(Unsent) \subseteq Written /\ Written \subseteq Piece
<1>1. \A r \in Readers : OnRoute(r) \subseteq Written
  BY DEF PlacesApart
<1>2. InPipes \subseteq Written /\ Fresh(Unsent) \subseteq Written
  BY DEF PlacesApart
<1>3. \A r \in Readers : /\ Fresh(Out(r)) \subseteq OnRoute(r)
                         /\ \A m \in DOMAIN mq[r] : Fresh(mq[r][m]) \subseteq OnRoute(r)
  BY DEF OnRoute
<1>4. \A i \in Reporters : Fresh(pipe[i]) \subseteq InPipes
  BY DEF InPipes
<1>5. Written \subseteq Piece
  <2> SUFFICES ASSUME NEW j \in Reporters, NEW n \in 1..nrep[j]
               PROVE  NthPiece(j, n) \in Piece
    BY DEF Written
  <2>1. n \in Nat
    OBVIOUS
  <2> QED
    BY <2>1 DEF NthPiece, Piece
<1> QED
  BY <1>1, <1>2, <1>3, <1>4, <1>5

(* A reporter's new report is its latest: nothing of it is ahead of it.    *)
LEMMA ReporterFlow ==
  ASSUME TInv, FlowInv, NEW i \in Reporters, WriteReport(i)
  PROVE  FlowInv'
<1>1. /\ UNCHANGED <<mq, lost, rpc, hand>> /\ Unsent' = Unsent
      /\ \A r \in Readers : Out(r)' = Out(r)
  BY DEF WriteReport, Unsent, Out, qvars, evars, rvars, svars, hvars
<1> PICK w \in Nat : /\ nrep' = [nrep EXCEPT ![i] = @ + w]
                     /\ pipe' = [pipe EXCEPT ![i] = @ \o NewReport(i, w)]
  BY NewsAssumption DEF NewsAssumption, WriteReport
<1> DEFINE new == NewReport(i, w)
           X == {NthPiece(i, n) : n \in nrep[i] + 1..nrep[i] + w}
<1>2. /\ nrep[i] \in Nat /\ nrep'[i] = nrep[i] + w
      /\ \A j \in Reporters \ {i} : nrep'[j] = nrep[j]
  BY DEF TInv, PipeType
<1>3. /\ new \in Seq(Piece) /\ DOMAIN new = 1..w
      /\ \A n \in 1..w : new[n] = NthPiece(i, nrep[i] + n)
      /\ \A n \in Nat : /\ NthPiece(i, n) \in Piece
                        /\ NthPiece(i, n).from = i /\ NthPiece(i, n).k = n
                        /\ NthPiece(i, n).fresh
  BY NewPieces DEF NthPiece
<1>4. /\ pipe'[i] = pipe[i] \o new /\ pipe[i] \in Seq(Piece)
      /\ \A j \in Reporters \ {i} : pipe'[j] = pipe[j]
  BY Streams
<1>x. /\ \A x \in X : x \in Piece /\ x.from = i /\ x.k > nrep[i] /\ x.fresh
      /\ Fresh(new) = X /\ Rising(new)
  <2> HIDE DEF new
  <2>1. ASSUME NEW x \in X PROVE x \in Piece /\ x.from = i /\ x.k > nrep[i] /\ x.fresh
    <3>1. PICK n \in nrep[i] + 1..nrep[i] + w : x = NthPiece(i, n)
      OBVIOUS
    <3>2. n \in Nat /\ n > nrep[i]
      BY <1>2
    <3> QED
      BY <1>3, <3>1, <3>2
  <2>2. ASSUME NEW x \in Fresh(new) PROVE x \in X
    <3>1. PICK n \in 1..w : x = new[n]
      BY <1>3 DEF Fresh, ToSet
    <3>2. nrep[i] + n \in nrep[i] + 1..nrep[i] + w
      BY <1>2
    <3> QED
      BY <1>3, <3>1, <3>2
  <2>3. ASSUME NEW x \in X PROVE x \in Fresh(new)
    <3>1. PICK m \in nrep[i] + 1..nrep[i] + w : x = NthPiece(i, m)
      OBVIOUS
    <3>2. m - nrep[i] \in 1..w /\ nrep[i] + (m - nrep[i]) = m
      BY <1>2
    <3>3. x = new[m - nrep[i]]
      BY <1>3, <3>1, <3>2
    <3> QED
      BY <1>3, <2>1, <3>2, <3>3 DEF Fresh, ToSet
  <2>4. Rising(new)
    <3> SUFFICES ASSUME NEW a \in 1..w, NEW b \in 1..w, a < b PROVE new[a].k < new[b].k
      BY <1>3 DEF Rising
    <3>1. nrep[i] + a \in Nat /\ nrep[i] + b \in Nat /\ nrep[i] + a < nrep[i] + b
      BY <1>2
    <3>2. new[a].k = nrep[i] + a /\ new[b].k = nrep[i] + b
      BY <1>3, <3>1
    <3> QED
      BY <3>1, <3>2
  <2> QED
    BY <2>1, <2>2, <2>3, <2>4
<1>5. /\ Fresh(pipe'[i]) = Fresh(pipe[i]) \cup X
      /\ Below(Fresh(pipe[i]), X) => (Rising(pipe[i]) => Rising(pipe'[i]))
  <2> HIDE DEF new, X
  <2> DEFINE all == pipe[i] \o new
  <2>1. Fresh(all) = Fresh(pipe[i]) \cup Fresh(new)
    BY ONLY <1>3, <1>4, FreshConcat
  <2>2. Rising(all) <=> Rising(pipe[i]) /\ Rising(new) /\ Below(Fresh(pipe[i]), Fresh(new))
    BY ONLY <1>3, <1>4, RisingConcat
  <2> QED
    BY <1>4, <1>x, <2>1, <2>2
<1>6. Written' = Written \cup X /\ Written \cap X = {}
  <2> DEFINE W(j) == {NthPiece(j, n) : n \in 1..nrep[j]}
  <2>1. Written = UNION {W(j) : j \in Reporters}
    BY DEF Written
  <2>2. Written' = UNION {{NthPiece(j, n) : n \in 1..nrep'[j]} : j \in Reporters}
    BY DEF Written
  <2>3. {NthPiece(i, n) : n \in 1..nrep'[i]} = W(i) \cup X
    <3>1. \A n : n \in 1..nrep'[i] <=> n \in 1..nrep[i] \/ n \in nrep[i] + 1..nrep[i] + w
      BY <1>2
    <3> QED
      BY <3>1
  <2>4. \A j \in Reporters \ {i} : {NthPiece(j, n) : n \in 1..nrep'[j]} = W(j)
    BY <1>2
  <2>5. Written' = Written \cup X
    <3>1. \A y : y \in Written' <=> \E j \in Reporters : y \in {NthPiece(j, n) : n \in 1..nrep'[j]}
      BY <2>2
    <3>2. \A y : y \in Written <=> \E j \in Reporters : y \in W(j)
      BY <2>1
    <3> HIDE DEF W, X
    <3>3. \A y : y \in Written' <=> y \in Written \/ y \in X
      BY <2>3, <2>4, <3>1, <3>2
    <3> QED
      BY <3>3
  <2>6. ASSUME NEW y \in Written, y \in X PROVE FALSE
    <3>1. y.from = i /\ y.k > nrep[i]
      BY <1>x, <2>6
    <3>2. PICK j \in Reporters : y \in W(j)
      BY <2>1
    <3>3. PICK n \in 1..nrep[j] : y = NthPiece(j, n)
      BY <3>2
    <3>4. y.from = j /\ y.k = n
      BY <3>3 DEF NthPiece
    <3> QED
      BY <1>2, <3>1, <3>3, <3>4
  <2> QED
    BY <2>5, <2>6
<1> HIDE DEF X, new
<1>7. \A S \in SUBSET Written : Below(S, X)
  <2> SUFFICES ASSUME NEW y \in Written, NEW x \in X, y.from = x.from PROVE y.k < x.k
    BY DEF Below
  <2>0. PICK j \in Reporters : y \in {NthPiece(j, n) : n \in 1..nrep[j]}
    BY DEF Written
  <2>1. PICK n \in 1..nrep[j] : y = NthPiece(j, n)
    BY <2>0
  <2>2. y.from = j /\ y.k = n
    BY <2>1 DEF NthPiece
  <2>3. x.from = i /\ x.k > nrep[i] /\ x.k \in Nat
    BY <1>x DEF Piece
  <2> QED
    BY <1>2, <2>1, <2>2, <2>3
<1>8. \A S \in SUBSET Written, j \in Reporters :
        Below(S, Fresh(pipe[j])) => Below(S, Fresh(pipe'[j]))
  <2> SUFFICES ASSUME NEW S \in SUBSET Written, Below(S, Fresh(pipe[i]))
               PROVE  Below(S, Fresh(pipe[i]) \cup X)
    BY <1>4, <1>5
  <2> QED
    BY <1>7 DEF Below
<1>9. OrderInv'
  <2>1. \A j \in Reporters : Rising(pipe'[j])
    BY <1>4, <1>5, <1>7, AllWritten DEF FlowInv, OrderInv, SourcesInOrder
  <2>2. SourcesInOrder'
    BY <1>1, <1>8, <2>1, AllWritten DEF FlowInv, OrderInv, SourcesInOrder
  <2>3. ASSUME NEW r \in Readers PROVE OutInOrder(r)' /\ MessagesInOrder(r)'
    BY <1>1, <1>8, AllWritten DEF FlowInv, OrderInv, OutInOrder, MessagesInOrder
  <2> QED
    BY <2>2, <2>3 DEF OrderInv
<1>10. PlacesApart'
  <2>1. InPipes' = InPipes \cup X
    BY <1>4, <1>5 DEF InPipes
  <2>2. /\ \A r \in Readers : OnRoute(r)' = OnRoute(r)
        /\ Fresh(Unsent)' = Fresh(Unsent) /\ lost' = lost
    BY <1>1 DEF OnRoute
  <2> QED
    BY <1>6, <2>1, <2>2 DEF FlowInv, PlacesApart
<1>11. PipesOwn' /\ HandsEmpty'
  BY <1>1, <1>x, <1>4, <1>5 DEF FlowInv, PipesOwn, HandsEmpty
<1> QED
  BY <1>9, <1>10, <1>11 DEF FlowInv

(* The editor takes the head of one pipe into an editor that held nothing. *)
LEMMA EditorReadFlow ==
  ASSUME TInv, FlowInv, EditorRead
  PROVE  FlowInv'
<1>1. PICK i \in ready : /\ buf' = Overlay(Chunk(pipe[i]), buf)
                         /\ pipe' = [pipe EXCEPT ![i] = Rest(@)]
  BY DEF EditorRead, LeastOf
<1> DEFINE c == Chunk(pipe[i])
<1>2. /\ i \in Reporters /\ pipe[i] \in Seq(Piece) /\ buf \in Seq(Piece)
      /\ pipe'[i] = Rest(pipe[i]) /\ \A j \in Reporters \ {i} : pipe'[j] = pipe[j]
  BY <1>1, Streams DEF TInv, EditorType
<1>3. /\ UNCHANGED <<mq, lost, rpc, hand, nrep>> /\ Unsent = <<>> /\ Unsent' = Overlay(c, buf)
      /\ \A r \in Readers : Out(r)' = Out(r)
  BY <1>1 DEF EditorRead, Unsent, Out, qvars, rvars, svars, hvars
<1>4. /\ c \in Seq(Piece) /\ Fresh(c) \cup Fresh(pipe'[i]) = Fresh(pipe[i])
      /\ Rising(c) /\ Rising(pipe'[i]) /\ Below(Fresh(c), Fresh(pipe'[i]))
  BY <1>2, ReadSplits DEF FlowInv, OrderInv, SourcesInOrder
<1>5. Fresh(Unsent') = Fresh(c) /\ Rising(Unsent') /\ Fresh(Unsent) = {}
  <2>1. Fresh(Overlay(c, buf)) = Fresh(c) /\ Rising(Overlay(c, buf))
    BY <1>2, <1>4, OverlayFresh
  <2>2. Fresh(<<>>) = {}
    BY DEF Fresh, ToSet
  <2> QED
    BY <1>3, <2>1, <2>2
<1> HIDE DEF c
<1>6. \A j \in Reporters : Fresh(pipe'[j]) \subseteq Fresh(pipe[j])
  BY <1>2, <1>4
<1>7. \A j \in Reporters : Below(Fresh(c), Fresh(pipe'[j]))
  <2> SUFFICES ASSUME NEW j \in Reporters \ {i} PROVE Below(Fresh(c), Fresh(pipe[j]))
    BY <1>2, <1>4
  <2> QED
    BY <1>2, <1>4 DEF FlowInv, PipesOwn, Below
<1>8. \A S : /\ Below(S, Fresh(pipe[i])) => Below(S, Fresh(Unsent'))
             /\ \A j \in Reporters : Below(S, Fresh(pipe[j])) => Below(S, Fresh(pipe'[j]))
  BY <1>4, <1>5, <1>6 DEF Below
<1>9. OrderInv'
  <2>1. SourcesInOrder'
    BY <1>2, <1>4, <1>5, <1>7 DEF FlowInv, OrderInv, SourcesInOrder
  <2>2. ASSUME NEW r \in Readers PROVE OutInOrder(r)' /\ MessagesInOrder(r)'
    <3>1. OutInOrder(r) /\ MessagesInOrder(r)
      BY DEF FlowInv, OrderInv
    <3>2. OutInOrder(r)'
      BY <1>2, <1>3, <1>8, <3>1 DEF OutInOrder
    <3>3. MessagesInOrder(r)'
      BY <1>2, <1>3, <1>8, <3>1 DEF MessagesInOrder
    <3> QED
      BY <3>2, <3>3
  <2> QED
    BY <2>1, <2>2 DEF OrderInv
<1>10. PlacesApart'
  <2>1. InPipes = InPipes' \cup Fresh(Unsent')
    BY <1>2, <1>4, <1>5 DEF InPipes
  <2>2. InPipes' \cap Fresh(Unsent') = {}
    <3>1. \A j \in Reporters : Fresh(pipe'[j]) \cap Fresh(c) = {}
      BY <1>4, <1>7, FreshConcat, BelowApart
    <3> QED
      BY <1>5, <3>1 DEF InPipes
  <2>3. /\ \A r \in Readers : OnRoute(r)' = OnRoute(r)
        /\ lost' = lost /\ Written' = Written
    BY <1>3 DEF OnRoute, Written
  <2> QED
    BY <1>5, <2>1, <2>2, <2>3 DEF FlowInv, PlacesApart
<1>11. PipesOwn' /\ HandsEmpty'
  BY <1>3, <1>6 DEF FlowInv, PipesOwn, HandsEmpty
<1> QED
  BY <1>9, <1>10, <1>11 DEF FlowInv

(* The editor's text goes behind the messages of its type.                 *)
LEMMA EditorSendFlow ==
  ASSUME TInv, FlowInv, EditorSend
  PROVE  FlowInv'
<1> PICK t \in Readers : t = type
  BY DEF TInv, EditorType
<1> DEFINE l == Len(mq[t])
<1>1. /\ UNCHANGED <<pipe, lost, rpc, hand, nrep>> /\ Unsent = buf /\ Unsent' = <<>>
      /\ \A r \in Readers : Out(r)' = Out(r)
      /\ mq' = [mq EXCEPT ![t] = Append(@, buf)]
  BY DEF EditorSend, msgsnd, Unsent, Out, rvars, svars, hvars
<1>2. /\ buf \in Seq(Piece) /\ mq[t] \in Seq(Seq(Piece))
      /\ \A r \in Readers \ {t} : mq'[r] = mq[r]
      /\ mq'[t] = Append(mq[t], buf)
  BY <1>1, Streams DEF TInv, EditorType
<1>3. /\ l \in Nat /\ DOMAIN mq[t] = 1..l /\ DOMAIN mq'[t] = 1..l + 1
      /\ mq'[t][l + 1] = buf
      /\ \A m \in 1..l : mq'[t][m] = mq[t][m]
      /\ \A m \in 1..l + 1 : m \in 1..l \/ m = l + 1
  BY ONLY <1>2
<1> HIDE DEF l
<1>4. Fresh(Unsent') = {} /\ Rising(Unsent')
  BY <1>1 DEF Fresh, ToSet, Rising
<1>5. \A S : Below(S, Fresh(Unsent')) /\ Below(Fresh(Unsent'), S)
  BY <1>4 DEF Below
<1>6. OrderInv'
  <2>1. SourcesInOrder'
    BY <1>1, <1>4, <1>5 DEF FlowInv, OrderInv, SourcesInOrder
  <2>2. ASSUME NEW r \in Readers PROVE OutInOrder(r)'
    BY <1>1, <1>5 DEF FlowInv, OrderInv, OutInOrder
  <2>3. ASSUME NEW r \in Readers, r # t PROVE MessagesInOrder(r)'
    BY <1>1, <1>2, <1>5, <2>3 DEF FlowInv, OrderInv, MessagesInOrder
  <2>4. MessagesInOrder(t)'
    <3>1. /\ MessagesInOrder(t) /\ OutInOrder(t) /\ SourcesInOrder
      BY <1>2 DEF FlowInv, OrderInv
    <3> SUFFICES ASSUME NEW m \in 1..l + 1
                 PROVE  /\ Rising(mq'[t][m])
                        /\ Below(Fresh(Out(t)), Fresh(mq'[t][m]))
                        /\ \A n \in 1..l + 1 : m < n =>
                              Below(Fresh(mq'[t][m]), Fresh(mq'[t][n]))
                        /\ \A i \in Reporters : Below(Fresh(mq'[t][m]), Fresh(pipe[i]))
      BY <1>1, <1>2, <1>3, <1>5 DEF MessagesInOrder
    <3>2. CASE m \in 1..l
      BY <1>1, <1>3, <3>1, <3>2 DEF MessagesInOrder
    <3>3. CASE m = l + 1
      <4>1. \A n \in 1..l + 1 : ~(m < n)
        BY <1>3, <3>3
      <4> QED
        BY <1>1, <1>3, <3>1, <3>3, <4>1 DEF OutInOrder, SourcesInOrder
    <3> QED
      BY <1>3, <3>2, <3>3
  <2> QED
    BY <2>1, <2>2, <2>3, <2>4 DEF OrderInv
<1>7. PlacesApart'
  <2>1. OnRoute(t)' = OnRoute(t) \cup Fresh(Unsent)
    <3>1. \A x : (\E m \in 1..l + 1 : x \in Fresh(mq'[t][m]))
                   <=> x \in Fresh(buf) \/ \E m \in 1..l : x \in Fresh(mq[t][m])
      <4>1. ASSUME NEW x, NEW m \in 1..l + 1, x \in Fresh(mq'[t][m])
            PROVE  x \in Fresh(buf) \/ \E n \in 1..l : x \in Fresh(mq[t][n])
        <5>1. CASE m \in 1..l
          BY <1>3, <4>1, <5>1
        <5>2. CASE m = l + 1
          BY <1>3, <4>1, <5>2
        <5> QED
          BY <1>3, <5>1, <5>2
      <4>2. ASSUME NEW x, NEW m \in 1..l, x \in Fresh(mq[t][m])
            PROVE  \E n \in 1..l + 1 : x \in Fresh(mq'[t][n])
        <5>1. m \in 1..l + 1 /\ mq'[t][m] = mq[t][m]
          BY <1>3
        <5> QED
          BY <4>2, <5>1
      <4>3. l + 1 \in 1..l + 1
        BY <1>3
      <4> QED
        BY <1>3, <4>1, <4>2, <4>3
    <3>2. \A x : x \in OnRoute(t)'
                   <=> x \in Fresh(Out(t)) \/ \E m \in 1..l + 1 : x \in Fresh(mq'[t][m])
      BY <1>1, <1>3 DEF OnRoute
    <3>3. \A x : x \in OnRoute(t)
                   <=> x \in Fresh(Out(t)) \/ \E m \in 1..l : x \in Fresh(mq[t][m])
      BY <1>3 DEF OnRoute
    <3>4. \A x : x \in OnRoute(t)' <=> x \in OnRoute(t) \/ x \in Fresh(Unsent)
      BY <1>1, <3>1, <3>2, <3>3
    <3> QED
      BY <3>4
  <2>2. \A r \in Readers : r # t => OnRoute(r)' = OnRoute(r)
    BY <1>1, <1>2 DEF OnRoute
  <2>3. lost' = lost /\ Written' = Written /\ InPipes' = InPipes /\ Fresh(Unsent)' = {}
    BY <1>1, <1>4 DEF Written, InPipes
  <2>4. CASE t = 1
    BY <2>1, <2>2, <2>3, <2>4 DEF FlowInv, PlacesApart
  <2>5. CASE t = 2
    BY <2>1, <2>2, <2>3, <2>5 DEF FlowInv, PlacesApart
  <2> QED
    BY <1>2, <2>4, <2>5
<1>8. PipesOwn' /\ HandsEmpty'
  BY <1>1 DEF FlowInv, PipesOwn, HandsEmpty
<1> QED
  BY <1>6, <1>7, <1>8 DEF FlowInv

(* A send that fails takes the editor's text, behind which nothing is, out  *)
(* of the routes.                                                          *)
LEMMA SendFailsFlow ==
  ASSUME TInv, FlowInv, SendFails
  PROVE  FlowInv'
<1>1. /\ UNCHANGED <<mq, pipe, nrep, rpc, hand>> /\ Unsent = buf /\ Unsent' = <<>>
      /\ \A r \in Readers : Out(r)' = Out(r)
      /\ lost' = lost \cup Fresh(buf)
  BY DEF SendFails, Unsent, Out, qvars, rvars, svars
<1>2. Fresh(Unsent') = {} /\ Rising(Unsent')
  BY <1>1 DEF Fresh, ToSet, Rising
<1>3. \A S : Below(S, Fresh(Unsent')) /\ Below(Fresh(Unsent'), S)
  BY <1>2 DEF Below
<1>4. OrderInv'
  BY <1>1, <1>2, <1>3 DEF FlowInv, OrderInv, SourcesInOrder, OutInOrder, MessagesInOrder
<1>5. /\ \A r \in Readers : OnRoute(r)' = OnRoute(r)
      /\ InPipes' = InPipes /\ Written' = Written /\ Fresh(Unsent)' = {}
      /\ lost' = lost \cup Fresh(Unsent)
  BY <1>1, <1>2 DEF OnRoute, InPipes, Written
<1>6. PlacesApart'
  BY <1>5 DEF FlowInv, PlacesApart
<1> QED
  BY <1>1, <1>4, <1>6 DEF FlowInv, PipesOwn, HandsEmpty

(* A newsreader takes its oldest message: what it passes on grows by it.   *)
LEMMA ReceiveFlow ==
  ASSUME TInv, FlowInv, NEW r \in Readers, ReceiveNews(r)
  PROVE  FlowInv'
<1> DEFINE h == Head(mq[r])
           l == Len(mq[r])
<1>1. /\ UNCHANGED <<pipe, lost, nrep, shown, fifo>> /\ Unsent' = Unsent
      /\ mq' = [mq EXCEPT ![r] = Tail(@)] /\ mq[r] # <<>>
      /\ rpc[r] = "recv" /\ rpc' = [rpc EXCEPT ![r] = "write"]
      /\ hand' = [hand EXCEPT ![r] = h]
  BY DEF ReceiveNews, msgrcv, Unsent, evars, svars, hvars
<1>2. /\ mq[r] \in Seq(Seq(Piece)) /\ \A q \in Readers \ {r} : mq'[q] = mq[q]
      /\ mq'[r] = Tail(mq[r])
  BY <1>1, Streams
<1>3. /\ l \in Nat \ {0} /\ DOMAIN mq[r] = 1..l /\ DOMAIN mq'[r] = 1..l - 1
      /\ mq[r][1] = h /\ h \in Seq(Piece) /\ 1 \in 1..l
      /\ \A m \in 1..l - 1 : mq'[r][m] = mq[r][m + 1] /\ m + 1 \in 1..l
      /\ \A m \in 1..l : m = 1 \/ (m - 1 \in 1..l - 1 /\ m = (m - 1) + 1)
  <2>1. mq[r] # <<>>
    BY <1>1
  <2> QED
    BY ONLY <1>2, <2>1
<1> HIDE DEF h, l
<1>4. /\ Out(r)' = Out(r) \o h /\ Out(r) \in Seq(Piece)
      /\ \A q \in Readers \ {r} : Out(q)' = Out(q)
  <2>1. shown[r] \in Seq(Piece) /\ fifo[r] \in Seq(Piece) /\ hand[r] = <<>>
    BY <1>1, Streams DEF FlowInv, HandsEmpty
  <2>2. hand'[r] = h /\ \A q \in Readers \ {r} : hand'[q] = hand[q]
    BY <1>1 DEF TInv, ReaderType
  <2>3. shown[r] \o fifo[r] \o <<>> = shown[r] \o fifo[r]
    BY ONLY <2>1
  <2>4. Out(r) = shown[r] \o fifo[r] /\ Out(r)' = shown[r] \o fifo[r] \o h
    BY <1>1, <2>1, <2>2, <2>3 DEF Out
  <2>5. \A q \in Readers \ {r} : Out(q)' = Out(q)
    BY <1>1, <2>2 DEF Out
  <2> QED
    BY <2>4, <2>5, Streams
<1>5. /\ Fresh(Out(r)') = Fresh(Out(r)) \cup Fresh(h)
      /\ Rising(Out(r)') <=> Rising(Out(r)) /\ Rising(h) /\ Below(Fresh(Out(r)), Fresh(h))
  BY <1>3, <1>4, FreshConcat, RisingConcat
<1>6. OutInOrder(r) /\ MessagesInOrder(r)
  BY DEF FlowInv, OrderInv
<1>7. OrderInv'
  <2>1. SourcesInOrder'
    BY <1>1 DEF FlowInv, OrderInv, SourcesInOrder
  <2>2. ASSUME NEW q \in Readers \ {r} PROVE OutInOrder(q)' /\ MessagesInOrder(q)'
    BY <1>1, <1>2, <1>4 DEF FlowInv, OrderInv, OutInOrder, MessagesInOrder
  <2>3. OutInOrder(r)'
    <3>1. /\ Rising(h) /\ Below(Fresh(Out(r)), Fresh(h)) /\ Below(Fresh(h), Fresh(Unsent))
          /\ \A i \in Reporters : Below(Fresh(h), Fresh(pipe[i]))
      BY <1>3, <1>6 DEF MessagesInOrder
    <3>2. \A T : Below(Fresh(Out(r)), T) /\ Below(Fresh(h), T) => Below(Fresh(Out(r)'), T)
      BY <1>5 DEF Below
    <3> QED
      BY <1>1, <1>5, <1>6, <3>1, <3>2 DEF OutInOrder
  <2>4. MessagesInOrder(r)'
    <3> SUFFICES ASSUME NEW m \in 1..l - 1
                 PROVE  /\ Rising(mq'[r][m])
                        /\ Below(Fresh(Out(r)'), Fresh(mq'[r][m]))
                        /\ \A n \in 1..l - 1 : m < n =>
                              Below(Fresh(mq'[r][m]), Fresh(mq'[r][n]))
                        /\ Below(Fresh(mq'[r][m]), Fresh(Unsent))
                        /\ \A i \in Reporters : Below(Fresh(mq'[r][m]), Fresh(pipe[i]))
      BY <1>1, <1>3 DEF MessagesInOrder
    <3>1. mq'[r][m] = mq[r][m + 1] /\ m + 1 \in 1..l /\ 1 < m + 1
      BY <1>3
    <3>2. Below(Fresh(Out(r)), Fresh(mq[r][m + 1])) /\ Below(Fresh(h), Fresh(mq[r][m + 1]))
      BY <1>3, <1>6, <3>1 DEF MessagesInOrder
    <3>3. Below(Fresh(Out(r)'), Fresh(mq'[r][m]))
      BY <1>5, <3>1, <3>2 DEF Below
    <3>4. ASSUME NEW n \in 1..l - 1, m < n
          PROVE  Below(Fresh(mq'[r][m]), Fresh(mq'[r][n]))
      <4>1. n + 1 \in 1..l /\ m + 1 < n + 1 /\ mq'[r][n] = mq[r][n + 1]
        BY <1>3, <3>4
      <4> QED
        BY <1>3, <1>6, <3>1, <4>1 DEF MessagesInOrder
    <3> QED
      BY <1>3, <1>6, <3>1, <3>3, <3>4 DEF MessagesInOrder
  <2> QED
    BY <2>1, <2>2, <2>3, <2>4 DEF OrderInv
<1>8. PlacesApart'
  <2>1. OnRoute(r)' = OnRoute(r)
    <3>1. \A x : (\E m \in 1..l : x \in Fresh(mq[r][m]))
                   <=> x \in Fresh(h) \/ \E m \in 1..l - 1 : x \in Fresh(mq'[r][m])
      <4>1. ASSUME NEW x, NEW m \in 1..l, x \in Fresh(mq[r][m])
            PROVE  x \in Fresh(h) \/ \E n \in 1..l - 1 : x \in Fresh(mq'[r][n])
        <5>1. CASE m = 1
          BY <1>3, <4>1, <5>1
        <5>2. CASE m - 1 \in 1..l - 1 /\ m = (m - 1) + 1
          <6>1. mq'[r][m - 1] = mq[r][m]
            BY <1>3, <5>2
          <6> QED
            BY <4>1, <5>2, <6>1
        <5> QED
          BY <1>3, <5>1, <5>2
      <4> QED
        BY <1>3, <4>1
    <3>2. OnRoute(r)' = Fresh(Out(r)') \cup UNION {Fresh(mq'[r][m]) : m \in 1..l - 1}
      BY <1>3 DEF OnRoute
    <3>3. OnRoute(r) = Fresh(Out(r)) \cup UNION {Fresh(mq[r][m]) : m \in 1..l}
      BY <1>3 DEF OnRoute
    <3> QED
      BY <1>5, <3>1, <3>2, <3>3
  <2>2. \A q \in Readers : OnRoute(q)' = OnRoute(q)
    <3>1. \A q \in Readers \ {r} : OnRoute(q)' = OnRoute(q)
      BY <1>2, <1>4 DEF OnRoute
    <3> QED
      BY <2>1, <3>1
  <2>3. /\ lost' = lost /\ Written' = Written /\ InPipes' = InPipes
        /\ Fresh(Unsent)' = Fresh(Unsent)
    BY <1>1 DEF Written, InPipes
  <2> QED
    BY <2>2, <2>3 DEF FlowInv, PlacesApart
<1>9. PipesOwn' /\ HandsEmpty'
  BY <1>1 DEF FlowInv, PipesOwn, HandsEmpty, TInv, ReaderType
<1> QED
  BY <1>7, <1>8, <1>9 DEF FlowInv

(* Ctrl-C: what the newsreader had in its hands, the end of what it passes *)
(* on, is lost.                                                            *)
LEMMA InterruptFlow ==
  ASSUME TInv, FlowInv, NEW r \in Readers, Interrupt(r)
  PROVE  FlowInv'
<1> DEFINE s == shown[r] \o fifo[r]
           h == hand[r]
<1>1. /\ UNCHANGED <<mq, pipe, nrep, shown, fifo>> /\ Unsent' = Unsent
      /\ rpc' = [rpc EXCEPT ![r] = "off"]
      /\ hand' = [hand EXCEPT ![r] = <<>>] /\ lost' = lost \cup Fresh(h)
  BY DEF Interrupt, Unsent, qvars, evars, svars
<1>2. /\ s \in Seq(Piece) /\ h \in Seq(Piece) /\ Out(r) = s \o h /\ Out(r)' = s
      /\ \A q \in Readers \ {r} : Out(q)' = Out(q)
  <2>1. shown[r] \in Seq(Piece) /\ fifo[r] \in Seq(Piece) /\ h \in Seq(Piece)
    BY Streams
  <2>2. hand'[r] = <<>> /\ \A q \in Readers \ {r} : hand'[q] = hand[q]
    BY <1>1 DEF TInv, ReaderType
  <2>3. s \in Seq(Piece) /\ s \o <<>> = s
    BY ONLY <2>1 DEF s
  <2>4. Out(r) = s \o h /\ Out(r)' = s \o <<>>
    BY <1>1, <2>2 DEF Out
  <2>5. \A q \in Readers \ {r} : Out(q)' = Out(q)
    BY <1>1, <2>2 DEF Out
  <2> QED
    BY <2>1, <2>3, <2>4, <2>5
<1> HIDE DEF s, h
<1>3. /\ Fresh(Out(r)) = Fresh(s) \cup Fresh(h) /\ Fresh(s) \subseteq Piece
      /\ Fresh(h) \subseteq Piece
      /\ Rising(s) /\ Below(Fresh(s), Fresh(h))
  <2>1. s \in Seq(Piece) /\ h \in Seq(Piece) /\ Rising(s \o h) /\ Out(r) = s \o h
    BY <1>2 DEF FlowInv, OrderInv, OutInOrder
  <2>2. /\ Fresh(s \o h) = Fresh(s) \cup Fresh(h)
        /\ Fresh(s) \subseteq Piece /\ Fresh(h) \subseteq Piece
    BY ONLY <2>1, FreshConcat
  <2>3. Rising(s) /\ Below(Fresh(s), Fresh(h))
    BY ONLY <2>1, RisingConcat
  <2> QED
    BY <2>1, <2>2, <2>3
<1>4. OrderInv'
  <2>1. SourcesInOrder'
    BY <1>1 DEF FlowInv, OrderInv, SourcesInOrder
  <2>2. ASSUME NEW q \in Readers \ {r} PROVE OutInOrder(q)' /\ MessagesInOrder(q)'
    BY <1>1, <1>2 DEF FlowInv, OrderInv, OutInOrder, MessagesInOrder
  <2>3. OutInOrder(r)' /\ MessagesInOrder(r)'
    <3>1. OutInOrder(r) /\ MessagesInOrder(r)
      BY DEF FlowInv, OrderInv
    <3>2. \A T : Below(Fresh(Out(r)), T) => Below(Fresh(s), T)
      BY <1>3 DEF Below
    <3>3. OutInOrder(r)'
      BY <1>1, <1>2, <1>3, <3>1, <3>2 DEF OutInOrder
    <3>4. MessagesInOrder(r)'
      BY <1>1, <1>2, <3>1, <3>2 DEF MessagesInOrder
    <3> QED
      BY <3>3, <3>4
  <2> QED
    BY <2>1, <2>2, <2>3 DEF OrderInv
<1>5. PlacesApart'
  <2> DEFINE M == UNION {Fresh(mq[r][m]) : m \in DOMAIN mq[r]}
  <2>1. OnRoute(r) = Fresh(s) \cup Fresh(h) \cup M /\ OnRoute(r)' = Fresh(s) \cup M
    BY <1>1, <1>2, <1>3 DEF OnRoute
  <2>2. Fresh(s) \cap Fresh(h) = {}
    BY <1>3, BelowApart
  <2>3. M \cap Fresh(h) = {}
    <3>1. \A m \in DOMAIN mq[r] : Below(Fresh(Out(r)), Fresh(mq[r][m]))
      BY DEF FlowInv, OrderInv, MessagesInOrder
    <3>2. \A m \in DOMAIN mq[r] : Below(Fresh(h), Fresh(mq[r][m]))
      BY <1>3, <3>1 DEF Below
    <3>3. \A m \in DOMAIN mq[r] : Fresh(h) \cap Fresh(mq[r][m]) = {}
      BY <1>3, <3>2, BelowApart
    <3> QED
      BY <3>3
  <2> HIDE DEF M
  <2>4. /\ OnRoute(r)' \cup Fresh(h) = OnRoute(r) /\ OnRoute(r)' \cap Fresh(h) = {}
        /\ \A q \in Readers : q # r => OnRoute(q)' = OnRoute(q)
    BY <1>1, <1>2, <2>1, <2>2, <2>3 DEF OnRoute
  <2>5. /\ Written' = Written /\ InPipes' = InPipes /\ Fresh(Unsent)' = Fresh(Unsent)
        /\ lost' = lost \cup Fresh(h)
    BY <1>1 DEF Written, InPipes
  <2>6. CASE r = 1
    BY <2>4, <2>5, <2>6 DEF FlowInv, PlacesApart
  <2>7. CASE r = 2
    BY <2>4, <2>5, <2>7 DEF FlowInv, PlacesApart
  <2> QED
    BY <2>6, <2>7
<1>6. PipesOwn' /\ HandsEmpty'
  BY <1>1 DEF FlowInv, PipesOwn, HandsEmpty, TInv, ReaderType
<1> QED
  BY <1>4, <1>5, <1>6 DEF FlowInv

\* Joining goes either way.
LEMMA StreamsConcat ==
  ASSUME NEW s \in Seq(Piece), NEW t \in Seq(Piece), NEW u \in Seq(Piece)
  PROVE  (s \o t) \o u = s \o (t \o u) /\ s \o (t \o u) \o <<>> = s \o t \o u
<1>1. (s \o t) \o u = s \o (t \o u)
  OBVIOUS
<1>2. s \o (t \o u) \in Seq(Piece)
  OBVIOUS
<1>3. s \o (t \o u) \o <<>> = s \o (t \o u)
  BY <1>2, ConcatEmptySeq, Zenon
<1> QED
  BY <1>1, <1>3

(* Writing into a FIFO and printing from it leave what a newsreader passes *)
(* on as it is.                                                            *)
LEMMA WriteNewsFlow ==
  ASSUME TInv, FlowInv, NEW r \in Readers, WriteNews(r)
  PROVE  FlowInv'
<1>1. /\ UNCHANGED <<mq, pipe, nrep, lost, shown>> /\ Unsent' = Unsent
      /\ fifo' = [fifo EXCEPT ![r] = @ \o hand[r]]
      /\ hand' = [hand EXCEPT ![r] = <<>>] /\ rpc' = [rpc EXCEPT ![r] = "post"]
  BY DEF WriteNews, Unsent, qvars, evars, svars, hvars
<1>2. /\ fifo'[r] = fifo[r] \o hand[r] /\ hand'[r] = <<>>
      /\ \A q \in Readers \ {r} : fifo'[q] = fifo[q] /\ hand'[q] = hand[q]
  BY <1>1 DEF TInv, FifoType, ReaderType
<1>3. Out(r)' = Out(r)
  <2>1. shown[r] \in Seq(Piece) /\ fifo[r] \in Seq(Piece) /\ hand[r] \in Seq(Piece)
    BY Streams
  <2>2. shown[r] \o (fifo[r] \o hand[r]) \o <<>> = shown[r] \o fifo[r] \o hand[r]
    BY <2>1, StreamsConcat
  <2> QED
    BY <1>1, <1>2, <2>2 DEF Out
<1>4. \A q \in Readers : Out(q)' = Out(q)
  BY <1>1, <1>2, <1>3 DEF Out
<1>5. HandsEmpty'
  BY <1>1, <1>2 DEF FlowInv, HandsEmpty, TInv, ReaderType
<1> QED
  BY <1>1, <1>4, <1>5, FlowKept

\* The screen's read moves reports from a FIFO to what is shown.
LEMMA ScreenReadFlow ==
  ASSUME TInv, FlowInv, ScreenRead
  PROVE  FlowInv'
<1>1. PICK r \in found : /\ shown' = [shown EXCEPT ![r] = @ \o Chunk(fifo[r])]
                         /\ fifo' = [fifo EXCEPT ![r] = Rest(@)]
  BY DEF ScreenRead, LeastOf
<1>2. /\ UNCHANGED <<mq, pipe, nrep, lost, hand, rpc>> /\ Unsent' = Unsent
      /\ r \in Readers
  BY DEF ScreenRead, Unsent, qvars, evars, rvars, hvars, TInv, ScreenType
<1>3. /\ shown'[r] = shown[r] \o Chunk(fifo[r]) /\ fifo'[r] = Rest(fifo[r])
      /\ \A q \in Readers \ {r} : shown'[q] = shown[q] /\ fifo'[q] = fifo[q]
  BY <1>1, <1>2 DEF TInv, FifoType
<1>4. Out(r)' = Out(r)
  <2>1. /\ shown[r] \in Seq(Piece) /\ Chunk(fifo[r]) \in Seq(Piece)
        /\ Rest(fifo[r]) \in Seq(Piece) /\ Chunk(fifo[r]) \o Rest(fifo[r]) = fifo[r]
    BY <1>2, Streams, ReadSplits
  <2>2. (shown[r] \o Chunk(fifo[r])) \o Rest(fifo[r])
          = shown[r] \o (Chunk(fifo[r]) \o Rest(fifo[r]))
    <3> DEFINE c == Chunk(fifo[r])
               d == Rest(fifo[r])
    <3>1. shown[r] \in Seq(Piece) /\ c \in Seq(Piece) /\ d \in Seq(Piece)
      BY <2>1
    <3> HIDE DEF c, d
    <3>2. (shown[r] \o c) \o d = shown[r] \o (c \o d)
      BY ONLY <3>1, StreamsConcat
    <3> QED
      BY <3>2 DEF c, d
  <2> QED
    BY <1>2, <1>3, <2>1, <2>2 DEF Out
<1>5. \A q \in Readers : Out(q)' = Out(q)
  BY <1>2, <1>3, <1>4 DEF Out
<1>6. HandsEmpty'
  BY <1>2 DEF FlowInv, HandsEmpty
<1> QED
  BY <1>2, <1>5, <1>6, FlowKept

\* The steps that touch no report at all.
LEMMA QuietFlow ==
  ASSUME TInv, FlowInv,
         \/ EditorSelect \/ ScreenOpen \/ ScreenSelect \/ UNCHANGED vars
         \/ \E r \in Readers : StartReader(r) \/ OpenReader(r) \/ SemWait(r) \/ SemPost(r)
  PROVE  FlowInv'
<1>1. CASE EditorSelect \/ ScreenOpen \/ ScreenSelect \/ UNCHANGED vars
  <2>1. /\ UNCHANGED <<mq, pipe, nrep, lost, shown, fifo, hand, rpc>>
        /\ UNCHANGED buf /\ (epc' = "send" <=> epc = "send")
    BY <1>1 DEF EditorSelect, ScreenOpen, ScreenSelect, vars, qvars, evars, rvars, svars,
       hvars
  <2>2. Unsent' = Unsent /\ (\A r \in Readers : Out(r)' = Out(r)) /\ HandsEmpty'
    BY <2>1 DEF Unsent, Out, FlowInv, HandsEmpty
  <2> QED
    BY <2>1, <2>2, FlowKept
<1>2. ASSUME NEW r \in Readers, StartReader(r) \/ OpenReader(r) \/ SemWait(r) \/ SemPost(r)
      PROVE  FlowInv'
  <2>1. /\ UNCHANGED <<mq, pipe, nrep, lost, shown, fifo, hand, buf, epc>>
        /\ rpc[r] # "write" /\ \A q \in Readers \ {r} : rpc'[q] = rpc[q]
    BY <1>2 DEF StartReader, OpenReader, SemWait, SemPost, TInv, ReaderType, qvars, evars,
       svars, hvars
  <2>2. Unsent' = Unsent /\ (\A q \in Readers : Out(q)' = Out(q)) /\ HandsEmpty'
    BY <2>1 DEF Unsent, Out, FlowInv, HandsEmpty
  <2> QED
    BY <2>1, <2>2, FlowKept
<1> QED
  BY <1>1, <1>2

\* No report is under way at the start.
LEMMA InitFlow ==
  ASSUME Init
  PROVE  FlowInv
<1>1. /\ mq = [r \in Readers |-> <<>>] /\ Unsent = <<>> /\ lost = {}
      /\ pipe = [i \in Reporters |-> <<>>] /\ nrep = [i \in Reporters |-> 0]
      /\ shown = [r \in Readers |-> <<>>] /\ fifo = [r \in Readers |-> <<>>]
      /\ hand = [r \in Readers |-> <<>>]
  BY DEF Init, Unsent, msgget
<1>2. \A r \in Readers : Out(r) = <<>> /\ mq[r] = <<>> /\ DOMAIN mq[r] = {}
  <2>1. <<>> \o <<>> = <<>>
    OBVIOUS
  <2> QED
    BY <1>1, <2>1 DEF Out
<1>3. Fresh(<<>>) = {} /\ Rising(<<>>) /\ \A S : Below({}, S)
  BY DEF Fresh, ToSet, Rising, Below
<1>4. OrderInv
  BY <1>1, <1>2, <1>3 DEF OrderInv, SourcesInOrder, OutInOrder, MessagesInOrder
<1>5. Written = {}
  BY <1>1 DEF Written
<1>6. InPipes = {} /\ \A r \in Readers : OnRoute(r) = {}
  BY <1>1, <1>2, <1>3 DEF InPipes, OnRoute
<1>7. PlacesApart
  BY <1>1, <1>3, <1>5, <1>6 DEF PlacesApart
<1> QED
  BY <1>1, <1>3, <1>4, <1>7 DEF FlowInv, PipesOwn, HandsEmpty

\* In every reachable state each piece is in one place, and each route in order.
LEMMA FlowInvHolds == Spec => [](TInv /\ FlowInv)
<1>1. FlowInv /\ TInv /\ [Next]_vars => FlowInv'
  BY ReporterFlow, EditorReadFlow, EditorSendFlow, SendFailsFlow, ReceiveFlow, InterruptFlow,
     WriteNewsFlow, ScreenReadFlow, QuietFlow DEF Next
<1> QED
  BY <1>1, InitFlow, TInvHolds, PTL DEF Spec

\* A piece is lost only by a Ctrl-C or by an editor with an overwritten id.
LEMMA LostCauseHolds == Spec => []LostCause
<1>1. Init => LostCause
  BY DEF Init, LostCause
<1>2. TInv /\ LostCause /\ [Next]_vars => LostCause'
  <2> SUFFICES ASSUME TInv, LostCause, [Next]_vars PROVE LostCause'
    OBVIOUS
  <2>1. CASE EditorRead
    BY <2>1 DEF EditorRead, LostCause, hvars
  <2>2. CASE SendFails
    BY <2>2 DEF SendFails, LostCause
  <2>3. ASSUME NEW r \in Readers, Interrupt(r) PROVE LostCause'
    BY <2>3 DEF Interrupt, LostCause, TInv, KillType
  <2>4. ASSUME UNCHANGED <<hvars, msgid>> PROVE LostCause'
    BY <2>4 DEF LostCause, hvars
  <2>5. CASE EditorSelect \/ EditorSend \/ ScreenOpen \/ ScreenSelect \/ ScreenRead
    BY <2>4, <2>5 DEF EditorSelect, EditorSend, ScreenOpen, ScreenSelect, ScreenRead, evars
  <2>6. ASSUME NEW i \in Reporters, WriteReport(i) PROVE LostCause'
    BY <2>4, <2>6 DEF WriteReport, evars
  <2>7. ASSUME NEW r \in Readers,
               \/ StartReader(r) \/ OpenReader(r) \/ SemWait(r) \/ ReceiveNews(r)
               \/ WriteNews(r) \/ SemPost(r)
        PROVE  LostCause'
    BY <2>4, <2>7 DEF StartReader, OpenReader, SemWait, ReceiveNews, WriteNews, SemPost, evars
  <2>8. CASE UNCHANGED vars
    BY <2>4, <2>8 DEF vars, evars
  <2> QED
    BY <2>1, <2>2, <2>3, <2>5, <2>6, <2>7, <2>8 DEF Next
<1> QED
  BY <1>1, <1>2, TInvHolds, PTL DEF Spec

(* Every piece of every report written is in one place only, and in one at *)
(* least: in a pipe, with the editor, with one of the newsreaders, or lost *)
(* with an interrupted newsreader or by an editor whose msg_id its strcpy  *)
(* has overwritten; whatever the lengths of the reports, and wherever in   *)
(* them the editor's and the screen's reads end.                           *)
THEOREM NothingVanishes == Spec => []Conservation
<1>1. FlowInv /\ LostCause => Conservation
  BY Apart5 DEF FlowInv
<1> QED
  BY <1>1, FlowInvHolds, LostCauseHolds, PTL

(* Along the route through one newsreader what one reporter has written is *)
(* in the order in which it was written, wherever reads cut the streams.   *)
THEOREM RoutesKeepOrder == Spec => []RouteOrder
<1>1. TInv /\ FlowInv => RouteOrder
  BY LineInOrder DEF FlowInv
<1> QED
  BY <1>1, FlowInvHolds, PTL

-----------------------------------------------------------------------------
(* que4 (copy) is the same pipeline, its newsreaders taking turns instead  *)
(* of a semaphore.  What follows is about that program, PingPong: its      *)
(* state has names of NewsPipeline's, and more.                            *)
CONSTANT MaxNews         \* bound: messages the editor sends
VARIABLES mq1, qnum1, nsent, ppc, cpc, sig, hpc, out   \* as in PingPong

PP == INSTANCE PingPong

USE QMaxAssumption DEF PP!NewsAssumption

(* Types in parts, as the proofs use them. *)
PPQType == mq \in [PP!Readers -> Seq(Nat)] /\ qnum \in Int
PPSType == mq1 \in [PP!Readers -> Seq(Nat)] /\ qnum1 \in Int /\ shown \in [PP!Readers -> Seq(Nat)]
PPEType == nsent \in 0..MaxNews /\ type \in PP!Readers
PPPType == /\ ppc \in {"fork", "signal", "kill", "spin"}
           /\ cpc \in {"none", "exec", "spin", "dead"}
           /\ sig \in [PP!Readers -> BOOLEAN]
           /\ hpc \in [PP!Readers -> {"idle", "recv", "send", "kill"}]
PPHType == hand \in [PP!Readers -> Nat] /\ out \in Seq(Nat)
PPTInv == PPQType /\ PPSType /\ PPEType /\ PPPType /\ PPHType

\* The parts are the type invariant.
LEMMA PPTypesOfParts ==
  ASSUME PP!NewsAssumption
  PROVE  PPTInv <=> PP!TypeOK
  BY DEF PPTInv, PPQType, PPSType, PPEType, PPPType, PPHType, PP!TypeOK

\* They hold at first ...
LEMMA PPInitTypes ==
  ASSUME PP!NewsAssumption
  PROVE  PP!Init => PPTInv
  BY DEF PP!Init, PP!msgget, PP!screenq!msgget, PPTInv, PPQType, PPSType, PPEType, PPPType, PPHType, PP!Readers

\* ... and after every step.
LEMMA PPTypesKept ==
  ASSUME PP!NewsAssumption
  PROVE  PPTInv /\ [PP!Next]_PP!vars => PPTInv'
<1> SUFFICES ASSUME PPTInv, [PP!Next]_PP!vars PROVE PPTInv'
  OBVIOUS
<1> USE DEF PPTInv, PPQType, PPSType, PPEType, PPPType, PPHType, PP!Readers
<1>1. CASE PP!EditorSend
  BY <1>1 DEF PP!EditorSend, PP!msgsnd, PP!NextType, PP!rvars
<1>2. CASE PP!Fork \/ PP!SetHandler \/ PP!FirstKill \/ PP!ChildReady
  BY <1>2 DEF PP!Fork, PP!SetHandler, PP!FirstKill, PP!ChildReady, PP!KillReader, PP!qvars, PP!evars
<1>3. ASSUME NEW r \in PP!Readers, PP!Deliver(r) \/ PP!PassTurn(r) PROVE PPTInv'
  <2>1. PPQType' /\ PPSType' /\ PPEType' /\ PPHType'
    BY <1>3 DEF PP!Deliver, PP!PassTurn, PP!KillReader, PP!qvars, PP!evars
  <2>2. sig' \in [PP!Readers -> BOOLEAN]
    <3>1. \/ UNCHANGED sig
          \/ \E q \in PP!Readers : sig' = [sig EXCEPT ![q] = TRUE] \/ sig' = [sig EXCEPT ![q] = FALSE]
      BY <1>3 DEF PP!Deliver, PP!PassTurn, PP!KillReader, PP!Other
    <3>2. sig \in [PP!Readers -> BOOLEAN]
      OBVIOUS
    <3>3. QED
      BY ONLY <3>1, <3>2, Zenon
  <2>3. hpc' = [hpc EXCEPT ![r] = "recv"] \/ hpc' = [hpc EXCEPT ![r] = "idle"]
    BY <1>3 DEF PP!Deliver, PP!PassTurn
  <2>4. ppc' = ppc /\ cpc' \in {cpc, "dead"}
    BY <1>3 DEF PP!Deliver, PP!PassTurn, PP!KillReader
  <2>5. PPPType'
    BY <2>2, <2>3, <2>4
  <2>6. QED
    BY ONLY <2>1, <2>5 DEF PPTInv
<1>4. ASSUME NEW r \in PP!Readers, PP!ReceiveNews(r) PROVE PPTInv'
  <2>1. mq[r] \in Seq(Nat) /\ mq[r] # <<>>
    BY ONLY <1>4, PPQType DEF PPQType, PP!ReceiveNews, PP!msgrcv
  <2>2. Head(mq[r]) \in Nat /\ Tail(mq[r]) \in Seq(Nat)
    BY ONLY <2>1
  <2>3. PPQType' /\ hand' \in [PP!Readers -> Nat]
    BY ONLY PPQType, PPHType, <1>4, <2>1, <2>2 DEF PPQType, PPHType, PP!ReceiveNews, PP!msgrcv
  <2>4. /\ UNCHANGED <<mq1, qnum1, shown, nsent, type, ppc, cpc, sig, out>>
        /\ hpc' = [hpc EXCEPT ![r] = "send"]
    BY ONLY <1>4 DEF PP!ReceiveNews, PP!evars
  <2>5. PPPType'
    BY ONLY <2>4, PPPType DEF PPPType
  <2>6. PPSType' /\ PPEType' /\ PPHType'
    BY <2>3, <2>4
  <2>7. QED
    BY ONLY <2>3, <2>5, <2>6 DEF PPTInv
<1>5. ASSUME NEW r \in PP!Readers, PP!PassOn(r) PROVE PPTInv'
  <2>1. hand[r] \in Nat
    OBVIOUS
  <2>2. PPSType'
    BY <1>5, <2>1 DEF PP!PassOn, PP!screenq!msgsnd
  <2>3. PPQType' /\ PPEType' /\ PPPType'
    BY <1>5 DEF PP!PassOn, PP!qvars, PP!evars
  <2>4. PPHType'
    BY <1>5, <2>1 DEF PP!PassOn
  <2>5. QED
    BY ONLY <2>2, <2>3, <2>4 DEF PPTInv
<1>6. ASSUME NEW r \in PP!Readers, PP!Show(r) PROVE PPTInv'
  <2>1. mq1[r] \in Seq(Nat) /\ mq1[r] # <<>>
    BY ONLY <1>6, PPSType DEF PPSType, PP!Show, PP!screenq!msgrcv
  <2>2. Head(mq1[r]) \in Nat /\ Tail(mq1[r]) \in Seq(Nat)
    BY <2>1
  <2>3. PPSType'
    BY ONLY PPSType, <1>6, <2>1, <2>2 DEF PPSType, PP!Show, PP!screenq!msgrcv
  <2>4. UNCHANGED <<mq, qnum, nsent, type, ppc, cpc, sig, hpc, hand, out>>
    BY ONLY <1>6 DEF PP!Show, PP!qvars, PP!evars, PP!rvars
  <2>6. PPPType'
    BY ONLY <2>4, PPPType DEF PPPType
  <2>7. PPQType' /\ PPEType' /\ PPHType'
    BY <2>4
  <2>5. QED
    BY ONLY <2>3, <2>6, <2>7 DEF PPTInv
<1>7. CASE UNCHANGED PP!vars
  BY <1>7 DEF PP!vars, PP!qvars, PP!evars, PP!rvars
<1>8. QED
  BY <1>1, <1>2, <1>3, <1>4, <1>5, <1>6, <1>7 DEF PP!Next

(* Every reachable state is well typed. *)
THEOREM PPTypeCorrect ==
  ASSUME PP!NewsAssumption
  PROVE  PP!Spec => []PP!TypeOK
<1>1. PP!Spec => []PPTInv
  BY PPInitTypes, PPTypesKept, PTL DEF PP!Spec
<1>2. QED
  BY <1>1, PPTypesOfParts, PTL

-----------------------------------------------------------------------------
(* What OneTurn needs besides: before the first signal nobody has the turn *)
(* and the child's life follows its parent's.                              *)
PPStartup == /\ ppc = "fork" <=> cpc = "none"
             /\ cpc = "dead" => ppc = "spin"
             /\ ppc # "spin" => \A r \in PP!Readers : ~PP!HasTurn(r)
             /\ ppc = "spin" /\ cpc = "exec" => FALSE
PPTurnInv == PPTInv /\ PPStartup /\ PP!OneTurn

\* Every step keeps it: the turn is with one newsreader, in one place.
LEMMA PPTurnKept ==
  ASSUME PP!NewsAssumption
  PROVE  PPTurnInv /\ [PP!Next]_PP!vars => PPTurnInv'
<1> SUFFICES ASSUME PPTurnInv, [PP!Next]_PP!vars PROVE (PPStartup /\ PP!OneTurn)'
  BY PPTypesKept DEF PPTurnInv
<1> USE DEF PPTurnInv, PPTInv, PPPType, PPStartup, PP!OneTurn, PP!HasTurn, PP!Readers
<1>1. CASE PP!EditorSend
  BY <1>1 DEF PP!EditorSend, PP!rvars
<1>2. CASE PP!Fork
  BY <1>2 DEF PP!Fork
<1>3. CASE PP!SetHandler
  BY <1>3 DEF PP!SetHandler
<1>4. CASE PP!FirstKill
  BY <1>4 DEF PP!FirstKill, PP!KillReader
<1>5. CASE PP!ChildReady
  BY <1>5 DEF PP!ChildReady
<1>6. ASSUME NEW r \in PP!Readers, PP!Deliver(r) PROVE (PPStartup /\ PP!OneTurn)'
  BY <1>6 DEF PP!Deliver
<1>7. ASSUME NEW r \in PP!Readers, PP!ReceiveNews(r) PROVE (PPStartup /\ PP!OneTurn)'
  BY <1>7 DEF PP!ReceiveNews
<1>8. ASSUME NEW r \in PP!Readers, PP!PassOn(r) PROVE (PPStartup /\ PP!OneTurn)'
  BY <1>8 DEF PP!PassOn
<1>9. ASSUME NEW r \in PP!Readers, PP!PassTurn(r) PROVE (PPStartup /\ PP!OneTurn)'
  BY <1>9 DEF PP!PassTurn, PP!KillReader, PP!Other
<1>10. ASSUME NEW r \in PP!Readers, PP!Show(r) PROVE (PPStartup /\ PP!OneTurn)'
  BY <1>10 DEF PP!Show, PP!rvars
<1>11. CASE UNCHANGED PP!vars
  BY <1>11 DEF PP!vars, PP!rvars
<1>12. QED
  BY <1>1, <1>2, <1>3, <1>4, <1>5, <1>6, <1>7, <1>8, <1>9, <1>10, <1>11 DEF PP!Next

\* And it holds at first.
LEMMA PPInitTurn ==
  ASSUME PP!NewsAssumption
  PROVE  PP!Init => PPTurnInv
  BY PPInitTypes DEF PP!Init, PPTurnInv, PPStartup, PP!OneTurn, PP!HasTurn, PP!Readers

(* The turn is never duplicated, merged with another or lost. *)
THEOREM PPTurnIsUnique ==
  ASSUME PP!NewsAssumption
  PROVE  PP!Spec => []PP!OneTurn
<1>1. PPTurnInv => PP!OneTurn
  BY DEF PPTurnInv
<1>2. QED
  BY <1>1, PPInitTurn, PPTurnKept, PTL DEF PP!Spec

-----------------------------------------------------------------------------
(* SwappedPairs: the number of messages newsreader r has received follows  *)
(* from the length of out, because the turns alternate; with it go the     *)
(* numbers still in its queue and the one in its hands.                    *)
PPTaken(r) == (Len(out) + r - 1) \div 2 + (IF hpc[r] = "send" THEN 1 ELSE 0)
PPSentOf(r) == (nsent + 2 - r) \div 2

PPEditorOrder == type = IF nsent % 2 = 0 THEN 1 ELSE 2
PPQueueOrder(r) == /\ Len(mq[r]) + PPTaken(r) = PPSentOf(r)
                   /\ \A i \in 1..Len(mq[r]) : mq[r][i] = 2 * (PPTaken(r) + i - 1) + r
PPTurnOrder(r) == /\ hpc[r] = "send" => hand[r] = 2 * (PPTaken(r) - 1) + r
                  /\ sig[r] \/ hpc[r] \in {"recv", "send"} => Len(out) % 2 = 2 - r
                  /\ hpc[r] = "kill" => Len(out) % 2 = r - 1
PPOutOrder == \A j \in 1..Len(out) : out[j] = IF j % 2 = 1 THEN j + 1 ELSE j - 1
PPOrders == /\ PPEditorOrder /\ PPOutOrder
            /\ \A r \in PP!Readers : PPQueueOrder(r) /\ PPTurnOrder(r)
            /\ ppc # "spin" => Len(out) = 0
PPOrderInv == PPTurnInv /\ PPOrders

\* It holds at first, when nothing is sent.
LEMMA PPInitOrder ==
  ASSUME PP!NewsAssumption
  PROVE  PP!Init => PPOrderInv
  BY PPInitTurn DEF PP!Init, PPOrderInv, PPOrders, PPEditorOrder, PPOutOrder, PPQueueOrder, PPTurnOrder,
                    PPTaken, PPSentOf, PP!msgget, PP!Readers

\* Every step keeps it: the types and the turns alternate alike.
LEMMA PPOrderKept ==
  ASSUME PP!NewsAssumption
  PROVE  PPOrderInv /\ [PP!Next]_PP!vars => PPOrderInv'
<1> SUFFICES ASSUME PPOrderInv, [PP!Next]_PP!vars PROVE PPOrders'
  BY PPTurnKept DEF PPOrderInv
<1> PPTInv /\ PPTInv' /\ PPTurnInv /\ PPTurnInv'
  BY PPTurnKept DEF PPOrderInv, PPTurnInv
<1>1. CASE PP!EditorSend
  <2> USE <1>1 DEF PP!EditorSend, PP!msgsnd, PP!rvars, PP!Readers
  <2>1. (PPEditorOrder /\ PPOutOrder /\ (ppc # "spin" => Len(out) = 0))'
    BY DEF PPOrderInv, PPOrders, PPEditorOrder, PPOutOrder, PP!NextType, PPTInv, PPEType
  <2>2. ASSUME NEW r \in PP!Readers PROVE PPTurnOrder(r)'
    BY DEF PPOrderInv, PPOrders, PPTurnOrder, PPTaken
  <2>3. ASSUME NEW r \in PP!Readers PROVE PPQueueOrder(r)'
    <3>1. PPTaken(r) \in Int /\ PPTaken(r)' = PPTaken(r)
      BY DEF PPTaken, PPTInv, PPHType
    <3>2. /\ Len(mq[r]) + PPTaken(r) = PPSentOf(r)
          /\ \A i \in 1..Len(mq[r]) : mq[r][i] = 2 * (PPTaken(r) + i - 1) + r
      BY DEF PPOrderInv, PPOrders, PPQueueOrder
    <3>3. CASE r # type
      <4>1. mq'[r] = mq[r]
        BY <3>3 DEF PPTInv, PPQType
      <4>2. PPSentOf(r)' = PPSentOf(r)
        BY <3>3 DEF PPOrderInv, PPOrders, PPEditorOrder, PPSentOf, PPTInv, PPEType
      <4>3. QED
        BY <3>1, <3>2, <4>1, <4>2 DEF PPQueueOrder
    <3>4. CASE r = type
      <4>1. mq'[r] = Append(mq[r], nsent + 1) /\ mq[r] \in Seq(Nat) /\ nsent \in Nat
        BY <3>4 DEF PPTInv, PPQType, PPEType
      <4>2. /\ Len(mq'[r]) = Len(mq[r]) + 1 /\ mq'[r][Len(mq[r]) + 1] = nsent + 1
            /\ \A i \in 1..Len(mq[r]) : mq'[r][i] = mq[r][i]
        BY ONLY <4>1
      <4>3. /\ PPSentOf(r) \in Int /\ PPSentOf(r)' = PPSentOf(r) + 1
            /\ 2 * PPSentOf(r) + r = nsent + 1
        <5>1. type = IF nsent % 2 = 0 THEN 1 ELSE 2
          BY DEF PPOrderInv, PPOrders, PPEditorOrder
        <5>2. CASE nsent % 2 = 0
          <6>1. r = 1 /\ nsent' = nsent + 1 /\ (nsent + 2) \div 2 = (nsent + 1) \div 2 + 1
                /\ 2 * ((nsent + 1) \div 2) + 1 = nsent + 1
            BY <3>4, <4>1, <5>1, <5>2
          <6>2. QED
            BY <4>1, <6>1 DEF PPSentOf
        <5>3. CASE nsent % 2 # 0
          <6>1. r = 2 /\ nsent' = nsent + 1 /\ (nsent + 1) \div 2 = nsent \div 2 + 1
                /\ 2 * (nsent \div 2) + 2 = nsent + 1
            BY <3>4, <4>1, <5>1, <5>3
          <6>2. QED
            BY <4>1, <6>1 DEF PPSentOf
        <5>4. QED
          BY <5>2, <5>3
      <4>4. Len(mq[r]) \in Nat /\ r \in Int
        BY <4>1
      <4>5. ASSUME NEW i \in 1..Len(mq'[r]) PROVE mq'[r][i] = 2 * (PPTaken(r) + i - 1) + r
        <5>1. CASE i = Len(mq[r]) + 1
          <6>1. PPTaken(r) + i - 1 = PPSentOf(r)
            BY <3>1, <3>2, <4>3, <4>4, <5>1
          <6>2. QED
            BY <4>2, <4>3, <5>1, <6>1
        <5>2. CASE i \in 1..Len(mq[r])
          BY <3>2, <4>2, <5>2
        <5>3. QED
          BY <4>2, <4>4, <5>1, <5>2
      <4>6. Len(mq'[r]) + PPTaken(r)' = PPSentOf(r)'
        <5>1. (Len(mq[r]) + 1) + PPTaken(r) = PPSentOf(r) + 1
          BY ONLY <3>1, <3>2, <4>3, <4>4
        <5>2. QED
          BY ONLY <3>1, <4>2, <4>3, <5>1
      <4>7. QED
        BY <3>1, <4>5, <4>6 DEF PPQueueOrder
    <3>5. QED
      BY <3>3, <3>4
  <2>4. QED
    BY <2>1, <2>2, <2>3 DEF PPOrders
<1>2. CASE PP!Fork \/ PP!SetHandler \/ PP!ChildReady \/ (\E r \in PP!Readers : PP!Show(r)) \/ UNCHANGED PP!vars
  BY <1>2 DEF PPOrderInv, PPOrders, PPEditorOrder, PPOutOrder, PPQueueOrder, PPTurnOrder, PPTaken, PPSentOf,
              PP!Fork, PP!SetHandler, PP!ChildReady, PP!Show, PP!vars, PP!qvars, PP!evars, PP!rvars
<1>3. CASE PP!FirstKill
  <2> USE <1>3 DEF PP!FirstKill, PP!KillReader, PP!qvars, PP!evars, PP!Readers
  <2>1. \A r \in PP!Readers : PPTurnOrder(r)'
    BY DEF PPOrderInv, PPOrders, PPTurnOrder, PPTaken, PPTInv, PPPType, PPHType
  <2>2. QED
    BY <2>1 DEF PPOrderInv, PPOrders, PPEditorOrder, PPOutOrder, PPQueueOrder, PPTaken, PPSentOf
<1>4. ASSUME NEW r \in PP!Readers, PP!Deliver(r) PROVE PPOrders'
  <2> USE <1>4 DEF PP!Deliver, PP!qvars, PP!evars, PP!Readers
  <2>1. \A q \in PP!Readers : PPTurnOrder(q)'
    BY DEF PPOrderInv, PPOrders, PPTurnOrder, PPTaken, PPTInv, PPPType, PPHType
  <2>2. \A q \in PP!Readers : PPTaken(q)' = PPTaken(q)
    BY DEF PPTaken, PPTInv, PPPType
  <2>3. QED
    BY <2>1, <2>2 DEF PPOrderInv, PPOrders, PPEditorOrder, PPOutOrder, PPQueueOrder, PPSentOf
<1>5. ASSUME NEW r \in PP!Readers, PP!ReceiveNews(r) PROVE PPOrders'
  <2> USE <1>5 DEF PP!ReceiveNews, PP!msgrcv, PP!evars, PP!Readers
  <2>1. PPTaken(r)' = PPTaken(r) + 1
    BY DEF PPTaken, PPTInv, PPPType, PPHType
  <2>2. \A q \in PP!Readers : q # r => PPTaken(q)' = PPTaken(q)
    BY DEF PPTaken, PPTInv, PPPType
  <2>3. PPTaken(r) \in Int
    BY DEF PPTaken, PPTInv, PPHType
  <2>4. Len(mq[r]) \in Nat \ {0} /\ Len(mq'[r]) = Len(mq[r]) - 1
        /\ \A i \in 1..Len(mq'[r]) : mq'[r][i] = mq[r][i + 1]
    BY DEF PPTInv, PPQType
  <2>a. /\ Len(mq[r]) + PPTaken(r) = PPSentOf(r)
        /\ \A i \in 1..Len(mq[r]) : mq[r][i] = 2 * (PPTaken(r) + i - 1) + r
    BY DEF PPOrderInv, PPOrders, PPQueueOrder
  <2>b. PPSentOf(r)' = PPSentOf(r)
    BY DEF PPSentOf
  <2>5. PPQueueOrder(r)'
    <3>1. (Len(mq[r]) + PPTaken(r))' = PPSentOf(r)'
      BY <2>1, <2>3, <2>4, <2>a, <2>b
    <3>2. ASSUME NEW i \in 1..Len(mq'[r]) PROVE mq'[r][i] = 2 * (PPTaken(r)' + i - 1) + r
      <4>1. i \in Int /\ i + 1 \in 1..Len(mq[r]) /\ mq'[r][i] = mq[r][i + 1]
        BY <2>4
      <4>2. mq[r][i + 1] = 2 * (PPTaken(r) + (i + 1) - 1) + r
        BY ONLY <2>a, <4>1
      <4>3. 2 * (PPTaken(r) + (i + 1) - 1) + r = 2 * ((PPTaken(r) + 1) + i - 1) + r
        BY ONLY <2>3, <4>1, r \in Int
      <4>4. QED
        BY <4>1, <4>2, <4>3, <2>1
    <3>3. QED
      BY <3>1, <3>2 DEF PPQueueOrder
  <2>6. \A q \in PP!Readers : q # r => PPQueueOrder(q)'
    BY <2>2 DEF PPOrderInv, PPOrders, PPQueueOrder, PPSentOf, PPTInv, PPQType
  <2>7. hand'[r] = 2 * PPTaken(r) + r
    <3>1. mq[r][1] = 2 * (PPTaken(r) + 1 - 1) + r
      <4>1. 1 \in 1..Len(mq[r])
        BY <2>4
      <4>2. QED
        BY ONLY <2>a, <4>1
    <3>2. QED
      BY <3>1, <2>3, <2>4 DEF PPTInv, PPQType, PPHType
  <2>8. \A q \in PP!Readers : PPTurnOrder(q)'
    BY <2>1, <2>2, <2>3, <2>7, SMTT(30) DEF PPOrderInv, PPOrders, PPTurnOrder, PPTInv, PPPType, PPHType
  <2>9. QED
    BY <2>5, <2>6, <2>8 DEF PPOrderInv, PPOrders, PPEditorOrder, PPOutOrder
<1>6. ASSUME NEW r \in PP!Readers, PP!PassOn(r) PROVE PPOrders'
  <2> USE <1>6 DEF PP!PassOn, PP!qvars, PP!evars, PP!Readers
  <2>1. Len(out') = Len(out) + 1 /\ Len(out) \in Nat
    BY DEF PPTInv, PPHType
  <2>2. Len(out) % 2 = 2 - r
    BY DEF PPOrderInv, PPOrders, PPTurnOrder
  <2>3. \A q \in PP!Readers : PPTaken(q)' = PPTaken(q)
    <3>1. ASSUME NEW q \in PP!Readers, q # r PROVE PPTaken(q)' = PPTaken(q)
      <4>1. (Len(out) + 1 + q - 1) \div 2 = (Len(out) + q - 1) \div 2
        BY <2>1, <2>2, <3>1
      <4>2. hpc'[q] = hpc[q]
        BY <3>1 DEF PPTInv, PPPType
      <4>3. QED
        BY <2>1, <4>1, <4>2 DEF PPTaken
    <3>2. PPTaken(r)' = PPTaken(r)
      <4>1. (Len(out) + 1 + r - 1) \div 2 = (Len(out) + r - 1) \div 2 + 1
        <5>1. CASE r = 1
          BY <2>1, <2>2, <5>1
        <5>2. CASE r = 2
          BY <2>1, <2>2, <5>2
        <5> QED
          BY <5>1, <5>2
      <4>2. hpc[r] = "send" /\ hpc'[r] = "kill"
        BY DEF PPTInv, PPPType
      <4>3. QED
        BY <2>1, <4>1, <4>2 DEF PPTaken
    <3>3. QED
      BY <3>1, <3>2
  <2>4. hand[r] = IF r = 2 THEN Len(out) + 2 ELSE Len(out)
    BY <2>1, <2>2, SMTT(30) DEF PPOrderInv, PPOrders, PPTurnOrder, PPTaken
  <2>5. PPOutOrder'
    <3>1. PPOutOrder /\ hand[r] \in Nat /\ out \in Seq(Nat) /\ out' = Append(out, hand[r])
      BY DEF PPOrderInv, PPOrders, PPTInv, PPHType
    <3>2. \A j \in 1..Len(out) : out'[j] = out[j]
      BY <3>1
    <3>3. out'[Len(out) + 1] = hand[r]
      BY <3>1
    <3>4. hand[r] = IF (Len(out) + 1) % 2 = 1 THEN Len(out) + 2 ELSE Len(out)
      BY <2>1, <2>2, <2>4
    <3>5. ASSUME NEW j \in 1..Len(out') PROVE out'[j] = IF j % 2 = 1 THEN j + 1 ELSE j - 1
      <4>1. CASE j = Len(out) + 1
        BY <2>1, <3>3, <3>4, <4>1
      <4>2. CASE j \in 1..Len(out)
        BY <4>2, <3>1, <3>2 DEF PPOutOrder
      <4>3. QED
        BY <2>1, <4>1, <4>2
    <3>6. QED
      BY <3>5 DEF PPOutOrder
  <2>6. \A q \in PP!Readers : PPTurnOrder(q)'
    BY <2>1, <2>2, <2>3 DEF PPOrderInv, PPOrders, PPTurnOrder, PPTurnInv, PP!OneTurn, PP!HasTurn, PPTInv, PPPType
  <2>7. ppc = "spin"
    BY DEF PPTurnInv, PPStartup, PP!HasTurn
  <2>8. QED
    BY <2>3, <2>5, <2>6, <2>7 DEF PPOrderInv, PPOrders, PPEditorOrder, PPQueueOrder, PPSentOf
<1>7. ASSUME NEW r \in PP!Readers, PP!PassTurn(r) PROVE PPOrders'
  <2> USE <1>7 DEF PP!PassTurn, PP!KillReader, PP!Other, PP!qvars, PP!evars, PP!Readers
  <2>1. \A q \in PP!Readers : PPTaken(q)' = PPTaken(q)
    BY DEF PPTaken, PPTInv, PPPType
  <2>2. \A q \in PP!Readers : PPTurnOrder(q)'
    BY <2>1 DEF PPOrderInv, PPOrders, PPTurnOrder, PPTurnInv, PP!OneTurn, PP!HasTurn, PPTInv, PPPType
  <2>3. QED
    BY <2>1, <2>2 DEF PPOrderInv, PPOrders, PPEditorOrder, PPOutOrder, PPQueueOrder, PPSentOf
<1>8. QED
  BY <1>1, <1>2, <1>3, <1>4, <1>5, <1>6, <1>7 DEF PP!Next

(* Each pair of messages reaches the screen's queue in reverse order. *)
THEOREM PPPairsSwapped ==
  ASSUME PP!NewsAssumption
  PROVE  PP!Spec => []PP!SwappedPairs
<1>1. PPOrderInv => PP!SwappedPairs
  BY DEF PPOrderInv, PPTurnInv, PPTInv, PPHType, PPOrders, PPOutOrder, PP!SwappedPairs
<1>2. QED
  BY <1>1, PPInitOrder, PPOrderKept, PTL DEF PP!Spec
=============================================================================
