---------------------------- MODULE Standby_proofs ----------------------------
(* Proofs about Standby, for any clients and bounds.                         *)
EXTENDS Standby, TLAPS

USE StandbyAssumption DEF StandbyAssumption, Conns, NoConn

(* The type invariant in parts, with bounds outside the function sets.     *)
CType == /\ nconn \in 0..MaxConns /\ closed \subseteq 1..nconn
         /\ conn \in [Clients -> Nat] /\ \A i \in Clients : conn[i] <= nconn
NType == nul \in [Clients -> BOOLEAN] /\ gone \subseteq Clients /\ words \in Nat
UType == up \in [Conns -> Nat] /\ down \in [Conns -> {"none", "switch", "read"}]
MType == /\ nacc \in 0..nconn /\ nsfd = (IF addrlen = "sane" THEN nacc ELSE NoConn) /\ maint \in {0, 1} /\ nmaint \in 0..MaxMaint
         /\ fds \subseteq 1..nacc /\ mthreads \subseteq 1..nacc
         /\ mserves \in [Conns -> Nat] /\ \A k \in Conns : mserves[k] <= nacc
BType == /\ handoff \subseteq 1..nacc /\ bnsfd \in 0..nacc /\ bthreads \subseteq 1..bnsfd
         /\ bserves \in [Conns -> Nat] /\ \A k \in Conns : bserves[k] <= bnsfd
TType == told \in [Conns -> Nat]
RType == mup \in BOOLEAN /\ bup \in BOOLEAN
SType == /\ stuck \subseteq Clients /\ mstuck \in BOOLEAN /\ blanks \in 0..MaxBlanks
         /\ addrlen \in {"negative", "sane"} /\ kills \in 0..MaxKills

\* The parts give the type invariant.
LEMMA Parts == CType /\ NType /\ UType /\ MType /\ BType /\ TType /\ RType /\ SType
               => TypeOK
<1> SUFFICES ASSUME CType, NType, UType, MType, BType, TType, RType, SType
             PROVE  TypeOK
  OBVIOUS
<1>1. conn \in [Clients -> 0..nconn]
  BY DEF CType
<1>2. mserves \in [Conns -> 0..nacc]
  BY DEF CType, MType
<1>3. bserves \in [Conns -> 0..bnsfd]
  BY DEF CType, MType, BType
<1> QED
  BY <1>1, <1>2, <1>3 DEF TypeOK, CType, NType, UType, MType, BType, TType, RType, SType

(* What the servers' shared variables and threads know of each other: what *)
(* is still on its way to the backup is later than all it has; threads     *)
(* that do not exist yet serve nobody.                                     *)
InOrder == /\ \A c \in handoff : c > bnsfd
           /\ \A k \in Conns \ mthreads : mserves[k] = NoConn
           /\ \A k \in Conns : k > bnsfd => bserves[k] = NoConn

(* A connection is one client's, until that client closes it.              *)
Private == /\ \A i \in Clients : conn[i] \notin closed
           /\ \A i, j \in Clients : conn[i] = conn[j] /\ conn[i] # NoConn => i = j

Shape == /\ CType /\ NType /\ UType /\ MType /\ BType /\ TType /\ RType /\ SType
         /\ InOrder /\ Private

\* A thread that receives takes at least one word, of one connection.
LEMMA TakeWordsTypes ==
  ASSUME UType, NEW c \in Conns, TakeWords(c)
  PROVE  /\ up' \in [Conns -> Nat] /\ up[c] > 0
         /\ \A d \in Conns : d # c => up'[d] = up[d]
<1>1. PICK n \in 1..up[c] : up' = [up EXCEPT ![c] = @ - n]
  BY DEF TakeWords
<1>2. up[c] \in Nat /\ up[c] - n \in Nat
  BY DEF UType
<1> QED
  BY <1>1, <1>2 DEF UType

(* The clients' steps.                                                     *)
LEMMA ConnectShape ==
  ASSUME Shape, NEW i \in Clients, Connect(i),
         closed' \subseteq closed \cup ({conn[i]} \ {NoConn})
  PROVE  CType' /\ Private' /\ nacc \in 0..nconn'
<1> USE DEF Shape
<1>1. nconn + 1 \in 1..MaxConns /\ nconn' = nconn + 1 /\ nconn \in Nat
      /\ conn' = [conn EXCEPT ![i] = nconn + 1] /\ nacc \in 0..nconn
  BY DEF Connect, CType, MType
<1>2. \A j \in Clients : conn[j] \in 0..nconn
  BY DEF CType
<1>3. closed' \subseteq 1..nconn
  <2>1. closed \subseteq 1..nconn
    BY DEF CType
  <2>2. {conn[i]} \ {NoConn} \subseteq 1..nconn
    BY <1>1, <1>2
  <2> QED
    BY <2>1, <2>2
<1>4. CType'
  BY <1>1, <1>2, <1>3 DEF CType
<1>5. \A j \in Clients : j # i => conn'[j] = conn[j]
  BY <1>1 DEF CType
<1>6. conn'[i] = nconn + 1
  BY <1>1 DEF CType
<1>7. Private'
  <2>1. \A j \in Clients : conn'[j] \notin closed'
    BY <1>1, <1>2, <1>3, <1>5, <1>6 DEF Private
  <2>2. \A j, k \in Clients : conn'[j] = conn'[k] /\ conn'[j] # NoConn => j = k
    BY <1>1, <1>2, <1>5, <1>6 DEF Private
  <2> QED
    BY <2>1, <2>2 DEF Private
<1> QED
  BY <1>1, <1>4, <1>7

\* A client that leaves its connection leaves nobody else's.
LEMMA LeaveShape ==
  ASSUME Shape, NEW i \in Clients, conn[i] # NoConn, Leave(i), nconn' = nconn
  PROVE  CType' /\ Private'
<1> USE DEF Shape
<1>1. /\ conn[i] \in 1..nconn /\ conn' = [conn EXCEPT ![i] = NoConn]
      /\ closed' = closed \cup {conn[i]}
  BY DEF Leave, CType
<1>2. CType'
  <2>1. /\ closed \cup {conn[i]} \subseteq 1..nconn
        /\ conn \in [Clients -> Nat] /\ \A j \in Clients : conn[j] <= nconn
    BY <1>1 DEF CType
  <2>2. /\ conn' \in [Clients -> Nat] /\ \A j \in Clients : conn'[j] <= nconn
    BY <1>1, <2>1 DEF CType
  <2> QED
    BY <1>1, <2>1, <2>2 DEF CType
<1>3. Private'
  <2>1. \A j \in Clients : j # i => conn'[j] = conn[j] /\ conn[j] # conn[i]
    BY <1>1 DEF CType, Private
  <2>2. conn'[i] = NoConn
    BY <1>1 DEF CType
  <2>3. NoConn \notin closed'
    BY <1>1 DEF CType
  <2> QED
    BY <1>1, <2>1, <2>2, <2>3 DEF Private
<1> QED
  BY <1>2, <1>3

\* The clients' steps keep the shape.
LEMMA ClientShape ==
  ASSUME Shape, NEW i \in Clients,
         \/ StartClient(i) \/ TypeWord(i) \/ ReadSwitch(i) \/ KillClient(i)
         \/ TypeInVain(i) \/ BlankLine(i)
  PROVE  Shape'
<1> USE DEF Shape
<1>1. SType'
  <2>1. /\ mstuck' = mstuck /\ addrlen' = addrlen
        /\ \/ stuck' \in {stuck, stuck \ {i}} /\ blanks' = blanks
           \/ stuck' = stuck \cup {i} /\ blanks' = blanks + 1 /\ blanks < MaxBlanks
        /\ kills' = kills \/ (kills < MaxKills /\ kills' = kills + 1)
    BY DEF StartClient, TypeWord, ReadSwitch, KillClient, TypeInVain, BlankLine, faults
  <2> QED
    BY <2>1 DEF SType
<1>2. UNCHANGED <<mvars, handoff, bvars, running, addrlen, told>>
  BY DEF StartClient, TypeWord, ReadSwitch, KillClient, TypeInVain, BlankLine, faults
<1>3. BType' /\ TType' /\ InOrder' /\ RType'
  BY <1>2 DEF BType, TType, RType, InOrder, mvars, bvars, running
<1>4. CASE StartClient(i)
  <2>1. CType' /\ Private' /\ nacc \in 0..nconn'
    <3>1. Connect(i) /\ closed' = closed
      BY <1>4 DEF StartClient
    <3> QED
      BY <3>1, ConnectShape
  <2>2. MType'
    BY <1>2, <2>1 DEF MType, mvars
  <2>3. NType' /\ UType'
    BY <1>4 DEF StartClient, NType, UType
  <2> QED
    BY <1>1, <1>3, <2>1, <2>2, <2>3
<1>5. CASE TypeWord(i)
  <2>1. CType' /\ Private' /\ MType'
    BY <1>2, <1>5 DEF TypeWord, CType, Private, MType, mvars
  <2>2. conn[i] \in Conns
    BY <1>5 DEF TypeWord, CType
  <2>3. UType'
    <3>1. up[conn[i]] + 1 \in Nat /\ down' = down
      BY <1>5, <2>2 DEF TypeWord, UType
    <3>2. up' = up \/ up' = [up EXCEPT ![conn[i]] = @ + 1]
      BY <1>5 DEF TypeWord
    <3> QED
      BY <3>1, <3>2 DEF UType
  <2>4. nul' \in [Clients -> BOOLEAN]
    <3>1. nul \in [Clients -> BOOLEAN]
      BY DEF NType
    <3>2. nul' = [nul EXCEPT ![i] = TRUE] \/ nul' = [nul EXCEPT ![i] = FALSE] \/ nul' = nul
      BY <1>5 DEF TypeWord
    <3> QED
      BY <3>1, <3>2, Zenon
  <2>5. gone' = gone /\ words' = words + 1
    BY <1>5 DEF TypeWord
  <2>6. NType'
    BY <2>4, <2>5 DEF NType
  <2> QED
    BY <1>1, <1>3, <2>1, <2>3, <2>6
<1>6. CASE ReadSwitch(i)
  <2>1. NType'
    BY <1>6 DEF ReadSwitch, NType
  <2>2. UType'
    BY <1>6 DEF ReadSwitch, UType
  <2>3. CASE closed' = closed \cup {conn[i]} /\ Connect(i)
    <3>1. CType' /\ Private' /\ nacc \in 0..nconn'
      <4>1. Connect(i) /\ closed' \subseteq closed \cup ({conn[i]} \ {NoConn})
        BY <1>6, <2>3 DEF ReadSwitch
      <4> QED
        BY <4>1, ConnectShape
    <3>2. MType'
      BY <1>2, <3>1 DEF MType, mvars
    <3> QED
      BY <1>1, <1>3, <2>1, <2>2, <3>1, <3>2
  <2>4. CASE UNCHANGED <<closed, conn, nconn>>
    <3>1. CType' /\ Private' /\ MType'
      BY <1>2, <2>4 DEF CType, Private, MType, mvars
    <3> QED
      BY <1>1, <1>3, <2>1, <2>2, <3>1
  <2>5. CASE conn[i] # NoConn /\ Leave(i) /\ UNCHANGED nconn
    <3>1. CType' /\ Private'
      BY <2>5, LeaveShape
    <3>2. MType'
      BY <1>2, <2>5 DEF MType, mvars
    <3> QED
      BY <1>1, <1>3, <2>1, <2>2, <3>1, <3>2
  <2> QED
    BY <1>6, <2>3, <2>4, <2>5 DEF ReadSwitch
<1>7. CASE KillClient(i) \/ TypeInVain(i)
  <2>1. /\ conn[i] # NoConn /\ Leave(i) /\ nconn' = nconn /\ gone' = gone \cup {i}
        /\ nul' = nul /\ words' \in {words, words + 1} /\ up' = up /\ down' = down
    BY <1>7 DEF KillClient, TypeInVain
  <2>2. CType' /\ Private'
    BY <2>1, LeaveShape
  <2>3. NType' /\ UType' /\ MType'
    BY <1>2, <2>1 DEF NType, UType, MType, mvars
  <2> QED
    BY <1>1, <1>3, <2>2, <2>3
<1>8. CASE BlankLine(i)
  <2>1. UNCHANGED <<cvars, up, down>>
    BY <1>8 DEF BlankLine
  <2> QED
    BY <1>1, <1>2, <1>3, <2>1 DEF CType, Private, NType, UType, MType, cvars, mvars
<1> QED
  BY <1>4, <1>5, <1>6, <1>7, <1>8

(* The servers' steps.                                                     *)
LEMMA ServerShape ==
  ASSUME Shape, \/ AcceptClient \/ TypeMaint \/ TypeStop \/ ReceiveHandoff
                \/ KillMain \/ KillBackup \/ BackupFaults
                \/ AcceptFails \/ BlankCommand \/ TypeOther
  PROVE  Shape'
<1> USE DEF Shape
<1>1. UNCHANGED <<cvars, up>>
  BY DEF AcceptClient, send_fd, TypeMaint, TypeStop, ReceiveHandoff, recv_fd,
     Kill, KillMain, KillBackup, BackupFaults, AcceptFails, BlankCommand, TypeOther
<1>2. CType' /\ NType' /\ Private' /\ RType' /\ SType' /\ addrlen' = addrlen
  <2>1. CType' /\ NType' /\ Private'
    BY <1>1 DEF CType, NType, Private, cvars
  <2>2. mup' \in {mup, bup, FALSE} /\ bup' \in {bup, FALSE}
    BY DEF AcceptClient, send_fd, TypeMaint, TypeStop, ReceiveHandoff, recv_fd,
       Kill, KillMain, KillBackup, BackupFaults, AcceptFails, BlankCommand, TypeOther, running
  <2>3. /\ stuck' = stuck /\ addrlen' = addrlen
        /\ \/ mstuck' = mstuck /\ blanks' = blanks
           \/ mstuck' = FALSE /\ blanks' = blanks
           \/ mstuck' = TRUE /\ blanks' = blanks + 1 /\ blanks < MaxBlanks
        /\ kills' = kills \/ (kills < MaxKills /\ kills' = kills + 1)
    BY DEF AcceptClient, TypeMaint, TypeStop, ReceiveHandoff, Scanned,
       Kill, KillMain, KillBackup, BackupFaults, AcceptFails, BlankCommand, TypeOther, faults
  <2>4. RType'
    BY <2>2 DEF RType
  <2>5. SType'
    <3>1. /\ mstuck \in BOOLEAN /\ blanks \in 0..MaxBlanks /\ stuck \subseteq Clients
          /\ addrlen \in {"negative", "sane"} /\ kills \in 0..MaxKills
      BY DEF SType
    <3>2. blanks' \in 0..MaxBlanks /\ kills' \in 0..MaxKills
      BY <2>3, <3>1
    <3>3. mstuck' \in BOOLEAN
      BY <2>3, <3>1, Zenon
    <3> QED
      BY <2>3, <3>1, <3>2, <3>3, Zenon DEF SType
  <2> QED
    BY <2>1, <2>3, <2>4, <2>5
<1>3. CASE AcceptClient
  <2>1. /\ nacc' = nacc + 1 /\ nsfd' = nacc + 1 /\ addrlen = "sane" /\ nacc + 1 \in 1..nconn /\ nacc \in Nat
        /\ UNCHANGED <<maint, nmaint, mserves, bvars, told, down, up>>
        /\ nconn' = nconn
    BY <1>3 DEF AcceptClient, send_fd, CType, MType, cvars
  <2>2. /\ fds' \subseteq fds \cup {nacc + 1} /\ handoff' \subseteq handoff \cup {nacc + 1}
        /\ mthreads' \subseteq mthreads \cup {nacc + 1} /\ mthreads \subseteq mthreads'
    BY <1>3 DEF AcceptClient, send_fd
  <2>3. UType' /\ TType'
    BY <2>1 DEF UType, TType
  <2>4. MType'
    <3>1. fds' \subseteq 1..nacc + 1 /\ mthreads' \subseteq 1..nacc + 1
      BY <2>1, <2>2 DEF MType
    <3>2. nacc + 1 \in 0..nconn /\ \A k \in Conns : mserves[k] <= nacc + 1
      BY <2>1 DEF MType
    <3> QED
      BY <1>2, <2>1, <3>1, <3>2 DEF MType
  <2>5. BType'
    <3>1. handoff' \subseteq 1..nacc + 1 /\ bnsfd \in 0..nacc + 1
      BY <2>1, <2>2 DEF BType
    <3> QED
      BY <2>1, <3>1 DEF BType, bvars
  <2>6. InOrder'
    <3>1. \A c \in handoff' : c > bnsfd
      BY <2>1, <2>2 DEF InOrder, BType
    <3> QED
      BY <2>1, <2>2, <3>1 DEF InOrder, bvars
  <2> QED
    BY <1>2, <2>3, <2>4, <2>5, <2>6
<1>4. CASE TypeMaint
  <2>1. MType'
    BY <1>1, <1>2, <1>4 DEF TypeMaint, MType, cvars
  <2>2. UType' /\ TType' /\ BType' /\ InOrder'
    BY <1>4 DEF TypeMaint, UType, TType, BType, InOrder, bvars
  <2> QED
    BY <1>2, <2>1, <2>2
<1>5. CASE TypeStop
  <2>1. MType'
    BY <1>1, <1>2, <1>5 DEF TypeStop, MType, cvars
  <2>2. BType' /\ InOrder'
    BY <1>5 DEF TypeStop, BType, InOrder, bvars
  <2>3. UType'
    BY <1>5 DEF TypeStop, UType
  <2>4. TType'
    BY <1>5 DEF TypeStop, TType
  <2> QED
    BY <1>2, <2>1, <2>2, <2>3, <2>4
<1>6. CASE ReceiveHandoff
  <2>1. PICK c \in handoff : /\ \A d \in handoff : c <= d
                             /\ handoff' = handoff \ {c} /\ bnsfd' = c
                             /\ bthreads' = bthreads \cup {c}
    BY <1>6 DEF ReceiveHandoff, recv_fd
  <2>2. UNCHANGED <<cvars, up, down, mvars, bserves, told>>
    BY <1>6 DEF ReceiveHandoff, recv_fd
  <2>3. c \in 1..nacc /\ c > bnsfd /\ bnsfd \in Nat /\ nacc \in Nat
    BY DEF BType, MType, InOrder
  <2>4. UType' /\ TType' /\ MType'
    BY <1>2, <2>2 DEF UType, TType, MType, cvars, mvars
  <2>5. BType'
    <3>1. /\ bthreads' \subseteq 1..c /\ handoff' \subseteq 1..nacc
          /\ \A k \in Conns : bserves[k] <= c
      BY <2>1, <2>3 DEF BType
    <3> QED
      BY <2>1, <2>2, <2>3, <3>1 DEF BType, mvars
  <2>6. InOrder'
    <3>1. \A d \in handoff' : d > c
      BY <2>1, <2>3 DEF BType
    <3>2. \A k \in Conns : k > c => bserves[k] = NoConn
      BY <2>3 DEF InOrder
    <3> QED
      BY <2>1, <2>2, <3>1, <3>2 DEF InOrder, mvars
  <2> QED
    BY <1>2, <2>4, <2>5, <2>6
<1>7. CASE KillMain \/ KillBackup \/ BackupFaults \/ BlankCommand \/ TypeOther
  <2>1. UNCHANGED <<cvars, up, down, mvars, handoff, bvars, told>>
    BY <1>7 DEF Kill, KillMain, KillBackup, BackupFaults, BlankCommand, TypeOther
  <2> QED
    BY <1>2, <2>1 DEF UType, TType, MType, BType, InOrder, cvars, mvars, bvars
<1>8. CASE AcceptFails
  <2>1. /\ nacc' = nacc + 1 /\ nsfd' = NoConn /\ addrlen = "negative" /\ nacc + 1 \in 1..nconn
        /\ UNCHANGED <<nconn, up, down, maint, nmaint, fds, mthreads, mserves, handoff, bvars, told>>
    BY <1>8 DEF AcceptFails, CType, MType, cvars
  <2>2. MType'
    <3>1. fds \subseteq 1..nacc + 1 /\ mthreads \subseteq 1..nacc + 1
          /\ \A k \in Conns : mserves[k] <= nacc + 1
      BY <2>1 DEF MType
    <3> QED
      BY <1>2, <2>1, <3>1 DEF MType
  <2>3. BType'
    <3>1. handoff \subseteq 1..nacc + 1 /\ bnsfd \in 0..nacc + 1
      BY <2>1 DEF BType, MType
    <3> QED
      BY <2>1, <3>1 DEF BType, bvars
  <2> QED
    BY <1>2, <2>1, <2>2, <2>3 DEF UType, TType, InOrder, bvars
<1> QED
  BY <1>3, <1>4, <1>5, <1>6, <1>7, <1>8

(* The threads' steps.                                                     *)
LEMMA ThreadShape ==
  ASSUME Shape, NEW k \in Conns,
         \/ StartMainThread(k) \/ MainThreadReads(k)
         \/ LookUp(k) \/ BackupThreadReads(k) \/ EndThread(k)
  PROVE  Shape'
<1> USE DEF Shape
<1>1. UNCHANGED <<cvars, down, nacc, nsfd, maint, nmaint, fds, mthreads, handoff, bnsfd, running, faults, told>>
  BY DEF StartMainThread, MainThreadReads, LookUp, BackupThreadReads, EndThread, mvars, bvars
<1>2. CType' /\ NType' /\ Private' /\ TType' /\ RType' /\ SType'
  BY <1>1 DEF CType, NType, Private, TType, RType, SType, cvars, running, faults
<1>3. up' \in [Conns -> Nat]
  <2>1. ASSUME NEW c \in Conns, TakeWords(c) PROVE up' \in [Conns -> Nat]
    BY <2>1, TakeWordsTypes
  <2>2. mserves[k] \in Nat /\ mserves[k] <= nacc /\ bserves[k] \in Nat /\ bserves[k] <= bnsfd
        /\ nacc \in 0..MaxConns /\ bnsfd \in 0..MaxConns
    BY DEF MType, BType, CType
  <2>3. CASE MainThreadReads(k)
    BY <2>1, <2>2, <2>3 DEF MainThreadReads
  <2>4. CASE BackupThreadReads(k)
    BY <2>1, <2>2, <2>4 DEF BackupThreadReads
  <2> QED
    BY <2>3, <2>4 DEF StartMainThread, LookUp, EndThread, UType
<1>4. UType'
  BY <1>1, <1>3 DEF UType
<1>5. MType' /\ \A j \in Conns \ mthreads : mserves'[j] = NoConn
  <2>1. mserves' \in [Conns -> Nat] /\ \A j \in Conns : mserves'[j] <= nacc
    BY DEF StartMainThread, MainThreadReads, LookUp, BackupThreadReads, EndThread, MType, mvars
  <2>2. \A j \in Conns \ mthreads : mserves'[j] = NoConn
    BY DEF StartMainThread, MainThreadReads, LookUp, BackupThreadReads, EndThread, MType, mvars, InOrder
  <2> QED
    BY <1>1, <2>1, <2>2 DEF MType, cvars, faults
<1>6. BType' /\ \A j \in Conns : j > bnsfd => bserves'[j] = NoConn
  <2>1. bnsfd \in Nat /\ k \in bthreads => k <= bnsfd
    BY DEF BType
  <2>2. bserves' \in [Conns -> Nat] /\ \A j \in Conns : bserves'[j] <= bnsfd
    <3>1. \E n \in {bnsfd, NoConn} : bserves' = [bserves EXCEPT ![k] = n] \/ bserves' = bserves
      BY DEF StartMainThread, MainThreadReads, LookUp, BackupThreadReads, EndThread, bvars
    <3>2. /\ bserves \in [Conns -> Nat] /\ \A j \in Conns : bserves[j] <= bnsfd
          /\ bnsfd \in Nat
      BY DEF BType, MType, CType
    <3> QED
      BY <3>1, <3>2
  <2>3. \A j \in Conns : j > bnsfd => bserves'[j] = NoConn
    BY <2>1 DEF StartMainThread, MainThreadReads, LookUp, BackupThreadReads, EndThread, BType, bvars, InOrder
  <2>4. bthreads' \subseteq bthreads
    BY DEF StartMainThread, MainThreadReads, LookUp, BackupThreadReads, EndThread, bvars
  <2> QED
    BY <1>1, <2>2, <2>3, <2>4 DEF BType
<1> QED
  BY <1>1, <1>2, <1>4, <1>5, <1>6 DEF InOrder

\* Every reachable state has it.
LEMMA ShapeHolds == Spec => []Shape
<1>1. ASSUME Init PROVE Shape
  <2>1. CType /\ NType /\ UType /\ BType /\ TType /\ InOrder /\ Private
    BY <1>1 DEF Init, CType, NType, UType, BType, TType, InOrder, Private
  <2>2. MType
    <3>1. /\ nacc = 0 /\ nsfd = NoConn /\ nconn = 0 /\ maint = 0 /\ nmaint = 0 /\ fds = {}
          /\ mthreads = {} /\ mserves = [k \in Conns |-> NoConn]
      BY <1>1 DEF Init
    <3> QED
      BY <3>1 DEF MType
  <2>3. RType /\ SType
    <3>1. /\ mup = TRUE /\ bup = TRUE /\ mstuck = FALSE
          /\ stuck = {} /\ blanks = 0 /\ kills = 0 /\ addrlen \in {"negative", "sane"}
      BY <1>1 DEF Init
    <3>2. 0 \in 0..MaxBlanks /\ 0 \in 0..MaxKills
      BY StandbyAssumption
    <3> QED
      BY <3>1, <3>2, Zenon DEF RType, SType
  <2> QED
    BY <2>1, <2>2, <2>3 DEF Shape
<1>2. Shape /\ [Next]_vars => Shape'
  <2>1. Shape /\ UNCHANGED vars => Shape'
    BY DEF Shape, vars, cvars, mvars, bvars, running, faults, CType, NType, UType, MType, BType,
       TType, RType, SType, InOrder, Private
  <2> QED
    BY <2>1, ClientShape, ServerShape, ThreadShape DEF Next
<1> QED
  BY <1>1, <1>2, PTL DEF Spec

(* Every reachable state is well typed; in particular the list of          *)
(* forwarded descriptors, the threads and what they serve are connections  *)
(* that were accepted, in the order in which they were accepted.           *)
THEOREM TypeCorrect == Spec => []TypeOK
<1>1. Shape => TypeOK
  BY Parts DEF Shape
<1> QED
  BY <1>1, ShapeHolds, PTL

-----------------------------------------------------------------------------
(* One step of the hand-off protocol.                                      *)
LEMMA ToldStep ==
  ASSUME Shape, ToldOnce, [Next]_vars
  PROVE  ToldOnce'
<1> USE DEF Shape
<1>1. CASE AcceptClient
  <2> DEFINE n == nacc + 1
  <2>1. nacc' = n /\ n \notin mthreads /\ nacc \in Nat /\ n \notin fds /\ n \in Conns
        /\ n \notin Forwarded /\ UNCHANGED <<maint, told, down>>
        /\ Dropped = {} /\ Dropped' = {}
    BY <1>1 DEF AcceptClient, send_fd, MType, CType, Forwarded, Dropped, faults
  <2>2. CASE maint = 0
    <3>1. mthreads' = mthreads \cup {n} /\ UNCHANGED <<fds, handoff>>
      BY <1>1, <2>2 DEF AcceptClient, send_fd
    <3>2. Forwarded' = Forwarded
      BY <2>1, <3>1 DEF Forwarded
    <3> QED
      BY <2>1, <3>1, <3>2 DEF ToldOnce
  <2>3. CASE maint # 0
    <3>1. mthreads' = mthreads /\ fds' = fds \cup {n} /\ handoff' \subseteq handoff \cup {n}
      BY <1>1, <2>3 DEF AcceptClient, send_fd
    <3>2. Forwarded' = Forwarded \cup {n}
      BY <2>1, <3>1 DEF Forwarded
    <3>3. Forwarded' \ fds' = Forwarded \ fds
      BY <2>1, <3>1, <3>2
    <3> QED
      BY <2>1, <2>3, <3>1, <3>2, <3>3 DEF ToldOnce
  <2> QED
    BY <2>2, <2>3
<1>2. CASE TypeStop
  <2>1. UNCHANGED <<nacc, mthreads, handoff>> /\ fds' = {} /\ maint' = 0
        /\ \A c \in Conns : /\ down'[c] = IF c \in fds THEN "switch" ELSE down[c]
                            /\ told'[c] = IF c \in fds THEN told[c] + 1 ELSE told[c]
    BY <1>2 DEF TypeStop
  <2>2. Forwarded' = Forwarded
    BY <1>2, <2>1 DEF TypeStop, Scanned, Forwarded, Dropped
  <2>3. \A c \in fds : c \in Forwarded /\ told[c] = 0
    BY DEF ToldOnce, MType, CType
  <2>4. \A c \in Conns : told'[c] = IF c \in Forwarded THEN 1 ELSE 0
    BY <2>1, <2>3 DEF ToldOnce, TType
  <2>5. \A c \in Conns : down'[c] = "none" <=> told'[c] = 0
    BY <2>1, <2>3 DEF ToldOnce, TType
  <2> QED
    BY <2>1, <2>2, <2>4, <2>5 DEF ToldOnce
<1>3. CASE TypeMaint
  BY <1>3 DEF TypeMaint, Scanned, ToldOnce, Forwarded, Dropped
<1>4. CASE ReceiveHandoff
  <2>1. handoff' \subseteq handoff /\ UNCHANGED <<down, mvars, addrlen, told>>
    BY <1>4 DEF ReceiveHandoff, recv_fd, faults
  <2> QED
    BY <2>1 DEF ToldOnce, Forwarded, Dropped, mvars
<1>5. ASSUME NEW i \in Clients, ReadSwitch(i) PROVE ToldOnce'
  <2>1. conn[i] \in Conns /\ UNCHANGED <<mvars, handoff, addrlen, told>>
        /\ down[conn[i]] = "switch" /\ down' = [down EXCEPT ![conn[i]] = "read"]
    BY <1>5 DEF ReadSwitch, CType, faults
  <2>2. \A c \in Conns : down'[c] = "none" <=> down[c] = "none"
    BY <2>1 DEF UType
  <2> QED
    BY <2>1, <2>2 DEF ToldOnce, Forwarded, Dropped, mvars
<1>6. ASSUME UNCHANGED <<down, nacc, mthreads, fds, maint, handoff, addrlen, told>> PROVE ToldOnce'
  BY <1>6 DEF ToldOnce, Forwarded, Dropped
<1>7. ASSUME NEW i \in Clients,
             StartClient(i) \/ TypeWord(i) \/ KillClient(i) \/ TypeInVain(i) \/ BlankLine(i)
      PROVE  ToldOnce'
  BY <1>6, <1>7 DEF StartClient, TypeWord, KillClient, TypeInVain, BlankLine, mvars, faults
<1>8. ASSUME NEW k \in Conns, \/ StartMainThread(k) \/ MainThreadReads(k) \/ LookUp(k)
                              \/ BackupThreadReads(k) \/ EndThread(k)
      PROVE  ToldOnce'
  BY <1>6, <1>8 DEF StartMainThread, MainThreadReads, LookUp, BackupThreadReads, EndThread, mvars, faults
<1>9. CASE \/ KillMain \/ KillBackup \/ BackupFaults \/ BlankCommand \/ TypeOther
           \/ UNCHANGED vars
  BY <1>6, <1>9 DEF Kill, KillMain, KillBackup, BackupFaults, BlankCommand, TypeOther, Scanned,
     vars, mvars, faults
<1>10. CASE AcceptFails
  <2>1. /\ addrlen = "negative" /\ nacc' = nacc + 1
        /\ UNCHANGED <<down, mthreads, fds, maint, handoff, addrlen, told>>
    BY <1>10 DEF AcceptFails, faults
  <2>2. Forwarded = {} /\ Forwarded' = {}
    BY <2>1 DEF Forwarded, Dropped
  <2> QED
    BY <2>1, <2>2 DEF ToldOnce
<1> QED
  BY <1>1, <1>2, <1>3, <1>4, <1>5, <1>7, <1>8, <1>9, <1>10 DEF Next

(* Each client of the backup is told exactly once to come back, at the     *)
(* first "stop" after it was forwarded, and no other client ever is.       *)
THEOREM HandOffProtocol == Spec => []ToldOnce
<1>1. Init => ToldOnce
  BY DEF Init, ToldOnce, Forwarded, Dropped
<1> QED
  BY <1>1, ToldStep, ShapeHolds, PTL DEF Spec

-----------------------------------------------------------------------------
(* A connection at its end stays there: nobody types into a closed one.    *)
LEMMA DrainedStep ==
  ASSUME Shape, [Next]_vars, NEW c \in Conns, Drained(c)
  PROVE  Drained(c)'
<1> USE DEF Shape
<1>1. up[c] = 0 /\ c \in closed
  BY DEF Drained
<1>2. c \in closed'
  BY <1>1 DEF Next, vars, StartClient, TypeWord, TypeInVain, ReadSwitch, KillClient, Connect, Leave,
     AcceptClient, send_fd, Kill, KillMain, KillBackup, BackupFaults, TypeMaint, TypeStop,
     ReceiveHandoff, recv_fd, StartMainThread, MainThreadReads, LookUp, BackupThreadReads,
     EndThread, BlankLine, AcceptFails, BlankCommand, TypeOther, cvars
<1>3. ASSUME NEW i \in Clients, TypeWord(i) PROVE up'[c] = up[c]
  <2>1. conn[i] # c
    BY <1>1 DEF Private
  <2> QED
    BY <1>3, <2>1 DEF TypeWord, UType
<1>4. ASSUME NEW k \in Conns, MainThreadReads(k) \/ BackupThreadReads(k) PROVE up'[c] = up[c]
  <2>1. PICK d \in Conns : TakeWords(d)
    <3>1. /\ mserves[k] \in Nat /\ mserves[k] <= nacc /\ nacc \in 0..nconn
          /\ bserves[k] \in Nat /\ bserves[k] <= bnsfd /\ bnsfd \in 0..nacc
          /\ nconn \in 0..MaxConns
      BY DEF MType, BType, CType
    <3>2. mserves[k] \in 0..MaxConns /\ bserves[k] \in 0..MaxConns
      BY ONLY <3>1, StandbyAssumption DEF StandbyAssumption
    <3>3. \/ mserves[k] # NoConn /\ TakeWords(mserves[k])
          \/ bserves[k] # NoConn /\ TakeWords(bserves[k])
      BY <1>4 DEF MainThreadReads, BackupThreadReads
    <3> QED
      BY <3>2, <3>3
  <2>2. up[d] > 0 /\ \A b \in Conns : b # d => up'[b] = up[b]
    BY <2>1, TakeWordsTypes
  <2> QED
    BY <1>1, <2>2
<1>5. up'[c] = up[c]
  <2>1. ASSUME UNCHANGED up PROVE up'[c] = up[c]
    BY <2>1
  <2>2. ASSUME NEW i \in Clients,
               \/ StartClient(i) \/ ReadSwitch(i) \/ KillClient(i)
               \/ TypeInVain(i) \/ BlankLine(i)
        PROVE  up'[c] = up[c]
    BY <2>2 DEF StartClient, ReadSwitch, KillClient, TypeInVain, BlankLine
  <2>3. ASSUME NEW k \in Conns, StartMainThread(k) \/ LookUp(k) \/ EndThread(k)
        PROVE  up'[c] = up[c]
    BY <2>3 DEF StartMainThread, LookUp, EndThread
  <2>4. CASE AcceptClient \/ TypeMaint \/ TypeStop \/ ReceiveHandoff \/ UNCHANGED vars
    BY <2>4 DEF AcceptClient, send_fd, TypeMaint, TypeStop, ReceiveHandoff, recv_fd, vars
  <2>5. CASE \/ KillMain \/ KillBackup \/ BackupFaults
             \/ AcceptFails \/ BlankCommand \/ TypeOther
    BY <2>5 DEF Kill, KillMain, KillBackup, BackupFaults, AcceptFails, BlankCommand, TypeOther
  <2> QED
    BY <1>3, <1>4, <2>2, <2>3, <2>4, <2>5 DEF Next
<1> QED
  BY <1>1, <1>2, <1>5 DEF Drained

MainServed == nsfd \in mthreads => \E k \in mthreads : mserves[k] \in {NoConn, nsfd}
BackupServed == bnsfd # NoConn /\ ~Drained(bnsfd)
                  => \E k \in bthreads : bserves[k] \in {NoConn, bnsfd}

\* Every step keeps the latest connection of the main server served,
LEMMA MainServedStep ==
  ASSUME Shape, MainServed, [Next]_vars
  PROVE  MainServed'
<1> USE DEF Shape
<1>1. CASE AcceptClient
  <2>1. nsfd' = nacc + 1 /\ nacc + 1 \in Conns \ mthreads /\ mserves' = mserves
        /\ mthreads' \in {mthreads, mthreads \cup {nacc + 1}}
    <3>1. nsfd' = nacc + 1 /\ mserves' = mserves /\ nacc < nconn
          /\ mthreads' \in {mthreads, mthreads \cup {nacc + 1}}
      BY <1>1 DEF AcceptClient
    <3>2. nacc \in Nat /\ nconn \in 0..MaxConns /\ mthreads \subseteq 1..nacc
      BY DEF MType, CType
    <3> QED
      BY ONLY <3>1, <3>2, StandbyAssumption DEF StandbyAssumption, Conns
  <2>2. mserves[nacc + 1] = NoConn
    BY <2>1 DEF InOrder
  <2> QED
    BY <2>1, <2>2 DEF MainServed
<1>2. ASSUME NEW k \in Conns, StartMainThread(k) PROVE MainServed'
  <2>1. k \in mthreads /\ mthreads' = mthreads /\ nsfd' = nsfd
        /\ mserves' = [mserves EXCEPT ![k] = nsfd]
    BY <1>2 DEF StartMainThread
  <2> QED
    BY <2>1 DEF MainServed, MType
<1>3. ASSUME UNCHANGED <<nsfd, mthreads, mserves>> PROVE MainServed'
  BY <1>3 DEF MainServed
<1>4. ASSUME NEW i \in Clients, \/ StartClient(i) \/ TypeWord(i) \/ ReadSwitch(i)
                                \/ KillClient(i) \/ TypeInVain(i) \/ BlankLine(i)
      PROVE  MainServed'
  BY <1>3, <1>4 DEF StartClient, TypeWord, ReadSwitch, KillClient, TypeInVain, BlankLine, mvars
<1>5. CASE \/ TypeMaint \/ TypeStop \/ ReceiveHandoff \/ UNCHANGED vars
           \/ KillMain \/ KillBackup \/ BackupFaults \/ BlankCommand \/ TypeOther
  BY <1>3, <1>5 DEF TypeMaint, TypeStop, ReceiveHandoff, recv_fd, vars, mvars,
     Kill, KillMain, KillBackup, BackupFaults, BlankCommand, TypeOther
<1>6. ASSUME NEW k \in Conns, MainThreadReads(k) \/ LookUp(k) \/ BackupThreadReads(k) \/ EndThread(k)
      PROVE  MainServed'
  BY <1>3, <1>6 DEF MainThreadReads, LookUp, BackupThreadReads, EndThread, mvars
<1>7. CASE AcceptFails
  <2>1. nsfd' = NoConn /\ mthreads' = mthreads /\ NoConn \notin mthreads
    BY <1>7 DEF AcceptFails, MType
  <2> QED
    BY <2>1 DEF MainServed
<1> QED
  BY <1>1, <1>2, <1>4, <1>5, <1>6, <1>7 DEF Next

\* and that of the backup.
LEMMA BackupServedStep ==
  ASSUME Shape, BackupServed, [Next]_vars
  PROVE  BackupServed'
<1> USE DEF Shape
<1>1. CASE ReceiveHandoff
  <2>1. PICK c \in handoff : bnsfd' = c /\ bthreads' = bthreads \cup {c}
    BY <1>1 DEF ReceiveHandoff, recv_fd
  <2>2. bserves' = bserves /\ c \in Conns /\ c > bnsfd
    BY <1>1 DEF ReceiveHandoff, recv_fd, InOrder, BType, MType, CType
  <2>3. bserves[c] = NoConn
    BY <2>2 DEF InOrder
  <2> QED
    BY <2>1, <2>2, <2>3 DEF BackupServed
<1>2. ASSUME bnsfd' = bnsfd, bnsfd # NoConn, ~Drained(bnsfd)' PROVE ~Drained(bnsfd)
  <2>1. bnsfd \in Conns
    BY <1>2 DEF BType, MType, CType
  <2>2. Drained(bnsfd) => up'[bnsfd] = 0 /\ bnsfd \in closed'
    BY <2>1, DrainedStep DEF Drained
  <2> QED
    BY <1>2, <2>2 DEF Drained
<1>3. ASSUME NEW k \in Conns, LookUp(k) PROVE BackupServed'
  <2>1. k \in bthreads /\ bthreads' = bthreads /\ bnsfd' = bnsfd
        /\ bserves' = [bserves EXCEPT ![k] = bnsfd]
    BY <1>3 DEF LookUp
  <2> QED
    BY <2>1 DEF BackupServed, BType
<1>4. ASSUME NEW k \in Conns, BackupThreadReads(k) PROVE BackupServed'
  <2>1. k \in bthreads /\ bthreads' = bthreads /\ bnsfd' = bnsfd
        /\ bserves' = [bserves EXCEPT ![k] = NoConn]
    BY <1>4 DEF BackupThreadReads
  <2> QED
    BY <2>1 DEF BackupServed, BType
<1>5. ASSUME NEW k \in Conns, EndThread(k) PROVE BackupServed'
  <2>1. bthreads' = bthreads \ {k} /\ UNCHANGED <<bnsfd, bserves, up, closed>>
        /\ bserves[k] # NoConn /\ Drained(bserves[k])
    BY <1>5 DEF EndThread, cvars
  <2>2. Drained(bnsfd)' <=> Drained(bnsfd)
    BY <2>1 DEF Drained
  <2> QED
    BY <2>1, <2>2 DEF BackupServed
<1>6. ASSUME UNCHANGED bvars PROVE BackupServed'
  BY <1>2, <1>6 DEF BackupServed, bvars
<1>7. ASSUME NEW i \in Clients, \/ StartClient(i) \/ TypeWord(i) \/ ReadSwitch(i)
                                \/ KillClient(i) \/ TypeInVain(i) \/ BlankLine(i)
      PROVE  BackupServed'
  BY <1>6, <1>7 DEF StartClient, TypeWord, ReadSwitch, KillClient, TypeInVain, BlankLine
<1>8. CASE \/ AcceptClient \/ TypeMaint \/ TypeStop \/ UNCHANGED vars
           \/ KillMain \/ KillBackup \/ BackupFaults
           \/ AcceptFails \/ BlankCommand \/ TypeOther
  BY <1>6, <1>8 DEF AcceptClient, send_fd, TypeMaint, TypeStop, vars,
     Kill, KillMain, KillBackup, BackupFaults, AcceptFails, BlankCommand, TypeOther
<1>9. ASSUME NEW k \in Conns, StartMainThread(k) \/ MainThreadReads(k)
      PROVE  BackupServed'
  BY <1>6, <1>9 DEF StartMainThread, MainThreadReads
<1> QED
  BY <1>1, <1>3, <1>4, <1>5, <1>7, <1>8, <1>9 DEF Next

(* However late threads read the shared variable, the latest connection of *)
(* each server has a thread that receives from it or will.                 *)
THEOREM LatestNeverLost == Spec => []LatestServed
<1>1. Init => MainServed /\ BackupServed
  BY DEF Init, MainServed, BackupServed
<1>2. MainServed /\ BackupServed => LatestServed
  BY DEF MainServed, BackupServed, LatestServed
<1> QED
  BY <1>1, <1>2, MainServedStep, BackupServedStep, ShapeHolds, PTL DEF Spec
=============================================================================
