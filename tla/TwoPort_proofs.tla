--------------------------- MODULE TwoPort_proofs ---------------------------
(* Proofs about TwoPort: types, the direction in which answers are        *)
(* diverted, the limit of port 1, and the counter of port 2.               *)
EXTENDS TwoPort, FiniteSetTheorems, SequenceTheorems, TLAPS

USE TwoPortAssumption

(* Types in parts, one per process. *)
KType == /\ pend \in [{1, 2} -> Nat] /\ came \in [{1, 2} -> Nat]
         /\ gone \subseteq answered /\ text \subseteq Conns /\ answered \subseteq Conns
         /\ broken \subseteq gone
MType == /\ pc \in {"select", "one", "two", "load", "store", "create", "dead"}
         /\ ready \subseteq {1, 2} /\ nsfd \in 0..BadFd /\ reg \in Int
         /\ addrlen \in {"negative", "sane"}
         /\ pos \in Nat /\ shm \in [0..PageInts - 1 -> Int]
WType == /\ nw \in 0..MaxWorkers /\ kind \in [Workers -> {1, 2}]
         /\ wpc \in [Workers -> {"none", "new", "recv", "send", "load", "store",
                                 "read", "failed", "ask", "done"}]
         /\ wreg \in [Workers -> Int]
FType == /\ own \in [Workers -> Nat] /\ at \in [Workers -> Nat]
         /\ \A w \in Workers : own[w] <= nsfd /\ at[w] <= nsfd
CType == ctr2 \in Int /\ prompts \in Nat /\ lines \in Nat
RType == raced \in BOOLEAN
Waiting == pc \in {"one", "two"} => \A p \in ready : pend[p] > 0
TInv == KType /\ MType /\ WType /\ FType /\ CType /\ RType /\ Waiting

\* The parts give the type invariant.
LEMMA TypesGiven == TInv => TypeOK
<1>1. FType => own \in [Workers -> 0..nsfd] /\ at \in [Workers -> 0..nsfd]
  BY DEF FType
<1>2. QED
  BY <1>1 DEF TInv, KType, MType, WType, CType, RType, TypeOK

\* They hold at the start.
LEMMA InitTypes == Init => TInv
<1> SUFFICES ASSUME Init PROVE TInv
  OBVIOUS
<1>1. KType /\ MType /\ Waiting
  BY DEF Init, KType, MType, Waiting, BadFd
<1>2. WType /\ FType
  BY DEF Init, WType, FType
<1>3. CType
  BY DEF Init, CType
<1>5. RType
  BY Zenon DEF Init, RType
<1>4. QED
  BY <1>1, <1>2, <1>3, <1>5 DEF TInv

(* What a step that leaves a group of variables alone does not disturb. *)
LEMMA Frames ==
  ASSUME TInv
  PROVE  /\ UNCHANGED <<kvars, nvars>> => KType'
         /\ UNCHANGED wvars => WType'
         /\ UNCHANGED <<own, at, nsfd>> => FType'
         /\ UNCHANGED <<tvars, ctr2>> => CType'
         /\ UNCHANGED raced => RType'
         /\ UNCHANGED <<pc, ready, pend>> => Waiting'
<1>1. UNCHANGED <<kvars, nvars>> => KType'
  BY DEF TInv, KType, kvars, nvars
<1>2. UNCHANGED wvars => WType'
  BY DEF TInv, WType, wvars
<1>3. UNCHANGED <<own, at, nsfd>> => FType'
  BY DEF TInv, FType
<1>4. UNCHANGED <<tvars, ctr2>> => CType'
  BY DEF TInv, CType, tvars
<1>5. UNCHANGED raced => RType'
  BY Zenon DEF TInv, RType
<1>6. UNCHANGED <<pc, ready, pend>> => Waiting'
  BY DEF TInv, Waiting
<1>7. QED
  BY <1>1, <1>2, <1>3, <1>4, <1>5, <1>6

\* The clients' steps keep them,
LEMMA ClientsKeepTypes ==
  ASSUME TInv, NEW p \in {1, 2}, NEW c \in Conns, ClientConnects(p) \/ ClientExits(c)
  PROVE  TInv'
<1>1. CASE ClientConnects(p)
  <2>a. pend' = [pend EXCEPT ![p] = @ + 1] /\ came' = [came EXCEPT ![p] = @ + 1]
    BY <1>1 DEF ClientConnects
  <2>b. pend' \in [{1, 2} -> Nat] /\ came' \in [{1, 2} -> Nat] /\ \A q \in {1, 2} : pend'[q] >= pend[q]
    BY <2>a DEF TInv, KType
  <2>c. UNCHANGED <<pc, ready, nsfd, addrlen, reg, pos, shm>>
    BY <1>1 DEF ClientConnects, mvars
  <2>f. MType'
    BY <2>c DEF TInv, MType
  <2>g. /\ pc' \in {"one", "two"} => \A q \in ready : pend[q] > 0
        /\ ready \subseteq {1, 2}
    BY <2>c DEF TInv, MType, Waiting
  <2>h. \A q \in {1, 2} : pend[q] \in Nat /\ pend'[q] \in Nat
    BY <2>b DEF TInv, KType
  <2>d. Waiting'
    BY <2>b, <2>c, <2>g, <2>h DEF Waiting
  <2>e. KType'
    BY <1>1, <2>b DEF TInv, ClientConnects, KType, nvars
  <2>1. KType' /\ MType' /\ Waiting'
    BY <2>d, <2>e, <2>f
  <2>2. QED
    BY <1>1, <2>1, Frames DEF TInv, ClientConnects, mvars, wvars, cvars
<1>2. CASE ClientExits(c)
  <2>1. KType' /\ MType' /\ Waiting'
    BY <1>2 DEF TInv, ClientExits, KType, MType, Waiting, nvars, mvars
  <2>2. QED
    BY <1>2, <2>1, Frames DEF TInv, ClientExits, mvars, wvars, cvars
<1>3. QED
  BY <1>1, <1>2

(* accept and the start of a worker, by themselves. *)
LEMMA AcceptTypes ==
  ASSUME TInv, NEW p \in {1, 2}, pend[p] > 0, accept(p),
         UNCHANGED <<came, gone, answered, broken>>
  PROVE  KType' /\ nsfd' \in 0..BadFd /\ nsfd <= nsfd'
<1>1. nsfd' \in 0..BadFd /\ nsfd <= nsfd' /\ (nsfd' # BadFd => nsfd' \in Conns)
  BY DEF TInv, MType, accept, NextFd, BadFd, Conns
<1>2. pend' \in [{1, 2} -> Nat] /\ text' \subseteq Conns
  BY <1>1 DEF TInv, KType, accept
<1>3. QED
  BY <1>1, <1>2 DEF TInv, KType

\* the start of a thread or an s1 process does,
LEMMA WorkerTypes ==
  ASSUME TInv, NEW k \in {1, 2}, NEW fd \in Nat, NEW s \in {"new", "read"},
         StartWorker(k, fd, s), fd <= nsfd', nsfd <= nsfd', nsfd' \in Nat
  PROVE  WType' /\ FType'
<1>1. nw' \in Workers
  BY DEF TInv, WType, StartWorker, Workers
<1>2. WType'
  BY <1>1 DEF TInv, WType, StartWorker
<1>3. own' \in [Workers -> Nat] /\ at' \in [Workers -> Nat]
  BY <1>1 DEF TInv, FType, StartWorker
<1>4. \A w \in Workers : own'[w] <= nsfd' /\ at'[w] <= nsfd'
  <2> TAKE w \in Workers
  <2>1. own[w] <= nsfd /\ at[w] <= nsfd /\ own[w] \in Nat /\ at[w] \in Nat
        /\ own'[w] = (IF w = nw' THEN fd ELSE own[w]) /\ at'[w] = at[w]
    BY DEF TInv, FType, StartWorker
  <2>2. nsfd \in Nat
    BY DEF TInv, MType
  <2>3. QED
    BY <2>1, <2>2
<1>5. QED
  BY <1>2, <1>3, <1>4 DEF FType

\* main's steps do,
LEMMA MainKeepsTypes == TInv /\ Main => TInv'
<1> SUFFICES ASSUME TInv, Main PROVE TInv'
  OBVIOUS
<1>1. CASE Select \/ PortOneIdle \/ PortOneSkip \/ Fault \/ PortTwoSkip \/ Load
  <2>1. MType' /\ Waiting'
    BY <1>1 DEF TInv, MType, KType, CType, Waiting, Select, PortOneIdle, PortOneSkip, Fault,
                PortTwoSkip, Load, kvars, mvars
  <2>2. UNCHANGED <<kvars, nvars, nsfd, wvars, tvars, cvars>>
    BY <1>1 DEF Select, PortOneIdle, PortOneSkip, Fault, PortTwoSkip, Load, mvars
  <2>3. QED
    BY <2>1, <2>2, Frames DEF TInv, wvars, cvars
<1>2. CASE Store
  <2>1. CType'
    BY <1>2 DEF TInv, CType, MType, Store, SetCtr2, tvars
  <2>2. RType'
    <3>1. raced' = (raced \/ ctr2 # reg)
      BY <1>2 DEF Store, SetCtr2
    <3>2. QED
      BY <3>1, Zenon DEF RType
  <2>3. MType' /\ Waiting'
    BY <1>2 DEF TInv, MType, Waiting, Store, mvars
  <2>4. QED
    BY <1>2, <2>1, <2>2, <2>3, Frames DEF TInv, Store, wvars, mvars
<1>3. CASE PortOneAccept
  <2>1. KType' /\ nsfd' \in 0..BadFd /\ nsfd <= nsfd'
    BY <1>3, AcceptTypes DEF PortOneAccept, TInv, Waiting
  <2>2. nsfd' \in Nat /\ nsfd' <= nsfd'
    BY <2>1 DEF BadFd
  <2>3. WType' /\ FType'
    BY <1>3, <2>1, <2>2, WorkerTypes DEF PortOneAccept
  <2>4. MType'
    BY <1>3, <2>1 DEF PortOneAccept, Count1, TInv, MType
  <2>5. Waiting'
    BY <1>3 DEF PortOneAccept, accept, TInv, MType, KType, Waiting
  <2>6. QED
    BY <1>3, <2>1, <2>3, <2>4, <2>5, Frames DEF PortOneAccept, TInv, cvars
<1>4. CASE PortTwoAccept
  <2>1. KType' /\ nsfd' \in 0..BadFd /\ nsfd <= nsfd'
    BY <1>4, AcceptTypes DEF PortTwoAccept, TInv, Waiting
  <2>2. MType' /\ Waiting'
    BY <1>4, <2>1 DEF PortTwoAccept, TInv, MType, Waiting
  <2>3. FType'
    BY <1>4, <2>1 DEF PortTwoAccept, TInv, FType, MType, wvars
  <2>4. QED
    BY <1>4, <2>1, <2>2, <2>3, Frames DEF PortTwoAccept, TInv, cvars
<1>5. CASE Create
  <2>1. MType' /\ Waiting'
    BY <1>5 DEF Create, TInv, MType, Waiting, mvars
  <2>2. nsfd \in Nat /\ nsfd' = nsfd
    BY <1>5 DEF Create, TInv, MType, mvars
  <2>3. WType' /\ FType'
    BY <1>5, <2>2, WorkerTypes DEF Create
  <2>4. QED
    BY <1>5, <2>1, <2>3, Frames DEF Create, TInv, cvars
<1>6. QED
  BY <1>1, <1>2, <1>3, <1>4, <1>5 DEF Main

\* and the workers', and the operator's.
LEMMA WorkersKeepTypes ==
  ASSUME TInv, NEW w \in Workers, Step(w) \/ BrokenPipe(w) \/ OperatorTypes
  PROVE  TInv'
<1> USE DEF TInv, mvars, wvars, cvars
<1>1. CASE PickSocket(w)
  <2>1. MType' /\ WType' /\ FType' /\ Waiting'
    BY <1>1 DEF PickSocket, Goes, MType, WType, FType, Waiting, kvars
  <2>2. QED
    BY <1>1, <2>1, Frames DEF PickSocket
<1>2. CASE Receive(w)
  <2>1. KType' /\ MType' /\ WType' /\ Waiting'
    BY <1>2 DEF Receive, Recv, Goes, KType, MType, WType, Waiting, kvars
  <2>2. QED
    BY <1>2, <2>1, Frames DEF Receive
<1>3. CASE Answer(w)
  <2>1. KType' /\ MType' /\ WType' /\ Waiting'
    BY <1>3 DEF Answer, Send, Goes, KType, MType, WType, Waiting, kvars
  <2>2. QED
    BY <1>3, <2>1, Frames DEF Answer
<1>4. CASE BrokenPipe(w)
  <2>1. MType' /\ Waiting'
    BY <1>4 DEF BrokenPipe, MType, Waiting, kvars
  <2>2. QED
    BY <1>4, <2>1, Frames DEF BrokenPipe
<1>5. CASE LoadDown(w)
  <2>1. MType' /\ WType' /\ Waiting'
    BY <1>5 DEF LoadDown, Goes, CType, MType, WType, Waiting, kvars
  <2>2. QED
    BY <1>5, <2>1, Frames DEF LoadDown
<1>6. CASE StoreDown(w)
  <2>1. MType' /\ WType' /\ FType' /\ Waiting'
    BY <1>6 DEF StoreDown, Ends, Goes, MType, WType, FType, Waiting, kvars
  <2>2. CType'
    BY <1>6 DEF StoreDown, SetCtr2, CType, WType, tvars
  <2>3. RType'
    <3>1. raced' = (raced \/ ctr2 # wreg[w])
      BY <1>6 DEF StoreDown, SetCtr2
    <3>2. QED
      BY <3>1, Zenon DEF RType
  <2>4. QED
    BY <1>6, <2>1, <2>2, <2>3, Frames DEF StoreDown
<1>7. CASE ShowText(w)
  <2>1. KType' /\ CType'
    BY <1>7 DEF ShowText, Recv, KType, CType, kvars
  <2>2. MType' /\ WType' /\ Waiting'
    BY <1>7 DEF ShowText, Goes, MType, WType, Waiting, kvars
  <2>3. QED
    BY <1>7, <2>1, <2>2, Frames DEF ShowText
<1>8. CASE PassLine(w)
  <2>1. KType' /\ CType'
    BY <1>8 DEF PassLine, Send, KType, CType, kvars
  <2>2. MType' /\ WType' /\ FType' /\ Waiting'
    BY <1>8 DEF PassLine, Ends, Goes, MType, WType, FType, Waiting, kvars
  <2>3. QED
    BY <1>8, <2>1, <2>2, Frames DEF PassLine
<1>9. CASE OperatorTypes
  <2>1. CType' /\ MType' /\ Waiting'
    BY <1>9 DEF OperatorTypes, CType, MType, Waiting, kvars
  <2>2. QED
    BY <1>9, <2>1, Frames DEF OperatorTypes
<1>10. CASE LoaderFails(w)
  <2>1. MType' /\ WType' /\ Waiting'
    BY <1>10 DEF LoaderFails, Goes, MType, WType, Waiting, kvars
  <2>2. QED
    BY <1>10, <2>1, Frames DEF LoaderFails
<1>11. QED
  BY <1>1, <1>2, <1>3, <1>4, <1>5, <1>6, <1>7, <1>8, <1>9, <1>10 DEF Step

\* So every step does.
LEMMA TypesKept == TInv /\ [Next]_vars => TInv'
<1> SUFFICES ASSUME TInv, [Next]_vars PROVE TInv'
  OBVIOUS
<1>1. CASE UNCHANGED vars
  <2>1. MType'
    BY <1>1 DEF TInv, MType, vars, mvars
  <2>2. QED
    BY <1>1, <2>1, Frames DEF TInv, vars, kvars, mvars, wvars, cvars
<1>2. ASSUME NEW p \in {1, 2}, ClientConnects(p) PROVE TInv'
  <2>1. 1 \in Conns
    BY DEF Conns
  <2>2. QED
    BY <1>2, <2>1, ClientsKeepTypes
<1>3. ASSUME NEW c \in Conns, ClientExits(c) PROVE TInv'
  BY <1>3, ClientsKeepTypes
<1>4. CASE OperatorTypes
  <2>1. CType' /\ MType' /\ Waiting'
    BY <1>4 DEF TInv, OperatorTypes, CType, MType, Waiting, kvars, mvars, cvars
  <2>2. QED
    BY <1>4, <2>1, Frames DEF OperatorTypes, TInv, mvars, wvars, cvars
<1>5. QED
  BY <1>1, <1>2, <1>3, <1>4, MainKeepsTypes, WorkersKeepTypes DEF Next

(* Every reachable state is well typed. *)
THEOREM TypeCorrect == Spec => []TypeOK
<1>1. Spec => []TInv
  BY InitTypes, TypesKept, PTL DEF Spec
<1>2. QED
  BY <1>1, TypesGiven, PTL

-----------------------------------------------------------------------------
(* nsfd only moves forward, so what a thread picks up is its own client's  *)
(* connection or a later one.                                              *)
LEMMA ForwardKept == TInv /\ DivertedForward /\ [Next]_vars => DivertedForward'
<1> SUFFICES ASSUME TInv, TInv', DivertedForward, [Next]_vars,
                    NEW w \in Threads', wpc'[w] \in {"recv", "send"}
             PROVE  own'[w] <= at'[w] /\ at'[w] <= nsfd'
  BY TypesKept DEF DivertedForward
<1>1. w \in Workers /\ at'[w] <= nsfd'
  BY DEF Threads, TInv, FType
<1>2. CASE UNCHANGED <<nw, kind, own, wpc, at>>
  BY <1>1, <1>2 DEF Threads, DivertedForward
<1>3. ASSUME NEW k, NEW fd, NEW s \in {"new", "read"}, StartWorker(k, fd, s)
      PROVE  own'[w] <= at'[w]
  <2>1. w # nw'
    BY <1>1, <1>3 DEF StartWorker, TInv, WType
  <2>2. w <= nw /\ kind[w] = 2 /\ wpc[w] = wpc'[w]
    BY <1>1, <1>3, <2>1 DEF StartWorker, Threads, TInv, WType, Workers
  <2>3. own'[w] = own[w] /\ at'[w] = at[w]
    BY <1>1, <1>3, <2>1 DEF StartWorker, TInv, FType
  <2>4. QED
    BY <1>1, <2>2, <2>3 DEF DivertedForward, Threads
<1>4. ASSUME NEW v \in Workers, PickSocket(v) PROVE own'[w] <= at'[w]
  <2>1. CASE w = v
    BY <1>4, <2>1, <1>1 DEF PickSocket, TInv, FType
  <2>2. CASE w # v
    <3>1. w \in Threads /\ wpc[w] = wpc'[w] /\ own'[w] = own[w] /\ at'[w] = at[w]
      BY <1>1, <1>4, <2>2 DEF PickSocket, Goes, Threads, TInv, WType, FType
    <3>2. QED
      BY <3>1 DEF DivertedForward
  <2>3. QED
    BY <2>1, <2>2
<1>5. ASSUME NEW v \in Workers, Receive(v) \/ Answer(v) \/ LoadDown(v) \/ ShowText(v) \/ LoaderFails(v)
      PROVE  own'[w] <= at'[w]
  <2>1. w \in Threads /\ wpc[w] \in {"recv", "send"} /\ own'[w] = own[w] /\ at'[w] = at[w]
    BY <1>1, <1>5 DEF Receive, Answer, LoadDown, ShowText, LoaderFails, Goes, Thread, Threads, TInv, WType
  <2>2. QED
    BY <2>1 DEF DivertedForward
<1>6. ASSUME NEW v \in Workers, StoreDown(v) \/ PassLine(v) PROVE own'[w] <= at'[w]
  <2>1. Ends(v)
    BY <1>6 DEF StoreDown, PassLine
  <2>2. w # v /\ w \in Threads /\ wpc[w] = wpc'[w]
    BY <1>1, <2>1 DEF Ends, Goes, Threads, TInv, WType
  <2>3. own'[w] = own[w] /\ at'[w] = at[w]
    BY <1>1, <2>1, <2>2 DEF Ends, TInv, FType
  <2>4. QED
    BY <2>2, <2>3 DEF DivertedForward
<1>7. CASE Main
  BY <1>1, <1>2, <1>3, <1>7 DEF Main, Select, PortOneIdle, PortOneSkip, PortOneAccept, Fault,
     PortTwoSkip, PortTwoAccept, Load, Store, Create, wvars
<1>8. CASE \E v \in Workers : Step(v) \/ BrokenPipe(v)
  BY <1>1, <1>2, <1>4, <1>5, <1>6, <1>8 DEF Step, BrokenPipe, wvars
<1>9. QED
  BY <1>1, <1>2, <1>7, <1>8 DEF Next, vars, ClientConnects, ClientExits, OperatorTypes, wvars

(* Answers are diverted to clients accepted later, never to earlier ones.  *)
THEOREM AnswersGoForward == Spec => []DivertedForward
<1>1. Init => DivertedForward
  BY DEF Init, DivertedForward, Threads
<1>2. QED
  BY <1>1, InitTypes, TypesKept, ForwardKept, PTL DEF Spec

-----------------------------------------------------------------------------
(* The page stays full of zeros, because only the pointer moves.           *)
Zeros == \A i \in DOMAIN shm : shm[i] = 0

\* No step writes to the page, so while ctr points into it the limit is not enforced.
LEMMA PortOneKept ==
  TInv /\ Zeros /\ PortOneUnlimited /\ [Next]_vars => Zeros' /\ PortOneUnlimited'
<1> SUFFICES ASSUME TInv, Zeros, PortOneUnlimited, [Next]_vars PROVE Zeros' /\ PortOneUnlimited'
  OBVIOUS
<1> USE DEF Zeros, PortOneUnlimited
<1>1. CASE Main
  <2>1. shm' = shm
    BY <1>1 DEF Main, Select, PortOneIdle, PortOneSkip, PortOneAccept, Count1, Fault,
                PortTwoSkip, PortTwoAccept, Load, Store, Create, mvars
  <2>2. CASE PortOneSkip
    <3>1. PICK v \in 0..Limit1 : Counts(v) /\ v >= Limit1
      BY <2>2 DEF PortOneSkip
    <3>2. pos \notin DOMAIN shm
      BY <3>1 DEF Counts
    <3>3. QED
      BY <2>1, <2>2, <3>2 DEF PortOneSkip, mvars
  <2>3. CASE ~PortOneSkip
    BY <1>1, <2>1, <2>3 DEF Main, Select, PortOneIdle, PortOneAccept, Fault,
                            PortTwoSkip, PortTwoAccept, Load, Store, Create, mvars
  <2>4. QED
    BY <2>2, <2>3
<1>2. CASE \E v \in Workers : Step(v) \/ BrokenPipe(v)
  BY <1>2 DEF Step, PickSocket, Receive, Answer, LoadDown, StoreDown, LoaderFails, ShowText, PassLine,
              BrokenPipe, mvars
<1>3. QED
  BY <1>1, <1>2 DEF Next, vars, ClientConnects, ClientExits, OperatorTypes, mvars

(* The limit of port 1 is never enforced while ctr points into the page.   *)
THEOREM LimitOneIdle == Spec => []PortOneUnlimited
<1>1. Init => Zeros /\ PortOneUnlimited
  BY DEF Init, Zeros, PortOneUnlimited
<1>2. QED
  BY <1>1, InitTypes, TypesKept, PortOneKept, PTL DEF Spec

-----------------------------------------------------------------------------
(* CounterExact needs that main, between its check of ctr2 and its store,  *)
(* finds no more threads than when it checked.                             *)
Room == ~raced /\ pc \in {"load", "store"} => Counted < Limit2
CounterInv == TInv /\ CounterExact /\ Room

\* The running threads can be counted.
LEMMA RunningFinite == IsFiniteSet(Running) /\ Cardinality(Running) \in Nat
<1>1. IsFiniteSet(Workers)
  BY FS_Interval DEF Workers
<1>2. Running \subseteq Workers
  BY DEF Running, Threads
<1>3. QED
  BY <1>1, <1>2, FS_Subset, FS_CardinalityType

(* Steps that end or start no thread. *)
LEMMA SameThreads ==
  ASSUME TInv, TInv', UNCHANGED <<nw, kind>>,
         \A w \in Workers : kind[w] = 2 => (wpc'[w] = "done" <=> wpc[w] = "done")
  PROVE  Running' = Running
  BY DEF Running, Threads

\* A thread that starts is one more of port 2,
LEMMA StartedThread ==
  ASSUME TInv, NEW k \in {1, 2}, NEW fd, NEW s \in {"new", "read"}, StartWorker(k, fd, s)
  PROVE  Cardinality(Running)' = Cardinality(Running) + (IF k = 2 THEN 1 ELSE 0)
<1>1. /\ nw' = nw + 1 /\ nw' \in Workers /\ nw' \notin Running /\ nw \in Nat
      /\ kind'[nw'] = k /\ wpc'[nw'] = s
      /\ \A w \in Workers : w # nw' => kind'[w] = kind[w] /\ wpc'[w] = wpc[w]
  BY DEF TInv, WType, StartWorker, Workers, Running, Threads
<1>2. \A w \in Workers : w # nw' => (w <= nw' <=> w <= nw)
  BY <1>1 DEF Workers
<1>a. \A w \in Workers : w # nw' => (w \in Running' <=> w \in Running)
  <2> SUFFICES ASSUME NEW w \in Workers, w # nw' PROVE w \in Running' <=> w \in Running
    OBVIOUS
  <2>1. (w <= nw' <=> w <= nw) /\ kind'[w] = kind[w] /\ wpc'[w] = wpc[w]
    BY <1>1, <1>2
  <2>2. QED
    BY <2>1 DEF Running, Threads
<1>b. nw' \in Running' <=> k = 2
  BY <1>1 DEF Running, Threads, Workers
<1>c. Running' \subseteq Workers /\ Running \subseteq Workers
  BY DEF Running, Threads
<1>3. CASE k = 2
  <2>1. Running' = Running \cup {nw'}
    BY <1>1, <1>a, <1>b, <1>c, <1>3
  <2>2. QED
    BY <1>1, <1>3, <2>1, RunningFinite, FS_AddElement
<1>4. CASE k = 1
  <2>1. Running' = Running
    <3>1. nw' \notin Running' /\ nw' \notin Running
      BY <1>1, <1>b, <1>4
    <3>2. \A w \in Workers : w \in Running' <=> w \in Running
      BY <3>1, <1>a
    <3>3. QED
      BY <3>2, <1>c
  <2>2. QED
    BY <2>1, <1>4, RunningFinite
<1>5. QED
  BY <1>3, <1>4

\* and one that has taken itself off the counter is one less.
LEMMA EndedThread ==
  ASSUME TInv, NEW w \in Workers, StoreDown(w), w <= nw
  PROVE  Cardinality(Running)' = Cardinality(Running) - 1
<1>1. w \in Running /\ Running' = Running \ {w}
  BY DEF StoreDown, Ends, Goes, Thread, Running, Threads, TInv, WType
<1>2. QED
  BY <1>1, RunningFinite, FS_RemoveElement

(* Workers that have not been started have no control state. *)
Unstarted == \A w \in Workers : w > nw => wpc[w] = "none"

\* Every step leaves the others without a control state.
LEMMA UnstartedKept == TInv /\ Unstarted /\ [Next]_vars => Unstarted'
<1> SUFFICES ASSUME TInv, Unstarted, [Next]_vars, NEW w \in Workers, w > nw' PROVE wpc'[w] = "none"
  BY DEF Unstarted
<1>1. CASE UNCHANGED <<nw, wpc>>
  BY <1>1 DEF Unstarted
<1>2. ASSUME NEW k, NEW fd, NEW s, StartWorker(k, fd, s) PROVE wpc'[w] = "none"
  BY <1>2 DEF StartWorker, Unstarted, TInv, WType, Workers
<1>3. ASSUME NEW v \in Workers, Step(v) PROVE wpc'[w] = "none"
  <2>1. nw' = nw /\ wpc[v] # "none" /\ \E s : wpc' = [wpc EXCEPT ![v] = s]
    BY <1>3 DEF Step, PickSocket, Receive, Answer, LoadDown, StoreDown, LoaderFails, ShowText, PassLine,
                Ends, Goes, Thread, Process
  <2>2. QED
    BY <2>1 DEF Unstarted, TInv, WType
<1>4. CASE Main
  BY <1>1, <1>2, <1>4 DEF Main, Select, PortOneIdle, PortOneSkip, PortOneAccept, Fault,
     PortTwoSkip, PortTwoAccept, Load, Store, Create, wvars
<1>5. QED
  BY <1>1, <1>3, <1>4 DEF Next, vars, ClientConnects, ClientExits, OperatorTypes, BrokenPipe, wvars

\* Every step keeps the counter exact, and room for the thread being created.
LEMMA CounterKept == CounterInv /\ Unstarted /\ [Next]_vars => CounterInv'
<1> SUFFICES ASSUME CounterInv, Unstarted, [Next]_vars, TInv' PROVE CounterExact' /\ Room'
  BY TypesKept DEF CounterInv
<1> TInv /\ Cardinality(Running) \in Nat
  BY RunningFinite DEF CounterInv
<1> USE DEF CounterInv, CounterExact, Room, Counted
<1>1. CASE UNCHANGED <<pc, ctr2, raced, nw, kind>> /\ Running' = Running
  BY <1>1
<1>2. CASE Main
  <2>1. CASE PortOneAccept
    <3>1. Cardinality(Running)' = Cardinality(Running)
      BY <2>1, StartedThread DEF PortOneAccept
    <3>2. QED
      BY <2>1, <3>1 DEF PortOneAccept, cvars
  <2>2. CASE Create
    <3>1. Cardinality(Running)' = Cardinality(Running) + 1
      BY <2>2, StartedThread DEF Create
    <3>2. QED
      BY <2>2, <3>1 DEF Create, cvars
  <2>3. CASE Store
    <3>1. UNCHANGED <<nw, kind, wpc>>
      BY <2>3 DEF Store, wvars
    <3>2. Running' = Running
      BY <3>1, SameThreads
    <3>3. ctr2' = reg + 1 /\ raced' = (raced \/ ctr2 # reg) /\ pc = "store" /\ pc' = "create"
      BY <2>3 DEF Store, SetCtr2
    <3>4. ~raced' => ~raced /\ ctr2 = reg
      BY <3>3
    <3>5. QED
      BY <3>2, <3>3, <3>4 DEF TInv, CType
  <2>4. CASE PortTwoAccept
    <3>1. UNCHANGED <<nw, kind, wpc, cvars>> /\ pc = "two" /\ pc' = "load" /\ ctr2 < Limit2
      BY <2>4 DEF PortTwoAccept, wvars
    <3>2. Running' = Running
      BY <3>1, SameThreads
    <3>3. QED
      BY <3>1, <3>2 DEF cvars
  <2>5. CASE Select \/ PortOneIdle \/ PortOneSkip \/ Fault \/ PortTwoSkip \/ Load
    <3>1. /\ UNCHANGED <<nw, kind, wpc, cvars>> /\ pc # "create" /\ pc' # "create"
          /\ pc' \in {"load", "store"} => pc \in {"load", "store"}
          /\ pc' # "dead" => pc # "dead"
      BY <2>5 DEF Select, PortOneIdle, PortOneSkip, Fault, PortTwoSkip, Load, wvars
    <3>2. Running' = Running
      BY <3>1, SameThreads
    <3>3. QED
      BY <3>1, <3>2 DEF cvars
  <2>6. QED
    BY <1>2, <2>1, <2>2, <2>3, <2>4, <2>5 DEF Main
<1>3. ASSUME NEW w \in Workers, StoreDown(w) PROVE CounterExact' /\ Room'
  <2>1. w <= nw
    BY <1>3 DEF StoreDown, Thread, Unstarted, Workers, TInv, WType
  <2>2. Cardinality(Running)' = Cardinality(Running) - 1
    BY <1>3, <2>1, EndedThread
  <2>3. ctr2' = wreg[w] - 1 /\ raced' = (raced \/ ctr2 # wreg[w]) /\ pc' = pc
    BY <1>3 DEF StoreDown, SetCtr2
  <2>4. ~raced' => ~raced /\ ctr2 = wreg[w]
    BY <2>3
  <2>5. QED
    BY <2>2, <2>3, <2>4 DEF TInv, CType
<1>4. ASSUME NEW w \in Workers,
             \/ PickSocket(w) \/ Receive(w) \/ Answer(w) \/ LoadDown(w)
             \/ LoaderFails(w) \/ ShowText(w) \/ PassLine(w)
      PROVE  CounterExact' /\ Room'
  <2>1. /\ UNCHANGED <<pc, cvars, nw, kind>>
        /\ \A v \in Workers : kind[v] = 2 => (wpc'[v] = "done" <=> wpc[v] = "done")
    BY <1>4 DEF PickSocket, Receive, Answer, LoadDown, LoaderFails, ShowText, PassLine, Ends, Goes, Thread,
                Process, TInv, WType
  <2>2. Running' = Running
    BY <2>1, SameThreads
  <2>3. QED
    BY <1>1, <2>1, <2>2 DEF cvars
<1>5. ASSUME NEW w \in Workers, BrokenPipe(w) PROVE CounterExact' /\ Room'
  BY <1>5 DEF BrokenPipe
<1>6. CASE UNCHANGED <<pc, wvars, cvars>>
  <2>1. Running' = Running
    BY <1>6, SameThreads DEF wvars
  <2>2. QED
    BY <1>1, <1>6, <2>1 DEF wvars, cvars
<1>7. QED
  BY <1>2, <1>3, <1>4, <1>5, <1>6 DEF Next, Step, vars, ClientConnects, ClientExits, OperatorTypes

(* Unless two updates overlapped, the counter is exact and the limit kept. *)
THEOREM CounterCorrect == Spec => []CounterExact
<1>1. Init => CounterInv /\ Unstarted
  <2> SUFFICES ASSUME Init PROVE CounterExact /\ Room /\ Unstarted
    BY InitTypes DEF CounterInv
  <2>1. Running = {} /\ pc = "select" /\ ctr2 = 0
    BY DEF Init, Running, Threads, Workers
  <2>2. Cardinality(Running) = 0
    BY <2>1, FS_EmptySet
  <2>3. QED
    BY <2>1, <2>2 DEF Init, CounterExact, Room, Counted, Unstarted
<1>2. CounterInv /\ Unstarted /\ [Next]_vars => (CounterInv /\ Unstarted)'
  BY CounterKept, UnstartedKept DEF CounterInv
<1>3. CounterInv => CounterExact
  BY DEF CounterInv
<1>4. QED
  BY <1>1, <1>2, <1>3, PTL DEF Spec

-----------------------------------------------------------------------------
(* The server of midques/que5, whose facilitator and services share one    *)
(* buffer between their threads as que3 shares nsfd: what follows is about *)
(* Facilitator, for any clients, numbers, lines and bounds.                *)
CONSTANTS Clients, Numbers, Lines, MaxLines, MaxThreads, MayDie
VARIABLES tty, stdio, typed, fpc, backlog, c_addr, sbuf, born, sfd, pipe,
          cpc, number, spc, buf, reads, took, ends, fwd

FA == INSTANCE Facilitator

(* Types in parts, as the proofs use them.  A line has two words at most:  *)
(* FacBudget says there is a slot for every word typed.                       *)
FacWords == {"good", "bad"}
FacBudget == Len(sfd) + Len(stdio) + 2 * Len(tty) <= 2 * typed
FacOpType == /\ tty \in Seq(Lines) /\ stdio \in Seq(FacWords) /\ typed \in 0..MaxLines
             /\ sfd \in Seq(FacWords) /\ FacBudget
FacPcType == /\ fpc \in {"select", "scan", "accept", "recv", "write", "dead"}
             /\ ready \subseteq {"tty", "msfd"} /\ backlog \in Seq(Clients)
             /\ addrlen \in {"negative", "short", "full"}
             /\ c_addr \in FA!Address /\ nsfd \in Clients \cup {FA!Nobody}
FacClientType == /\ cpc \in [Clients -> {"off", "send", "sent", "killed"}]
                 /\ number \in [Clients -> Seq(FA!Digits)]
FacBufType == sbuf \in Seq(FA!Digits) /\ born \in Seq(FA!Digits) /\ fwd \in Seq(FA!Request)
FacServiceType == /\ pipe \in [FA!Slots -> Seq(FA!Address)]
                  /\ spc \in [FA!Slots -> {"read", "create"}] /\ buf \in [FA!Slots -> FA!Address]
                  /\ reads \in [FA!Slots -> Seq(Seq(FA!Address))]
                  /\ took \in [FA!Slots -> Seq(FA!Address \cup {FA!Nothing})]
                  /\ ends \in [FA!Slots -> Seq(FA!Address \cup {FA!Nothing})]
FacTInv == FacOpType /\ FacPcType /\ FacClientType /\ FacBufType /\ FacServiceType

(* The clients the facilitator deals with have connected, and it goes on to *)
(* write only when the one it serves has sent or was killed.               *)
FacServing == /\ fpc = "accept" => backlog # <<>>
              /\ fpc = "scan" /\ "msfd" \in ready => backlog # <<>>
              /\ \A p \in 1..Len(backlog) : cpc[backlog[p]] # "off"
              /\ nsfd # FA!Nobody => cpc[nsfd] # "off"
              /\ fpc = "write" /\ nsfd # FA!Nobody => cpc[nsfd] # "send"

\* There is a slot for every service, by Budget.
LEMMA FacServicesFit ==
  ASSUME FA!FacilitatorAssumption
  PROVE  FacOpType => FA!Services \subseteq FA!Slots
<1> SUFFICES ASSUME FacOpType PROVE FA!Services \subseteq FA!Slots
  OBVIOUS
<1>1. /\ Len(sfd) \in Nat /\ Len(stdio) \in Nat /\ Len(tty) \in Nat
      /\ DOMAIN sfd = 1..Len(sfd) /\ typed \in 0..MaxLines /\ FacBudget
  BY DEF FacOpType
<1>2. Len(sfd) <= MaxLines * 2
  BY <1>1 DEF FacBudget, FA!FacilitatorAssumption
<1> QED
  BY <1>1, <1>2 DEF FA!Services, FA!Slots, FA!FacilitatorAssumption

\* The parts give the type invariant.
LEMMA FacTypesOfParts ==
  ASSUME FA!FacilitatorAssumption
  PROVE  FacTInv => FA!TypeOK
  BY FacServicesFit DEF FacTInv, FacOpType, FacPcType, FacClientType, FacBufType, FacServiceType, FA!TypeOK, FacWords

\* They hold at the start.
LEMMA FacInitHolds ==
  ASSUME FA!FacilitatorAssumption
  PROVE  FA!Init => FacTInv /\ FacServing
<1> SUFFICES ASSUME FA!Init PROVE FacTInv /\ FacServing
  OBVIOUS
<1>1. FacOpType /\ FacPcType /\ FacClientType
  BY DEF FA!Init, FacOpType, FacPcType, FacClientType, FacBudget, FA!Address, FA!FacilitatorAssumption
<1>2. FacBufType
  <2>1. <<>> \in Seq(FA!Digits) /\ <<0, 0>> \in Seq(FA!Digits) /\ <<>> \in Seq(FA!Request)
    BY DEF FA!Digits
  <2>2. born \in {<<>>, <<0, 0>>} /\ sbuf = born /\ fwd = <<>>
    BY DEF FA!Init
  <2> QED
    BY ONLY <2>1, <2>2 DEF FacBufType
<1>3. FacServiceType
  BY DEF FA!Init, FacServiceType, FA!Address
<1>4. FacServing
  BY DEF FA!Init, FacServing
<1> QED
  BY <1>1, <1>2, <1>3, <1>4 DEF FacTInv

(* What recv leaves in the buffer: the text received, if it is as long as  *)
(* what was there; and never more than the longer of the two.              *)
LEMMA FacOverlaid ==
  ASSUME NEW new \in Seq(FA!Digits), NEW old \in Seq(FA!Digits)
  PROVE  /\ FA!Overlay(new, old) \in Seq(FA!Digits)
         /\ Len(old) <= Len(new) => FA!Overlay(new, old) = new
         /\ Len(old) > Len(new) => Len(FA!Overlay(new, old)) = Len(old)
<1> DEFINE rest == SubSeq(old, Len(new) + 1, Len(old))
<1>1. Len(new) \in Nat /\ Len(old) \in Nat
  OBVIOUS
<1>2. CASE Len(old) <= Len(new)
  <2>1. rest = <<>>
    BY <1>1, <1>2
  <2> QED
    BY <1>1, <1>2, <2>1 DEF FA!Overlay
<1>3. CASE Len(old) > Len(new)
  <2>1. rest \in Seq(FA!Digits) /\ Len(rest) = Len(old) - Len(new)
    BY <1>1, <1>3, SubSeqProperties
  <2> HIDE DEF rest
  <2>2. FA!Overlay(new, old) = new \o rest
    BY DEF FA!Overlay, rest
  <2>3. new \o rest \in Seq(FA!Digits) /\ Len(new \o rest) = Len(new) + Len(rest)
    BY <2>1
  <2> QED
    BY <1>1, <1>3, <2>1, <2>2, <2>3
<1> QED
  BY <1>1, <1>2, <1>3

\* What recv returns are digits.
LEMMA FacReceivedType ==
  ASSUME FA!FacilitatorAssumption
  PROVE  FacClientType /\ FacPcType => FA!Received \in Seq(FA!Digits)
  BY DEF FacClientType, FacPcType, FA!Received

-----------------------------------------------------------------------------
(* Types and FacServing, action by action.                                    *)
LEMMA FacilitatorTypes ==
  ASSUME FA!FacilitatorAssumption, FacTInv, FacServing, FA!Facilitates
  PROVE  FacTInv' /\ FacServing'
<1> USE DEF FacTInv
<1>1. CASE FA!Select
  <2>1. FacOpType' /\ FacClientType' /\ FacBufType' /\ FacServiceType'
    BY <1>1 DEF FA!Select, FA!opvars, FA!cvars, FA!svars, FacOpType, FacBudget, FacClientType, FacBufType, FacServiceType, FA!Slots
  <2>2. FacPcType'
    BY <1>1 DEF FA!Select, FacPcType
  <2>3. FacServing'
    BY <1>1 DEF FA!Select, FacServing, FA!cvars
  <2> QED
    BY <2>1, <2>2, <2>3
<1>2. CASE FA!ScanLine
  <2>1. /\ tty \in Seq(Lines) /\ tty # <<>> /\ stdio = <<>> /\ stdio' = Head(tty)
        /\ tty' = Tail(tty) /\ UNCHANGED <<typed, sfd>>
    BY <1>2 DEF FA!ScanLine, FacOpType, FA!fvars
  <2>2. Head(tty) \in Lines /\ Tail(tty) \in Seq(Lines) /\ Len(Tail(tty)) = Len(tty) - 1
        /\ Len(tty) \in Nat
    BY <2>1
  <2>3. Head(tty) \in Seq(FacWords) /\ Len(Head(tty)) <= 2 /\ Len(Head(tty)) \in Nat
    BY <2>2 DEF FA!FacilitatorAssumption, FacWords
  <2>4. FacBudget'
    <3>1. Len(sfd) + 0 + 2 * Len(tty) <= 2 * typed /\ Len(sfd) \in Nat /\ typed \in Int
      BY <2>1 DEF FacOpType, FacBudget
    <3>2. Len(sfd) + Len(Head(tty)) + 2 * (Len(tty) - 1) <= 2 * typed
      <4> DEFINE s == Len(sfd)
                 h == Len(Head(tty))
                 t == Len(tty)
      <4>1. s \in Nat /\ h \in Nat /\ t \in Nat /\ typed \in Int /\ h <= 2
            /\ s + 0 + 2 * t <= 2 * typed
        BY <2>2, <2>3, <3>1
      <4> HIDE DEF s, h, t
      <4>2. s + h + 2 * (t - 1) <= 2 * typed
        BY ONLY <4>1
      <4> QED
        BY <4>2 DEF s, h, t
    <3> QED
      BY <2>1, <2>2, <3>2 DEF FacBudget
  <2>5. FacOpType'
    BY <2>1, <2>2, <2>3, <2>4 DEF FacOpType
  <2>6. FacPcType' /\ FacClientType' /\ FacBufType' /\ FacServiceType' /\ FacServing'
    BY <1>2 DEF FA!ScanLine, FA!fvars, FA!cvars, FA!svars, FacPcType, FacClientType, FacBufType, FacServiceType, FacServing
  <2> QED
    BY <2>5, <2>6
<1>3. CASE FA!OpenService
  <2>1. /\ stdio \in Seq(FacWords) /\ stdio # <<>> /\ sfd \in Seq(FacWords)
        /\ sfd' = Append(sfd, Head(stdio)) /\ stdio' = Tail(stdio) /\ UNCHANGED <<tty, typed>>
    BY <1>3 DEF FA!OpenService, FacOpType
  <2>2. /\ Head(stdio) \in FacWords /\ Tail(stdio) \in Seq(FacWords)
        /\ Len(Tail(stdio)) = Len(stdio) - 1 /\ Len(stdio) \in Nat
        /\ sfd' \in Seq(FacWords) /\ Len(sfd') = Len(sfd) + 1 /\ Len(sfd) \in Nat
    BY <2>1
  <2>3. FacBudget'
    BY <2>1, <2>2 DEF FacOpType, FacBudget
  <2>4. FacOpType'
    BY <2>1, <2>2, <2>3 DEF FacOpType
  <2>5. FacPcType' /\ FacClientType' /\ FacBufType' /\ FacServiceType'
    BY <1>3 DEF FA!OpenService, FA!cvars, FA!svars, FacPcType, FacClientType, FacBufType, FacServiceType
  <2>6. FacServing'
    BY <1>3 DEF FA!OpenService, FA!cvars, FacServing
  <2> QED
    BY <2>4, <2>5, <2>6
<1>4. CASE FA!Accept
  <2>1. /\ fpc = "accept" /\ backlog \in Seq(Clients) /\ backlog # <<>>
        /\ backlog' = Tail(backlog) /\ fpc' = "recv" /\ ready' = ready /\ cpc' = cpc
    BY <1>4 DEF FA!Accept, FA!cvars, FacPcType, FacServing
  <2>2. /\ Head(backlog) \in Clients /\ Tail(backlog) \in Seq(Clients)
        /\ Len(backlog') \in Nat /\ Len(backlog) \in Nat \ {0} /\ backlog[1] = Head(backlog)
        /\ \A p \in 1..Len(backlog') : p + 1 \in 1..Len(backlog) /\ backlog'[p] = backlog[p + 1]
    BY <2>1
  <2>3. nsfd' \in {FA!Nobody, Head(backlog)} /\ c_addr' \in {c_addr, Head(backlog)}
        /\ addrlen' \in {addrlen, "full"}
    BY <1>4 DEF FA!Accept
  <2>4. FacPcType'
    BY <2>1, <2>2, <2>3 DEF FacPcType, FA!Address
  <2>5. FacOpType' /\ FacClientType' /\ FacBufType' /\ FacServiceType'
    BY <1>4 DEF FA!Accept, FA!opvars, FA!cvars, FA!svars, FacOpType, FacBudget, FacClientType, FacBufType, FacServiceType
  <2>6. FacServing'
    <3>1. \A p \in 1..Len(backlog') : cpc'[backlog'[p]] # "off"
      BY <2>1, <2>2 DEF FacServing
    <3>2. cpc[Head(backlog)] # "off"
      BY <2>2 DEF FacServing
    <3> QED
      BY <2>1, <2>3, <3>1, <3>2 DEF FacServing
  <2> QED
    BY <2>4, <2>5, <2>6
<1>5. CASE FA!Recv
  <2>1. FA!Received \in Seq(FA!Digits)
    BY FacReceivedType
  <2>2. sbuf' \in Seq(FA!Digits)
    BY <1>5, <2>1, FacOverlaid DEF FA!Recv, FacBufType
  <2>3. FacBufType'
    BY <1>5, <2>2 DEF FA!Recv, FacBufType
  <2>4. FacPcType' /\ FacOpType' /\ FacClientType' /\ FacServiceType'
    BY <1>5 DEF FA!Recv, FA!opvars, FA!cvars, FA!svars, FacPcType, FacOpType, FacBudget, FacClientType, FacServiceType
  <2>5. FacServing'
    BY <1>5 DEF FA!Recv, FA!cvars, FacServing
  <2> QED
    BY <2>3, <2>4, <2>5
<1>6. CASE FA!Write
  <2>1. PICK k \in FA!Targets :
          /\ pipe' = pipe \/ (k \in FA!Services /\ pipe' = [pipe EXCEPT ![k] = Append(@, c_addr)])
          /\ fwd' = Append(fwd, [from |-> nsfd, digits |-> FA!Received, addr |-> c_addr,
                                 to |-> k, n |-> Len(sfd)])
          /\ fpc' \in {"select", "dead"}
          /\ UNCHANGED <<FA!opvars, ready, backlog, addrlen, c_addr, nsfd, sbuf, born, sfd,
                         FA!cvars, FA!svars>>
    <3>1. PICK k \in FA!Targets :
            /\ IF k # 0 /\ sfd[k] = "good"
                 THEN pipe' = [pipe EXCEPT ![k] = Append(@, c_addr)]
                 ELSE pipe' = pipe
            /\ fwd' = Append(fwd, [from |-> nsfd, digits |-> FA!Received, addr |-> c_addr,
                                   to |-> k, n |-> Len(sfd)])
            /\ fpc' \in {"select", "dead"}
            /\ UNCHANGED <<FA!opvars, ready, backlog, addrlen, c_addr, nsfd, sbuf, born, sfd,
                           FA!cvars, FA!svars>>
      BY <1>6 DEF FA!Write
    <3>2. k # 0 => k \in FA!Services
      BY <3>1 DEF FA!Targets
    <3> QED
      BY <3>1, <3>2
  <2>2. FA!Received \in Seq(FA!Digits) /\ k \in Nat /\ Len(sfd) \in Nat
    <3>1. Len(sfd) \in Nat /\ DOMAIN sfd = 1..Len(sfd)
      BY DEF FacOpType
    <3>2. k \in FA!Services \cup {0}
      BY <2>1 DEF FA!Targets
    <3> QED
      BY <3>1, <3>2, FacReceivedType DEF FA!Services
  <2>3. [from |-> nsfd, digits |-> FA!Received, addr |-> c_addr, to |-> k, n |-> Len(sfd)] \in FA!Request
    BY <2>2 DEF FacPcType, FA!Request
  <2>4. FacBufType'
    BY <2>1, <2>3 DEF FacBufType
  <2>5. pipe' \in [FA!Slots -> Seq(FA!Address)]
    <3>1. \A s \in Seq(FA!Address) : Append(s, c_addr) \in Seq(FA!Address)
      BY DEF FacPcType
    <3>2. pipe \in [FA!Slots -> Seq(FA!Address)]
      BY DEF FacServiceType
    <3>3. CASE pipe' = [pipe EXCEPT ![k] = Append(@, c_addr)]
      BY ONLY <3>1, <3>2, <3>3
    <3> QED
      BY ONLY <2>1, <3>2, <3>3
  <2>6. FacServiceType'
    BY <2>1, <2>5 DEF FacServiceType, FA!svars
  <2>7. FacPcType' /\ FacOpType' /\ FacClientType'
    BY <2>1 DEF FA!opvars, FA!cvars, FacPcType, FacOpType, FacBudget, FacClientType
  <2>8. FacServing'
    BY <2>1 DEF FA!cvars, FacServing
  <2> QED
    BY <2>4, <2>6, <2>7, <2>8
<1> QED
  BY <1>1, <1>2, <1>3, <1>4, <1>5, <1>6 DEF FA!Facilitates

\* The operator's step keeps them,
LEMMA FacTypeLineTypes ==
  ASSUME FA!FacilitatorAssumption, FacTInv, FacServing, NEW l \in Lines, FA!TypeLine(l)
  PROVE  FacTInv' /\ FacServing'
<1> USE DEF FacTInv
<1>1. /\ tty \in Seq(Lines) /\ tty' = Append(tty, l) /\ typed \in 0..MaxLines
      /\ typed < MaxLines /\ typed' = typed + 1 /\ UNCHANGED <<stdio, sfd>>
  BY DEF FA!TypeLine, FacOpType, FA!fvars
<1>2. tty' \in Seq(Lines) /\ Len(tty') = Len(tty) + 1 /\ Len(tty) \in Nat
  BY <1>1
<1>3. FacBudget'
  BY <1>1, <1>2 DEF FacOpType, FacBudget
<1>4. typed' \in 0..MaxLines
  BY <1>1 DEF FA!FacilitatorAssumption
<1>5. FacOpType'
  BY <1>1, <1>2, <1>3, <1>4 DEF FacOpType
<1>6. FacPcType' /\ FacClientType' /\ FacBufType' /\ FacServiceType' /\ FacServing'
  BY DEF FA!TypeLine, FA!fvars, FA!cvars, FA!svars, FacPcType, FacClientType, FacBufType, FacServiceType, FacServing
<1> QED
  BY <1>5, <1>6

\* the clients' steps do,
LEMMA FacClientTypes ==
  ASSUME FA!FacilitatorAssumption, FacTInv, FacServing, NEW c \in Clients,
         FA!Send(c) \/ FA!Kill(c) \/ \E s \in Numbers : FA!Connect(c, s)
  PROVE  FacTInv' /\ FacServing'
<1> USE DEF FacTInv
<1>1. CASE FA!Send(c) \/ FA!Kill(c)
  <2>1. cpc' = [cpc EXCEPT ![c] = "sent"] \/ cpc' = [cpc EXCEPT ![c] = "killed"]
    BY <1>1 DEF FA!Send, FA!Kill
  <2>2. UNCHANGED <<FA!opvars, FA!fvars, pipe, number, FA!svars, fwd>>
    BY <1>1 DEF FA!Send, FA!Kill
  <2>3. FacClientType' /\ \A d \in Clients : cpc[d] \notin {"off", "send"} => cpc'[d] = cpc[d] \/ cpc'[d] \in {"sent", "killed"}
    BY <2>1, <2>2 DEF FacClientType
  <2>4. \A d \in Clients : /\ cpc[d] # "off" => cpc'[d] # "off"
                           /\ cpc[d] \notin {"off", "send"} => cpc'[d] \notin {"off", "send"}
    BY <2>1 DEF FacClientType
  <2>5. FacOpType' /\ FacPcType' /\ FacBufType' /\ FacServiceType'
    BY <2>2 DEF FA!opvars, FA!fvars, FA!svars, FacOpType, FacBudget, FacPcType, FacBufType, FacServiceType
  <2>6. \A p \in 1..Len(backlog) : backlog[p] \in Clients
    BY DEF FacPcType
  <2>7. FacServing'
    BY <2>2, <2>4, <2>6 DEF FacServing, FacPcType, FA!fvars
  <2> QED
    BY <2>3, <2>5, <2>7
<1>2. ASSUME NEW s \in Numbers, FA!Connect(c, s) PROVE FacTInv' /\ FacServing'
  <2>1. /\ cpc[c] = "off" /\ cpc' = [cpc EXCEPT ![c] = "send"]
        /\ number' = [number EXCEPT ![c] = s] /\ backlog' = Append(backlog, c)
        /\ UNCHANGED <<FA!opvars, fpc, ready, addrlen, c_addr, nsfd, sbuf, born, sfd, pipe,
                       FA!svars, fwd>>
    BY <1>2 DEF FA!Connect
  <2>2. s \in Seq(FA!Digits)
    BY DEF FA!FacilitatorAssumption, FA!Digits
  <2>3. FacClientType'
    BY <2>1, <2>2 DEF FacClientType
  <2>4. FacOpType' /\ FacBufType' /\ FacServiceType'
    BY <2>1 DEF FA!opvars, FA!svars, FacOpType, FacBudget, FacBufType, FacServiceType
  <2>5. /\ backlog' \in Seq(Clients) /\ Len(backlog') = Len(backlog) + 1 /\ Len(backlog) \in Nat
        /\ backlog'[Len(backlog) + 1] = c /\ backlog' # <<>>
        /\ \A p \in 1..Len(backlog) : backlog'[p] = backlog[p] /\ backlog[p] \in Clients
    BY <2>1 DEF FacPcType
  <2>6. FacPcType'
    BY <2>1, <2>5 DEF FacPcType
  <2>7. \A d \in Clients : cpc[d] # "off" => cpc'[d] = cpc[d]
    BY <2>1 DEF FacClientType
  <2>8. \A p \in 1..Len(backlog') : cpc'[backlog'[p]] # "off"
    <3>1. \A p \in 1..Len(backlog') : p \in 1..Len(backlog) \/ p = Len(backlog) + 1
      BY <2>5
    <3>2. cpc'[c] = "send"
      BY <2>1 DEF FacClientType
    <3> QED
      BY <2>5, <2>7, <3>1, <3>2 DEF FacServing
  <2>9. FacServing'
    BY <2>1, <2>5, <2>7, <2>8 DEF FacServing, FacPcType
  <2> QED
    BY <2>3, <2>4, <2>6, <2>9
<1> QED
  BY <1>1, <1>2

\* and the services' and threads'.
LEMMA FacServiceTypes ==
  ASSUME FA!FacilitatorAssumption, FacTInv, FacServing, NEW i \in FA!Slots, FA!Serves(i)
  PROVE  FacTInv' /\ FacServing'
<1> USE DEF FacTInv
<1>1. /\ UNCHANGED <<FA!opvars, FA!fvars, FA!cvars, fwd>>
  BY DEF FA!Serves, FA!ServiceReads, FA!CreateThread, FA!ThreadCopies, FA!ThreadEnds
<1>2. FacOpType' /\ FacPcType' /\ FacClientType' /\ FacBufType' /\ FacServing'
  BY <1>1 DEF FA!opvars, FA!fvars, FA!cvars, FacOpType, FacBudget, FacPcType, FacClientType, FacBufType, FacServing
<1>3. CASE FA!ServiceReads(i)
  <2>1. pipe[i] \in Seq(FA!Address) /\ <<>> \in Seq(FA!Address) /\ reads[i] \in Seq(Seq(FA!Address))
    BY DEF FacServiceType
  <2>2. Append(reads[i], pipe[i]) \in Seq(Seq(FA!Address))
    BY <2>1
  <2>3. pipe[i] # <<>> => Head(pipe[i]) \in FA!Address
    BY <2>1
  <2>4. buf' \in [FA!Slots -> FA!Address]
    BY <1>3, <2>3 DEF FA!ServiceReads, FA!NewBuf, FacServiceType
  <2>5. reads' \in [FA!Slots -> Seq(Seq(FA!Address))] /\ pipe' \in [FA!Slots -> Seq(FA!Address)]
    BY <1>3, <2>1, <2>2 DEF FA!ServiceReads, FacServiceType
  <2>6. FacServiceType'
    BY <1>3, <2>4, <2>5 DEF FA!ServiceReads, FacServiceType
  <2> QED
    BY <1>2, <2>6
<1>4. CASE FA!CreateThread(i)
  <2>1. took[i] \in Seq(FA!Address \cup {FA!Nothing}) /\ ends[i] \in Seq(FA!Address \cup {FA!Nothing})
    BY DEF FacServiceType
  <2>2. /\ Append(took[i], FA!Nothing) \in Seq(FA!Address \cup {FA!Nothing})
        /\ Append(ends[i], FA!Nothing) \in Seq(FA!Address \cup {FA!Nothing})
    BY <2>1
  <2>3. FacServiceType'
    BY <1>4, <2>2 DEF FA!CreateThread, FacServiceType
  <2> QED
    BY <1>2, <2>3
<1>5. ASSUME NEW j \in 1..MaxThreads, FA!ThreadCopies(i, j) PROVE FacTInv' /\ FacServing'
  <2>1. took[i] \in Seq(FA!Address \cup {FA!Nothing}) /\ j \in DOMAIN took[i] /\ buf[i] \in FA!Address
    BY <1>5 DEF FA!ThreadCopies, FacServiceType
  <2>2. [took[i] EXCEPT ![j] = buf[i]] \in Seq(FA!Address \cup {FA!Nothing})
    BY <2>1
  <2>3. took' = [took EXCEPT ![i] = [took[i] EXCEPT ![j] = buf[i]]]
    BY <1>5 DEF FA!ThreadCopies
  <2>4. took' \in [FA!Slots -> Seq(FA!Address \cup {FA!Nothing})]
    BY <2>2, <2>3 DEF FacServiceType
  <2>5. FacServiceType'
    BY <1>5, <2>4 DEF FA!ThreadCopies, FacServiceType
  <2> QED
    BY <1>2, <2>5
<1>6. ASSUME NEW j \in 1..MaxThreads, FA!ThreadEnds(i, j) PROVE FacTInv' /\ FacServing'
  <2>1. ends[i] \in Seq(FA!Address \cup {FA!Nothing}) /\ j \in DOMAIN ends[i] /\ buf[i] \in FA!Address
    BY <1>6 DEF FA!ThreadEnds, FacServiceType
  <2>2. [ends[i] EXCEPT ![j] = buf[i]] \in Seq(FA!Address \cup {FA!Nothing})
    BY <2>1
  <2>3. ends' = [ends EXCEPT ![i] = [ends[i] EXCEPT ![j] = buf[i]]]
    BY <1>6 DEF FA!ThreadEnds
  <2>4. ends' \in [FA!Slots -> Seq(FA!Address \cup {FA!Nothing})]
    BY <2>2, <2>3 DEF FacServiceType
  <2>5. FacServiceType'
    BY <1>6, <2>4 DEF FA!ThreadEnds, FacServiceType
  <2> QED
    BY <1>2, <2>5
<1> QED
  BY <1>3, <1>4, <1>5, <1>6 DEF FA!Serves

\* So every step does.
LEMMA FacTypesKept ==
  ASSUME FA!FacilitatorAssumption
  PROVE  FacTInv /\ FacServing /\ [FA!Next]_FA!vars => FacTInv' /\ FacServing'
<1> SUFFICES ASSUME FacTInv, FacServing, [FA!Next]_FA!vars PROVE FacTInv' /\ FacServing'
  OBVIOUS
<1>1. CASE UNCHANGED FA!vars
  BY <1>1 DEF FA!vars, FA!opvars, FA!fvars, FA!cvars, FA!svars, FacTInv, FacOpType, FacBudget, FacPcType, FacClientType,
              FacBufType, FacServiceType, FacServing
<1> QED
  BY <1>1, FacilitatorTypes, FacTypeLineTypes, FacClientTypes, FacServiceTypes DEF FA!Next

(* Every reachable state is well typed.  *)
THEOREM FacTypeCorrect ==
  ASSUME FA!FacilitatorAssumption
  PROVE  FA!Spec => []FA!TypeOK
<1>1. FA!Spec => [](FacTInv /\ FacServing)
  BY FacInitHolds, FacTypesKept, PTL DEF FA!Spec
<1> QED
  BY <1>1, FacTypesOfParts, PTL

-----------------------------------------------------------------------------
(* FA!RightService made inductive.  What the buffer holds is the last request's *)
(* digits unless an earlier text was longer (FacBuffer), no text in it is     *)
(* longer than all received (FacKnown), and the address goes with the client  *)
(* from the second accept on (FacAddressed).                                  *)
FacKnown(n) == n <= Len(born) \/ \E m \in 1..Len(fwd) : n <= Len(fwd[m].digits)
FacLonger(n) == Len(born) > n \/ \E m \in 1..Len(fwd) : Len(fwd[m].digits) > n
FacBuffer == IF fpc = "write"
             THEN /\ sbuf = FA!Received \/ FacLonger(Len(FA!Received))
                  /\ Len(sbuf) <= Len(FA!Received) \/ FacKnown(Len(sbuf))
             ELSE FacKnown(Len(sbuf))
FacAddressed == /\ fwd # <<>> => addrlen # "short"
                /\ fpc \in {"recv", "write"} =>
                     /\ addrlen # "short"
                     /\ c_addr = nsfd \/ nsfd = FA!Nobody \/ fwd = <<>>
FacRightInv == FacBuffer /\ FacAddressed /\ FA!RightService

\* The invariant of the requests holds at the start,
LEMMA FacInitRight ==
  ASSUME FA!FacilitatorAssumption
  PROVE  FA!Init => FacRightInv
<1> SUFFICES ASSUME FA!Init PROVE FacRightInv
  OBVIOUS
<1>1. sbuf = born /\ fwd = <<>> /\ fpc = "select" /\ Len(born) \in Nat
  BY FacInitHolds DEF FA!Init, FacTInv, FacBufType
<1> QED
  BY <1>1 DEF FacRightInv, FacBuffer, FacKnown, FacAddressed, FA!RightService

\* Steps that touch neither the buffer nor the requests keep all of it.
LEMMA FacRightUntouched ==
  ASSUME FacRightInv, UNCHANGED <<sbuf, born, fwd>>,
         \/ fpc' \notin {"recv", "write"} /\ fpc # "write" /\ addrlen' = addrlen
         \/ UNCHANGED <<fpc, addrlen, c_addr, nsfd>> /\ (fpc = "write" => FA!Received' = FA!Received)
  PROVE  FacRightInv'
<1>1. FA!RightService'
  BY DEF FacRightInv, FA!RightService, FA!Hidden
<1>2. FacBuffer'
  <2>1. CASE fpc = "write"
    BY <2>1 DEF FacRightInv, FacBuffer, FacKnown, FacLonger
  <2>2. CASE fpc # "write"
    BY <2>2 DEF FacRightInv, FacBuffer, FacKnown, FacLonger
  <2> QED
    BY <2>1, <2>2
<1>3. FacAddressed'
  BY DEF FacRightInv, FacAddressed
<1> QED
  BY <1>1, <1>2, <1>3 DEF FacRightInv

\* and every step keeps it.
LEMMA FacRightKept ==
  ASSUME FA!FacilitatorAssumption
  PROVE  FacTInv /\ FacServing /\ FacRightInv /\ [FA!Next]_FA!vars => FacRightInv'
<1> SUFFICES ASSUME FacTInv, FacServing, FacRightInv, [FA!Next]_FA!vars PROVE FacRightInv'
  OBVIOUS
<1>1. ASSUME NEW l \in Lines, FA!TypeLine(l) PROVE FacRightInv'
  BY <1>1, FacRightUntouched DEF FA!TypeLine, FA!fvars, FA!cvars, FA!Received
<1>2. CASE FA!Select \/ FA!ScanLine \/ FA!OpenService
  <2>1. UNCHANGED <<sbuf, born, fwd, addrlen>> /\ fpc # "write" /\ fpc' \notin {"recv", "write"}
    BY <1>2 DEF FA!Select, FA!ScanLine, FA!OpenService, FA!fvars
  <2> QED
    BY <2>1, FacRightUntouched
<1>3. CASE FA!Accept
  <2>1. /\ fpc = "accept" /\ fpc' = "recv" /\ UNCHANGED <<sbuf, born, fwd>>
        /\ nsfd' = IF addrlen = "negative" THEN FA!Nobody ELSE Head(backlog)
        /\ c_addr' = IF addrlen = "full" THEN Head(backlog) ELSE c_addr
        /\ addrlen' = IF addrlen = "short" THEN "full" ELSE addrlen
    BY <1>3 DEF FA!Accept
  <2>2. addrlen \in {"negative", "short", "full"}
    BY DEF FacTInv, FacPcType
  <2>3. FacAddressed'
    BY <2>1, <2>2 DEF FacRightInv, FacAddressed
  <2>4. FacBuffer' /\ FA!RightService'
    BY <2>1 DEF FacRightInv, FacBuffer, FacKnown, FA!RightService, FA!Hidden
  <2> QED
    BY <2>3, <2>4 DEF FacRightInv
<1>4. CASE FA!Recv
  <2>1. /\ fpc = "recv" /\ fpc' = "write" /\ sbuf' = FA!Overlay(FA!Received, sbuf)
        /\ UNCHANGED <<born, fwd, addrlen, c_addr, nsfd, cpc, number>>
    BY <1>4 DEF FA!Recv, FA!cvars
  <2>2. FA!Received' = FA!Received /\ FA!Received \in Seq(FA!Digits) /\ sbuf \in Seq(FA!Digits)
    BY <2>1, FacReceivedType DEF FA!Received, FacTInv, FacBufType
  <2>3. FacKnown(Len(sbuf))
    BY <2>1 DEF FacRightInv, FacBuffer
  <2>4. FacBuffer'
    <3> DEFINE new == FA!Received
    <3>1. new \in Seq(FA!Digits) /\ Len(new) \in Nat /\ Len(sbuf) \in Nat
      BY <2>2
    <3>2. CASE Len(sbuf) <= Len(new)
      <4>1. sbuf' = new
        BY <2>1, <2>2, <3>2, FacOverlaid
      <4> QED
        BY <2>1, <2>2, <3>1, <4>1 DEF FacBuffer
    <3>3. CASE Len(sbuf) > Len(new)
      <4>1. Len(sbuf') = Len(sbuf)
        BY <2>1, <2>2, <3>3, FacOverlaid
      <4>2. FacLonger(Len(new))
        <5>1. Len(born) \in Nat /\ \A m \in 1..Len(fwd) : Len(fwd[m].digits) \in Nat
          BY DEF FacTInv, FacBufType, FA!Request
        <5> QED
          BY <2>3, <3>1, <3>3, <5>1 DEF FacKnown, FacLonger
      <4>3. FacLonger(Len(new))' /\ FacKnown(Len(sbuf))'
        BY <2>1, <2>2, <2>3, <4>1, <4>2 DEF FacKnown, FacLonger
      <4> QED
        BY <2>1, <2>2, <4>3 DEF FacBuffer
    <3> QED
      BY <3>1, <3>2, <3>3
  <2>5. FacAddressed' /\ FA!RightService'
    BY <2>1 DEF FacRightInv, FacAddressed, FA!RightService, FA!Hidden
  <2> QED
    BY <2>4, <2>5 DEF FacRightInv
<1>5. CASE FA!Write
  <2>1. PICK k \in FA!Targets :
          /\ fpc = "write" /\ fpc' \in {"select", "dead"}
          /\ fwd' = Append(fwd, [from |-> nsfd, digits |-> FA!Received, addr |-> c_addr,
                                 to |-> k, n |-> Len(sfd)])
          /\ UNCHANGED <<addrlen, sbuf, born>>
    BY <1>5 DEF FA!Write
  <2> DEFINE new == FA!Received
             last == Len(fwd) + 1
  <2>2. /\ Len(fwd) \in Nat /\ Len(fwd') = last /\ DOMAIN fwd' = 1..last /\ DOMAIN fwd = 1..Len(fwd)
        /\ \A m \in 1..Len(fwd) : fwd'[m] = fwd[m]
        /\ fwd'[last] = [from |-> nsfd, digits |-> new, addr |-> c_addr, to |-> k, n |-> Len(sfd)]
        /\ fwd' # <<>>
    BY <2>1 DEF FacTInv, FacBufType
  <2>3. \A m \in 1..last : m \in 1..Len(fwd) \/ m = last
    BY ONLY <2>2
  <2>4. 1..Len(fwd) \subseteq 1..last /\ last \in 1..last
    BY ONLY <2>2
  <2>5. sbuf = new \/ FacLonger(Len(new))
    BY <2>1 DEF FacRightInv, FacBuffer
  <2>6. Len(sbuf) <= Len(new) \/ FacKnown(Len(sbuf))
    BY <2>1 DEF FacRightInv, FacBuffer
  <2> HIDE DEF new, last
  <2>7. FacBuffer'
    <3>1. fwd'[last].digits = new
      BY <2>2
    <3>2. FacKnown(Len(sbuf))'
      BY <2>1, <2>2, <2>4, <2>6, <3>1 DEF FacKnown
    <3> QED
      BY <2>1, <3>2 DEF FacBuffer
  <2>8. FacAddressed'
    BY <2>1 DEF FacRightInv, FacAddressed
  <2>9. ASSUME NEW n \in 1..last
        PROVE  /\ \/ fwd'[n].to = FA!atoi(fwd'[n].digits) + 1
                  \/ fwd'[n].digits = <<>> \/ FA!Hidden(n)' \/ FA!atoi(fwd'[n].digits) + 1 \notin 1..fwd'[n].n
               /\ fwd'[n].addr = fwd'[n].from \/ fwd'[n].from = FA!Nobody \/ n = 1
    <3>1. CASE n \in 1..Len(fwd)
      <4>1. \A m \in 1..n - 1 : m \in 1..Len(fwd)
        BY <2>2, <3>1
      <4>2. FA!Hidden(n) => FA!Hidden(n)'
        BY <2>1, <2>2, <3>1, <4>1 DEF FA!Hidden
      <4> QED
        BY <2>2, <3>1, <4>2 DEF FacRightInv, FA!RightService
    <3>2. CASE n = last
      <4>1. 1..n - 1 = 1..Len(fwd)
        BY <2>2, <3>2 DEF last
      <4>2. FacLonger(Len(new)) => FA!Hidden(n)'
        BY <2>1, <2>2, <3>2, <4>1 DEF FacLonger, FA!Hidden
      <4>3. k = FA!atoi(sbuf) + 1 \/ FA!atoi(sbuf) + 1 \notin 1..Len(sfd)
        <5>1. DOMAIN sfd = 1..Len(sfd)
          BY DEF FacTInv, FacOpType
        <5> QED
          BY <2>1, <5>1 DEF FA!Targets, FA!Services
      <4>4. c_addr = nsfd \/ nsfd = FA!Nobody \/ n = 1
        <5>1. fwd = <<>> => n = 1
          BY <3>2, <2>2 DEF last
        <5> QED
          BY <2>1, <5>1 DEF FacRightInv, FacAddressed
      <4> QED
        BY <2>2, <2>5, <3>2, <4>2, <4>3, <4>4
    <3> QED
      BY <2>3, <3>1, <3>2
  <2>10. FA!RightService'
    BY <2>2, <2>9 DEF FA!RightService
  <2> QED
    BY <2>7, <2>8, <2>10 DEF FacRightInv
<1>6. ASSUME NEW c \in Clients, FA!Send(c) \/ FA!Kill(c) \/ \E s \in Numbers : FA!Connect(c, s)
      PROVE  FacRightInv'
  <2>1. UNCHANGED <<sbuf, born, fwd, fpc, addrlen, c_addr, nsfd>>
    BY <1>6 DEF FA!Send, FA!Kill, FA!Connect, FA!fvars
  <2>2. ASSUME fpc = "write", nsfd # FA!Nobody PROVE cpc'[nsfd] = cpc[nsfd] /\ number'[nsfd] = number[nsfd]
    <3>1. nsfd \in Clients /\ cpc[nsfd] \notin {"off", "send"}
      BY <2>2 DEF FacTInv, FacPcType, FacServing
    <3>2. c # nsfd
      BY <1>6, <3>1 DEF FA!Send, FA!Kill, FA!Connect
    <3> QED
      BY <1>6, <3>1, <3>2 DEF FA!Send, FA!Kill, FA!Connect, FacTInv, FacClientType
  <2>3. fpc = "write" => FA!Received' = FA!Received
    BY <2>1, <2>2 DEF FA!Received
  <2> QED
    BY <2>1, <2>3, FacRightUntouched
<1>7. ASSUME NEW i \in FA!Slots, FA!Serves(i) PROVE FacRightInv'
  <2>1. UNCHANGED <<FA!fvars, FA!cvars, fwd>>
    BY <1>7 DEF FA!Serves, FA!ServiceReads, FA!CreateThread, FA!ThreadCopies, FA!ThreadEnds
  <2> QED
    BY <2>1, FacRightUntouched DEF FA!fvars, FA!cvars, FA!Received
<1>8. CASE UNCHANGED FA!vars
  BY <1>8, FacRightUntouched DEF FA!vars, FA!fvars, FA!cvars, FA!Received
<1> QED
  BY <1>1, <1>2, <1>3, <1>4, <1>5, <1>6, <1>7, <1>8 DEF FA!Next, FA!Facilitates

(* A request goes to the service it names and with the right address, but  *)
(* for the exceptions FA!RightService lists.                                  *)
THEOREM RequestsGoRight ==
  ASSUME FA!FacilitatorAssumption
  PROVE  FA!Spec => []FA!RightService
<1>1. FA!Init => FacTInv /\ FacServing /\ FacRightInv
  BY FacInitHolds, FacInitRight
<1>2. FacTInv /\ FacServing /\ FacRightInv /\ [FA!Next]_FA!vars => (FacTInv /\ FacServing /\ FacRightInv)'
  BY FacTypesKept, FacRightKept
<1>3. FacRightInv => FA!RightService
  BY DEF FacRightInv
<1> QED
  BY <1>1, <1>2, <1>3, PTL DEF FA!Spec

-----------------------------------------------------------------------------
(* FA!NeverAnEarlier made inductive: the buffer holds the first address of the *)
(* last read that was not empty, and there are not more threads than reads. *)
FacLatest(i) ==
  \/ \E m \in 1..Len(reads[i]) : /\ reads[i][m] # <<>> /\ FA!Empty(i, m + 1..Len(reads[i]))
                                 /\ buf[i] = reads[i][m][1]
  \/ FA!Empty(i, 1..Len(reads[i])) /\ buf[i] = FA!Junk
FacThreads(i) == /\ Len(took[i]) = IF spc[i] = "create" THEN Len(reads[i]) - 1 ELSE Len(reads[i])
                 /\ Len(ends[i]) = Len(took[i])
FacFrom(a, i, j) ==
  \/ \E m \in 1..Len(reads[i]) : /\ reads[i][m] # <<>> /\ FA!Empty(i, m + 1..j)
                                 /\ a = reads[i][m][1]
  \/ FA!Empty(i, 1..j) /\ a = FA!Junk
FacCopied(i, j) == /\ took[i][j] # FA!Nothing => FacFrom(took[i][j], i, j)
                   /\ ends[i][j] # FA!Nothing => FacFrom(ends[i][j], i, j)
FacCopyInv == \A i \in FA!Slots : /\ FacLatest(i) /\ FacThreads(i)
                                  /\ \A j \in 1..Len(took[i]) : FacCopied(i, j)

\* What is in the buffer is from the read of any thread there is, or a later one.
LEMMA FacBufFrom ==
  ASSUME FacTInv, NEW i \in FA!Slots, FacLatest(i), FacThreads(i), NEW k \in 1..Len(took[i])
  PROVE  FacFrom(buf[i], i, k)
<1>1. k <= Len(reads[i]) /\ k \in Nat /\ Len(reads[i]) \in Nat
  BY DEF FacThreads, FacTInv, FacServiceType
<1>2. /\ \A x \in 1..k : x \in 1..Len(reads[i])
      /\ \A m \in 1..Len(reads[i]) : \A x \in m + 1..k : x \in m + 1..Len(reads[i])
  BY ONLY <1>1
<1> QED
  BY <1>2 DEF FacLatest, FacFrom, FA!Empty

\* Every step keeps the invariant of the copies.
LEMMA FacCopyKept ==
  ASSUME FA!FacilitatorAssumption
  PROVE  FacTInv /\ FacServing /\ FacCopyInv /\ [FA!Next]_FA!vars => FacCopyInv'
<1> SUFFICES ASSUME FacTInv, FacServing, FacCopyInv, [FA!Next]_FA!vars PROVE FacCopyInv'
  OBVIOUS
<1> USE DEF FacCopyInv
<1>a. \A i \in FA!Slots : /\ reads[i] \in Seq(Seq(FA!Address)) /\ Len(reads[i]) \in Nat
                          /\ took[i] \in Seq(FA!Address \cup {FA!Nothing}) /\ Len(took[i]) \in Nat
                          /\ ends[i] \in Seq(FA!Address \cup {FA!Nothing}) /\ Len(ends[i]) = Len(took[i])
                          /\ DOMAIN ends[i] = 1..Len(ends[i]) /\ DOMAIN took[i] = 1..Len(took[i]) /\ pipe[i] \in Seq(FA!Address)
  BY DEF FacTInv, FacServiceType, FacThreads
<1>1. ASSUME UNCHANGED <<reads, took, ends, buf, spc>> PROVE FacCopyInv'
  BY <1>1 DEF FacLatest, FacThreads, FacCopied, FacFrom, FA!Empty
<1>2. CASE FA!Facilitates \/ (\E l \in Lines : FA!TypeLine(l)) \/ UNCHANGED FA!vars
           \/ \E c \in Clients : FA!Send(c) \/ FA!Kill(c) \/ \E s \in Numbers : FA!Connect(c, s)
  <2>1. UNCHANGED FA!svars
    BY <1>2 DEF FA!Facilitates, FA!Select, FA!ScanLine, FA!OpenService, FA!Accept, FA!Recv, FA!Write, FA!TypeLine, FA!vars,
                FA!Send, FA!Kill, FA!Connect
  <2> QED
    BY <1>1, <2>1 DEF FA!svars
<1>3. ASSUME NEW i \in FA!Slots, FA!Serves(i), NEW h \in FA!Slots
      PROVE  (FacLatest(h) /\ FacThreads(h) /\ \A j \in 1..Len(took[h]) : FacCopied(h, j))'
  <2>1. CASE h # i
    <3>1. /\ reads'[h] = reads[h] /\ took'[h] = took[h] /\ ends'[h] = ends[h]
          /\ buf'[h] = buf[h] /\ spc'[h] = spc[h]
      BY <1>3, <2>1 DEF FA!Serves, FA!ServiceReads, FA!CreateThread, FA!ThreadCopies, FA!ThreadEnds, FacTInv, FacServiceType
    <3> QED
      BY <3>1 DEF FacLatest, FacThreads, FacCopied, FacFrom, FA!Empty
  <2>2. CASE h = i /\ FA!ServiceReads(i)
    <3> DEFINE n == Len(reads[i])
    <3>1. /\ spc[i] = "read" /\ spc'[i] = "create" /\ took' = took /\ ends' = ends
          /\ reads'[i] = Append(reads[i], pipe[i])
          /\ buf'[i] = IF pipe[i] # <<>> THEN Head(pipe[i]) ELSE buf[i]
      BY <2>2 DEF FA!ServiceReads, FA!NewBuf, FacTInv, FacServiceType
    <3>2. /\ n \in Nat /\ Len(reads'[i]) = n + 1 /\ reads'[i][n + 1] = pipe[i]
          /\ \A m \in 1..n : reads'[i][m] = reads[i][m]
      BY <1>a, <3>1
    <3>3. Len(took[i]) = n
      BY <1>a, <3>1 DEF FacThreads
    <3>4. FacThreads(i)'
      BY <1>a, <3>1, <3>2, <3>3 DEF FacThreads
    <3> HIDE DEF n
    <3>5. FacLatest(i)'
      <4>1. CASE pipe[i] # <<>>
        <5>1. Head(pipe[i]) = pipe[i][1]
          BY <1>a, <4>1
        <5>2. n + 1 \in 1..n + 1 /\ \A x \in (n + 1) + 1..n + 1 : FALSE
          BY ONLY <3>2
        <5> QED
          BY <3>1, <3>2, <4>1, <5>1, <5>2 DEF FacLatest, FA!Empty
      <4>2. CASE pipe[i] = <<>>
        <5>1. \A x \in 1..n + 1 : x \in 1..n \/ x = n + 1
          BY ONLY <3>2
        <5>2. CASE FA!Empty(i, 1..n) /\ buf[i] = FA!Junk
          BY <3>1, <3>2, <4>2, <5>1, <5>2 DEF FacLatest, FA!Empty
        <5>3. ASSUME NEW m \in 1..n, reads[i][m] # <<>>, FA!Empty(i, m + 1..n), buf[i] = reads[i][m][1]
              PROVE  FacLatest(i)'
          <6>1. m \in 1..n + 1 /\ \A x \in m + 1..n + 1 : x = n + 1 \/ (x \in m + 1..n /\ x \in 1..n)
            BY ONLY <3>2, m \in 1..n
          <6>2. ASSUME NEW x \in m + 1..n + 1 PROVE reads'[i][x] = <<>>
            BY <3>2, <4>2, <5>3, <6>1 DEF FA!Empty
          <6>3. reads'[i][m] = reads[i][m] /\ buf'[i] = buf[i]
            BY <3>1, <3>2, <4>2
          <6> QED
            BY <3>2, <5>3, <6>1, <6>2, <6>3 DEF FacLatest, FA!Empty
        <5> QED
          BY <5>2, <5>3 DEF FacLatest, n
      <4> QED
        BY <4>1, <4>2
    <3>6. ASSUME NEW j \in 1..n PROVE FacCopied(i, j)'
      <4>1. \A m \in 1..n : m \in 1..n + 1
        BY ONLY <3>2
      <4>2. \A m \in 1..n : \A x \in m + 1..j : x \in 1..n
        BY ONLY <3>2, j \in 1..n
      <4>3. \A x \in 1..j : x \in 1..n
        BY ONLY <3>2, j \in 1..n
      <4>4. FacCopied(i, j)
        BY <3>3
      <4>5. ASSUME NEW a, FacFrom(a, i, j) PROVE FacFrom(a, i, j)'
        BY <3>2, <4>1, <4>2, <4>3, <4>5 DEF FacFrom, FA!Empty, n
      <4> QED
        BY <3>1, <4>4, <4>5 DEF FacCopied
    <3> QED
      BY <2>2, <3>1, <3>3, <3>4, <3>5, <3>6
  <2>3. CASE h = i /\ FA!CreateThread(i)
    <3>1. /\ spc[i] = "create" /\ spc'[i] = "read" /\ took'[i] = Append(took[i], FA!Nothing)
          /\ ends'[i] = Append(ends[i], FA!Nothing)
          /\ UNCHANGED <<buf, reads>>
      BY <2>3 DEF FA!CreateThread, FacTInv, FacServiceType
    <3>2. /\ Len(took'[i]) = Len(took[i]) + 1 /\ took'[i][Len(took[i]) + 1] = FA!Nothing
          /\ Len(ends'[i]) = Len(took[i]) + 1 /\ ends'[i][Len(took[i]) + 1] = FA!Nothing
          /\ \A j \in 1..Len(took[i]) : took'[i][j] = took[i][j] /\ ends'[i][j] = ends[i][j]
      BY <1>a, <3>1
    <3>3. FacThreads(i)' /\ FacLatest(i)'
      BY <1>a, <3>1, <3>2 DEF FacThreads, FacLatest, FA!Empty
    <3>4. ASSUME NEW j \in 1..Len(took'[i]) PROVE FacCopied(i, j)'
      <4>1. j \in 1..Len(took[i]) \/ j = Len(took[i]) + 1
        BY <1>a, <3>2
      <4>2. \A b : FacFrom(b, i, j)' = FacFrom(b, i, j)
        BY <3>1 DEF FacFrom, FA!Empty
      <4>3. CASE j \in 1..Len(took[i])
        <5>1. FacCopied(i, j) /\ took'[i][j] = took[i][j] /\ ends'[i][j] = ends[i][j]
          BY <3>2, <4>3
        <5> QED
          BY <4>2, <5>1 DEF FacCopied
      <4>4. CASE j = Len(took[i]) + 1
        <5>1. took'[i][j] = FA!Nothing /\ ends'[i][j] = FA!Nothing
          BY <3>2, <4>4
        <5> QED
          BY <5>1 DEF FacCopied
      <4> QED
        BY <4>1, <4>3, <4>4
    <3> QED
      BY <2>3, <3>3, <3>4
  <2>4. ASSUME h = i, NEW k \in 1..MaxThreads, FA!ThreadCopies(i, k) \/ FA!ThreadEnds(i, k)
        PROVE  (FacLatest(h) /\ FacThreads(h) /\ \A j \in 1..Len(took[h]) : FacCopied(h, j))'
    <3>1. /\ k \in 1..Len(took[i]) /\ UNCHANGED <<spc, buf, reads>>
          /\ \/ took'[i] = [took[i] EXCEPT ![k] = buf[i]] /\ ends' = ends
             \/ ends'[i] = [ends[i] EXCEPT ![k] = buf[i]] /\ took' = took
      BY <1>a, <2>4 DEF FA!ThreadCopies, FA!ThreadEnds, FacTInv, FacServiceType
    <3>2. /\ Len(took'[i]) = Len(took[i]) /\ Len(ends'[i]) = Len(ends[i])
          /\ \A j \in 1..Len(took[i]) : /\ took'[i][j] = took[i][j] \/ (j = k /\ took'[i][j] = buf[i])
                                        /\ ends'[i][j] = ends[i][j] \/ (j = k /\ ends'[i][j] = buf[i])
      BY <1>a, <3>1
    <3>3. FacThreads(i)' /\ FacLatest(i)'
      BY <3>1, <3>2 DEF FacThreads, FacLatest, FA!Empty
    <3>4. ASSUME NEW j \in 1..Len(took[i]) PROVE FacCopied(i, j)'
      <4>1. \A a : FacFrom(a, i, j)' = FacFrom(a, i, j)
        BY <3>1 DEF FacFrom, FA!Empty
      <4>2. FacFrom(buf[i], i, j)
        BY FacBufFrom
      <4> QED
        BY <3>2, <4>1, <4>2 DEF FacCopied
    <3> QED
      BY <2>4, <3>2, <3>3, <3>4
  <2> QED
    BY <1>3, <2>1, <2>2, <2>3, <2>4 DEF FA!Serves
<1> QED
  BY <1>2, <1>3 DEF FA!Next

(* No thread of a service copies an address of a read before its own.      *)
THEOREM ThreadsCopyForward ==
  ASSUME FA!FacilitatorAssumption
  PROVE  FA!Spec => []FA!NeverAnEarlier
<1>1. FA!Init => FacTInv /\ FacServing /\ FacCopyInv
  <2>1. FA!Init => FacCopyInv
    BY DEF FA!Init, FacCopyInv, FacLatest, FacThreads, FA!Empty
  <2> QED
    BY <2>1, FacInitHolds
<1>2. FacTInv /\ FacServing /\ FacCopyInv /\ [FA!Next]_FA!vars => (FacTInv /\ FacServing /\ FacCopyInv)'
  BY FacTypesKept, FacCopyKept
<1>3. FacTInv /\ FacCopyInv => FA!NeverAnEarlier
  <2> SUFFICES ASSUME FacTInv, FacCopyInv PROVE FA!NeverAnEarlier
    OBVIOUS
  <2>1. \A i \in FA!Slots : DOMAIN took[i] = 1..Len(took[i]) /\ DOMAIN reads[i] = 1..Len(reads[i])
    BY DEF FacTInv, FacServiceType
  <2> QED
    BY <2>1 DEF FacCopyInv, FacCopied, FacFrom, FA!NeverAnEarlier
<1> QED
  BY <1>1, <1>2, <1>3, PTL DEF FA!Spec
=============================================================================
