------------------------------ MODULE PingPong ------------------------------
(***************************************************************************)
(* midques/que4 (copy): the two newsreaders do without a semaphore.  They  *)
(* take turns: a SIGUSR1 is the turn, its handler readMsg passes one       *)
(* message on to the screen's queue and then signals the other newsreader. *)
(* Newsreader 1 forks newsreader 2 and signals it first.  If that signal   *)
(* arrives before newsreader 2 has called signal(), it terminates it.      *)
(* The n-th message of the editor is the number n; odd numbers are of type *)
(* 1, even ones of type 2 (the editor is the one of que4).                 *)
(***************************************************************************)
EXTENDS SysVQueue

CONSTANT MaxNews         \* bound: messages the editor sends

ASSUME NewsAssumption == MaxNews \in Nat

Readers == {1, 2}
Other(r) == 3 - r

VARIABLES mq1, qnum1,    \* the screen's queue (msg_id1)
          nsent,         \* messages the editor has sent
          type,          \* editor: type of the next one
          ppc,           \* newsreader 1: "fork", "signal", "kill" or "spin"
          cpc,           \* newsreader 2: "none", "exec", "spin" or "dead"
          sig,           \* sig[r]: SIGUSR1 is pending for newsreader r
          hpc,           \* its handler: "idle", "recv", "send" or "kill"
          hand,          \* its mesg
          out,           \* history: messages passed on, in order
          shown          \* history: shown[r], printed by screen2's process r

screenq == INSTANCE SysVQueue WITH mq <- mq1, qnum <- qnum1

evars == <<nsent, type>>
rvars == <<ppc, cpc, sig, hpc, hand>>
vars == <<qvars, mq1, qnum1, evars, rvars, out, shown>>

Init == /\ msgget(Readers) /\ screenq!msgget(Readers)
        /\ nsent = 0 /\ type = 1
        /\ ppc = "fork" /\ cpc = "none"
        /\ sig = [r \in Readers |-> FALSE]
        /\ hpc = [r \in Readers |-> "idle"]
        /\ hand = [r \in Readers |-> 0]
        /\ out = <<>> /\ shown = [r \in Readers |-> <<>>]

\* editor.c
NextType(t) == IF t = 1 THEN 2 ELSE 1
EditorSend ==
  /\ nsent < MaxNews
  /\ msgsnd(type, nsent + 1)
  /\ nsent' = nsent + 1
  /\ type' = NextType(type)
  /\ UNCHANGED <<mq1, qnum1, rvars, out, shown>>

-----------------------------------------------------------------------------
\* newsreader.c: main of newsreader 1.
Fork == /\ ppc = "fork"
        /\ ppc' = "signal" /\ cpc' = "exec"
        /\ UNCHANGED <<qvars, mq1, qnum1, evars, sig, hpc, hand, out, shown>>

SetHandler == /\ ppc = "signal"
              /\ ppc' = "kill"
              /\ UNCHANGED <<qvars, mq1, qnum1, evars, cpc, sig, hpc, hand, out, shown>>

\* kill(., SIGUSR1) to r: a child that has not called signal() yet dies of it.
KillReader(r) ==
  IF r = 2 /\ cpc # "spin" THEN cpc' = "dead" /\ UNCHANGED sig
                           ELSE sig' = [sig EXCEPT ![r] = TRUE] /\ UNCHANGED cpc

FirstKill == /\ ppc = "kill"
             /\ ppc' = "spin"
             /\ KillReader(2)
             /\ UNCHANGED <<qvars, mq1, qnum1, evars, hpc, hand, out, shown>>

\* Newsreader 2 has been executed and calls signal().
ChildReady == /\ cpc = "exec"
              /\ cpc' = "spin"
              /\ UNCHANGED <<qvars, mq1, qnum1, evars, ppc, sig, hpc, hand, out, shown>>

\* newsreader.c: readMsg.  SIGUSR1 stays pending while its handler runs.
Deliver(r) == /\ sig[r] /\ hpc[r] = "idle"
              /\ sig' = [sig EXCEPT ![r] = FALSE]
              /\ hpc' = [hpc EXCEPT ![r] = "recv"]
              /\ UNCHANGED <<qvars, mq1, qnum1, evars, ppc, cpc, hand, out, shown>>

ReceiveNews(r) == /\ hpc[r] = "recv"
                  /\ msgrcv(r)
                  /\ hand' = [hand EXCEPT ![r] = Head(mq[r])]
                  /\ hpc' = [hpc EXCEPT ![r] = "send"]
                  /\ UNCHANGED <<mq1, qnum1, evars, ppc, cpc, sig, out, shown>>

PassOn(r) == /\ hpc[r] = "send"
             /\ screenq!msgsnd(r, hand[r])
             /\ out' = Append(out, hand[r])
             /\ hpc' = [hpc EXCEPT ![r] = "kill"]
             /\ UNCHANGED <<qvars, evars, ppc, cpc, sig, hand, shown>>

PassTurn_Self(r) == /\ hpc[r] = "kill"       \* mutant: signals itself
                    /\ KillReader(r)
                    /\ hpc' = [hpc EXCEPT ![r] = "idle"]
                    /\ UNCHANGED <<qvars, mq1, qnum1, evars, ppc, hand, out, shown>>
PassTurn_Never(r) == /\ hpc[r] = "kill"      \* mutant: only newsreader 1 signals
                     /\ IF r = 1 THEN KillReader(2) ELSE UNCHANGED <<sig, cpc>>
                     /\ hpc' = [hpc EXCEPT ![r] = "idle"]
                     /\ UNCHANGED <<qvars, mq1, qnum1, evars, ppc, hand, out, shown>>
PassTurn(r) == /\ hpc[r] = "kill"
               /\ KillReader(Other(r))
               /\ hpc' = [hpc EXCEPT ![r] = "idle"]
               /\ UNCHANGED <<qvars, mq1, qnum1, evars, ppc, hand, out, shown>>

-----------------------------------------------------------------------------
\* screen2.c: one process per type.
Show(r) == /\ screenq!msgrcv(r)
           /\ shown' = [shown EXCEPT ![r] = Append(@, Head(mq1[r]))]
           /\ UNCHANGED <<qvars, evars, rvars, out>>

Next == \/ EditorSend \/ Fork \/ SetHandler \/ FirstKill \/ ChildReady
        \/ \E r \in Readers : Deliver(r) \/ ReceiveNews(r) \/ PassOn(r) \/ PassTurn(r) \/ Show(r)

Spec == Init /\ [][Next]_vars

\* Every process runs, and the reporters never fall silent before MaxNews.
Fairness == /\ WF_vars(EditorSend) /\ WF_vars(Fork) /\ WF_vars(SetHandler)
            /\ WF_vars(FirstKill) /\ WF_vars(ChildReady)
            /\ \A r \in Readers : /\ WF_vars(Deliver(r)) /\ WF_vars(ReceiveNews(r))
                                  /\ WF_vars(PassOn(r)) /\ WF_vars(PassTurn(r))
                                  /\ WF_vars(Show(r))

FairSpec == Spec /\ Fairness

-----------------------------------------------------------------------------
(* Type invariant of every variable of the model.                          *)
TypeOK == /\ mq \in [Readers -> Seq(Nat)] /\ qnum \in Int
          /\ mq1 \in [Readers -> Seq(Nat)] /\ qnum1 \in Int
          /\ nsent \in 0..MaxNews /\ type \in Readers
          /\ ppc \in {"fork", "signal", "kill", "spin"}
          /\ cpc \in {"none", "exec", "spin", "dead"}
          /\ sig \in [Readers -> BOOLEAN]
          /\ hpc \in [Readers -> {"idle", "recv", "send", "kill"}]
          /\ hand \in [Readers -> Nat]
          /\ out \in Seq(Nat) /\ shown \in [Readers -> Seq(Nat)]

\* The turn: due from main, pending as a signal, or in a handler.
HasTurn(r) == sig[r] \/ hpc[r] # "idle"

(* There is one turn: a newsreader that has it is the only one, and it is  *)
(* lost only if the first signal came before newsreader 2's handler was    *)
(* set (newsreader.c 34-37, 52, 62-63).                                    *)
OneTurn == /\ ~(HasTurn(1) /\ HasTurn(2))
           /\ \A r \in Readers : ~(sig[r] /\ hpc[r] # "idle")
           /\ HasTurn(1) \/ HasTurn(2) <=> ppc = "spin" /\ cpc = "spin"

(* The newsreaders change places, 2 before 1: the screen's queue gets each *)
(* pair of messages in the opposite order to the one the editor sent.      *)
SwappedPairs == \A j \in DOMAIN out : out[j] = IF j % 2 = 1 THEN j + 1 ELSE j - 1

(* While newsreader 2 lives, every complete pair of messages is shown.     *)
PairsShown ==
  <>[](cpc = "dead" \/ \A n \in 1..2 * (MaxNews \div 2) :
                          \E r \in Readers : \E j \in DOMAIN shown[r] : shown[r][j] = n)
=============================================================================
