--------------------------- MODULE GroupBroadcast ---------------------------
(***************************************************************************)
(* What a group chat promises, with no queue and no server: once the group *)
(* lists are closed, each group has one log of texts, and every member     *)
(* prints the texts of its group's log, all of them, in the log's order.   *)
(* GroupChat implements it (MessageQueue/GroupChat/server.c, client.c).     *)
(***************************************************************************)
EXTENDS Integers, Sequences

CONSTANTS Members, GroupIds, Texts,
          Nobody,    \* no group: not in GroupIds
          Home(_)    \* Home(t): the one group whose members see the text t

VARIABLES group,     \* group[m]: the group m was entered in, Nobody before that
          log,       \* log[g]: all texts said in g
          printed    \* printed[m]: what m has seen

avars == <<group, log, printed>>

AInit == /\ group = [m \in Members |-> Nobody]
         /\ log = [g \in GroupIds |-> <<>>]
         /\ printed = [m \in Members |-> <<>>]

\* A member enters a group, for good, while nothing has been said anywhere.
Join(m, g) == /\ group[m] = Nobody
              /\ \A h \in GroupIds : log[h] = <<>>
              /\ group' = [group EXCEPT ![m] = g]
              /\ UNCHANGED <<log, printed>>

Say(t) == /\ log' = [log EXCEPT ![Home(t)] = Append(@, t)]
          /\ UNCHANGED <<group, printed>>

\* A member prints the first text of its group's log it has not printed.
Show(m) == /\ group[m] # Nobody
           /\ Len(printed[m]) < Len(log[group[m]])
           /\ printed' = [printed EXCEPT
                            ![m] = Append(@, log[group[m]][Len(@) + 1])]
           /\ UNCHANGED <<group, log>>

ANext == \/ \E m \in Members : Show(m) \/ \E g \in GroupIds : Join(m, g)
         \/ \E t \in Texts : Say(t)

ASpec == AInit /\ [][ANext]_avars
=============================================================================
