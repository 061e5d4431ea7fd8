--------------------------- MODULE StateRegister ----------------------------
(***************************************************************************)
(* What commands ask of a state storage: one register per cluster of a     *)
(* stack.  As long as commands do not overlap, every save gives the state  *)
(* a higher serial number and, unless the storage dates every save, keeps  *)
(* the time of its creation; nothing but a storage that writes in place    *)
(* ever forgets a state, as one does that nobody can read any more; where  *)
(* clusters are told apart, the save of one leaves the others alone.       *)
(***************************************************************************)
EXTENDS Integers

CONSTANTS Clusters,  \* the named clusters of a stack
          NoState    \* no state was saved, or none is left

VARIABLES latest,    \* the state that a query of each cluster may return
          shared,    \* whether two commands ever overlapped
          separate,  \* whether the storage tells clusters apart
          fragile,   \* whether it can lose what it has while it writes
          dated      \* whether a state keeps the time of its creation

vars == <<latest, shared, separate, fragile, dated>>

Init ==
  /\ latest = [c \in Clusters |-> {NoState}]
  /\ shared = FALSE
  /\ separate \in BOOLEAN
  /\ fragile \in BOOLEAN
  /\ dated \in BOOLEAN

Newer(new, old) ==
  /\ new # NoState
  /\ old # NoState => /\ new.serial > old.serial
                      /\ dated => new.created = old.created

Save(c) ==
  /\ latest'[c] # latest[c]
  /\ \A d \in Clusters :
       \/ latest'[d] = latest[d]
       \/ /\ separate => d = c
          /\ \E new \in latest'[d], old \in latest[d] :
               /\ latest'[d] = {new}
               /\ latest[d] = {old}
               /\ Newer(new, old)
  /\ UNCHANGED shared

Forget ==
  /\ fragile
  /\ \A d \in Clusters : latest'[d] \in {latest[d], {NoState}}
  /\ UNCHANGED shared

(* Once two commands have overlapped, anything may be read.                *)
Disturb == shared'

Next ==
  /\ (\E c \in Clusters : Save(c)) \/ Forget \/ Disturb
  /\ UNCHANGED <<separate, fragile, dated>>

Spec == Init /\ [][Next]_vars
=============================================================================
