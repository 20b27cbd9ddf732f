------------------------ MODULE DistributedSimulatorMC ------------------------
(***************************************************************************)
(* Three ranks in a row with unequal channels for TLC: rank 1 looks ahead   *)
(* by one, the others by less or more than that.                           *)
(***************************************************************************)
EXTENDS DistributedSimulatorImpl

Row == [r \in Ranks |-> [n \in Ranks |->
          CASE {r, n} = {1, 2} -> {1} [] {r, n} = {2, 3} -> {2} [] OTHER -> {}]]

Uneven == [r \in Ranks |-> IF r = 1 THEN 2 ELSE 1]
Once == [r \in Ranks |-> 1]

==============================================================================
