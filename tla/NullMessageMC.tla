----------------------------- MODULE NullMessageMC -----------------------------
(***************************************************************************)
(* Two and three ranks for TLC: ranks 1 and 2 have two channels of          *)
(* different delays, rank 3 hangs on rank 2.                               *)
(***************************************************************************)
EXTENDS NullMessageSimulatorImpl

Row == [r \in Ranks |-> [n \in Ranks |->
          CASE {r, n} = {1, 2} -> {1} [] {r, n} = {2, 3} -> {2} [] OTHER -> {}]]
Parallel == [r \in Ranks |-> [n \in Ranks |-> IF r = n THEN {} ELSE {1, 2}]]
Uneven == [r \in Ranks |-> IF r = 3 THEN 2 ELSE 1]
OnceButLast == [r \in Ranks |-> IF r = 3 THEN 0 ELSE 1]
Thrice == [r \in Ranks |-> 3]

==============================================================================
