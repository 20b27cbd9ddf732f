------------------------------ MODULE RlcChannel ------------------------------
(***************************************************************************)
(* What an acknowledged mode bearer promises the layer above it: the SDUs  *)
(* it accepts come out at the other end in the order they were handed in,  *)
(* each of them whole, once and unchanged.                                 *)
(***************************************************************************)
EXTENDS Sequences, Naturals

CONSTANT Sdus       \* the SDUs of the layer above

VARIABLES
  accepted,         \* the SDUs the sending entity took over
  delivered         \* the SDUs the receiving entity handed up

Init ==
  /\ accepted = <<>>
  /\ delivered = <<>>

\* The sending entity takes over an SDU.
Accept(s) ==
  /\ accepted' = Append(accepted, s)
  /\ UNCHANGED delivered

\* The receiving entity hands up the next SDUs, one after the other.
Deliver ==
  /\ \E n \in Len(delivered) + 1 .. Len(accepted) : delivered' = SubSeq(accepted, 1, n)
  /\ UNCHANGED accepted

Next == Deliver \/ \E s \in Sdus : Accept(s)

==============================================================================
