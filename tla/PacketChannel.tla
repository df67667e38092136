---------------------------- MODULE PacketChannel ----------------------------
(***************************************************************************)
(* What packet reception promises: the packets a client sends come out     *)
(* one by one, whole, in their order, each of them unless the connection   *)
(* is closed before, and a connection that is opened again is empty.       *)
(***************************************************************************)
EXTENDS Naturals, Sequences

CONSTANTS Packet, MaxPackets

VARIABLES
  sent,  \* the packets of the present client that the server accepts
  got,   \* those of them that have been delivered
  open

vars == <<sent, got, open>>

Init == sent = <<>> /\ got = <<>> /\ open = TRUE

Send ==
  /\ open
  /\ \E p \in Packet : sent' = Append(sent, p)
  /\ UNCHANGED <<got, open>>

Deliver ==
  /\ open
  /\ Len(got) < Len(sent)
  /\ got' = Append(got, sent[Len(got) + 1])
  /\ UNCHANGED <<sent, open>>

Close ==
  /\ open
  /\ open' = FALSE
  /\ UNCHANGED <<sent, got>>

Reopen ==
  /\ ~open
  /\ sent' = <<>> /\ got' = <<>> /\ open' = TRUE

Next == Send \/ Deliver \/ Close \/ Reopen

\* The n-th packet is delivered, or the connection is closed.
Delivery ==
  \A n \in 1..MaxPackets : open /\ Len(sent) >= n ~> Len(got) >= n \/ ~open

Safe == Init /\ [][Next]_vars

Spec == Safe /\ Delivery
=============================================================================
