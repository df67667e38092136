----------------------------- MODULE MCRequests -----------------------------
(* Values for TLC: packets that end in each branch of threadRecvProcFunc and *)
(* of the handlers, to one worker, and fewer to two.                         *)
EXTENDS Requests

CONSTANTS w1, w2

Pkt(code, crc, body) == [msgCode |-> code, crc |-> crc, body |-> body]

AllPackets ==
  {Pkt(code, "good", "right") : code \in {1, 5, 6, 7, 8, 9, 10, 11, 12}}
  \union {Pkt(code, "good", "wrong") : code \in {0, 5, 6, 7}}
  \union {Pkt(0, "good", "none"), Pkt(7, "bad", "right"), Pkt(8, "good", "none")}

BookPackets ==
  {Pkt(7, "good", "right"), Pkt(7, "good", "wrong"), Pkt(8, "good", "none"),
   Pkt(11, "good", "none")}

Alone(packets, daemon) == [workers |-> {w1}, Daemon |-> daemon, packets |-> packets]
Shared(daemon) == [workers |-> {w1, w2}, Daemon |-> daemon, packets |-> BookPackets]

AllSettings == {Alone(AllPackets, TRUE), Shared(FALSE)}
TwoWorkers == {Shared(FALSE)}
=============================================================================
