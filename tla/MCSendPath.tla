----------------------------- MODULE MCSendPath -----------------------------
(* Values for TLC: three messages, one of them in two pieces, for one or two *)
(* connections, with limits out of reach or small ones.                      *)
EXTENDS SendPath

CONSTANTS c1, c2, m1, m2, m3

MCSize == [m \in Msg |-> IF m = m1 THEN 2 ELSE 1]

ToOne == [m \in Msg |-> c1]
TwoToOne == [m \in {m1, m2} |-> c1]
ToTwo == [m \in Msg |-> IF m = m3 THEN c2 ELSE c1]

Far(to, ends, uses) ==
  [to |-> to, MaxQueue |-> 5, MaxBacklog |-> 5, ends |-> ends, MaxUses |-> uses]
Near(to, queue, backlog) ==
  [to |-> to, MaxQueue |-> queue, MaxBacklog |-> backlog, ends |-> {}, MaxUses |-> 2]

AllSettings ==
  {Far(ToTwo, {}, 1), Near(ToTwo, 1, 5), Near(ToOne, 1, 0),
   Far(TwoToOne, {"peer"}, 1), Far(TwoToOne, {"timer"}, 2)}
Quietly == {Far(ToOne, {}, 1)}
=============================================================================
