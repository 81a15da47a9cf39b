-------------------------------- MODULE MCTcp -------------------------------
(* Model checking of Tcp.                                                  *)
EXTENDS Tcp, TLC

(* Initial sequence numbers: with the first those of data wrap around.     *)
Wraps == [A |-> 14, B |-> 12, L |-> 12]
Stays == [A |-> 6, B |-> 12, L |-> 12]

(* What the users of a connection do: one end writes, and a few segments   *)
(* are lost, or an end closes, hangs up, or connects at the same time.     *)
(* When an end closes before it read, its reset is taken for an            *)
(* acknowledgement of 0, so that does not wrap around.                     *)
Use(iss, ops, a, n) == [iss |-> iss, ops |-> ops, data |-> [A |-> a, B |-> 0], faults |-> n]
MCUses ==
  {Use(Wraps, {}, 2, 0), Use(Wraps, {}, 1, 1), Use(Stays, {"close", "keepalive"}, 1, 0),
   Use(Stays, {"close", "connect"}, 0, 0), Use(Stays, {"close", "hangup", "giveup"}, 0, 0)}
=============================================================================
