-------------------------------- MODULE Fifo --------------------------------
(***************************************************************************)
(* What an I/O queue promises about the bytes that went into it: they come *)
(* out in the order they went in, each at most once, and none is lost      *)
(* unless the queue is flushed or closed or, in a message queue, the read  *)
(* was too short for the message.  Bytes are numbered as they are written. *)
(***************************************************************************)
EXTENDS Naturals, Sequences

VARIABLES chan,         \* the bytes between the writers and the readers
          sent,         \* how many bytes were written
          recv,         \* the bytes delivered
          truncates,    \* the channel was opened for messages: a take may lose
                        \* the rest of one
          drops         \* the channel may be flushed or closed

Init == chan = <<>> /\ sent = 0 /\ recv = <<>> /\ {truncates, drops} \subseteq BOOLEAN

Put ==
  /\ sent' \in Nat /\ sent' >= sent
  /\ chan' = chan \o [i \in 1..(sent' - sent) |-> sent + i]
  /\ UNCHANGED <<recv, truncates, drops>>

Take == \E n \in 0..Len(chan) : \E lost \in 0..(Len(chan) - n) :
  /\ lost > 0 => truncates
  /\ recv' = recv \o SubSeq(chan, 1, n)
  /\ chan' = SubSeq(chan, n + lost + 1, Len(chan))
  /\ UNCHANGED <<sent, truncates, drops>>

(* What is already on its way to a reader may survive a flush.             *)
Drop == \E n \in 0..Len(chan) :
  /\ drops
  /\ chan' = SubSeq(chan, 1, n)
  /\ UNCHANGED <<sent, recv, truncates, drops>>

Next == Put \/ Take \/ Drop

Spec == Init /\ [][Next]_<<chan, sent, recv, truncates, drops>>
=============================================================================
