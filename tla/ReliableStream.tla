---------------------------- MODULE ReliableStream ----------------------------
(***************************************************************************)
(* What the users of a PPPP channel assume of it: the reader gets exactly   *)
(* what was written, in order, and a write() that returned has reached the  *)
(* other end.  Only a user that has given a write up, and goes on, cannot   *)
(* rely on the second any more.                                             *)
(***************************************************************************)
EXTENDS Naturals, Sequences

CONSTANT First  \* the number of the first chunk

VARIABLES sent,      \* chunks handed to write(): all numbers from First below this one
          got,       \* the chunks the other end has in order
          confirmed, \* where the last write() that returned ended
          givenUp    \* whether a write() has been given up

Init == sent = First /\ got = <<>> /\ confirmed = First /\ givenUp = FALSE

Send == sent' > sent /\ UNCHANGED <<got, confirmed, givenUp>>

Deliver ==
  /\ First + Len(got') \in (First + Len(got) + 1) .. sent
  /\ got' = got \o [i \in 1 .. (Len(got') - Len(got)) |-> First + Len(got) + i - 1]
  /\ UNCHANGED <<sent, confirmed, givenUp>>

Confirm ==
  /\ confirmed' \in (confirmed + 1) .. (IF givenUp THEN sent ELSE First + Len(got))
  /\ UNCHANGED <<sent, got, givenUp>>

GiveUp ==
  /\ ~givenUp /\ givenUp'
  /\ UNCHANGED <<sent, got, confirmed>>

Next == Send \/ Deliver \/ Confirm \/ GiveUp
Spec == Init /\ [][Next]_<<sent, got, confirmed, givenUp>>
=============================================================================
