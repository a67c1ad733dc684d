------------------------------- MODULE Channel -------------------------------
(***************************************************************************)
(* One direction of a Channel of libflagship/ppppapi.py: the transmitting   *)
(* half of one end and the receiving half (ChannelRx) of the other, over a  *)
(* UDP network that loses, repeats, reorders and delays packets.            *)
(*                                                                          *)
(* Chunk numbers stand for the chunks, as in ChannelRx: tx_ctr is           *)
(* Idx(written), tx_ack is Idx(txAck).                                      *)
(*                                                                          *)
(* The caller of write() and reset_tx() and the API thread (run(), which    *)
(* handles packets and polls) share the transmitting half; a step here is   *)
(* what one of them does between two accesses the other can disturb.        *)
(* Deadlines are left out: any packet in flight may be sent at any time.    *)
(***************************************************************************)
EXTENDS ChannelRx

CONSTANTS MaxInFlight,  \* Channel.max_in_flight
          Sizes,        \* how many chunks a write() is cut into
          Blocking,     \* whether write() waits for its acknowledgments: either or both
          MaxResets     \* bound: blocked writes that time out and are reset by their caller

ASSUME ChannelAssumption ==
  /\ MaxInFlight \in Nat \ {0} /\ Sizes \subseteq Nat \ {0}
  /\ Blocking \subseteq BOOLEAN /\ MaxResets \in Nat

VARIABLES
  written,  \* chunks cut so far (tx_ctr)
  backlog,  \* chunks waiting for room in flight
  txqueue,  \* chunks in flight
  acks,     \* acknowledged indexes at or after tx_ack
  txAck,    \* chunks acknowledged without a gap (tx_ack)
  wpc,      \* the writer: idle, waiting in write(), or inside reset_tx()
  start,    \* where the last write() began (tx_ctr_start)
  done,     \* where the blocked write() ends (tx_ctr_done)
  returned, \* where the last write() that returned normally ended
  resets,   \* how often the caller has given a write up
  apc,      \* the API thread inside rx_ack()
  tmp,      \* its operand of `self.tx_ack += 1`
  data,     \* DRW packets on their way
  ackn      \* DRW_ACK packets on their way

txVars  == <<written, backlog, txqueue, acks, txAck, wpc, start, done, returned, resets, apc, tmp>>
netVars == <<data, ackn>>
vars    == <<txVars, netVars, rxVars>>

TypeOK ==
  /\ RxTypeOK
  /\ {written, txAck, start, done, returned, tmp} \subseteq Counts /\ resets \in 0 .. MaxResets
  /\ backlog \in Seq(Chunks) /\ txqueue \cup data \cup ackn \subseteq Chunks
  /\ acks \subseteq Indexes
  /\ wpc \in {"idle", "waiting", "reset1", "reset2", "reset3", "reset4"}
  /\ apc \in {"idle", "ackTest", "ackRemove", "ackStore", "dead"}

Init ==
  /\ RxInit
  /\ written = First /\ backlog = <<>> /\ txqueue = {} /\ acks = {} /\ txAck = First
  /\ wpc = "idle" /\ start = First /\ done = First /\ returned = First /\ resets = 0
  /\ apc = "idle" /\ tmp = First
  /\ data = {} /\ ackn = {}

-----------------------------------------------------------------------------
(* The writer.                                                              *)

Write ==
  /\ wpc = "idle"
  /\ \E size \in Sizes :
       /\ written + size \in Counts
       /\ written' = written + size
       /\ backlog' = backlog \o [i \in 1 .. size |-> written + i - 1]
       /\ start' = written /\ done' = written + size
  /\ \E block \in Blocking : wpc' = IF block THEN "waiting" ELSE "idle"
  /\ UNCHANGED <<txqueue, acks, txAck, returned, resets, apc, tmp, netVars, rxVars>>

\* Mutant: the write waits for its first chunk to be due, not for its last to be acknowledged.
WriteReturns_AtStart ==
  /\ wpc = "waiting" /\ Ge(Idx(txAck), Idx(start))
  /\ wpc' = "idle"
  /\ returned' = done
  /\ UNCHANGED <<written, backlog, txqueue, acks, txAck, start, done, resets, apc, tmp, netVars, rxVars>>

\* The event fired and tx_ack has reached the end of this write.
WriteReturns ==
  /\ wpc = "waiting" /\ Ge(Idx(txAck), Idx(done))
  /\ wpc' = "idle"
  /\ returned' = done
  /\ UNCHANGED <<written, backlog, txqueue, acks, txAck, start, done, resets, apc, tmp, netVars, rxVars>>

\* TimeoutError, looked at before the acknowledgments are: the file transfer answers it with
\* reset_chan_tx() and another write.
WriteTimesOut ==
  /\ resets < MaxResets /\ wpc = "waiting"
  /\ wpc' = "reset1" /\ resets' = resets + 1
  /\ UNCHANGED <<written, backlog, txqueue, acks, txAck, start, done, returned, apc, tmp,
                 netVars, rxVars>>

\* reset_tx(): its lock keeps out readers of the channel, not the API thread.  When that thread is
\* just rescheduling a packet or rebuilding the queue, some of the queue survives the clear(); when
\* it is between `while txq` and pop(0), an IndexError ends it.
ClearTxqueue ==
  /\ wpc = "reset1" /\ wpc' = "reset2"
  /\ txqueue' \in SUBSET txqueue
  /\ apc' \in IF apc = "idle" /\ txqueue # {} THEN {"idle", "dead"} ELSE {apc}
  /\ UNCHANGED <<backlog, acks, txAck>>

ResetTx ==
  /\ \/ ClearTxqueue
     \/ wpc = "reset2" /\ wpc' = "reset3" /\ backlog' = <<>> /\ UNCHANGED <<apc, txqueue, acks, txAck>>
     \/ wpc = "reset3" /\ wpc' = "reset4" /\ acks' = {} /\ UNCHANGED <<apc, txqueue, backlog, txAck>>
     \/ wpc = "reset4" /\ wpc' = "idle" /\ txAck' = written /\ UNCHANGED <<apc, txqueue, backlog, acks>>
  /\ UNCHANGED <<written, start, done, returned, resets, tmp, netVars, rxVars>>

-----------------------------------------------------------------------------
(* The API thread of the transmitting end.                                  *)

\* poll(): move what fits from the backlog into flight.
Refill ==
  /\ apc = "idle" /\ backlog # <<>> /\ Cardinality(txqueue) < MaxInFlight
  /\ LET k == CHOOSE k \in 1 .. Len(backlog) :
                 k = Len(backlog) \/ Cardinality(txqueue) + k = MaxInFlight
     IN /\ txqueue' = txqueue \cup {backlog[i] : i \in 1 .. k}
        /\ backlog' = SubSeq(backlog, k + 1, Len(backlog))
  /\ UNCHANGED <<written, acks, txAck, wpc, start, done, returned, resets, apc, tmp, netVars, rxVars>>

\* Mutant: a packet is sent once only.
Transmit_Once(n) ==
  /\ apc = "idle" /\ n \in txqueue
  /\ data' = data \cup {n} /\ txqueue' = txqueue \ {n}
  /\ UNCHANGED <<written, backlog, acks, txAck, wpc, start, done, returned, resets, apc, tmp, ackn, rxVars>>

\* poll(): send what is due, the first time or again.
Transmit(n) ==
  /\ apc = "idle" /\ n \in txqueue
  /\ data' = data \cup {n}
  /\ UNCHANGED <<txVars, ackn, rxVars>>

\* rx_ack(): forget the packet, and note the acknowledgment unless it is an old one.
RxAck(n) ==
  /\ apc = "idle" /\ n \in ackn
  /\ txqueue' = {m \in txqueue : Idx(m) # Idx(n)}
  /\ acks' = IF Ge(Idx(n), Idx(txAck)) THEN acks \cup {Idx(n)} ELSE acks
  /\ apc' = "ackTest"
  /\ UNCHANGED <<written, backlog, txAck, wpc, start, done, returned, resets, tmp, netVars, rxVars>>

\* rx_ack()'s loop: is tx_ack among the acknowledgments?  The caller runs on when it is not.
AckTest ==
  /\ apc = "ackTest"
  /\ apc' = IF Idx(txAck) \in acks THEN "ackRemove" ELSE "idle"
  /\ UNCHANGED <<written, backlog, txqueue, acks, txAck, wpc, start, done, returned, resets, tmp,
                 netVars, rxVars>>

\* Take it out (a KeyError, which ends the thread, when reset_tx() has just done so), read tx_ack ...
AckRemove ==
  /\ apc = "ackRemove"
  /\ acks' = acks \ {Idx(txAck)} /\ tmp' = txAck
  /\ apc' = IF Idx(txAck) \in acks THEN "ackStore" ELSE "dead"
  /\ UNCHANGED <<written, backlog, txqueue, txAck, wpc, start, done, returned, resets, netVars, rxVars>>

\* Mutant: an acknowledgment moves tx_ack by one at most.
AckStore_Once ==
  /\ apc = "ackStore"
  /\ txAck' = tmp + 1
  /\ ackn' = {m \in ackn : txAck' - m <= Lag}
  /\ apc' = "idle"
  /\ UNCHANGED <<written, backlog, txqueue, acks, wpc, start, done, returned, resets, tmp, data, rxVars>>

\* ... and write it back one higher.
AckStore ==
  /\ apc = "ackStore"
  /\ txAck' = tmp + 1
  /\ ackn' = {m \in ackn : txAck' - m <= Lag}
  /\ apc' = "ackTest"
  /\ UNCHANGED <<written, backlog, txqueue, acks, wpc, start, done, returned, resets, tmp, data, rxVars>>

-----------------------------------------------------------------------------
(* The receiving end.                                                       *)

\* A packet that has fallen more than Lag behind has left the network.
Drain == data' = {n \in data : rxNext' - n <= Lag}

\* process() of a DRW packet: acknowledge it whatever it is, then rx_drw().
Receive(n) ==
  /\ n \in data
  /\ ackn' = ackn \cup {n}
  /\ RxDrw(n) /\ Drain
  /\ UNCHANGED txVars

Receiver == RxStep /\ Drain /\ UNCHANGED <<txVars, ackn>>

-----------------------------------------------------------------------------
(* The network: handling a packet does not use it up, so it may come again.  *)
(* An acknowledgment is lost when the API thread could have taken it: one    *)
(* that is lost earlier is one that was never sent.                          *)

Lose ==
  /\ \/ \E n \in data : data' = data \ {n} /\ UNCHANGED ackn
     \/ \E n \in ackn : apc = "idle" /\ ackn' = ackn \ {n} /\ UNCHANGED data
  /\ UNCHANGED <<txVars, rxVars>>

Next ==
  \/ Write \/ WriteReturns \/ WriteTimesOut \/ ResetTx
  \/ Refill \/ AckTest \/ AckRemove \/ AckStore
  \/ \E n \in Chunks : Transmit(n) \/ RxAck(n) \/ Receive(n)
  \/ Receiver \/ Lose

Spec == Init /\ [][Next]_vars

\* The threads run; a packet that is sent again and again arrives in the end.
Fairness ==
  /\ WF_vars(WriteReturns \/ WriteTimesOut \/ ResetTx)
  /\ WF_vars(AckTest \/ AckRemove \/ AckStore) /\ SF_vars(Refill)
  /\ WF_vars(Receiver)
  /\ \A n \in Chunks : SF_vars(Transmit(n)) /\ SF_vars(RxAck(n)) /\ SF_vars(Receive(n))

FairSpec == Spec /\ Fairness

-----------------------------------------------------------------------------
(* What the channel promises. *)

\* What the receiving end has.
Reached == First .. (rxNext - 1) \cup Queued

\* A write() that returns normally has reached the other end, whatever a write that timed out
\* and the reset_tx() after it left behind.
ReturnedReached == [][WriteReturns => start .. (done - 1) \subseteq Reached]_vars

\* What is still to be delivered or acknowledged stays within the counters' comparison.
InWindow ==
  /\ written - rxNext <= Ahead /\ written - txAck <= Ahead
  /\ \A n \in txqueue : rxNext - n <= Ahead

Behind(m, n) == m - n <= Lag \/ m - n <= Ahead

\* What makes ReturnedReached inductive in the window: nothing is under way that was not cut;
SentInv ==
  /\ rxNext <= written /\ txAck <= written
  /\ \A i \in 1 .. Len(backlog) : backlog[i] < written
  /\ \A n \in txqueue \cup data \cup Queued : n < written
  /\ \A n \in data : Behind(rxNext, n)

\* what is acknowledged has been received, and, before a write was ever given up, tx_ack
\* counts it without a gap;
AckInv ==
  /\ ackn \subseteq Reached /\ (apc = "ackStore" => tmp \in Reached)
  /\ \A i \in acks : \E n \in Reached :
       i = Idx(n) /\ (resets = 0 => n >= txAck /\ (apc = "ackStore" => n > txAck))
  /\ resets = 0 =>
       /\ wpc \in {"idle", "waiting"} /\ (apc = "ackStore" => tmp = txAck)
       /\ First .. (txAck - 1) \subseteq Reached /\ \A n \in ackn : Behind(txAck, n)

\* of a write that waits, what tx_ack has passed has been received, and a step of rx_ack() that
\* reset_tx() has overtaken does not spoil that;
WriteInv ==
  /\ returned <= written
  /\ wpc = "waiting" =>
       /\ returned <= start /\ start < done /\ done = written
       /\ start .. (txAck - 1) \subseteq Reached
       /\ apc = "ackStore" => start .. tmp \subseteq Reached

\* and what the other end has in order is all there is below rx_ctr.
StreamInv == Stream = [i \in 1 .. (rxNext - First) |-> First + i - 1]

ChannelInv == TypeOK /\ QueueInWindow /\ SentInv /\ AckInv /\ WriteInv /\ StreamInv

\* The reader gets everything that is written, whatever the network repeats or loses: poll()
\* sends every chunk again until rx_ack() has taken it out of flight.
AllRead == \A n \in Chunks : written > n ~> read # <<>> /\ read[Len(read)] >= n

\* Every blocking write() comes back.
WriteComesBack == wpc = "waiting" ~> wpc = "idle"

\* An upper layer sees a reliable stream (ReliableStream).
Reliable == INSTANCE ReliableStream WITH
  sent <- written, got <- Stream, confirmed <- returned, givenUp <- resets > 0
ImplementsStream == Reliable!Spec
=============================================================================
