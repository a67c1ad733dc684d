------------------------------ MODULE ChannelRx ------------------------------
(***************************************************************************)
(* The receiving half of a Channel of libflagship/ppppapi.py: rx_drw(),     *)
(* which puts DRW packets back in order, and skip_rx_gap(), with which the  *)
(* reader of a live video gives a lost packet up.                           *)
(*                                                                          *)
(* Chunks are numbered consecutively in the order the peer cut them; that   *)
(* number stands for the chunk's bytes.  The program only ever sees Idx(n), *)
(* the cyclic index, and compares nothing else: rx_ctr is Idx(rxNext).      *)
(*                                                                          *)
(* One thread runs rx_drw() and skip_rx_gap(): the API thread of a file     *)
(* transfer, which skips nothing, or the service thread of the video        *)
(* (web/service/pppp.py:460-496), which polls and then skips.  Each of them *)
(* is one action; the reader of a file transfer is another thread, but      *)
(* shares only the wire, which has a lock.                                  *)
(***************************************************************************)
EXTENDS CyclicU16, Sequences, FiniteSets

CONSTANTS MaxQueued,  \* skip_rx_gap()'s max_queued
          Realtime,   \* whether the reader calls skip_rx_gap()
          First,      \* the first chunk's number: how far the counters have run before
          MaxChunks,  \* bound: chunks the peer sends in all
          Lag,        \* environment: how far behind rx_ctr a packet may still arrive ...
          Ahead       \* ... and how far ahead

ASSUME ReceiverAssumption ==
  /\ MaxQueued \in Nat \ {0} /\ Realtime \in BOOLEAN
  /\ First \in Nat /\ MaxChunks \in Nat \ {0} /\ Lag \in Nat /\ Ahead \in Nat

VARIABLES
  rxNext,   \* the chunk the receiver expects (rx_ctr)
  rxqueue,  \* chunks received ahead of a gap, by index
  buf,      \* Wire.buf: chunks put in order and not read yet
  read      \* chunks the reader has taken out

rxVars == <<rxNext, rxqueue, buf, read>>

Chunks  == First .. (First + MaxChunks - 1)
Counts  == First .. (First + MaxChunks)
Idx(n)  == trunc(n)
Indexes == {Idx(n) : n \in Chunks}
Queued  == {rxqueue[i] : i \in DOMAIN rxqueue}

RxTypeOK ==
  /\ rxNext \in Counts
  /\ DOMAIN rxqueue \subseteq Indexes /\ Queued \subseteq Chunks
  /\ buf \in Seq(Chunks) /\ read \in Seq(Chunks)

RxInit == rxNext = First /\ rxqueue = <<>> /\ buf = <<>> /\ read = <<>>

\* How many chunks the loop can take out of `queue`, beginning with chunk `from`.
RunLength(queue, from) ==
  CHOOSE k \in 0 .. Cardinality(DOMAIN queue) :
    /\ Idx(from + k) \notin DOMAIN queue
    /\ \A i \in 0 .. (k - 1) : Idx(from + i) \in DOMAIN queue

\* Mutants: the loop ends after one chunk; the counter goes one too far.
Recombine_Once(queue, from, wire) ==
  LET k == IF Idx(from) \in DOMAIN queue THEN 1 ELSE 0
  IN /\ rxNext' = from + k
     /\ buf' = wire \o [i \in 1 .. k |-> queue[Idx(from)]]
     /\ rxqueue' = [i \in DOMAIN queue \ (IF k = 1 THEN {Idx(from)} ELSE {}) |-> queue[i]]

Recombine_Skips(queue, from, wire) ==
  LET k == RunLength(queue, from)
  IN /\ rxNext' = from + k + (IF k > 1 THEN 1 ELSE 0)
     /\ buf' = wire \o [i \in 1 .. k |-> queue[Idx(from + i - 1)]]
     /\ rxqueue' = [i \in DOMAIN queue \ {Idx(from + j) : j \in 0 .. (k - 1)} |-> queue[i]]

\* Recombine data from the queue: while rx_ctr is in it, take that chunk out, count it, and
\* hand it to the wire.
Recombine(queue, from, wire) ==
  LET k == RunLength(queue, from)
  IN /\ rxNext' = from + k
     /\ buf' = wire \o [i \in 1 .. k |-> queue[Idx(from + i - 1)]]
     /\ rxqueue' = [i \in DOMAIN queue \ {Idx(from + j) : j \in 0 .. (k - 1)} |-> queue[i]]

\* rx_drw(): drop a packet that has been received already, or record it and recombine.
RxDrw(n) ==
  /\ IF Gt(Idx(rxNext), Idx(n))
       THEN UNCHANGED <<rxNext, rxqueue, buf>>
       ELSE Recombine([i \in DOMAIN rxqueue \cup {Idx(n)} |-> IF i = Idx(n) THEN n ELSE rxqueue[i]],
                      rxNext, buf)
  /\ UNCHANGED read

\* The queued index nearest after rx_ctr.
Dist(i) == Minus(i, Idx(rxNext))
Oldest  == CHOOSE i \in DOMAIN rxqueue : \A j \in DOMAIN rxqueue : Dist(i) <= Dist(j)

\* Mutant: an off-by-one in the queue length that allows a skip.
SkipRxGap_TooLate ==
  /\ Realtime
  /\ Idx(rxNext) \notin DOMAIN rxqueue /\ Cardinality(DOMAIN rxqueue) > MaxQueued
  /\ Recombine(rxqueue, rxNext + Dist(Oldest), <<>>)
  /\ UNCHANGED read

\* skip_rx_gap(): behind a gap, with a queue that has grown long, resume at its oldest packet and
\* give up what is unread.
SkipRxGap ==
  /\ Realtime
  /\ Idx(rxNext) \notin DOMAIN rxqueue /\ Cardinality(DOMAIN rxqueue) >= MaxQueued
  /\ Recombine(rxqueue, rxNext + Dist(Oldest), <<>>)
  /\ UNCHANGED read

\* The reader takes everything that is there.
Read ==
  /\ buf # <<>>
  /\ read' = read \o buf /\ buf' = <<>>
  /\ UNCHANGED <<rxNext, rxqueue>>

RxStep == SkipRxGap \/ Read

-----------------------------------------------------------------------------
(* The receiver on its own: the network hands it any packet near rx_ctr, in  *)
(* any order and any number of times.                                        *)

Arrive(n) == rxNext - n <= Lag /\ n - rxNext <= Ahead /\ RxDrw(n)

RxNextStep == RxStep \/ \E n \in Chunks : Arrive(n)

\* The thread that polls the socket calls skip_rx_gap() after every round; nothing is assumed of
\* the network or of the reader.
RxSpec     == RxInit /\ [][RxNextStep]_rxVars
FairRxSpec == RxSpec /\ WF_rxVars(SkipRxGap)

-----------------------------------------------------------------------------
(* What the receiver promises. *)

Stream == read \o buf

\* No chunk sits in rxqueue behind a counter that has passed it, or at a counter that waits for
\* it: rx_drw() and skip_rx_gap() hand everything on that they can, and skip no chunk they have.
NothingStranded == \A n \in Queued : n > rxNext

\* What makes it inductive: each chunk is queued at its index, ahead of the counter but not far.
QueueInWindow ==
  \A i \in DOMAIN rxqueue : Idx(rxqueue[i]) = i /\ rxqueue[i] \in (rxNext + 1) .. (rxNext + Ahead)
RxIInv == RxTypeOK /\ QueueInWindow

\* Live video does not freeze: a queue long enough to be skipped to does not stay that long
\* (skip_rx_gap()'s purpose), although the missing packet never comes.
StallEnds ==
  Cardinality(DOMAIN rxqueue) >= MaxQueued ~> Cardinality(DOMAIN rxqueue) < MaxQueued
=============================================================================
