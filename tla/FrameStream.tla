----------------------------- MODULE FrameStream -----------------------------
(***************************************************************************)
(* What the display path of the VGA controller promises, apart from how    *)
(* the burst reader, the FIFO and the clocks go about it: the words of the *)
(* frame buffer pass through a bounded queue once each, in order, round    *)
(* and round.  A restart empties the queue and begins a new picture; it    *)
(* may leave words of the old one on their way, or the memory may lose     *)
(* step; then what passes is not known until the next restart.             *)
(***************************************************************************)
EXTENDS Integers, Sequences

CONSTANTS
  FrameLen,    \* words of a frame
  Depth        \* words the queue can hold

VARIABLES
  queue,       \* frame positions of the fetched words, oldest first
  cursor,      \* frame position of the next word to fetch
  dirty        \* may other words than those due be among those fetched?

streamVars == <<queue, cursor, dirty>>

Succ(p) == IF p + 1 = FrameLen THEN 0 ELSE p + 1

StreamInit == queue = <<>> /\ cursor = 0 /\ dirty \in BOOLEAN

Fetch ==
  /\ Len(queue) < Depth
  /\ queue' \in Seq(Int)
  /\ Len(queue') = Len(queue) + 1
  /\ \A i \in 1 .. Len(queue) : queue'[i] = queue[i]
  /\ dirty \/ (queue'[Len(queue')] = cursor /\ cursor' = Succ(cursor))
  /\ cursor' \in 0 .. FrameLen - 1
  /\ UNCHANGED dirty

Show ==
  /\ queue # <<>>
  /\ queue' = Tail(queue)
  /\ UNCHANGED <<cursor, dirty>>

LoseStep ==
  /\ dirty'
  /\ UNCHANGED <<queue, cursor>>

Restart ==
  /\ queue' = <<>>
  /\ cursor' = 0
  /\ dirty' \in BOOLEAN

StreamNext == Fetch \/ Show \/ LoseStep \/ Restart

StreamSpec == StreamInit /\ [][StreamNext]_streamVars
-----------------------------------------------------------------------------
\* The queue of a picture that started clean is a run of successive frame
\* positions that ends just before the cursor.
InOrder ==
  ~dirty =>
    /\ \A i \in 1 .. Len(queue) - 1 : queue[i + 1] = Succ(queue[i])
    /\ queue # <<>> => Succ(queue[Len(queue)]) = cursor
=============================================================================
