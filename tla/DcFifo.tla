------------------------------- MODULE DcFifo -------------------------------
(***************************************************************************)
(* The dual-clock FIFO between a producer and a consumer clock domain, as  *)
(* the Altera dcfifo megafunction is configured in fifo64.vhd and          *)
(* FIFO_two_clock.vhd: show-ahead, overflow and underflow checking ON, and *)
(* a word count that wraps at the depth (6 bits for 64 words).             *)
(*                                                                         *)
(* The pointers cross the clock domains through synchronisers, so each     *)
(* side works from its own count: the write side never counts fewer words  *)
(* than there are, the read side never more.  How late a side learns of    *)
(* the other side's operation is a nondeterministic choice within MaxLag.  *)
(* MaxStep is how many words the write clock can store between two edges   *)
(* of the read clock: the read side sees no more of them at one edge.      *)
(***************************************************************************)
EXTENDS Naturals, Sequences

CONSTANTS
  FifoDepth,   \* words of the FIFO (64)
  MaxLag,      \* words by which a side's count may be wrong after its edge
  MaxStep      \* words the read side may learn of at one edge

ASSUME FifoAssumption ==
  FifoDepth \in Nat \ {0} /\ MaxLag \in Nat /\ MaxStep \in Nat \ {0}

VARIABLES
  fifo,        \* the words stored, oldest first
  wrUsed,      \* number of words as counted in the write clock domain
  rdUsed       \* number of words as counted in the read clock domain

fifoVars == <<fifo, wrUsed, rdUsed>>

FifoInit == fifo = <<>> /\ wrUsed = 0 /\ rdUsed = 0

WrFull  == wrUsed = FifoDepth
WrUsedW == wrUsed % FifoDepth      \* wrusedw: a full FIFO reads as 0
RdEmpty == rdUsed = 0
RdFull  == rdUsed = FifoDepth
RdUsedW == rdUsed % FifoDepth

(***************************************************************************)
(* aclr: both sides are cleared at once.                                   *)
(***************************************************************************)
FifoClear == fifo' = <<>> /\ wrUsed' = 0 /\ rdUsed' = 0

\* Fault: overflow checking OFF.
FifoWriteUnchecked(req, word) ==
  /\ fifo' = IF req THEN Append(fifo, word) ELSE fifo
  /\ wrUsed' \in Len(fifo') .. (IF req THEN wrUsed + 1 ELSE wrUsed)
  /\ wrUsed' <= Len(fifo') + MaxLag
  /\ UNCHANGED rdUsed

(***************************************************************************)
(* A write clock edge: a requested word is stored unless wrfull, and the   *)
(* write side may learn of reads that happened meanwhile.                  *)
(***************************************************************************)
FifoWrite(req, word) ==
  LET stored == req /\ ~WrFull IN
  /\ fifo' = IF stored THEN Append(fifo, word) ELSE fifo
  /\ wrUsed' \in Len(fifo') .. (IF stored THEN wrUsed + 1 ELSE wrUsed)
  /\ wrUsed' <= Len(fifo') + MaxLag
  /\ UNCHANGED rdUsed

(***************************************************************************)
(* A read clock edge: a requested word is removed unless rdempty, and the  *)
(* read side may learn of writes that happened meanwhile.                  *)
(***************************************************************************)
FifoRead(req) ==
  LET taken == req /\ ~RdEmpty IN
  /\ fifo' = IF taken THEN Tail(fifo) ELSE fifo
  /\ rdUsed' \in (IF taken THEN rdUsed - 1 ELSE rdUsed) .. Len(fifo')
  /\ Len(fifo') <= rdUsed' + MaxLag
  /\ rdUsed' <= rdUsed + MaxStep
  /\ UNCHANGED wrUsed

(***************************************************************************)
(* Each side's count errs on its safe side.                                *)
(***************************************************************************)
CountsSafe ==
  /\ wrUsed \in Nat /\ rdUsed \in Nat
  /\ rdUsed <= Len(fifo) /\ Len(fifo) <= wrUsed /\ wrUsed <= FifoDepth
=============================================================================
