----------------------------- MODULE CamConverter -----------------------------
(***************************************************************************)
(* camera_sampler_converter.vhd: makes one RGB word of two pixels of a row *)
(* and the two below them.  The row above waits in FIFO_one_clock, a       *)
(* single-clock FIFO of the vendor without show-ahead: its output is there *)
(* one clock after the request.  The green sum of two pixels is kept as    *)
(* the pair of them.                                                       *)
(***************************************************************************)
EXTENDS Naturals, Sequences

CONSTANTS
  LineDepth,    \* words of FIFO_one_clock (4096)
  WidthSpace    \* the pixel counter wraps at this value (2^16)

ASSUME ConverterAssumption == {LineDepth, WidthSpace} \subseteq Nat \ {0}

VARIABLES
  conv,         \* state_reg
  pixCount,     \* p_cnt_reg: words begun in this pair of rows
  vReg, voReg,  \* v_reg, and vo_reg which is valid_out
  lineFifo,     \* contents of FIFO_one_clock, oldest first
  lineOut,      \* its output register
  dataReg,      \* data_reg: the pixel of the second row
  colours,      \* g1_reg, b_reg, g2_reg and r_reg
  out           \* r_out, g_out and b_out

converterVars ==
  <<conv, pixCount, vReg, voReg, lineFifo, lineOut, dataReg, colours, out>>

ConverterStates == {"IDLE", "WR_1", "WR_2", "BLANK", "CLR"}
Colours == {"g1", "b", "g2", "r"}

ConverterInit(zero) ==
  /\ conv = "IDLE" /\ pixCount = 0
  /\ vReg = FALSE /\ voReg = FALSE
  /\ lineFifo = <<>> /\ lineOut = zero /\ dataReg = zero
  /\ colours = [c \in Colours |-> zero] /\ out = [c \in Colours |-> zero]

LineFifo(clear, row1, row2, d) ==
  LET read == row2 /\ lineFifo # <<>> IN
  /\ lineOut' = IF read THEN Head(lineFifo) ELSE lineOut
  /\ lineFifo' = IF clear THEN <<>>
                 ELSE (IF read THEN Tail(lineFifo) ELSE lineFifo) \o
                      (IF row1 /\ Len(lineFifo) < LineDepth THEN <<d>> ELSE <<>>)

ConvIdle(row2) ==
  /\ conv = "IDLE"
  /\ conv' = IF row2 THEN "WR_1" ELSE conv
  /\ pixCount' = 0 /\ UNCHANGED colours

ConvWr1 ==
  /\ conv = "WR_1"
  /\ conv' = "WR_2"
  /\ pixCount' = (pixCount + 1) % WidthSpace
  /\ colours' = [colours EXCEPT !.g1 = lineOut, !.b = dataReg]

\* Fault: the width of the picture is not looked at.
ConvWr2AnyWidth(row2, width) ==
  /\ conv = "WR_2"
  /\ conv' = IF row2 THEN "WR_1" ELSE "CLR"
  /\ colours' = [colours EXCEPT !.g2 = dataReg, !.r = lineOut]
  /\ UNCHANGED pixCount

ConvWr2(row2, width) ==
  /\ conv = "WR_2"
  /\ conv' = IF row2 /\ pixCount # width THEN "WR_1" ELSE "CLR"
  /\ colours' = [colours EXCEPT !.g2 = dataReg, !.r = lineOut]
  /\ UNCHANGED pixCount

ConvBlank(row2) ==
  /\ conv = "BLANK"
  /\ conv' = IF row2 THEN conv ELSE "IDLE"
  /\ UNCHANGED <<pixCount, colours>>

ConvClr(row2) ==
  /\ conv = "CLR"
  /\ conv' = IF row2 THEN "BLANK" ELSE "IDLE"
  /\ UNCHANGED <<pixCount, colours>>

ConverterClock(row1, row2, d, clear, width) ==
  /\ \/ ConvIdle(row2) \/ ConvWr1 \/ ConvWr2(row2, width)
     \/ ConvBlank(row2) \/ ConvClr(row2)
  /\ vReg' = (conv = "WR_2")
  /\ voReg' = vReg
  /\ out' = IF vReg THEN colours ELSE out
  /\ dataReg' = d
  /\ LineFifo(conv = "CLR" \/ clear, row1, row2, d)

ConverterTypeOK ==
  /\ conv \in ConverterStates
  /\ pixCount \in 0 .. WidthSpace - 1
  /\ {vReg, voReg} \subseteq BOOLEAN
  /\ Len(lineFifo) <= LineDepth
=============================================================================
