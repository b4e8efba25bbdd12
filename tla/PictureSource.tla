---------------------------- MODULE PictureSource ----------------------------
(***************************************************************************)
(* What the camera sampler promises the rest of the camera controller      *)
(* while the sensor runs and its frames hold the picture: whole pictures   *)
(* of Total words, row by row, a row's words on every second clock.  How   *)
(* long the gaps between rows and between pictures are is open.            *)
(***************************************************************************)
EXTENDS Naturals

CONSTANTS
  Total,        \* words of a picture
  RowLen        \* words of a row of it

ASSUME SourceAssumption ==
  Total \in Nat \ {0, 1} /\ RowLen \in Nat \ {0} /\ Total % RowLen = 0

VARIABLES
  src,          \* where the sampler is between the pictures
  sent,         \* words of the picture that were put out
  valid         \* valid_out: word number sent is on data_out

sourceVars == <<src, sent, valid>>

SourceInit == src = "IDLE" /\ sent = 0 /\ valid = FALSE

\* Words of the picture that are out after the edge
Out == IF valid THEN sent + 1 ELSE sent

\* The last word of a picture may come out after the frame has ended.
PictureOver == Out >= Total - 1

SourceLeaves(start, snapshot) ==
  \/ src = "IDLE" /\ src' = IF start THEN "WAIT" ELSE "IDLE"
  \/ src = "WAIT" /\ src' = "WAIT"
  \/ src = "WAIT" /\ ~start /\ src' = "IDLE"
  \/ src = "PICTURE" /\ src' = "PICTURE"
  \/ /\ src = "PICTURE" /\ PictureOver
     /\ src' = CASE start /\ snapshot  -> "SNAPSHOT"
                 [] start /\ ~snapshot -> "WAIT"
                 [] ~start             -> "IDLE"
  \/ src = "SNAPSHOT" /\ src' = IF start /\ snapshot THEN "SNAPSHOT" ELSE "IDLE"

InRow == sent % RowLen # 0

\* May, and must, the next word be on data_out after this clock?
MayCome  == ~valid /\ (InRow \/ sent = Total - 1 \/ (src = "PICTURE" /\ sent < Total))
MustCome == ~valid /\ InRow

GoesOn(start, snapshot) ==
  /\ sent' = Out
  /\ SourceLeaves(start, snapshot)
  /\ valid' \in BOOLEAN /\ (MustCome => valid') /\ (valid' => MayCome)

PictureStarts ==
  /\ src = "WAIT" /\ src' = "PICTURE"
  /\ Out % RowLen = 0 /\ sent' = 0 /\ valid' = FALSE

SourceClock(start, snapshot) == PictureStarts \/ GoesOn(start, snapshot)
=============================================================================
