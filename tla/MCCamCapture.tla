----------------------------- MODULE MCCamCapture -----------------------------
(* Small sensor formats for TLC, in pixels; the picture is Height x Width   *)
(* words of 2 x 2 pixels.                                                   *)
EXTENDS CamCapture

\* As large as the picture, larger, with an odd row, and too small by a row or
\* by a pair of rows, with the shortest blanks the sampler can follow.
MCFormats ==
  [width : {4}, height : {2, 3, 4, 5}, ff : {1}, fl : {1}, ll : {2}, lf : {1}]
  \cup [width : {6}, height : {4}, ff : {1}, fl : {1}, ll : {2}, lf : {1}]
  \cup [width : {4}, height : {4}, ff : {1}, fl : {1}, ll : {2, 3}, lf : {1, 2}]
=============================================================================
