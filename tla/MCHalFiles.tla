---- MODULE MCHalFiles ----
EXTENDS LoadImage, TLC
MCMode == {{}, {"WRONLY", "APPEND"}}
Alike == Permutations(Handle)
\* The fields at 10 and 14, which load_image skips, and those it reads.
Head(w, h, colours, count) ==
  [p \in 2..53 |-> CASE p = 10 -> 54 [] p = 14 -> 40 [] p = 18 -> w [] p = 22 -> h
                     [] p = 26 -> 1 [] p = 28 -> count [] p = 46 -> colours [] OTHER -> 0]
Whole(w, h, colours, count) ==
  [magic |-> TRUE, header |-> Head(w, h, colours, count),
   length |-> 54 + 4 * colours + h * 4 * ((3 * w + 3) \div 4)]
\* With a table and without, with filling, of other bit counts; files cut off
\* in the pixels, the header and the first bytes; no bitmap.
MCBmp == {Whole(4, 2, 1, 24), Whole(3, 2, 0, 24), Whole(1, 1, 2, 8), Whole(24, 1, 0, 1),
          [Whole(4, 2, 0, 24) EXCEPT !.length = 70], [Whole(4, 1, 0, 24) EXCEPT !.length = 29],
          [Whole(4, 1, 0, 24) EXCEPT !.length = 40], [Whole(4, 1, 0, 24) EXCEPT !.length = 2],
          [Whole(1, 1, 0, 24) EXCEPT !.magic = FALSE]}
====
