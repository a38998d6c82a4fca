----------------------------- MODULE MCImage ------------------------------
(* Sectors of 8 bytes, tracks of 5 sectors and segments of 7, so that a    *)
(* segment ends at every possible place of a track (as tracks of 18 and    *)
(* segments of 128 do); paragraphs of 4 bytes, a buffer of 4 paragraphs.   *)
(* The loader lies four segments up, 224 bytes after the system.  Sizes    *)
(* around the tail of copy_data, around multiples of the buffer, around    *)
(* the ends of every segment below the loader and past it; 580 bytes are   *)
(* 145 paragraphs, which do not fit the word.                              *)
EXTENDS Image, TLC
MCFiles ==
  {<<13, u>> : u \in 0 .. 20} \cup {<<s, 9>> : s \in 12 .. 60}
    \cup {<<s, 5>> : s \in {102, 103, 107, 108, 155, 159, 163, 164, 213, 215, 217, 219, 220, 221}}
    \cup {<<440, 9>>, <<567, 9>>, <<571, 9>>}
MCBootFiles ==
  LET good == [header |-> TRUE, len |-> 8, flag |-> TRUE]
  IN {good, [good EXCEPT !.header = FALSE], [good EXCEPT !.len = 9],
      [good EXCEPT !.flag = FALSE]}
===========================================================================
