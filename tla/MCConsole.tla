---------------------------- MODULE MCConsole -----------------------------
(* A screen of two rows of three columns that starts in its last row, with *)
(* buffers of up to two characters: every carry and wrap is reached.       *)
EXTENDS Console
MCLetters == {"a", "b"}
MCClockCells == {1}
===========================================================================
