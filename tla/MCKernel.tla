----------------------------- MODULE MCKernel -----------------------------
(* Bounds for Kernel.  Pages of two bytes: pages 2 and 3 hold the user's   *)
(* data, page 4 its code, so addresses 4..9 are mapped.  From buffer 5 the *)
(* sizes give a call of no byte, of two exact chunks, of three chunks to   *)
(* the last mapped byte, one byte past it, and past the end of the address *)
(* space.  Scan codes: 1 maps to a letter, 3 lies past char_map and may    *)
(* read as NUL too, 5 is the release of 1.                                *)
EXTENDS Kernel
MCchar_map == [code \in 0 .. 2 |-> IF code = 1 THEN "k" ELSE "nul"]
MCKeyChars == {"k"}
MCSysnos == {-1, 2, 12}
MCSysnosAll == {-1, 2, 11, 12}
MCFds == {0, 1}
MCBuffers == {0, 2, 5}
MCSizes == {-1, 0, 4, 5, 6, 14}
MCScancodes == {1, 3, 5}
===========================================================================
