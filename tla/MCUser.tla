------------------------------ MODULE MCUser ------------------------------
(* Bounds for User.  Pages of 32 bytes; page 8 is the user's data and page *)
(* 9 its code, so addresses 256..319 are mapped.  The kernel copies chunks *)
(* of 4: the literals have 0, 2, 4 (one chunk), 5 and 10 bytes (a length   *)
(* of two digits).  The numbers have an even and an odd count of digits, a *)
(* trailing zero, INT_MAX and a negative one; the addresses of faults have *)
(* letters, seven and eight digits, and the sign bit.  320 lies in the     *)
(* page after the user's.                                                  *)
EXTENDS User, TLC
At(a, n) == [at |-> a, len |-> n]
MCrodata == "Hello" :> At(256, 10) @@ "alive" :> At(267, 4) @@ " (" :> At(272, 2)
  @@ " bytes)" :> At(275, 5) @@ "alo" :> At(281, 3) @@ "alo2" :> At(281, 3)
  @@ "" :> At(255 + 30, 0) @@ "Bad file number" :> At(286, 2)
  @@ "Permission denied" :> At(289, 3) @@ "Bad address" :> At(293, 4)
  @@ "Invalid argument" :> At(298, 1) @@ "Function not implemented" :> At(300, 5)
MCchar_map == [code \in 0 .. 2 |-> IF code = 1 THEN "k" ELSE "nul"]
MCKeyChars == {"k"}
MCScancodes == {1}
MCSysnos == {2}
MCFds == {0, 1}
MCBuffers == {200, 256, 318}
MCSizes == {0, 3}
MCTexts == {"", "Hello", "alive"}
MCNumbers == {0, 40, 905, 2147483647, -3}
MCEips == {171, 1163264, 28036591, 439041101, -16}
MCJunk == {<<>>, <<63>>}
MCNone == {}
===========================================================================
