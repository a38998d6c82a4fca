----------------------------- MODULE Terminal -----------------------------
(***************************************************************************)
(* What the console promises: one write position that runs through the     *)
(* cells of the screen in reading order and starts again at the top after  *)
(* the last one, and pokes, which change a cell and not the position.      *)
(***************************************************************************)
EXTENDS Naturals

CONSTANTS Cells,      \* number of cells
          LineLength,
          Chars,
          Fixed       \* cells that pokes may change

VARIABLES pos, cell
vars == <<pos, cell>>

Step(p, n) == IF p + n >= Cells THEN 0 ELSE p + n
LineStart(p) == (p \div LineLength) * LineLength

Put(ch) ==
  /\ cell' = [cell EXCEPT ![pos] = ch]
  /\ pos' = Step(pos, 1)

NewLine ==
  /\ pos' = Step(LineStart(pos), LineLength)
  /\ UNCHANGED cell

Poke(p, ch) ==
  /\ cell' = [cell EXCEPT ![p] = ch]
  /\ UNCHANGED pos

Next ==
  \/ \E ch \in Chars : Put(ch)
  \/ NewLine
  \/ \E p \in Fixed, ch \in Chars : Poke(p, ch)

Init == pos \in 0 .. Cells - 1 /\ cell \in [0 .. Cells - 1 -> Chars]

Spec == Init /\ [][Next]_vars
===========================================================================
