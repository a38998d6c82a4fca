------------------------------ MODULE MCEntry -----------------------------
(* Distinct arguments, and a positive, a zero and a negative result. *)
EXTENDS Entry
MCArgs == <<1, 5000, 3>>
MCResults == {3, 0, -22}
===========================================================================
