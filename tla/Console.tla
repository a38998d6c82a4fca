------------------------------ MODULE Console -----------------------------
(***************************************************************************)
(* The text console of io.c: the cursor x, y, the video memory at 0xb8000, *)
(* printc, printc_xy and printk, and devices.c's sys_write_console.        *)
(*                                                                         *)
(* A caller hands a buffer to printk or sys_write_console, which call      *)
(* printc for one character after another.  keyboard_routine calls         *)
(* printc_xy and libzeos writes its clock display straight to video        *)
(* memory, between two such calls but never inside one: interrupts are off *)
(* there (NoNesting of module Kernel).                                     *)
(***************************************************************************)
EXTENDS Integers, Sequences

CONSTANTS NUM_COLUMNS, NUM_ROWS,
          FIRST_ROW,     \* Byte x, y=19;
          Letters,       \* characters other than '\n' and '\0'
          NL, NUL, Blank,
          MAX_LENGTH,    \* longest buffer
          ClockCells     \* cells zeos_show_clock writes

Cells == 0 .. NUM_ROWS * NUM_COLUMNS - 1

ASSUME ConsoleAssumption ==
  /\ NUM_COLUMNS \in Nat \ {0} /\ NUM_ROWS \in Nat \ {0}
  /\ FIRST_ROW \in 0 .. NUM_ROWS - 1
  /\ MAX_LENGTH \in Nat
  /\ NL \notin Letters /\ NUL \notin Letters /\ NL # NUL
  /\ ClockCells \subseteq Cells

VARIABLES
  x, y,      \* cursor
  screen,    \* (Word *)0xb8000
  string     \* what is left of the buffer being printed

vars == <<x, y, screen, string>>

Init ==
  /\ x = 0 /\ y = FIRST_ROW
  /\ screen = [i \in Cells |-> Blank]
  /\ string = <<>>

(* The console after printc(ch) with the cursor at cx, cy. *)
Advance(cx, cy) ==
  IF cx + 1 >= NUM_COLUMNS THEN [x |-> 0, y |-> (cy + 1) % NUM_ROWS]
                           ELSE [x |-> cx + 1, y |-> cy]
Store(cx, cy, ch) == [screen EXCEPT ![cy * NUM_COLUMNS + cx] = ch]
AfterPrintc(cx, cy, ch) ==
  IF ch = NL THEN [x |-> 0, y |-> (cy + 1) % NUM_ROWS, screen |-> screen]
  ELSE [x |-> Advance(cx, cy).x, y |-> Advance(cx, cy).y,
        screen |-> Store(cx, cy, ch)]

printc(ch) ==
  LET after == AfterPrintc(x, y, ch)
  IN x' = after.x /\ y' = after.y /\ screen' = after.screen

printc_xy_no_restore(mx, my, ch) ==
  LET after == AfterPrintc(mx, my, ch)
  IN x' = after.x /\ y' = after.y /\ screen' = after.screen

(* cx=x; cy=y; x=mx; y=my; printc(c); x=cx; y=cy *)
printc_xy(mx, my, ch) ==
  /\ screen' = AfterPrintc(mx, my, ch).screen
  /\ x' = x /\ y' = y
---------------------------------------------------------------------------
Chars == Letters \cup {NL, NUL}
Buffers == UNION {[1 .. n -> Chars] : n \in 0 .. MAX_LENGTH}

(* for (i = 0; string[i]; i++): a C string ends at its first '\0'. *)
UpToNul(s) ==
  LET nuls == {k \in 1 .. Len(s) : s[k] = NUL}
  IN IF nuls = {} THEN s
     ELSE SubSeq(s, 1, (CHOOSE k \in nuls : \A j \in nuls : k <= j) - 1)

printk(s) ==
  /\ string = <<>>
  /\ string' = UpToNul(s)
  /\ UNCHANGED <<x, y, screen>>

(* for (i=0; i<size; i++): all of the buffer, '\0' included. *)
sys_write_console(buffer) ==
  /\ string = <<>>
  /\ string' = buffer
  /\ UNCHANGED <<x, y, screen>>

PrintNext ==
  /\ string # <<>>
  /\ printc(Head(string))
  /\ string' = Tail(string)

(* printc_xy(79, 24, c); past the end of char_map c may also be '\n'. *)
KeyEcho(ch) ==
  /\ string = <<>>
  /\ printc_xy(NUM_COLUMNS - 1, NUM_ROWS - 1, ch)
  /\ UNCHANGED string

zeos_show_clock(i, ch) ==
  /\ string = <<>>
  /\ screen' = [screen EXCEPT ![i] = ch]
  /\ UNCHANGED <<x, y, string>>

Next ==
  \/ \E s \in Buffers : printk(s) \/ sys_write_console(s)
  \/ PrintNext
  \/ \E ch \in Letters \cup {NL} : KeyEcho(ch)
  \/ \E i \in ClockCells, ch \in Letters : zeos_show_clock(i, ch)

Spec == Init /\ [][Next]_vars
---------------------------------------------------------------------------
(* The two-dimensional cursor with its carry and wrap implements the       *)
(* single position of Terminal, and neither the key echo (which prints in  *)
(* the last cell, where printc carries and wraps) nor the clock moves it.  *)
T == INSTANCE Terminal
       WITH Cells <- NUM_ROWS * NUM_COLUMNS, LineLength <- NUM_COLUMNS,
            Chars <- Chars \cup {Blank},
            Fixed <- ClockCells \cup {NUM_ROWS * NUM_COLUMNS - 1},
            pos <- y * NUM_COLUMNS + x, cell <- screen
ImplementsTerminal == T!Spec
===========================================================================
