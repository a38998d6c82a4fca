--------------------------- MODULE ConsoleProofs --------------------------
(***************************************************************************)
(* Proofs about module Console, for screens of every size: the cursor of   *)
(* io.c stays on the screen, and the console implements Terminal.          *)
(***************************************************************************)
EXTENDS Console, SequenceTheorems, WellFoundedInduction, TLAPS

(* The cursor is on the screen, every cell holds a character, and what is  *)
(* left to print is a string.                                              *)
ConsoleInv ==
  /\ x \in 0 .. NUM_COLUMNS - 1 /\ y \in 0 .. NUM_ROWS - 1
  /\ screen \in [Cells -> Chars \cup {Blank}]
  /\ string \in Seq(Chars)
---------------------------------------------------------------------------
(* Cells and rows. *)

(* A row is at least as far from the end of the screen as the rows after   *)
(* it are long.                                                            *)
LEMMA RowBounds ==
  ASSUME NEW r \in 0 .. NUM_ROWS - 1
  PROVE  /\ r * NUM_COLUMNS \in Nat
         /\ (r + 1) * NUM_COLUMNS = r * NUM_COLUMNS + NUM_COLUMNS
         /\ (r + 1) * NUM_COLUMNS <= NUM_ROWS * NUM_COLUMNS
         /\ r + 1 < NUM_ROWS => (r + 1) * NUM_COLUMNS < NUM_ROWS * NUM_COLUMNS
         /\ NUM_ROWS * NUM_COLUMNS \in Nat
<1> DEFINE k == NUM_ROWS - 1 - r
<1>1. k \in Nat /\ NUM_ROWS = r + 1 + k
  BY ConsoleAssumption
<1>2. k * NUM_COLUMNS \in Nat /\ r * NUM_COLUMNS \in Nat
  BY <1>1, ConsoleAssumption
<1>3. NUM_ROWS * NUM_COLUMNS = (r + 1) * NUM_COLUMNS + k * NUM_COLUMNS
  BY <1>1, ConsoleAssumption
<1>4. (r + 1) * NUM_COLUMNS = r * NUM_COLUMNS + NUM_COLUMNS
  BY ConsoleAssumption
<1>5. k # 0 => k * NUM_COLUMNS > 0
  BY <1>1, ConsoleAssumption
<1> HIDE DEF k
<1> QED
  BY <1>1, <1>2, <1>3, <1>4, <1>5, ConsoleAssumption

LEMMA CellOf ==
  ASSUME NEW r \in 0 .. NUM_ROWS - 1, NEW col \in 0 .. NUM_COLUMNS - 1
  PROVE  r * NUM_COLUMNS + col \in Cells
BY RowBounds, ConsoleAssumption DEF Cells

(* A cell's number divided by the length of a row is its row. *)
LEMMA RowOf ==
  ASSUME NEW r \in 0 .. NUM_ROWS - 1, NEW col \in 0 .. NUM_COLUMNS - 1
  PROVE  (r * NUM_COLUMNS + col) \div NUM_COLUMNS = r
<1> DEFINE p == r * NUM_COLUMNS + col
           q == p \div NUM_COLUMNS
<1>1. p \in Nat /\ NUM_COLUMNS \in Nat /\ NUM_COLUMNS > 0
  BY RowBounds, ConsoleAssumption
<1>2. q \in Int /\ q * NUM_COLUMNS <= p /\ p < q * NUM_COLUMNS + NUM_COLUMNS
  BY <1>1
<1>3. ASSUME q < r PROVE FALSE
  BY <1>1, <1>2, <1>3
<1>4. ASSUME q > r PROVE FALSE
  BY <1>1, <1>2, <1>4
<1> QED
  BY <1>2, <1>3, <1>4
---------------------------------------------------------------------------
(* printc. *)

(* The row after this one, the first after the last. *)
LEMMA NextRow ==
  ASSUME NEW r \in 0 .. NUM_ROWS - 1
  PROVE  (r + 1) % NUM_ROWS = IF r + 1 >= NUM_ROWS THEN 0 ELSE r + 1
BY ConsoleAssumption

(* A set of numbers that is not empty has a smallest one. *)
LEMMA Smallest ==
  ASSUME NEW S, S \subseteq Nat, S # {}
  PROVE  \E k \in S : \A j \in S : k <= j
<1> DEFINE R == OpToRel(<, Nat)
<1>1. R = {p \in Nat \X Nat : p[1] < p[2]}
  BY DEF OpToRel
<1>2. IsWellFoundedOn(R, Nat)
  BY NatLessThanWellFounded
<1> HIDE DEF R
<1>3. PICK k \in S : \A j \in S : ~(<<j, k>> \in R)
  BY <1>2, WFMin
<1>4. ASSUME NEW j \in S, j < k PROVE FALSE
  <2>1. <<j, k>> \in Nat \X Nat /\ <<j, k>>[1] < <<j, k>>[2]
    BY <1>4
  <2> QED
    BY <1>1, <1>3, <2>1
<1> QED
  BY <1>4

(* A string ends at its first '\0': what printk prints is a string too. *)
LEMMA UpToNulType ==
  ASSUME NEW s \in Seq(Chars)
  PROVE  UpToNul(s) \in Seq(Chars)
<1> DEFINE nuls == {k \in 1 .. Len(s) : s[k] = NUL}
           m == CHOOSE k \in nuls : \A j \in nuls : k <= j
<1>1. CASE nuls = {}
  BY <1>1 DEF UpToNul
<1>2. CASE nuls # {}
  <2>1. \E k \in nuls : \A j \in nuls : k <= j
    <3>1. nuls \subseteq Nat /\ nuls # {}
      BY <1>2
    <3> HIDE DEF nuls
    <3> QED
      BY <3>1, Smallest
  <2>2. m \in 1 .. Len(s)
    BY <2>1
  <2>3. \A k \in 1 .. m - 1 : s[k] \in Chars
    BY <2>2
  <2>4. SubSeq(s, 1, m - 1) \in Seq(Chars)
    <3> HIDE DEF m
    <3> QED BY <2>2, <2>3, SubSeqProperties
  <2> QED
    BY <1>2, <2>4 DEF UpToNul
<1> QED
  BY <1>1, <1>2

LEMMA BufferType ==
  ASSUME NEW s \in Buffers
  PROVE  s \in Seq(Chars)
BY ConsoleAssumption DEF Buffers

(* What one printc does to the cursor and the screen, wherever it stands. *)
LEMMA PrintcEffect ==
  ASSUME ConsoleInv, NEW ch \in Chars, printc(ch)
  PROVE  /\ x' \in 0 .. NUM_COLUMNS - 1 /\ y' \in 0 .. NUM_ROWS - 1
         /\ screen' \in [Cells -> Chars \cup {Blank}]
         /\ ch = NL => T!NewLine
         /\ ch # NL => T!Put(ch)
<1>1. x \in 0 .. NUM_COLUMNS - 1 /\ y \in 0 .. NUM_ROWS - 1
  BY DEF ConsoleInv
<1>2. y * NUM_COLUMNS + x \in Cells /\ (y * NUM_COLUMNS + x) \div NUM_COLUMNS = y
  BY <1>1, CellOf, RowOf
<1>3. (y + 1) % NUM_ROWS = IF y + 1 >= NUM_ROWS THEN 0 ELSE y + 1
  BY <1>1, NextRow
<1>4. /\ y * NUM_COLUMNS \in Nat
      /\ (y + 1) * NUM_COLUMNS = y * NUM_COLUMNS + NUM_COLUMNS
      /\ (y + 1) * NUM_COLUMNS <= NUM_ROWS * NUM_COLUMNS
      /\ y + 1 < NUM_ROWS => (y + 1) * NUM_COLUMNS < NUM_ROWS * NUM_COLUMNS
      /\ NUM_ROWS * NUM_COLUMNS \in Nat
  BY <1>1, RowBounds
<1>5. CASE ch = NL
  <2>1. x' = 0 /\ y' = (y + 1) % NUM_ROWS /\ screen' = screen
    BY <1>5 DEF printc, AfterPrintc
  <2>2. y' * NUM_COLUMNS + x' = IF y + 1 >= NUM_ROWS THEN 0 ELSE (y + 1) * NUM_COLUMNS
    BY <2>1, <1>1, <1>3, ConsoleAssumption
  <2>3. y + 1 >= NUM_ROWS => (y + 1) * NUM_COLUMNS = NUM_ROWS * NUM_COLUMNS
    BY <1>1, ConsoleAssumption
  <2>4. T!NewLine
    <3>1. T!LineStart(y * NUM_COLUMNS + x) = y * NUM_COLUMNS
      BY <1>2 DEF T!LineStart
    <3>2. y' * NUM_COLUMNS + x' = T!Step(y * NUM_COLUMNS, NUM_COLUMNS)
      BY <2>2, <2>3, <1>1, <1>4, ConsoleAssumption DEF T!Step
    <3> QED
      BY <2>1, <3>1, <3>2 DEF T!NewLine
  <2> QED
    BY <1>5, <2>1, <2>4, <1>1, <1>3, ConsoleAssumption DEF ConsoleInv
<1>6. CASE ch # NL
  <2>1. /\ x' = Advance(x, y).x /\ y' = Advance(x, y).y
        /\ screen' = [screen EXCEPT ![y * NUM_COLUMNS + x] = ch]
    BY <1>6 DEF printc, AfterPrintc, Store
  <2>2. CASE x + 1 >= NUM_COLUMNS
    <3>1. x = NUM_COLUMNS - 1 /\ x' = 0 /\ y' = (y + 1) % NUM_ROWS
      BY <2>1, <2>2, <1>1, ConsoleAssumption DEF Advance
    <3>2. y' * NUM_COLUMNS + x' = IF y + 1 >= NUM_ROWS THEN 0 ELSE (y + 1) * NUM_COLUMNS
      BY <3>1, <1>1, <1>3, ConsoleAssumption
    <3>3. y + 1 >= NUM_ROWS => (y + 1) * NUM_COLUMNS = NUM_ROWS * NUM_COLUMNS
      BY <1>1, ConsoleAssumption
    <3>4. T!Put(ch)
      BY <2>1, <3>1, <3>2, <3>3, <1>1, <1>4, ConsoleAssumption DEF T!Put, T!Step
    <3> QED
      BY <1>6, <2>1, <3>1, <3>4, <1>1, <1>2, <1>3, ConsoleAssumption DEF ConsoleInv
  <2>3. CASE x + 1 < NUM_COLUMNS
    <3>1. x' = x + 1 /\ y' = y
      BY <2>1, <2>3, <1>1, ConsoleAssumption DEF Advance
    <3>2. T!Put(ch)
      BY <2>1, <2>3, <3>1, <1>1, <1>4, ConsoleAssumption DEF T!Put, T!Step
    <3> QED
      BY <1>6, <2>1, <2>3, <3>1, <3>2, <1>1, <1>2, ConsoleAssumption DEF ConsoleInv
  <2> QED
    BY <2>2, <2>3, <1>1, ConsoleAssumption
<1> QED
  BY <1>5, <1>6
---------------------------------------------------------------------------
(* Every state of the console is one of the terminal. *)
LEMMA InitInv == Init => ConsoleInv /\ T!Init
<1> SUFFICES ASSUME Init PROVE ConsoleInv /\ T!Init
  OBVIOUS
<1>1. ConsoleInv
  BY ConsoleAssumption DEF Init, ConsoleInv, Cells
<1>2. y * NUM_COLUMNS + x \in Cells
  BY <1>1, CellOf DEF ConsoleInv
<1> QED
  BY <1>1, <1>2 DEF T!Init, Cells, ConsoleInv

(* printc_xy in the last cell: the character is stored, the cursor stays. *)
LEMMA KeyEchoStep ==
  ASSUME ConsoleInv, NEW ch \in Letters \cup {NL}, KeyEcho(ch)
  PROVE  ConsoleInv' /\ [T!Next]_T!vars
<1>1. NUM_COLUMNS - 1 \in 0 .. NUM_COLUMNS - 1 /\ NUM_ROWS - 1 \in 0 .. NUM_ROWS - 1
  BY ConsoleAssumption
<1>2. (NUM_ROWS - 1) * NUM_COLUMNS + (NUM_COLUMNS - 1) = NUM_ROWS * NUM_COLUMNS - 1
  BY ConsoleAssumption
<1>3. NUM_ROWS * NUM_COLUMNS - 1 \in Cells
  BY <1>1, <1>2, CellOf
<1>4. x' = x /\ y' = y /\ string' = string /\ ch \in Chars
  BY DEF KeyEcho, printc_xy, Chars
<1>5. CASE ch = NL
  <2>1. screen' = screen
    BY <1>5 DEF KeyEcho, printc_xy, AfterPrintc
  <2> QED
    BY <1>4, <2>1 DEF ConsoleInv, T!vars
<1>6. CASE ch # NL
  <2>1. screen' = [screen EXCEPT ![NUM_ROWS * NUM_COLUMNS - 1] = ch]
    BY <1>2, <1>6 DEF KeyEcho, printc_xy, AfterPrintc, Store
  <2>2. T!Poke(NUM_ROWS * NUM_COLUMNS - 1, ch)
    BY <1>4, <2>1 DEF T!Poke
  <2> QED
    BY <1>3, <1>4, <2>1, <2>2 DEF ConsoleInv, T!Next
<1> QED
  BY <1>5, <1>6

LEMMA ShowClockStep ==
  ASSUME ConsoleInv, NEW i \in ClockCells, NEW ch \in Letters, zeos_show_clock(i, ch)
  PROVE  ConsoleInv' /\ [T!Next]_T!vars
<1>1. /\ x' = x /\ y' = y /\ string' = string /\ ch \in Chars
      /\ screen' = [screen EXCEPT ![i] = ch] /\ i \in Cells
  BY ConsoleAssumption DEF zeos_show_clock, Chars
<1>2. T!Poke(i, ch)
  BY <1>1 DEF T!Poke
<1> QED
  BY <1>1, <1>2 DEF ConsoleInv, T!Next

LEMMA PrintNextStep ==
  ASSUME ConsoleInv, PrintNext
  PROVE  ConsoleInv' /\ [T!Next]_T!vars
<1>1. Head(string) \in Chars /\ string' \in Seq(Chars)
  BY HeadTailProperties DEF ConsoleInv, PrintNext
<1>2. printc(Head(string))
  BY DEF PrintNext
<1>3. /\ x' \in 0 .. NUM_COLUMNS - 1 /\ y' \in 0 .. NUM_ROWS - 1
      /\ screen' \in [Cells -> Chars \cup {Blank}]
      /\ T!NewLine \/ T!Put(Head(string))
  BY <1>1, <1>2, PrintcEffect
<1>4. T!Next
  BY <1>1, <1>3 DEF T!Next
<1> QED
  BY <1>1, <1>3, <1>4 DEF ConsoleInv

(* A call of printk or sys_write_console has not yet touched the screen. *)
LEMMA CallStep ==
  ASSUME ConsoleInv, NEW s \in Buffers, printk(s) \/ sys_write_console(s)
  PROVE  ConsoleInv' /\ [T!Next]_T!vars
<1>1. string' \in Seq(Chars) /\ x' = x /\ y' = y /\ screen' = screen
  BY BufferType, UpToNulType DEF printk, sys_write_console
<1> QED
  BY <1>1 DEF ConsoleInv, T!vars

LEMMA NextStep ==
  ASSUME ConsoleInv, [Next]_vars
  PROVE  ConsoleInv' /\ [T!Next]_T!vars
<1>1. CASE UNCHANGED vars
  BY <1>1 DEF vars, ConsoleInv, T!vars
<1>2. CASE Next
  BY <1>2, CallStep, PrintNextStep, KeyEchoStep, ShowClockStep DEF Next
<1> QED
  BY <1>1, <1>2

(* The cursor never leaves the screen: printc stores inside video memory   *)
(* whatever is printed, and a row after the last is the first.             *)
THEOREM CursorOnScreen == Spec => []ConsoleInv
BY InitInv, NextStep, PTL DEF Spec

(* The console of io.c, with its two coordinates, its carry and wrap, the  *)
(* key echo and the clock display, implements Terminal.                    *)
THEOREM TerminalImplemented == Spec => ImplementsTerminal
BY InitInv, NextStep, CursorOnScreen, PTL DEF Spec, ImplementsTerminal, T!Spec
===========================================================================
