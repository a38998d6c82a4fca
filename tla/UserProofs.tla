----------------------------- MODULE UserProofs ---------------------------
(***************************************************************************)
(* Proofs about modules Conversions and User, for every layout of the      *)
(* program's memory, every text and number it prints, and every moment of  *)
(* an interrupt.                                                           *)
(*                                                                         *)
(* What the loops of itoa and itox compute is proved without an induction  *)
(* theorem, which would need an operator as its parameter: each statement  *)
(* about every number is proved of the least one that would violate it     *)
(* (Least).                                                                *)
(*                                                                         *)
(* A function of libc has shown, after its pc-th call, a prefix of its     *)
(* text: Part.  The frames below the top are each inside a call, so what   *)
(* they have shown before it (Context), what the top has shown, and what   *)
(* the system call in progress has shown make up out: PhaseOK says so for  *)
(* each phase of a system call, and CallPhase, which interrupts do not     *)
(* move, carries it through the handlers.                                  *)
(***************************************************************************)
EXTENDS User, KernelProofs, WellFoundedInduction


(* Every set of natural numbers has a least element. *)
LEMMA Least ==
  ASSUME NEW T, T \subseteq Nat, T # {}
  PROVE  \E x \in T : \A y \in T : x <= y
  <1> DEFINE R == OpToRel(<, Nat)
  <1>1. \A p, q \in Nat : p < q => <<p, q>> \in R
    BY DEF OpToRel
  <1>2. IsWellFoundedOn(R, Nat)
    BY NatLessThanWellFounded, Zenon
  <1> HIDE DEF R
  <1>3. PICK x \in T : \A y \in T : ~(<<y, x>> \in R)
    BY <1>2, WFMin, Zenon
  <1>4. ASSUME NEW y \in T PROVE x <= y
    <2>1. x \in Nat /\ y \in Nat /\ ~(y < x) BY <1>1, <1>3
    <2> QED BY <2>1
  <1> QED BY <1>4

(* A function defined by recursion from smaller arguments exists: step     *)
(* gives the value at n > 0 from the value at pred[n] < n.                 *)
Follows(f, m, zero, pred, step) ==
  /\ f[0] = zero
  /\ \A n \in 1 .. m : f[n] = step[n][f[pred[n]]]

Descends(pred) == pred \in [Nat \ {0} -> Nat] /\ \A n \in Nat \ {0} : pred[n] < n

LEMMA FollowsUnique ==
  ASSUME NEW zero, NEW step, NEW pred, Descends(pred),
         NEW l \in Nat, NEW m \in Nat, NEW f, NEW g, l <= m,
         Follows(f, l, zero, pred, step), Follows(g, m, zero, pred, step)
  PROVE  \A n \in 0 .. l : f[n] = g[n]
  <1> DEFINE T == {n \in 0 .. l : f[n] # g[n]}
  <1> SUFFICES ASSUME T # {} PROVE FALSE
    OBVIOUS
  <1>1. PICK x \in T : \A y \in T : x <= y
    <2>1. T \subseteq Nat OBVIOUS
    <2> QED BY <2>1, Least
  <1>2. x \in 1 .. l /\ x \in 1 .. m
    BY DEF Follows
  <1>3. pred[x] \in 0 .. l /\ pred[x] < x
    BY <1>2 DEF Descends
  <1>4. f[pred[x]] = g[pred[x]]
    BY <1>1, <1>3
  <1>5. f[x] = g[x]
    BY <1>2, <1>4 DEF Follows
  <1> QED BY <1>5

LEMMA FollowsTo ==
  ASSUME NEW S, NEW zero \in S, NEW pred,
         NEW step \in [Nat \ {0} -> [S -> S]], Descends(pred)
  PROVE  \A m \in Nat : \E f \in [0 .. m -> S] : Follows(f, m, zero, pred, step)
  <1> DEFINE Has(m) == \E f \in [0 .. m -> S] : Follows(f, m, zero, pred, step)
             T == {m \in Nat : ~Has(m)}
  <1> SUFFICES ASSUME T # {} PROVE FALSE
    OBVIOUS
  <1>1. PICK x \in T : \A y \in T : x <= y
    <2>1. T \subseteq Nat OBVIOUS
    <2> QED BY <2>1, Least
  <1>2. CASE x = 0
    <2> DEFINE f == [n \in 0 .. 0 |-> zero]
    <2>1. f \in [0 .. 0 -> S] /\ Follows(f, 0, zero, pred, step)
      BY DEF Follows
    <2> QED BY <1>1, <1>2, <2>1
  <1>3. CASE x # 0
    <2>1. x - 1 \in Nat /\ x \in Nat \ {0} BY <1>3
    <2>2. x - 1 \notin T BY <1>1, <2>1
    <2>3. PICK g \in [0 .. x - 1 -> S] : Follows(g, x - 1, zero, pred, step)
      BY <2>1, <2>2
    <2> DEFINE v == step[x][g[pred[x]]]
               f == [n \in 0 .. x |-> IF n = x THEN v ELSE g[n]]
    <2>4. pred[x] \in 0 .. x - 1 BY <2>1 DEF Descends
    <2>5. v \in S
      <3>1. g[pred[x]] \in S BY <2>4
      <3> QED BY <2>1, <3>1
    <2>6. f \in [0 .. x -> S] BY <2>1, <2>5
    <2>7. f[0] = zero BY <2>1, <2>3 DEF Follows
    <2>8. ASSUME NEW n \in 1 .. x PROVE f[n] = step[n][f[pred[n]]]
      <3>1. CASE n = x
        <4>1. f[pred[n]] = g[pred[x]] BY <2>4, <3>1
        <4> QED BY <2>1, <3>1, <4>1
      <3>2. CASE n # x
        <4>1. n \in 1 .. x - 1 /\ pred[n] \in 0 .. x - 1 /\ pred[n] # x
          BY <2>1, <3>2 DEF Descends
        <4>2. f[n] = g[n] /\ f[pred[n]] = g[pred[n]] BY <2>1, <4>1
        <4> QED BY <2>3, <4>1, <4>2 DEF Follows
      <3> QED BY <3>1, <3>2
    <2> HIDE DEF f
    <2>9. Follows(f, x, zero, pred, step) BY <2>7, <2>8 DEF Follows
    <2> QED BY <1>1, <2>6, <2>9
  <1> QED BY <1>2, <1>3

LEMMA FollowsExists ==
  ASSUME NEW S, NEW zero \in S, NEW pred,
         NEW step \in [Nat \ {0} -> [S -> S]], Descends(pred)
  PROVE  \E f \in [Nat -> S] : \A m \in Nat : Follows(f, m, zero, pred, step)
  <1> DEFINE P(m, h) == h \in [0 .. m -> S] /\ Follows(h, m, zero, pred, step)
             g(m) == CHOOSE h : P(m, h)
             f == [n \in Nat |-> g(n)[n]]
  <1>1. ASSUME NEW m \in Nat PROVE P(m, g(m))
    <2>1. \E h : P(m, h) BY FollowsTo
    <2> QED BY <2>1
  <1> HIDE DEF g
  <1>2. f \in [Nat -> S]
    <2>1. ASSUME NEW n \in Nat PROVE g(n)[n] \in S
      BY <1>1
    <2> QED BY <2>1
  <1>3. ASSUME NEW m \in Nat, NEW n \in 0 .. m PROVE f[n] = g(m)[n]
    <2>1. n \in Nat /\ n <= m OBVIOUS
    <2>2. Follows(g(n), n, zero, pred, step) /\ Follows(g(m), m, zero, pred, step)
      BY <1>1, <2>1
    <2>3. \A k \in 0 .. n : g(n)[k] = g(m)[k]
      BY <2>1, <2>2, FollowsUnique
    <2> QED BY <2>1, <2>3
  <1> HIDE DEF f
  <1>4. ASSUME NEW m \in Nat PROVE Follows(f, m, zero, pred, step)
    <2>1. f[0] = zero BY <1>1, <1>3 DEF Follows
    <2>2. ASSUME NEW n \in 1 .. m PROVE f[n] = step[n][f[pred[n]]]
      <3>1. pred[n] \in 0 .. m BY DEF Descends
      <3>2. f[n] = g(m)[n] /\ f[pred[n]] = g(m)[pred[n]] BY <1>3, <3>1
      <3>3. g(m)[n] = step[n][g(m)[pred[n]]] BY <1>1 DEF Follows
      <3> QED BY <3>2, <3>3
    <2> QED BY <2>1, <2>2 DEF Follows
  <1> QED BY <1>2, <1>4

---------------------------------------------------------------------------
(* The loop of itoa and itox. *)
Bases == {10, 16}

LEMMA Division ==
  ASSUME NEW base \in Bases, NEW n \in Nat
  PROVE  /\ n \div base \in Nat /\ n % base \in 0 .. base - 1
         /\ n = (n \div base) * base + (n % base)
         /\ n > 0 => n \div base < n
         /\ n \div base = 0 => n % base = n
  <1>1. CASE base = 10
    <2>1. /\ n \div 10 \in Nat /\ n % 10 \in 0 .. 9 /\ n = (n \div 10) * 10 + (n % 10)
          /\ n > 0 => n \div 10 < n
          /\ n \div 10 = 0 => n % 10 = n
      OBVIOUS
    <2> QED BY <1>1, <2>1
  <1>2. CASE base = 16
    <2>1. /\ n \div 16 \in Nat /\ n % 16 \in 0 .. 15 /\ n = (n \div 16) * 16 + (n % 16)
          /\ n > 0 => n \div 16 < n
          /\ n \div 16 = 0 => n % 16 = n
      OBVIOUS
    <2> QED BY <1>2, <2>1
  <1> QED BY <1>1, <1>2 DEF Bases

LEMMA Digit ==
  ASSUME NEW base \in Bases, NEW d \in 0 .. base - 1
  PROVE  /\ digit_char(d) \in Nat \ {EndOfString}
         /\ digit_char(d) \in DigitChars(base) /\ DigitValue(digit_char(d)) = d
         /\ digit_char(d) = CHAR_0 => d = 0
  BY DEF Bases, digit_char, DigitChars, DigitValue, CHAR_0, CHAR_9, CHAR_A, EndOfString

Body(g, base) ==
  [n \in Int |-> IF n > 0 THEN <<digit_char(n % base)>> \o g[n \div base] ELSE <<>>]

LEMMA LoopExists ==
  ASSUME NEW base \in Bases
  PROVE  \E g \in [Int -> Seq(Nat)] : g = Body(g, base)
  <1> DEFINE pred == [n \in Nat \ {0} |-> n \div base]
             step == [n \in Nat \ {0} |-> [s \in Seq(Nat) |-> <<digit_char(n % base)>> \o s]]
  <1>1. Descends(pred)
    BY Division DEF Descends
  <1>2. step \in [Nat \ {0} -> [Seq(Nat) -> Seq(Nat)]]
    <2>1. ASSUME NEW n \in Nat \ {0}, NEW s \in Seq(Nat)
          PROVE  <<digit_char(n % base)>> \o s \in Seq(Nat)
      <3>1. digit_char(n % base) \in Nat BY Division, Digit
      <3> QED BY <3>1
    <2> QED BY <2>1
  <1>3. <<>> \in Seq(Nat) OBVIOUS
  <1>4. \A n \in Nat \ {0} : /\ pred[n] = n \div base
                             /\ \A s \in Seq(Nat) : step[n][s] = <<digit_char(n % base)>> \o s
    OBVIOUS
  <1> HIDE DEF pred, step
  <1>5. PICK f \in [Nat -> Seq(Nat)] : \A m \in Nat : Follows(f, m, <<>>, pred, step)
    BY <1>1, <1>2, <1>3, FollowsExists
  <1> DEFINE g == [n \in Int |-> IF n > 0 THEN f[n] ELSE <<>>]
  <1>6. g \in [Int -> Seq(Nat)]
    BY <1>3, <1>5
  <1>7. ASSUME NEW n \in Int, n > 0
        PROVE  g[n] = <<digit_char(n % base)>> \o g[n \div base]
    <2>1. n \in Nat \ {0} /\ n \in 1 .. n BY <1>7
    <2>2. f[n] = step[n][f[pred[n]]] BY <1>5, <2>1 DEF Follows
    <2>3. pred[n] = n \div base /\ n \div base \in Nat BY <1>4, <2>1, Division
    <2>4. f[n] = <<digit_char(n % base)>> \o f[n \div base] BY <1>4, <2>1, <2>2, <2>3
    <2>5. g[n] = f[n] BY <1>7
    <2>6. g[n \div base] = f[n \div base]
      <3>1. CASE n \div base > 0 BY <2>3, <3>1
      <3>2. CASE n \div base = 0
        <4>1. f[0] = <<>> BY <1>5 DEF Follows
        <4> QED BY <2>3, <3>2, <4>1
      <3> QED BY <2>3, <3>1, <3>2
    <2> QED BY <2>4, <2>5, <2>6
  <1>8. ASSUME NEW n \in Int, ~(n > 0) PROVE g[n] = <<>>
    BY <1>8
  <1> HIDE DEF g
  <1>9. g = Body(g, base)
    BY <1>6, <1>7, <1>8 DEF Body
  <1> QED BY <1>6, <1>9

LEMMA DigitsDef ==
  ASSUME NEW base \in Bases, NEW a \in Int
  PROVE  /\ digits(a, base) \in Seq(Nat)
         /\ a > 0 => digits(a, base) = <<digit_char(a % base)>> \o digits(a \div base, base)
         /\ a <= 0 => digits(a, base) = <<>>
  <1> DEFINE loop == CHOOSE g : g = Body(g, base)
  <1>1. \A n : digits(n, base) = loop[n]
    BY Zenon DEF digits, Body
  <1>2. loop = Body(loop, base)
    BY LoopExists, Zenon
  <1> HIDE DEF loop
  <1>3. /\ \A n \in Int : n > 0 => loop[n] = <<digit_char(n % base)>> \o loop[n \div base]
        /\ \A n \in Int : n <= 0 => loop[n] = <<>>
    <2>1. /\ \A n \in Int : n > 0 =>
               Body(loop, base)[n] = <<digit_char(n % base)>> \o loop[n \div base]
          /\ \A n \in Int : n <= 0 => Body(loop, base)[n] = <<>>
      BY DEF Body
    <2> QED BY <1>2, <2>1
  <1>4. \A n \in Nat : loop[n] \in Seq(Nat)
    <2> DEFINE T == {n \in Nat : loop[n] \notin Seq(Nat)}
    <2> SUFFICES ASSUME T # {} PROVE FALSE
      OBVIOUS
    <2>1. PICK x \in T : \A y \in T : x <= y
      <3>1. T \subseteq Nat OBVIOUS
      <3> QED BY <3>1, Least
    <2>7. x \in Nat /\ loop[x] \notin Seq(Nat) OBVIOUS
    <2>2. x > 0
      <3>1. x <= 0 => loop[x] = <<>> BY <1>3, <2>7
      <3>2. <<>> \in Seq(Nat) OBVIOUS
      <3>3. ~(x <= 0) BY <2>7, <3>1, <3>2, Zenon
      <3> QED BY <2>7, <3>3
    <2>3. x \div base \in Nat /\ x \div base < x /\ digit_char(x % base) \in Nat
      BY <2>2, Division, Digit
    <2>4. loop[x \div base] \in Seq(Nat) BY <2>1, <2>3
    <2>5. loop[x] = <<digit_char(x % base)>> \o loop[x \div base] BY <1>3, <2>2
    <2>6. <<digit_char(x % base)>> \o loop[x \div base] \in Seq(Nat) BY <2>3, <2>4
    <2> QED BY <2>7, <2>5, <2>6
  <1>5. loop[a] \in Seq(Nat) BY <1>3, <1>4
  <1> QED BY <1>1, <1>3, <1>5
---------------------------------------------------------------------------
(* The exchange of the ends turns the digits round. *)
Reversed(b) == [k \in 1 .. Len(b) |-> b[Len(b) + 1 - k]]

LEMMA SwapReverses ==
  ASSUME NEW b \in Seq(Nat)
  PROVE  swap_ends(b) = Reversed(b) /\ Reversed(b) \in Seq(Nat) /\ Len(Reversed(b)) = Len(b)
  <1> DEFINE i == Len(b)
             swapped == {k \in 1 .. i : k <= i \div 2 \/ i + 1 - k <= i \div 2}
  <1>1. ASSUME NEW k \in 1 .. i
        PROVE  (IF k \in swapped THEN b[i + 1 - k] ELSE b[k]) = b[i + 1 - k]
    <2>1. i \in Nat OBVIOUS
    <2>2. CASE k \in swapped BY <2>2
    <2>3. CASE k \notin swapped
      <3> HIDE DEF i
      <3>1. k > i \div 2 /\ i + 1 - k > i \div 2 BY <2>1, <2>3
      <3>2. i + 1 - k = k BY <2>1, <3>1
      <3> QED BY <2>3, <3>2
    <2> QED BY <2>2, <2>3
  <1>2. swap_ends(b) = [k \in 1 .. i |-> IF k \in swapped THEN b[i + 1 - k] ELSE b[k]]
    BY DEF swap_ends
  <1>3. \A k \in 1 .. i : b[i + 1 - k] \in Nat
    OBVIOUS
  <1> HIDE DEF i, swapped
  <1>4. swap_ends(b) = [k \in 1 .. i |-> b[i + 1 - k]]
    BY <1>1, <1>2
  <1>5. Reversed(b) = [k \in 1 .. i |-> b[i + 1 - k]]
    BY DEF Reversed, i
  <1>6. i \in Nat BY DEF i
  <1>7. /\ [k \in 1 .. i |-> b[i + 1 - k]] \in Seq(Nat)
        /\ Len([k \in 1 .. i |-> b[i + 1 - k]]) = i
    BY <1>3, <1>6
  <1> QED BY <1>4, <1>5, <1>7 DEF i

LEMMA ReversedAppend ==
  ASSUME NEW ch \in Nat, NEW s \in Seq(Nat)
  PROVE  Reversed(<<ch>> \o s) = Append(Reversed(s), ch)
  <1> DEFINE t == <<ch>> \o s
  <1>1. t \in Seq(Nat) /\ Len(t) = Len(s) + 1 /\ t[1] = ch
        /\ \A j \in 1 .. Len(s) : t[j + 1] = s[j]
    OBVIOUS
  <1> HIDE DEF t
  <1>2. /\ Reversed(s) \in Seq(Nat) /\ Len(Reversed(s)) = Len(s)
        /\ Reversed(t) \in Seq(Nat) /\ Len(Reversed(t)) = Len(t)
    BY <1>1, SwapReverses
  <1>3. /\ \A k \in 1 .. Len(s) : Reversed(s)[k] = s[Len(s) + 1 - k]
        /\ \A k \in 1 .. Len(t) : Reversed(t)[k] = t[Len(t) + 1 - k]
    BY DEF Reversed
  <1>4. ASSUME NEW k \in 1 .. Len(t) PROVE Reversed(t)[k] = Append(Reversed(s), ch)[k]
    <2>1. Len(s) \in Nat OBVIOUS
    <2>2. CASE k = Len(s) + 1
      <3>1. Append(Reversed(s), ch)[k] = ch BY <1>2, <2>2
      <3>2. Reversed(t)[k] = t[1] BY <1>1, <1>3, <2>1, <2>2
      <3> QED BY <1>1, <3>1, <3>2
    <2>3. CASE k # Len(s) + 1
      <3>1. k \in 1 .. Len(s) /\ Len(s) + 1 - k \in 1 .. Len(s) BY <1>1, <2>1, <2>3
      <3>2. Append(Reversed(s), ch)[k] = s[Len(s) + 1 - k] BY <1>2, <1>3, <3>1
      <3>3. Len(t) + 1 - k = (Len(s) + 1 - k) + 1 BY <1>1, <2>1
      <3>4. Reversed(t)[k] = t[(Len(s) + 1 - k) + 1] BY <1>3, <3>3
      <3> QED BY <1>1, <3>1, <3>2, <3>4
    <2> QED BY <2>2, <2>3
  <1>5. Append(Reversed(s), ch) \in Seq(Nat) /\ Len(Append(Reversed(s), ch)) = Len(t)
    BY <1>1, <1>2
  <1>6. Reversed(t) = Append(Reversed(s), ch)
    BY <1>1, <1>2, <1>4, <1>5, SeqEqual
  <1> QED BY <1>6 DEF t

(* The reference: Value by the recursion it is defined with. *)
Sums(v, text, base) ==
  v = [k \in 0 .. Len(text) |-> IF k = 0 THEN 0 ELSE v[k - 1] * base + DigitValue(text[k])]

Before == [n \in Nat \ {0} |-> n - 1]
Positional(text, base) ==
  [n \in Nat \ {0} |-> [x \in Int |->
     x * base + (IF n \in 1 .. Len(text) THEN DigitValue(text[n]) ELSE 0)]]

LEMMA DigitValueInt == ASSUME NEW ch \in Nat PROVE DigitValue(ch) \in Int
  BY DEF DigitValue, CHAR_9, CHAR_0, CHAR_A

LEMMA SumsExist ==
  ASSUME NEW base \in Bases, NEW text \in Seq(Nat)
  PROVE  \E v : Sums(v, text, base)
  <1> DEFINE step == Positional(text, base)
             L == Len(text)
  <1>1. Descends(Before)
    BY DEF Before, Descends
  <1>2. base \in Int /\ L \in Nat /\ \A n \in 1 .. L : DigitValue(text[n]) \in Int
    BY DigitValueInt DEF Bases
  <1>3. step \in [Nat \ {0} -> [Int -> Int]]
    BY <1>2 DEF Positional
  <1>4. \A n \in 1 .. L, x \in Int : step[n][x] = x * base + DigitValue(text[n])
    BY <1>2 DEF Positional
  <1> HIDE DEF step
  <1>5. PICK f \in [Nat -> Int] : \A m \in Nat : Follows(f, m, 0, Before, step)
    <2>1. 0 \in Int OBVIOUS
    <2> QED BY <1>1, <1>3, <2>1, FollowsExists
  <1>6. f[0] = 0 /\ \A n \in 1 .. L : f[n] = f[n - 1] * base + DigitValue(text[n])
    <2>1. f[0] = 0 BY <1>5 DEF Follows
    <2>2. ASSUME NEW n \in 1 .. L
          PROVE  f[n] = f[n - 1] * base + DigitValue(text[n])
      <3>1. f[n] = step[n][f[Before[n]]] BY <1>2, <1>5 DEF Follows
      <3>2. Before[n] = n - 1 /\ n - 1 \in Nat BY <1>2 DEF Before
      <3>3. f[n - 1] \in Int BY <3>2
      <3> QED BY <1>4, <3>1, <3>2, <3>3
    <2> QED BY <2>1, <2>2
  <1> DEFINE v == [k \in 0 .. L |-> f[k]]
  <1>7. ASSUME NEW k \in 0 .. L
        PROVE  v[k] = IF k = 0 THEN 0 ELSE v[k - 1] * base + DigitValue(text[k])
    <2>1. CASE k = 0 BY <1>2, <1>6, <2>1
    <2>2. CASE k # 0
      <3>1. k \in 1 .. L /\ k - 1 \in 0 .. L BY <1>2, <2>2
      <3>2. v[k] = f[k] /\ v[k - 1] = f[k - 1] BY <3>1
      <3> QED BY <1>6, <2>2, <3>1, <3>2
    <2> QED BY <2>1, <2>2
  <1>8. Sums(v, text, base)
    BY <1>7, Zenon DEF Sums
  <1> QED BY <1>8

SumOf(text, base) == CHOOSE f : Sums(f, text, base)

LEMMA ValueDef ==
  ASSUME NEW base \in Bases, NEW text \in Seq(Nat)
  PROVE  /\ Value(text, base) = SumOf(text, base)[Len(text)]
         /\ SumOf(text, base)[0] = 0
         /\ \A k \in 1 .. Len(text) :
              SumOf(text, base)[k] = SumOf(text, base)[k - 1] * base + DigitValue(text[k])
  <1> DEFINE v == SumOf(text, base)
  <1>1. Value(text, base) = v[Len(text)]
    BY Zenon DEF Value, Sums, SumOf
  <1>2. Sums(v, text, base)
    BY SumsExist, Zenon DEF SumOf
  <1> HIDE DEF v
  <1> DEFINE g == [k \in 0 .. Len(text) |->
                    IF k = 0 THEN 0 ELSE v[k - 1] * base + DigitValue(text[k])]
  <1>3. v = g BY <1>2 DEF Sums
  <1>4. g[0] = 0 /\ \A k \in 1 .. Len(text) : g[k] = v[k - 1] * base + DigitValue(text[k])
    OBVIOUS
  <1> HIDE DEF g
  <1>5. v[0] = 0 /\ \A k \in 1 .. Len(text) : v[k] = v[k - 1] * base + DigitValue(text[k])
    BY <1>3, <1>4, Zenon
  <1> QED BY <1>1, <1>5, Zenon DEF v

LEMMA ValueEmpty ==
  ASSUME NEW base \in Bases PROVE Value(<<>>, base) = 0
  <1>1. <<>> \in Seq(Nat) /\ Len(<<>>) = 0 OBVIOUS
  <1> QED BY <1>1, ValueDef

(* Such a sum follows from the digits alone, and so is a number. *)
LEMMA SumFollows ==
  ASSUME NEW base \in Bases, NEW text \in Seq(Nat), NEW v, NEW m \in Nat, m <= Len(text),
         v[0] = 0, \A k \in 1 .. m : v[k] = v[k - 1] * base + DigitValue(text[k])
  PROVE  Follows(v, m, 0, Before, Positional(text, base)) /\ \A k \in 0 .. m : v[k] \in Int
  <1>1. base \in Int /\ Len(text) \in Nat /\ \A n \in 1 .. m : DigitValue(text[n]) \in Int
    <2>1. base \in Int BY DEF Bases
    <2>2. Len(text) \in Nat /\ \A n \in 1 .. m : text[n] \in Nat OBVIOUS
    <2> QED BY <2>1, <2>2, DigitValueInt
  <1>2. \A k \in 0 .. m : v[k] \in Int
    <2> DEFINE T == {k \in 0 .. m : v[k] \notin Int}
    <2> SUFFICES ASSUME T # {} PROVE FALSE
      OBVIOUS
    <2>1. PICK x \in T : \A y \in T : x <= y
      <3>1. T \subseteq Nat OBVIOUS
      <3> QED BY <3>1, Least
    <2>2. x \in 1 .. m /\ x - 1 \in 0 .. m OBVIOUS
    <2>3. v[x - 1] \in Int BY <2>1, <2>2
    <2>4. v[x] \in Int BY <1>1, <2>2, <2>3
    <2> QED BY <2>4
  <1>3. ASSUME NEW n \in 1 .. m PROVE v[n] = Positional(text, base)[n][v[Before[n]]]
    <2>1. n \in Nat \ {0} /\ n \in 1 .. Len(text) /\ n - 1 \in 0 .. m BY <1>1
    <2>2. Before[n] = n - 1 BY <2>1 DEF Before
    <2>3. v[n - 1] \in Int BY <1>2, <2>1
    <2>4. Positional(text, base)[n][v[n - 1]] = v[n - 1] * base + DigitValue(text[n])
      BY <2>1, <2>3 DEF Positional
    <2> QED BY <2>2, <2>4
  <1> QED BY <1>2, <1>3 DEF Follows

LEMMA ValueAppend ==
  ASSUME NEW base \in Bases, NEW text \in Seq(Nat), NEW ch \in Nat
  PROVE  /\ Value(Append(text, ch), base) = Value(text, base) * base + DigitValue(ch)
         /\ Value(text, base) \in Int
  <1> DEFINE longer == Append(text, ch)
             L == Len(text)
  <1>1. /\ longer \in Seq(Nat) /\ Len(longer) = L + 1 /\ longer[L + 1] = ch /\ L \in Nat
        /\ \A k \in 1 .. L : longer[k] = text[k]
    OBVIOUS
  <1> HIDE DEF longer
  <1> DEFINE v == SumOf(text, base)
             u == SumOf(longer, base)
  <1>2. /\ Value(text, base) = v[L] /\ v[0] = 0
        /\ \A k \in 1 .. L : v[k] = v[k - 1] * base + DigitValue(text[k])
    BY ValueDef
  <1>3. /\ Value(longer, base) = u[L + 1] /\ u[0] = 0
        /\ \A k \in 1 .. L + 1 : u[k] = u[k - 1] * base + DigitValue(longer[k])
    <2>1. /\ Value(longer, base) = u[Len(longer)] /\ u[0] = 0
          /\ \A k \in 1 .. Len(longer) : u[k] = u[k - 1] * base + DigitValue(longer[k])
      BY <1>1, ValueDef
    <2> QED BY <1>1, <2>1
  <1> HIDE DEF u, v
  <1>4. \A k \in 1 .. L : v[k] = v[k - 1] * base + DigitValue(longer[k])
    BY <1>1, <1>2
  <1>5. Follows(v, L, 0, Before, Positional(longer, base)) /\ \A k \in 0 .. L : v[k] \in Int
    <2>1. L <= Len(longer) BY <1>1
    <2> QED BY <1>1, <1>2, <1>4, <2>1, SumFollows
  <1>6. Follows(u, L + 1, 0, Before, Positional(longer, base))
    <2>1. L + 1 <= Len(longer) /\ L + 1 \in Nat BY <1>1
    <2> QED BY <1>1, <1>3, <2>1, SumFollows
  <1>7. v[L] = u[L]
    <2>1. Descends(Before)
      BY DEF Before, Descends
    <2>2. L \in Nat /\ L + 1 \in Nat /\ L <= L + 1 /\ L \in 0 .. L BY <1>1
    <2>4. \A n \in 0 .. L : v[n] = u[n]
      BY <1>5, <1>6, <2>1, <2>2, FollowsUnique
    <2> QED BY <2>2, <2>4
  <1>8. u[L + 1] = u[L] * base + DigitValue(ch)
    <2>1. L + 1 \in 1 .. L + 1 /\ L + 1 - 1 = L BY <1>1
    <2> QED BY <1>1, <1>3, <2>1
  <1>9. v[L] \in Int BY <1>1, <1>5
  <1> QED BY <1>2, <1>3, <1>7, <1>8, <1>9 DEF longer
---------------------------------------------------------------------------
(* What the loop computes. *)
Computed(a, base) ==
  LET d == digits(a, base)
  IN /\ d \in Seq(Nat) /\ Len(d) > 0
     /\ \A k \in 1 .. Len(d) : d[k] \in DigitChars(base) /\ d[k] # EndOfString
     /\ d[Len(d)] # CHAR_0
     /\ Value(Reversed(d), base) = a

LEMMA DigitsComputed ==
  ASSUME NEW base \in Bases
  PROVE  \A a \in Nat \ {0} : Computed(a, base)
  <1> DEFINE T == {a \in Nat \ {0} : ~Computed(a, base)}
  <1> SUFFICES ASSUME T # {} PROVE FALSE
    OBVIOUS
  <1>1. PICK a \in T : \A y \in T : a <= y
    <2>1. T \subseteq Nat OBVIOUS
    <2> QED BY <2>1, Least
  <1>2. a \in Nat /\ a > 0 /\ ~Computed(a, base) OBVIOUS
  <1> DEFINE q == a \div base
             r == a % base
             ch == digit_char(r)
             d == digits(a, base)
             e == digits(q, base)
  <1>3. q \in Nat /\ r \in 0 .. base - 1 /\ a = q * base + r /\ q < a /\ (q = 0 => r = a)
    BY <1>2, Division
  <1>4. d = <<ch>> \o e /\ e \in Seq(Nat) /\ d \in Seq(Nat) /\ (q = 0 => e = <<>>)
    <2>1. a \in Int /\ q \in Int BY <1>2, <1>3
    <2>2. d \in Seq(Nat) /\ e \in Seq(Nat) BY <2>1, DigitsDef
    <2>3. d = <<ch>> \o e BY <1>2, <2>1, DigitsDef
    <2>4. q <= 0 => e = <<>> BY <2>1, DigitsDef
    <2>5. q = 0 => e = <<>> BY <2>1, <2>4
    <2> QED BY <2>2, <2>3, <2>5
  <1>5. q > 0 => Computed(q, base)
    BY <1>1, <1>3
  <1> HIDE DEF q, r, d, e
  <1>6. /\ ch \in Nat \ {EndOfString} /\ ch \in DigitChars(base) /\ DigitValue(ch) = r
        /\ ch = CHAR_0 => r = 0
    BY <1>3, Digit
  <1> HIDE DEF ch
  <1>7. /\ Len(d) = Len(e) + 1 /\ d[1] = ch /\ Len(e) \in Nat
        /\ \A k \in 1 .. Len(e) : d[k + 1] = e[k]
    BY <1>4, <1>6
  <1>8. Value(Reversed(d), base) = Value(Reversed(e), base) * base + r
    <2>1. Reversed(d) = Append(Reversed(e), ch) BY <1>4, <1>6, ReversedAppend
    <2>2. Reversed(e) \in Seq(Nat) BY <1>4, SwapReverses
    <2> QED BY <1>6, <2>1, <2>2, ValueAppend
  <1>9. CASE q = 0
    <2>1. e = <<>> /\ Reversed(e) = <<>>
      <3>1. e = <<>> BY <1>4, <1>9
      <3>2. Reversed(e) \in Seq(Nat) /\ Len(Reversed(e)) = 0 BY <1>4, <3>1, SwapReverses
      <3> QED BY <3>1, <3>2, EmptySeq
    <2>2. Value(Reversed(d), base) = 0 * base + r BY <1>8, <2>1, ValueEmpty
    <2>3. base \in Int BY DEF Bases
    <2>4. Value(Reversed(d), base) = a BY <1>3, <1>9, <2>2, <2>3
    <2>5. Len(d) = 1 BY <1>7, <2>1
    <2>6. ch # CHAR_0 BY <1>2, <1>3, <1>6, <1>9
    <2> QED BY <1>2, <1>4, <1>6, <1>7, <2>4, <2>5, <2>6 DEF Computed, d
  <1>10. CASE q > 0
    <2>1. /\ Len(e) > 0 /\ e[Len(e)] # CHAR_0 /\ Value(Reversed(e), base) = q
          /\ \A k \in 1 .. Len(e) : e[k] \in DigitChars(base) /\ e[k] # EndOfString
      BY <1>5, <1>10 DEF Computed, e
    <2>2. Value(Reversed(d), base) = a BY <1>3, <1>8, <2>1
    <2>3. d[Len(d)] # CHAR_0 BY <1>7, <2>1
    <2>4. ASSUME NEW k \in 1 .. Len(d)
          PROVE  d[k] \in DigitChars(base) /\ d[k] # EndOfString
      <3>1. CASE k = 1 BY <1>6, <1>7, <3>1
      <3>2. CASE k # 1
        <4>1. k - 1 \in 1 .. Len(e) /\ (k - 1) + 1 = k BY <1>7, <3>2
        <4>2. d[k] = e[k - 1] BY <1>7, <4>1
        <4> QED BY <2>1, <4>1, <4>2
      <3> QED BY <3>1, <3>2
    <2>5. Len(d) > 0 BY <1>7
    <2> QED BY <1>2, <1>4, <2>2, <2>3, <2>4, <2>5 DEF Computed, d
  <1> QED BY <1>3, <1>9, <1>10
---------------------------------------------------------------------------
(* The text of a number: what precedes its end. *)
TextOf(b) == SubSeq(b, 1, Len(b) - 1)

LEMMA StrlenIs ==
  ASSUME NEW b \in Seq(Nat), Len(b) > 0, b[Len(b)] = EndOfString,
         \A k \in 1 .. Len(b) - 1 : b[k] # EndOfString
  PROVE  strlen(b) = Len(b) - 1
  <1> DEFINE Ends(k) == b[k] = EndOfString /\ \A j \in 1 .. k - 1 : b[j] # EndOfString
  <1>1. Len(b) \in 1 .. Len(b) /\ Ends(Len(b)) OBVIOUS
  <1>2. \A k \in 1 .. Len(b) : Ends(k) => k = Len(b) OBVIOUS
  <1> HIDE DEF Ends
  <1>3. (CHOOSE k \in 1 .. Len(b) : Ends(k)) = Len(b) BY <1>1, <1>2
  <1> QED BY <1>3 DEF strlen, Ends

LEMMA AppendText ==
  ASSUME NEW s \in Seq(Nat)
  PROVE  LET b == Append(s, EndOfString)
         IN b \in Seq(Nat) /\ TextOf(b) = s /\ Len(b) = Len(s) + 1 /\ b[Len(b)] = EndOfString
  <1> DEFINE b == Append(s, EndOfString)
  <1>1. /\ b \in Seq(Nat) /\ Len(b) = Len(s) + 1 /\ b[Len(b)] = EndOfString
        /\ \A k \in 1 .. Len(s) : b[k] = s[k]
    BY DEF EndOfString
  <1>2. TextOf(b) = s
    BY <1>1 DEF TextOf
  <1> QED BY <1>1, <1>2

(* The digits of a number, and the text they make. *)
Written(b, base, a) ==
  /\ b \in Seq(Nat) /\ Len(b) > 1
  /\ b[Len(b)] = EndOfString /\ strlen(b) = Len(b) - 1
  /\ TextOf(b) \in Seq(Nat) /\ Len(TextOf(b)) = Len(b) - 1
  /\ Denotes(TextOf(b), base, a)

LEMMA ZeroWritten ==
  ASSUME NEW base \in Bases PROVE Written(<<CHAR_0, EndOfString>>, base, 0)
  <1> DEFINE b == <<CHAR_0, EndOfString>>
  <1>1. /\ b \in Seq(Nat) /\ Len(b) = 2 /\ b[1] = CHAR_0 /\ b[2] = EndOfString
        /\ b[1] # EndOfString
    BY DEF CHAR_0, EndOfString
  <1>2. TextOf(b) = <<CHAR_0>>
    <2>1. b = Append(<<CHAR_0>>, EndOfString) /\ <<CHAR_0>> \in Seq(Nat)
      BY DEF CHAR_0
    <2> QED BY <2>1, AppendText, Zenon
  <1>3. strlen(b) = 1
    <2> HIDE DEF b
    <2>1. Len(b) > 0 /\ b[Len(b)] = EndOfString /\ \A k \in 1 .. Len(b) - 1 : b[k] # EndOfString
      BY <1>1
    <2>2. strlen(b) = Len(b) - 1 BY <1>1, <2>1, StrlenIs
    <2> QED BY <1>1, <2>2
  <1>4. Value(<<CHAR_0>>, base) = 0
    <2>1. <<>> \in Seq(Nat) /\ Append(<<>>, CHAR_0) = <<CHAR_0>> /\ CHAR_0 \in Nat
      BY DEF CHAR_0
    <2>2. Value(<<CHAR_0>>, base) = 0 * base + DigitValue(CHAR_0)
      BY <2>1, ValueAppend, ValueEmpty
    <2> QED BY <2>2 DEF Bases, DigitValue, CHAR_0, CHAR_9
  <1>5. CHAR_0 \in DigitChars(base)
    BY DEF Bases, DigitChars, DigitValue, CHAR_0, CHAR_9
  <1>6. Denotes(<<CHAR_0>>, base, 0)
    BY <1>4, <1>5 DEF Denotes
  <1> HIDE DEF b
  <1>7. Written(b, base, 0)
    <2>1. <<CHAR_0>> \in Seq(Nat) /\ Len(<<CHAR_0>>) = 1 BY DEF CHAR_0
    <2> QED BY <1>1, <1>2, <1>3, <1>6, <2>1 DEF Written
  <1> QED BY <1>7 DEF b

(* itoa and itox write the number they are given, most significant digit   *)
(* first, and end it; a negative one leaves the empty string.              *)
LEMMA NumberWritten ==
  ASSUME NEW base \in Bases, NEW a \in Int
  PROVE  /\ a >= 0 => Written(Number(a, base), base, a)
         /\ a > 0 => Len(Number(a, base)) = Len(digits(a, base)) + 1
         /\ a < 0 => Number(a, base) = <<EndOfString>>
  <1> DEFINE d == digits(a, base)
             s == swap_ends(d)
             b == Append(s, EndOfString)
  <1>1. d \in Seq(Nat) BY DigitsDef
  <1>2. s = Reversed(d) /\ s \in Seq(Nat) /\ Len(s) = Len(d) BY <1>1, SwapReverses
  <1>3. a # 0 => Number(a, base) = b BY DEF Number
  <1>4. a < 0 => d = <<>>
    <2>1. a < 0 => a <= 0 OBVIOUS
    <2> QED BY <2>1, DigitsDef, Zenon
  <1>10. a > 0 => Computed(a, base)
    <2>1. a > 0 => a \in Nat \ {0} OBVIOUS
    <2> QED BY <2>1, DigitsComputed
  <1> HIDE DEF s
  <1>5. b \in Seq(Nat) /\ TextOf(b) = s /\ Len(b) = Len(s) + 1 /\ b[Len(b)] = EndOfString
    BY <1>2, AppendText
  <1>6. \A k \in 1 .. Len(s) : b[k] = s[k] BY <1>2
  <1> HIDE DEF b
  <1>7. CASE a = 0
    <2>1. Number(a, base) = <<CHAR_0, EndOfString>> BY <1>7, Zenon DEF Number
    <2> QED BY <1>7, <2>1, ZeroWritten
  <1>8. CASE a < 0
    <2>1. Len(d) = 0 BY <1>4, <1>8
    <2>2. s = <<>> BY <1>2, <2>1, EmptySeq
    <2>3. b = <<EndOfString>> BY <2>2 DEF b
    <2> QED BY <1>3, <1>8, <2>3
  <1>9. CASE a > 0
    <2>1. /\ Len(d) > 0 /\ d[Len(d)] # CHAR_0 /\ Value(Reversed(d), base) = a
          /\ \A k \in 1 .. Len(d) : d[k] \in DigitChars(base) /\ d[k] # EndOfString
      BY <1>9, <1>10 DEF Computed
    <2>2. \A k \in 1 .. Len(s) : s[k] = d[Len(s) + 1 - k] BY <1>2 DEF Reversed
    <2> HIDE DEF d
    <2>3. \A k \in 1 .. Len(s) : s[k] \in DigitChars(base) /\ s[k] # EndOfString
      <3> SUFFICES ASSUME NEW k \in 1 .. Len(s)
                   PROVE  s[k] \in DigitChars(base) /\ s[k] # EndOfString
        OBVIOUS
      <3>1. Len(s) + 1 - k \in 1 .. Len(d) BY <1>1, <1>2
      <3> QED BY <2>1, <2>2, <3>1
    <2>4. s[1] # CHAR_0
      <3>1. 1 \in 1 .. Len(s) /\ Len(s) + 1 - 1 = Len(d) BY <1>1, <1>2, <2>1
      <3> QED BY <2>1, <2>2, <3>1
    <2>5. Denotes(s, base, a)
      <3>1. s # <<>> BY <1>1, <1>2, <2>1
      <3> QED BY <1>2, <2>1, <2>3, <2>4, <3>1 DEF Denotes
    <2>6. strlen(b) = Len(b) - 1
      <3>1. Len(b) > 0 /\ Len(b) - 1 = Len(s) BY <1>2, <1>5
      <3>2. \A k \in 1 .. Len(b) - 1 : b[k] # EndOfString BY <1>6, <2>3, <3>1
      <3> QED BY <1>5, <3>1, <3>2, StrlenIs
    <2>7. Len(b) > 1 /\ Len(TextOf(b)) = Len(b) - 1 BY <1>1, <1>2, <1>5, <2>1
    <2>8. Written(b, base, a) BY <1>2, <1>5, <2>5, <2>6, <2>7 DEF Written
    <2>9. Len(b) = Len(d) + 1 BY <1>2, <1>5
    <2> QED BY <1>3, <1>9, <2>8, <2>9 DEF d
  <1> QED BY <1>7, <1>8, <1>9

(* The room the text takes. *)
Short(base, m, k) == \A x \in Nat : x < m => Len(digits(x, base)) <= k

LEMMA ShortNext ==
  ASSUME NEW base \in Bases, NEW m \in Nat, NEW k \in Nat, Short(base, m, k)
  PROVE  Short(base, m * base, k + 1)
  <1> SUFFICES ASSUME NEW x \in Nat, x < m * base
               PROVE  Len(digits(x, base)) <= k + 1
    BY DEF Short
  <1>1. CASE x = 0
    <2>1. x \in Int /\ x <= 0 BY <1>1
    <2>2. digits(x, base) = <<>> BY <2>1, DigitsDef, Zenon
    <2> QED BY <2>2
  <1>2. CASE x > 0
    <2> DEFINE q == x \div base
    <2>1. q \in Nat /\ q \in Int /\ q * base <= x
      <3>1. base \in Nat BY DEF Bases
      <3>2. q \in Nat /\ x % base \in 0 .. base - 1 /\ x = q * base + (x % base) BY Division
      <3> HIDE DEF q
      <3>3. CASE base = 10 BY <3>2, <3>3
      <3>4. CASE base = 16 BY <3>2, <3>4
      <3> QED BY <3>3, <3>4 DEF Bases
    <2>2. q < m
      BY <2>1 DEF Bases
    <2>3. Len(digits(q, base)) <= k BY <2>1, <2>2 DEF Short
    <2>4. digits(x, base) = <<digit_char(x % base)>> \o digits(q, base) BY <1>2, DigitsDef
    <2>5. digits(q, base) \in Seq(Nat) BY <2>1, DigitsDef, Zenon
    <2>6. digit_char(x % base) \in Nat BY Division, Digit
    <2>7. Len(digits(x, base)) = 1 + Len(digits(q, base)) BY <2>4, <2>5, <2>6
    <2> QED BY <2>3, <2>5, <2>7
  <1> QED BY <1>1, <1>2

LEMMA ShortOne == ASSUME NEW base \in Bases PROVE Short(base, 1, 0)
  <1> SUFFICES ASSUME NEW x \in Nat, x < 1 PROVE Len(digits(x, base)) <= 0
    BY DEF Short
  <1>1. x \in Int /\ x <= 0 OBVIOUS
  <1>2. digits(x, base) = <<>> BY <1>1, DigitsDef, Zenon
  <1> QED BY <1>2

LEMMA TenDigits == Short(10, 10000000000, 10)
  <1>0. 10 \in Bases BY DEF Bases
  <1>1. Short(10, 10, 1) BY <1>0, ShortOne, ShortNext
  <1>2. Short(10, 100, 2) BY <1>0, <1>1, ShortNext
  <1>3. Short(10, 1000, 3) BY <1>0, <1>2, ShortNext
  <1>4. Short(10, 10000, 4) BY <1>0, <1>3, ShortNext
  <1>5. Short(10, 100000, 5) BY <1>0, <1>4, ShortNext
  <1>6. Short(10, 1000000, 6) BY <1>0, <1>5, ShortNext
  <1>7. Short(10, 10000000, 7) BY <1>0, <1>6, ShortNext
  <1>8. Short(10, 100000000, 8) BY <1>0, <1>7, ShortNext
  <1>9. Short(10, 1000000000, 9) BY <1>0, <1>8, ShortNext
  <1> QED BY <1>0, <1>9, ShortNext

LEMMA EightHexDigits == Short(16, 4294967296, 8)
  <1>0. 16 \in Bases BY DEF Bases
  <1>1. Short(16, 16, 1) BY <1>0, ShortOne, ShortNext
  <1>2. Short(16, 256, 2) BY <1>0, <1>1, ShortNext
  <1>3. Short(16, 4096, 3) BY <1>0, <1>2, ShortNext
  <1>4. Short(16, 65536, 4) BY <1>0, <1>3, ShortNext
  <1>5. Short(16, 1048576, 5) BY <1>0, <1>4, ShortNext
  <1>6. Short(16, 16777216, 6) BY <1>0, <1>5, ShortNext
  <1>7. Short(16, 268435456, 7) BY <1>0, <1>6, ShortNext
  <1> QED BY <1>0, <1>7, ShortNext

(* What printint prints for n, and the room itoa needs for it. *)
Num(n) == TextOf(itoa(n))

LEMMA ItoaFits ==
  ASSUME NEW n \in Int, n <= INT_MAX
  PROVE  /\ itoa(n) \in Seq(Nat) /\ Len(itoa(n)) >= 1 /\ Len(itoa(n)) <= ITOA_BUFF
         /\ strlen(itoa(n)) = Len(itoa(n)) - 1
         /\ Num(n) \in Seq(Nat) /\ Len(Num(n)) = Len(itoa(n)) - 1
         /\ n >= 0 => Denotes(Num(n), 10, n)
  <1>0. 10 \in Bases BY DEF Bases
  <1> DEFINE b == itoa(n)
  <1>1. /\ n >= 0 => Written(b, 10, n)
        /\ n > 0 => Len(b) = Len(digits(n, 10)) + 1
        /\ n < 0 => b = <<EndOfString>>
    BY <1>0, NumberWritten DEF itoa
  <1>2. CASE n < 0
    <2>1. b = Append(<<>>, EndOfString) /\ <<>> \in Seq(Nat) /\ Len(<<>>) = 0 BY <1>1, <1>2
    <2>2. b \in Seq(Nat) /\ TextOf(b) = <<>> /\ Len(b) = 1 /\ b[Len(b)] = EndOfString
      <3>1. b \in Seq(Nat) /\ TextOf(b) = <<>> /\ Len(b) = Len(<<>>) + 1 /\ b[Len(b)] = EndOfString
        BY <2>1, AppendText, Zenon
      <3> QED BY <2>1, <3>1
    <2> HIDE DEF b
    <2>3. strlen(b) = Len(b) - 1
      <3>1. Len(b) > 0 /\ \A k \in 1 .. Len(b) - 1 : b[k] # EndOfString BY <2>2
      <3> QED BY <2>2, <3>1, StrlenIs
    <2>4. Len(TextOf(b)) = Len(b) - 1 BY <2>1, <2>2
    <2> QED BY <1>2, <2>1, <2>2, <2>3, <2>4 DEF b, Num, ITOA_BUFF
  <1>3. CASE n = 0
    <2>1. b = <<CHAR_0, EndOfString>> BY <1>3, Zenon DEF itoa, Number
    <2>2. Len(b) = 2 BY <2>1
    <2> HIDE DEF b
    <2>3. Written(b, 10, n) BY <1>1, <1>3
    <2> QED BY <2>2, <2>3 DEF b, Num, Written, ITOA_BUFF
  <1>4. CASE n > 0
    <2>1. n \in Nat /\ n < 10000000000 BY <1>4 DEF INT_MAX
    <2>2. Len(digits(n, 10)) <= 10 BY <2>1, TenDigits DEF Short
    <2>3. Len(b) = Len(digits(n, 10)) + 1 BY <1>1, <1>4
    <2> HIDE DEF b
    <2>4. Written(b, 10, n) BY <1>1, <1>4
    <2>5. Len(b) \in Nat /\ Len(b) > 1 BY <2>4 DEF Written
    <2>6. Len(digits(n, 10)) \in Nat BY <1>0, DigitsDef, LenProperties
    <2>7. Len(b) >= 1 /\ Len(b) <= ITOA_BUFF BY <2>2, <2>3, <2>5, <2>6 DEF ITOA_BUFF
    <2> QED BY <2>4, <2>7 DEF b, Num, Written
  <1> QED BY <1>2, <1>3, <1>4

(* The text of a page fault's report shows the address. *)
Shows8(text, eip) ==
  IF Len(text) < 8 THEN Denotes(text, 16, eip) ELSE Denotes(SubSeq(text, 1, 8), 16, eip)

LEMMA Assoc ==
  ASSUME NEW s \in Seq(Nat), NEW t \in Seq(Nat), NEW u \in Seq(Nat)
  PROVE  (s \o t) \o u = s \o (t \o u)
  OBVIOUS

LEMMA Joined ==
  ASSUME NEW s \in Seq(Nat), NEW t \in Seq(Nat)
  PROVE  s \o t \in Seq(Nat) /\ Len(s \o t) = Len(s) + Len(t)
  OBVIOUS

LEMMA NoText == /\ <<>> \in Seq(Nat) /\ Len(<<>>) = 0
                /\ \A s \in Seq(Nat) : s \o <<>> = s /\ <<>> \o s = s
  OBVIOUS

LEMMA PrefixOfConcat ==
  ASSUME NEW s \in Seq(Nat), NEW t \in Seq(Nat)
  PROVE  Len(s \o t) = Len(s) + Len(t) /\ SubSeq(s \o t, 1, Len(s)) = s
  <1> DEFINE p == SubSeq(s \o t, 1, Len(s))
  <1>1. Len(s \o t) = Len(s) + Len(t) /\ \A k \in 1 .. Len(s) : (s \o t)[k] = s[k]
    OBVIOUS
  <1>2. p \in Seq(Nat) /\ Len(p) = Len(s) /\ \A k \in 1 .. Len(s) : p[k] = (s \o t)[k]
    OBVIOUS
  <1>3. p = s
    BY <1>1, <1>2, SeqEqual
  <1> QED BY <1>1, <1>3

(* itox writes at most eight digits and the end of the text. *)
LEMMA ItoxFits ==
  ASSUME NEW eip \in Int, eip <= INT_MAX, eip >= 0
  PROVE  Len(itox(eip)) <= 9
  <1>0. 16 \in Bases BY DEF Bases
  <1> DEFINE buff == itox(eip)
  <1>1. CASE eip = 0
    <2>1. buff = <<CHAR_0, EndOfString>> BY <1>1, Zenon DEF itox, Number
    <2> QED BY <2>1
  <1>2. CASE eip > 0
    <2>1. eip \in Nat /\ eip < 4294967296 BY DEF INT_MAX
    <2>2. Len(digits(eip, 16)) <= 8 BY <2>1, EightHexDigits DEF Short
    <2>3. Len(digits(eip, 16)) \in Nat BY <1>0, DigitsDef, LenProperties
    <2>4. Len(buff) = Len(digits(eip, 16)) + 1 BY <1>0, <1>2, NumberWritten DEF itox
    <2> QED BY <2>2, <2>3, <2>4
  <1> QED BY <1>1, <1>2

LEMMA FaultText ==
  ASSUME NEW eip \in Int, eip <= INT_MAX, eip >= 0, NEW rest \in Seq(Nat)
  PROVE  Shows8(fault_text(eip, rest), eip)
  <1>0. 16 \in Bases BY DEF Bases
  <1> DEFINE buff == itox(eip)
             text == fault_text(eip, rest)
  <1>1. Written(buff, 16, eip)
    BY <1>0, NumberWritten DEF itox
  <1>2. Len(buff) <= 9 BY ItoxFits
  <1>3. /\ Len(buff) = 9 => text = SubSeq(buff, 1, 8) \o <<NEWLINE>> \o rest
        /\ Len(buff) # 9 => text = SubSeq(buff, 1, strlen(buff))
    BY DEF fault_text
  <1> HIDE DEF buff, text
  <1>4. /\ buff \in Seq(Nat) /\ Len(buff) \in Nat /\ strlen(buff) = Len(buff) - 1
        /\ TextOf(buff) \in Seq(Nat) /\ Len(TextOf(buff)) = Len(buff) - 1
        /\ Denotes(TextOf(buff), 16, eip)
    BY <1>1 DEF Written
  <1>5. CASE Len(buff) = 9
    <2> DEFINE head == TextOf(buff)
    <2>1. head = SubSeq(buff, 1, 8) /\ Len(head) = 8 /\ head \in Seq(Nat)
      BY <1>4, <1>5 DEF TextOf
    <2>2. text = head \o <<NEWLINE>> \o rest BY <1>3, <1>5, <2>1
    <2> HIDE DEF head
    <2> DEFINE tail == <<NEWLINE>> \o rest
    <2>3. tail \in Seq(Nat) /\ Len(tail) \in Nat BY DEF NEWLINE
    <2>4. text = head \o tail
      <3> DEFINE nl == <<NEWLINE>>
      <3>1. nl \in Seq(Nat) BY DEF NEWLINE
      <3> HIDE DEF nl
      <3>2. (head \o nl) \o rest = head \o (nl \o rest) BY <2>1, <3>1, Assoc, Zenon
      <3> QED BY <2>2, <3>2, Zenon DEF nl
    <2> HIDE DEF tail
    <2>5. Len(text) = 8 + Len(tail) /\ SubSeq(text, 1, 8) = head
      <3>1. head \in Seq(Nat) /\ tail \in Seq(Nat) BY <2>1, <2>3
      <3>2. Len(text) = Len(head) + Len(tail) /\ SubSeq(text, 1, Len(head)) = head
        BY <2>4, <3>1, PrefixOfConcat, Zenon
      <3> QED BY <2>1, <3>2
    <2>6. ~(Len(text) < 8) BY <2>3, <2>5
    <2>7. Denotes(SubSeq(text, 1, 8), 16, eip) BY <1>4, <2>5 DEF head
    <2> QED BY <2>6, <2>7, Zenon DEF Shows8, text
  <1>6. CASE Len(buff) # 9
    <2>1. text = TextOf(buff) BY <1>3, <1>4, <1>6 DEF TextOf
    <2>5. Len(buff) \in Nat BY <1>4
    <2>6. \A n \in Nat : n <= 9 /\ n # 9 => n - 1 < 8 OBVIOUS
    <2>2. Len(buff) - 1 < 8 BY <1>2, <1>6, <2>5, <2>6, Zenon
    <2>3. Len(text) = Len(buff) - 1 BY <1>4, <2>1, Zenon
    <2>4. Len(text) < 8 BY <2>2, <2>3, Zenon
    <2> QED BY <1>4, <2>1, <2>4, Zenon DEF Shows8, text
  <1> QED BY <1>5, <1>6
---------------------------------------------------------------------------
(* The program.  What a function has shown is stated of its frame: Part is *)
(* what its first calls show, Said what the system call of print or of     *)
(* printchar shows, Whole what the function shows in all.                  *)
LiteralAt == {rodata[name].at : name \in DOMAIN rodata}
LengthAt(addr) == (CHOOSE l \in {rodata[name] : name \in DOMAIN rodata} : l.at = addr).len
Content(addr) == [k \in 1 .. LengthAt(addr) |-> addr + k - 1]

LinePart(text, k) ==
  IF k = 0 THEN <<>> ELSE IF k = 1 THEN text ELSE text \o <<NEWLINE>>
TestPart(addr, k) ==
  IF k = 0 THEN <<>> ELSE IF k = 1 THEN Content(addr)
  ELSE IF k = 2 THEN Content(addr) \o Content(Literal(" ("))
  ELSE IF k = 3 THEN (Content(addr) \o Content(Literal(" ("))) \o Num(LengthAt(addr))
  ELSE ((Content(addr) \o Content(Literal(" ("))) \o Num(LengthAt(addr)))
         \o LinePart(Content(Literal(" bytes)")), 2)

Part(f, k, e) ==
  IF f.fn = "printint" THEN IF k = 0 THEN <<>> ELSE Num(f.arg)
  ELSE IF f.fn = "println" THEN LinePart(Content(f.arg), k)
  ELSE IF f.fn = "printintln" THEN LinePart(Num(f.arg), k)
  ELSE IF f.fn = "perror" THEN IF k = 0 THEN <<>> ELSE LinePart(Content(errno_message(e)), 2)
  ELSE IF f.fn = "printlntest" THEN TestPart(f.arg, k)
  ELSE <<>>

(* The calls a function makes, and the one it is in. *)
Calls(fn) ==
  IF fn \in {"print", "printchar"} THEN 0 ELSE IF fn \in {"printint", "perror"} THEN 1
  ELSE IF fn \in {"println", "printintln"} THEN 2 ELSE IF fn = "printlntest" THEN 4 ELSE WHILE + 5

Writers == {"print", "printchar"}
Said(f, buff) == IF f.fn = "printchar" THEN <<f.arg>>
                 ELSE IF f.arg = ITOA_AT THEN TextOf(buff) ELSE Content(f.arg)
Whole(f, e, buff) == IF f.fn \in Writers THEN Said(f, buff) ELSE Part(f, Calls(f.fn), e)
BufferOf(f) == IF f.fn = "printchar" THEN CHAR_AT ELSE f.arg

CalledBy(f, g, e) ==
  /\ g.fn = "printint" => f.fn = "print" /\ f.arg = ITOA_AT
  /\ g.fn = "println" /\ g.pc = 1 => f.fn = "print" /\ f.arg = g.arg
  /\ g.fn = "printintln" /\ g.pc = 1 => f.fn = "printint" /\ f.arg = g.arg
  /\ g.fn \in {"println", "printintln"} /\ g.pc = 2 => f.fn = "printchar" /\ f.arg = NEWLINE
  /\ g.fn = "perror" => f.fn = "println" /\ f.arg = errno_message(e)
  /\ g.fn = "printlntest" /\ g.pc = 1 => f.fn = "print" /\ f.arg = g.arg
  /\ g.fn = "printlntest" /\ g.pc = 2 => f.fn = "print" /\ f.arg = Literal(" (")
  /\ g.fn = "printlntest" /\ g.pc = 3 => f.fn = "printint" /\ f.arg = g.written
  /\ g.fn = "printlntest" /\ g.pc = 4 => f.fn = "println" /\ f.arg = Literal(" bytes)")

(* The stack: at most four functions, each called by the one below it. *)
Rank(fn) == IF fn \in Writers THEN 0 ELSE IF fn \in {"printint", "println"} THEN 1
            ELSE IF fn = "main" THEN 3 ELSE 2

ArgOK(fn, arg) ==
  /\ fn = "print" => arg \in LiteralAt \cup {ITOA_AT}
  /\ fn = "printchar" => arg = NEWLINE
  /\ fn \in {"println", "printlntest"} => arg \in LiteralAt
  /\ fn \in {"printint", "printintln"} => arg <= INT_MAX

FrameSet == [fn : Functions, arg : Int, pc : Nat, written : Int]
FrameOK(f) ==
  /\ f \in FrameSet /\ f.pc <= Calls(f.fn) /\ ArgOK(f.fn, f.arg)
  /\ f.fn \in {"println", "printlntest"} /\ f.pc >= 2 => f.written = LengthAt(f.arg)
  /\ f.fn = "printintln" /\ f.pc >= 2 => f.written = Len(Num(f.arg))

AfterJob == {1, 2, 4, 6, 8, WHILE + 1, WHILE + 3, WHILE + 5}
Linked(f, g, j, e) ==
  /\ Rank(f.fn) < Rank(g.fn)
  /\ g.fn # "main" => g.pc >= 1 /\ CalledBy(f, g, e)
  /\ g.fn = "main" => f.fn = j.fn /\ f.arg = j.arg /\ g.pc \in AfterJob

StackOK ==
  /\ frames \in Seq(FrameSet) /\ Len(frames) >= 1 /\ Len(frames) <= 4
  /\ \A k \in 1 .. Len(frames) : FrameOK(frames[k]) /\ (frames[k].fn = "main" <=> k = Len(frames))
  /\ \A k \in 1 .. Len(frames) - 1 : Linked(frames[k], frames[k + 1], job, errno)

BuffOK ==
  /\ itoa_buff \in Seq(Nat) /\ Len(itoa_buff) >= 1 /\ Len(itoa_buff) <= ITOA_BUFF
  /\ \A k \in 1 .. Len(frames) :
       frames[k].fn = "printint" /\ frames[k].pc = 1 => itoa_buff = itoa(frames[k].arg)

(* What the functions below the running one had shown when they called it. *)
Earlier(k) == IF k < Len(frames) THEN Part(frames[k], frames[k].pc - 1, errno) ELSE <<>>
Context == Earlier(3) \o Earlier(2)

Jobs == {"print", "println", "printint", "printintln", "perror", "printlntest"}
Counted == {"print", "printchar", "println", "printint", "printintln"}
Refusals == {-EBADF, -EFAULT, -EINVAL}
JobShows(j, e) == Whole([fn |-> j.fn, arg |-> j.arg], e, <<>>)

JobOK ==
  /\ job.fn = "none" \/ (job.fn \in Jobs /\ job.arg \in Int /\ ArgOK(job.fn, job.arg))
  /\ job.fn = "print" => job.arg \in LiteralAt
  /\ job.fn = "perror" => /\ errno = -job.after.value
                          /\ job.after.nr = NR_WRITE => job.after.value \in Refusals

(* The value the last call has returned to f. *)
Got(f, r) ==
  /\ f.fn \in {"println", "printlntest"} /\ f.pc = 1 => r = LengthAt(f.arg)
  /\ f.fn \in {"printint", "printintln"} /\ f.pc = 1 => r = Len(Num(f.arg))
  /\ f.fn \in {"println", "printintln"} /\ f.pc = 2 => r = 1

InLibrary == out = Context \o Part(Top, Top.pc, errno) /\ Got(Top, ret)

AfterCall == {3, 5, 7, WHILE + 4}
InMain ==
  /\ job.fn \in Jobs => /\ out = JobShows(job, errno)
                        /\ job.fn \in Counted => ret = Len(out)
  /\ Top.pc \in AfterCall /\ ret < 0 =>
       /\ errno = -answered.value
       /\ answered.nr = NR_WRITE => answered.value \in Refusals
  /\ Top.pc = WHILE + 2 => ret <= INT_MAX

(* A system call of print or printchar is one the kernel cannot refuse. *)
LibraryCalls ==
  LET text == Said(Top, itoa_buff)
  IN /\ Top.fn \in Writers
     /\ req = [nr |-> NR_WRITE, fd |-> 1, buffer |-> BufferOf(Top), size |-> Len(text)]
     /\ Top.fn = "printchar" => c_param = Top.arg
     /\ Len(printed) <= Len(text) /\ out = Context \o SubSeq(text, 1, Len(printed))
     /\ CallPhase \in {"served", "back"} => sysret = Len(text) /\ Len(printed) = Len(text)
     /\ CallPhase = "back" => CallResult = sysret

MainCalls ==
  /\ job.fn = "none" /\ Top.pc \in {2, 4, 6, WHILE + 1, WHILE + 3}
  /\ Top.pc = WHILE + 1 => req.nr = NR_GETTIME
  /\ CallPhase \in {"served", "back"} =>
       /\ req.nr = NR_WRITE /\ sysret < 0 => sysret \in Refusals
       /\ req.nr = NR_GETTIME => sysret <= INT_MAX
  /\ CallPhase = "back" => IF sysret < 0 THEN CallResult = -1 /\ errno = -sysret
                                         ELSE CallResult = sysret

PhaseOK ==
  /\ CallPhase = "user" => IF Len(frames) > 1 THEN InLibrary ELSE InMain
  /\ CallPhase \in {"kernel", "served", "back"} =>
       IF Len(frames) > 1 THEN LibraryCalls ELSE MainCalls

ProgramInv == StackOK /\ BuffOK /\ JobOK /\ ret \in Int /\ PhaseOK

FaultInv ==
  /\ fault = [eip |-> fault.eip, text |-> fault.text] /\ IsInt(fault.eip)
  /\ at = "page_fault_routine" => \E rest \in Junk : fault.text = fault_text(fault.eip, rest)

UserInv == SyscallInv /\ ProgramInv /\ FaultInv
---------------------------------------------------------------------------
(* Literals and user memory. *)
LEMMA LiteralOf ==
  ASSUME NEW name \in Strings \cup Texts
  PROVE  Literal(name) \in LiteralAt
  BY UserAssumption DEF Literal, LiteralAt

LEMMA MessageOf == ASSUME NEW e PROVE errno_message(e) \in LiteralAt
  <1> DEFINE m == CASE e = EBADF -> "Bad file number" [] e = EACCES -> "Permission denied"
                    [] e = EFAULT -> "Bad address"    [] e = EINVAL -> "Invalid argument"
                    [] e = ENOSYS -> "Function not implemented" [] OTHER -> ""
  <1>1. m \in Messages
    BY DEF Messages, EBADF, EACCES, EFAULT, EINVAL, ENOSYS
  <1>2. errno_message(e) = Literal(m) BY Zenon DEF errno_message
  <1> QED BY <1>1, <1>2, LiteralOf DEF Strings

LEMMA LiteralPlace ==
  ASSUME NEW a \in LiteralAt
  PROVE  /\ a \in Nat /\ LengthAt(a) \in Nat /\ LengthAt(a) <= INT_MAX
         /\ a # ITOA_AT
         /\ \A x \in a .. a + LengthAt(a) : UserMapped(x) /\ x # CHAR_AT /\ ~InItoaBuff(x)
         /\ string_length(a) = LengthAt(a)
  <1> DEFINE R == {rodata[name] : name \in DOMAIN rodata}
             r == CHOOSE l \in R : l.at = a
  <1>1. \E l \in R : l.at = a BY DEF LiteralAt
  <1>2. r \in R /\ r.at = a BY <1>1
  <1>3. PICK name \in DOMAIN rodata : r = rodata[name] BY <1>2
  <1>4. LengthAt(a) = r.len BY DEF LengthAt
  <1> HIDE DEF r, R
  <1>5. /\ r \in [at : Nat, len : Nat] /\ r.len <= INT_MAX
        /\ \A x \in r.at .. r.at + r.len : UserMapped(x) /\ x # CHAR_AT /\ ~InItoaBuff(x)
    BY <1>3, UserAssumption
  <1>6. a \in Nat /\ r.len \in Nat BY <1>2, <1>5
  <1>7. a # ITOA_AT
    <2>1. a \in a .. a + r.len BY <1>6
    <2>2. ~InItoaBuff(a) BY <1>2, <1>5, <2>1
    <2> QED BY <2>2, UserAssumption DEF InItoaBuff, ITOA_BUFF
  <1>8. string_length(a) = LengthAt(a)
    BY <1>7, Zenon DEF string_length, LengthAt
  <1> QED BY <1>2, <1>4, <1>5, <1>6, <1>7, <1>8

LEMMA ContentOf ==
  ASSUME NEW a \in LiteralAt
  PROVE  /\ Content(a) \in Seq(Nat) /\ Len(Content(a)) = LengthAt(a)
         /\ \A k \in 1 .. LengthAt(a) : Content(a)[k] = a + k - 1
         /\ Bytes(a) = Content(a)
  <1>1. a \in Nat /\ LengthAt(a) \in Nat /\ string_length(a) = LengthAt(a) BY LiteralPlace
  <1>2. Bytes(a) = Content(a) BY <1>1, Zenon DEF Bytes, Content
  <1> HIDE DEF LengthAt
  <1>3. \A k \in 1 .. LengthAt(a) : a + k - 1 \in Nat BY <1>1
  <1>4. /\ Content(a) \in Seq(Nat) /\ Len(Content(a)) = LengthAt(a)
        /\ \A k \in 1 .. LengthAt(a) : Content(a)[k] = a + k - 1
    BY <1>1, <1>3 DEF Content
  <1> QED BY <1>2, <1>4

LEMMA NumOf ==
  ASSUME NEW n \in Int, n <= INT_MAX
  PROVE  Num(n) \in Seq(Nat) /\ Len(Num(n)) \in Nat
  BY ItoaFits

(* What the frames of the program show is text. *)
LEMMA LineType ==
  ASSUME NEW text \in Seq(Nat), NEW k
  PROVE  LinePart(text, k) \in Seq(Nat)
  <1>1. <<>> \in Seq(Nat) OBVIOUS
  <1>2. text \o <<NEWLINE>> \in Seq(Nat) BY DEF NEWLINE
  <1> QED BY <1>1, <1>2, Zenon DEF LinePart

LEMMA TestType ==
  ASSUME NEW a \in LiteralAt, NEW k
  PROVE  TestPart(a, k) \in Seq(Nat)
  <1> DEFINE t == Content(a)
             p == Content(Literal(" ("))
             n == Num(LengthAt(a))
             z == LinePart(Content(Literal(" bytes)")), 2)
  <1>0. /\ " (" \in Strings \cup Texts /\ " bytes)" \in Strings \cup Texts
    BY DEF Strings
  <1>1. t \in Seq(Nat) /\ p \in Seq(Nat) /\ Content(Literal(" bytes)")) \in Seq(Nat)
    BY <1>0, ContentOf, LiteralOf
  <1>2. z \in Seq(Nat) BY <1>1, LineType
  <1>3. n \in Seq(Nat) BY LiteralPlace, NumOf
  <1> HIDE DEF t, p, n, z
  <1>4. t \o p \in Seq(Nat) BY <1>1, Joined, Zenon
  <1>5. (t \o p) \o n \in Seq(Nat) BY <1>3, <1>4, Joined, Zenon
  <1>6. ((t \o p) \o n) \o z \in Seq(Nat) BY <1>2, <1>5, Joined, Zenon
  <1>7. <<>> \in Seq(Nat) OBVIOUS
  <1> QED BY <1>1, <1>4, <1>5, <1>6, <1>7, Zenon DEF TestPart, t, p, n, z

LEMMA PartType ==
  ASSUME NEW f, FrameOK(f), NEW k, NEW e
  PROVE  Part(f, k, e) \in Seq(Nat)
  <1>1. <<>> \in Seq(Nat) OBVIOUS
  <1>2. f.fn \in {"printint", "printintln"} => Num(f.arg) \in Seq(Nat)
    BY NumOf DEF FrameOK, FrameSet, ArgOK
  <1>3. f.fn \in {"println", "printlntest"} => f.arg \in LiteralAt /\ Content(f.arg) \in Seq(Nat)
    BY ContentOf DEF FrameOK, ArgOK
  <1>4. Content(errno_message(e)) \in Seq(Nat) BY MessageOf, ContentOf
  <1>5. CASE f.fn = "printint" BY <1>1, <1>2, <1>5, Zenon DEF Part
  <1>6. CASE f.fn = "println" BY <1>3, <1>6, LineType DEF Part
  <1>7. CASE f.fn = "printintln" BY <1>2, <1>7, LineType DEF Part
  <1>8. CASE f.fn = "perror"
    <2>1. LinePart(Content(errno_message(e)), 2) \in Seq(Nat) BY <1>4, LineType
    <2> QED BY <1>1, <1>8, <2>1 DEF Part
  <1>9. CASE f.fn = "printlntest" BY <1>3, <1>9, TestType DEF Part
  <1>10. CASE f.fn \notin {"printint", "println", "printintln", "perror", "printlntest"}
    BY <1>1, <1>10 DEF Part
  <1> QED BY <1>5, <1>6, <1>7, <1>8, <1>9, <1>10

LEMMA LineParts ==
  ASSUME NEW text
  PROVE  /\ LinePart(text, 0) = <<>> /\ LinePart(text, 1) = text
         /\ LinePart(text, 2) = text \o <<NEWLINE>>
  BY DEF LinePart

LEMMA TestParts ==
  ASSUME NEW a
  PROVE  /\ TestPart(a, 0) = <<>> /\ TestPart(a, 1) = Content(a)
         /\ TestPart(a, 2) = TestPart(a, 1) \o Content(Literal(" ("))
         /\ TestPart(a, 3) = TestPart(a, 2) \o Num(LengthAt(a))
         /\ TestPart(a, 4) = TestPart(a, 3) \o LinePart(Content(Literal(" bytes)")), 2)
  BY DEF TestPart

LEMMA PartOf ==
  ASSUME NEW f, NEW e
  PROVE  /\ f.fn = "printint" => Part(f, 0, e) = <<>> /\ Part(f, 1, e) = Num(f.arg)
         /\ f.fn = "println" => \A k : Part(f, k, e) = LinePart(Content(f.arg), k)
         /\ f.fn = "printintln" => \A k : Part(f, k, e) = LinePart(Num(f.arg), k)
         /\ f.fn = "perror" => /\ Part(f, 0, e) = <<>>
                               /\ Part(f, 1, e) = LinePart(Content(errno_message(e)), 2)
         /\ f.fn = "printlntest" => \A k : Part(f, k, e) = TestPart(f.arg, k)
         /\ Part(f, 0, e) = <<>>
  <1>1. f.fn = "printint" => Part(f, 0, e) = <<>> /\ Part(f, 1, e) = Num(f.arg)
    BY DEF Part
  <1>2. f.fn = "println" => \A k : Part(f, k, e) = LinePart(Content(f.arg), k)
    BY DEF Part
  <1>3. f.fn = "printintln" => \A k : Part(f, k, e) = LinePart(Num(f.arg), k)
    BY DEF Part
  <1>4. f.fn = "perror" => /\ Part(f, 0, e) = <<>>
                           /\ Part(f, 1, e) = LinePart(Content(errno_message(e)), 2)
    BY DEF Part
  <1>5. f.fn = "printlntest" => \A k : Part(f, k, e) = TestPart(f.arg, k)
    BY DEF Part
  <1>6. f.fn \notin {"printint", "println", "printintln", "perror", "printlntest"} =>
          Part(f, 0, e) = <<>>
    BY DEF Part
  <1>7. Part(f, 0, e) = <<>>
    BY <1>1, <1>2, <1>3, <1>4, <1>5, <1>6, LineParts, TestParts, Zenon
  <1> QED BY <1>1, <1>2, <1>3, <1>4, <1>5, <1>7

LEMMA WholeOf ==
  ASSUME NEW f, NEW e, NEW buff
  PROVE  /\ f.fn = "print" /\ f.arg = ITOA_AT => Whole(f, e, buff) = TextOf(buff)
         /\ f.fn = "print" /\ f.arg # ITOA_AT => Whole(f, e, buff) = Content(f.arg)
         /\ f.fn = "printchar" => Whole(f, e, buff) = <<f.arg>>
         /\ f.fn = "printint" => Whole(f, e, buff) = Num(f.arg)
         /\ f.fn = "println" => Whole(f, e, buff) = LinePart(Content(f.arg), 2)
         /\ f.fn = "printintln" => Whole(f, e, buff) = LinePart(Num(f.arg), 2)
         /\ f.fn = "perror" => Whole(f, e, buff) = LinePart(Content(errno_message(e)), 2)
         /\ f.fn = "printlntest" => Whole(f, e, buff) = TestPart(f.arg, 4)
  <1>1. /\ f.fn = "print" /\ f.arg = ITOA_AT => Whole(f, e, buff) = TextOf(buff)
        /\ f.fn = "print" /\ f.arg # ITOA_AT => Whole(f, e, buff) = Content(f.arg)
        /\ f.fn = "printchar" => Whole(f, e, buff) = <<f.arg>>
    BY DEF Whole, Said, Writers
  <1>2. ASSUME f.fn \notin Writers PROVE Whole(f, e, buff) = Part(f, Calls(f.fn), e)
    BY <1>2 DEF Whole
  <1>3. /\ f.fn \in {"printint", "perror"} => f.fn \notin Writers /\ Calls(f.fn) = 1
        /\ f.fn \in {"println", "printintln"} => f.fn \notin Writers /\ Calls(f.fn) = 2
        /\ f.fn = "printlntest" => f.fn \notin Writers /\ Calls(f.fn) = 4
    BY DEF Writers, Calls
  <1>4. f.fn = "printint" => Whole(f, e, buff) = Num(f.arg)
    <2>1. f.fn = "printint" => Whole(f, e, buff) = Part(f, 1, e) BY <1>2, <1>3
    <2> QED BY <2>1, PartOf
  <1>5. /\ f.fn = "println" => Whole(f, e, buff) = LinePart(Content(f.arg), 2)
        /\ f.fn = "printintln" => Whole(f, e, buff) = LinePart(Num(f.arg), 2)
    <2>1. f.fn \in {"println", "printintln"} => Whole(f, e, buff) = Part(f, 2, e) BY <1>2, <1>3
    <2>2. f.fn = "println" => Part(f, 2, e) = LinePart(Content(f.arg), 2) BY PartOf, Zenon
    <2>3. f.fn = "printintln" => Part(f, 2, e) = LinePart(Num(f.arg), 2) BY PartOf, Zenon
    <2> QED BY <2>1, <2>2, <2>3, Zenon
  <1>6. f.fn = "perror" => Whole(f, e, buff) = LinePart(Content(errno_message(e)), 2)
    <2>1. f.fn = "perror" => Whole(f, e, buff) = Part(f, 1, e) BY <1>2, <1>3
    <2> QED BY <2>1, PartOf
  <1>7. f.fn = "printlntest" => Whole(f, e, buff) = TestPart(f.arg, 4)
    <2>1. f.fn = "printlntest" => Whole(f, e, buff) = Part(f, 4, e) BY <1>2, <1>3
    <2> QED BY <2>1, PartOf
  <1> QED BY <1>1, <1>4, <1>5, <1>6, <1>7

LEMMA LineLength ==
  ASSUME NEW text \in Seq(Nat)
  PROVE  LinePart(text, 2) \in Seq(Nat) /\ Len(LinePart(text, 2)) = Len(text) + 1
  <1>1. text \o <<NEWLINE>> \in Seq(Nat) /\ Len(text \o <<NEWLINE>>) = Len(text) + 1
    BY DEF NEWLINE
  <1> QED BY <1>1, LineParts

(* When f returns to its caller g, g has shown that much more. *)
LEMMA Continues ==
  ASSUME NEW f, NEW g, NEW e, NEW buff, FrameOK(f), FrameOK(g), g.fn # "main",
         g.pc >= 1, CalledBy(f, g, e), Rank(f.fn) < Rank(g.fn),
         g.fn = "printint" => buff = itoa(g.arg)
  PROVE  /\ Part(g, g.pc, e) = Part(g, g.pc - 1, e) \o Whole(f, e, buff)
         /\ \A r : (f.fn \in Counted => r = Len(Whole(f, e, buff))) => Got(g, r)
  <1>0. /\ g.pc \in Nat /\ g.pc <= Calls(g.fn) /\ g.fn \in Functions
    BY DEF FrameOK, FrameSet
  <1> DEFINE more == Whole(f, e, buff)
  <1>1. CASE g.fn = "printint"
    <2>1. g.pc = 1 BY <1>0, <1>1 DEF Calls
    <2>2. f.fn = "print" /\ f.arg = ITOA_AT BY <1>1 DEF CalledBy
    <2>3. more = Num(g.arg) BY <1>1, <2>2, WholeOf DEF Num
    <2>4. Num(g.arg) \in Seq(Nat) BY <1>1, NumOf DEF FrameOK, FrameSet, ArgOK
    <2>5. Part(g, 1, e) = Num(g.arg) /\ Part(g, 0, e) = <<>> BY <1>1, PartOf
    <2> HIDE DEF more
    <2>6. Part(g, 1, e) = Part(g, 0, e) \o more BY <2>3, <2>4, <2>5, NoText
    <2>7. ASSUME NEW r, f.fn \in Counted => r = Len(more) PROVE Got(g, r)
      BY <1>1, <2>1, <2>2, <2>3, <2>7 DEF Counted, Got
    <2> QED BY <2>1, <2>6, <2>7 DEF more
  <1>2. CASE g.fn = "println" \/ g.fn = "printintln"
    <2> DEFINE text == IF g.fn = "println" THEN Content(g.arg) ELSE Num(g.arg)
    <2>1. text \in Seq(Nat)
      BY <1>2, NumOf, ContentOf DEF FrameOK, FrameSet, ArgOK
    <2>2. \A k : Part(g, k, e) = LinePart(text, k)
      <3>1. CASE g.fn = "println"
        <4>1. \A k : Part(g, k, e) = LinePart(Content(g.arg), k) BY <3>1, PartOf
        <4> QED BY <3>1, <4>1
      <3>2. CASE g.fn = "printintln"
        <4>1. \A k : Part(g, k, e) = LinePart(Num(g.arg), k) BY <3>2, PartOf
        <4>2. text = Num(g.arg) BY <3>2
        <4> QED BY <4>1, <4>2
      <3> QED BY <1>2, <3>1, <3>2
    <2>3. g.pc = 1 \/ g.pc = 2 BY <1>0, <1>2 DEF Calls
    <2>4. CASE g.pc = 1
      <3>1. more = text
        <4>1. CASE g.fn = "println"
          <5>1. f.fn = "print" /\ f.arg = g.arg /\ g.arg \in LiteralAt
            BY <2>4, <4>1 DEF CalledBy, FrameOK, ArgOK
          <5> QED BY <4>1, <5>1, LiteralPlace, WholeOf
        <4>2. CASE g.fn = "printintln"
          <5>1. f.fn = "printint" /\ f.arg = g.arg BY <2>4, <4>2 DEF CalledBy
          <5> QED BY <4>2, <5>1, WholeOf
        <4> QED BY <1>2, <4>1, <4>2
      <3>2. f.fn \in Counted
        BY <1>2, <2>4 DEF CalledBy, Counted
      <3>3. /\ g.fn = "println" => Len(text) = LengthAt(g.arg)
            /\ g.fn = "printintln" => Len(text) = Len(Num(g.arg))
        BY ContentOf DEF FrameOK, ArgOK
      <3> HIDE DEF more, text
      <3>4. Part(g, 1, e) = text /\ Part(g, 0, e) = <<>> BY <2>2, LineParts
      <3>5. Part(g, 1, e) = Part(g, 0, e) \o more BY <2>1, <3>1, <3>4, NoText
      <3>6. ASSUME NEW r, f.fn \in Counted => r = Len(more) PROVE Got(g, r)
        BY <1>2, <2>4, <3>1, <3>2, <3>3, <3>6 DEF Got
      <3> QED BY <2>4, <3>5, <3>6 DEF more
    <2>5. CASE g.pc = 2
      <3>1. f.fn = "printchar" /\ f.arg = NEWLINE BY <1>2, <2>5 DEF CalledBy
      <3>2. more = <<NEWLINE>> BY <3>1, WholeOf
      <3> HIDE DEF text
      <3>3. Part(g, 2, e) = Part(g, 1, e) \o <<NEWLINE>>
        BY <2>2, LineParts
      <3>4. ASSUME NEW r, f.fn \in Counted => r = Len(more) PROVE Got(g, r)
        <4>1. r = 1 BY <3>1, <3>2, <3>4 DEF Counted
        <4> QED BY <1>2, <2>5, <4>1 DEF Got
      <3> QED BY <2>5, <3>2, <3>3, <3>4
    <2> QED BY <2>3, <2>4, <2>5
  <1>3. CASE g.fn = "perror"
    <2>1. g.pc = 1 BY <1>0, <1>3 DEF Calls
    <2>2. f.fn = "println" /\ f.arg = errno_message(e) BY <1>3 DEF CalledBy
    <2>3. more = LinePart(Content(errno_message(e)), 2) BY <2>2, WholeOf
    <2>4. more \in Seq(Nat) BY <2>3, MessageOf, ContentOf, LineType
    <2>5. Part(g, 1, e) = more /\ Part(g, 0, e) = <<>> BY <1>3, <2>3, PartOf
    <2> HIDE DEF more
    <2>6. Part(g, 1, e) = Part(g, 0, e) \o more BY <2>4, <2>5, NoText
    <2>7. \A r : Got(g, r) BY <1>3 DEF Got
    <2> QED BY <2>1, <2>6, <2>7 DEF more
  <1>4. CASE g.fn = "printlntest"
    <2>1. g.pc \in 1 .. 4 BY <1>0, <1>4 DEF Calls
    <2>2. g.arg \in LiteralAt BY <1>4 DEF FrameOK, ArgOK
    <2>3. \A k : Part(g, k, e) = TestPart(g.arg, k) BY <1>4, PartOf
    <2>4. CASE g.pc = 1
      <3>1. f.fn = "print" /\ f.arg = g.arg BY <1>4, <2>4 DEF CalledBy
      <3>2. more = Content(g.arg) BY <2>2, <3>1, LiteralPlace, WholeOf
      <3>3. Content(g.arg) \in Seq(Nat) /\ Len(Content(g.arg)) = LengthAt(g.arg) BY <2>2, ContentOf
      <3>4. Part(g, 1, e) = Content(g.arg) /\ Part(g, 0, e) = <<>> BY <2>3, TestParts
      <3> HIDE DEF more
      <3>5. Part(g, 1, e) = Part(g, 0, e) \o more BY <3>2, <3>3, <3>4, NoText
      <3>6. ASSUME NEW r, f.fn \in Counted => r = Len(more) PROVE Got(g, r)
        BY <1>4, <2>4, <3>1, <3>2, <3>3, <3>6 DEF Got, Counted
      <3> QED BY <2>4, <3>5, <3>6 DEF more
    <2>5. CASE g.pc = 2
      <3>1. f.fn = "print" /\ f.arg = Literal(" (") BY <1>4, <2>5 DEF CalledBy
      <3>2. Literal(" (") \in LiteralAt BY LiteralOf DEF Strings
      <3>3. more = Content(Literal(" (")) BY <3>1, <3>2, LiteralPlace, WholeOf
      <3>4. Part(g, 2, e) = Part(g, 1, e) \o more BY <2>3, <3>3, TestParts
      <3>5. \A r : Got(g, r) BY <1>4, <2>5 DEF Got
      <3> QED BY <2>5, <3>4, <3>5
    <2>6. CASE g.pc = 3
      <3>1. f.fn = "printint" /\ f.arg = g.written BY <1>4, <2>6 DEF CalledBy
      <3>2. g.written = LengthAt(g.arg) BY <1>4, <2>6 DEF FrameOK
      <3>3. more = Num(LengthAt(g.arg)) BY <3>1, <3>2, WholeOf
      <3>4. Part(g, 3, e) = Part(g, 2, e) \o more BY <2>3, <3>3, TestParts
      <3>5. \A r : Got(g, r) BY <1>4, <2>6 DEF Got
      <3> QED BY <2>6, <3>4, <3>5
    <2>7. CASE g.pc = 4
      <3>1. f.fn = "println" /\ f.arg = Literal(" bytes)") BY <1>4, <2>7 DEF CalledBy
      <3>2. more = LinePart(Content(Literal(" bytes)")), 2) BY <3>1, WholeOf
      <3>3. Part(g, 4, e) = Part(g, 3, e) \o more BY <2>3, <3>2, TestParts
      <3>4. \A r : Got(g, r) BY <1>4, <2>7 DEF Got
      <3> QED BY <2>7, <3>3, <3>4
    <2> QED BY <2>1, <2>4, <2>5, <2>6, <2>7
  <1>5. g.fn \notin Writers
    BY DEF Rank
  <1> QED BY <1>0, <1>1, <1>2, <1>3, <1>4, <1>5 DEF Functions, Writers
---------------------------------------------------------------------------
(* Calls and returns. *)
LEMMA WhileIs == WHILE = 8
  BY DEF WHILE, main

LEMMA RankType == ASSUME NEW fn PROVE Rank(fn) \in 0 .. 3
  BY DEF Rank

LEMMA StackFacts ==
  ASSUME StackOK
  PROVE  /\ Top = frames[1] /\ FrameOK(Top) /\ (Top.fn = "main" <=> Len(frames) = 1)
         /\ Len(frames) \in Nat /\ Len(frames) >= 1 /\ Len(frames) <= 4 /\ Tail(frames) \in Seq(FrameSet)
         /\ Len(Tail(frames)) = Len(frames) - 1
         /\ \A k \in 1 .. Len(frames) - 1 : Tail(frames)[k] = frames[k + 1]
         /\ Len(frames) > 1 => /\ Linked(Top, frames[2], job, errno) /\ FrameOK(frames[2])
                               /\ frames[2].fn = "main" <=> Len(frames) = 2
         /\ \A k \in 2 .. Len(frames) : Rank(Top.fn) < Rank(frames[k].fn)
         /\ Rank(Top.fn) > 0 => Len(frames) <= 3
  <1>1. frames \in Seq(FrameSet) /\ Len(frames) \in Nat /\ Len(frames) >= 1 /\ Len(frames) <= 4 BY DEF StackOK
  <1>2. Top = frames[1] BY <1>1 DEF Top
  <1>3. /\ Tail(frames) \in Seq(FrameSet) /\ Len(Tail(frames)) = Len(frames) - 1
        /\ \A k \in 1 .. Len(frames) - 1 : Tail(frames)[k] = frames[k + 1]
    BY <1>1
  <1>4. /\ FrameOK(frames[1]) /\ (frames[1].fn = "main" <=> Len(frames) = 1)
        /\ Len(frames) > 1 => /\ FrameOK(frames[2])
                              /\ frames[2].fn = "main" <=> Len(frames) = 2
    <2>1. \A k \in 1 .. Len(frames) :
            FrameOK(frames[k]) /\ (frames[k].fn = "main" <=> k = Len(frames))
      BY Zenon DEF StackOK
    <2>2. 1 \in 1 .. Len(frames) /\ (Len(frames) > 1 => 2 \in 1 .. Len(frames)) BY <1>1
    <2>3. FrameOK(frames[1]) /\ (frames[1].fn = "main" <=> 1 = Len(frames)) BY <2>1, <2>2, Zenon
    <2>4. Len(frames) > 1 => FrameOK(frames[2]) /\ (frames[2].fn = "main" <=> 2 = Len(frames))
      BY <2>1, <2>2, Zenon
    <2> QED BY <2>3, <2>4, Zenon
  <1>5. \A k \in 1 .. Len(frames) - 1 : Linked(frames[k], frames[k + 1], job, errno)
    BY DEF StackOK
  <1>6. Len(frames) > 1 => Linked(frames[1], frames[2], job, errno)
    BY <1>1, <1>5
  <1> DEFINE rk == [k \in 1 .. 4 |-> Rank(frames[k].fn)]
  <1>7. /\ \A k \in 1 .. 4 : rk[k] \in 0 .. 3 /\ rk[k] = Rank(frames[k].fn)
        /\ \A k \in 1 .. Len(frames) - 1 : rk[k] < rk[k + 1]
    <2>1. \A k \in 1 .. 4 : rk[k] \in 0 .. 3 BY RankType
    <2>2. ASSUME NEW k \in 1 .. Len(frames) - 1 PROVE rk[k] < rk[k + 1]
      <3>1. k \in 1 .. 4 /\ k + 1 \in 1 .. 4 BY <1>1
      <3> QED BY <1>5, <3>1 DEF Linked
    <2> QED BY <2>1, <2>2
  <1> HIDE DEF rk
  <1>8. /\ \A k \in 2 .. Len(frames) : rk[1] < rk[k]
        /\ rk[1] > 0 => Len(frames) <= 3
    BY <1>1, <1>7
  <1>9. /\ \A k \in 2 .. Len(frames) : Rank(frames[1].fn) < Rank(frames[k].fn)
        /\ Rank(frames[1].fn) > 0 => Len(frames) <= 3
    BY <1>1, <1>7, <1>8
  <1> QED BY <1>1, <1>2, <1>3, <1>4, <1>6, <1>9

(* Two elements put on top of a stack instead of one. *)
LEMMA ConcatAt ==
  ASSUME NEW S, NEW s \in Seq(S), NEW t \in Seq(S)
  PROVE  /\ s \o t \in Seq(S) /\ Len(s \o t) = Len(s) + Len(t)
         /\ \A k \in 1 .. Len(s) : (s \o t)[k] = s[k]
         /\ \A k \in 1 .. Len(t) : (s \o t)[Len(s) + k] = t[k]
  OBVIOUS

LEMMA OnTop ==
  ASSUME NEW S, NEW s \in Seq(S), s # <<>>, NEW a \in S, NEW b \in S, NEW t, t = <<a, b>> \o Tail(s)
  PROVE  /\ t \in Seq(S) /\ Len(t) = Len(s) + 1 /\ t[1] = a /\ t[2] = b /\ Head(t) = a
         /\ \A k \in 3 .. Len(s) + 1 : t[k] = s[k - 1]
  <1>1. /\ Tail(s) \in Seq(S) /\ Len(Tail(s)) = Len(s) - 1 /\ Len(s) \in Nat /\ Len(s) > 0
        /\ \A k \in 1 .. Len(s) - 1 : Tail(s)[k] = s[k + 1]
    OBVIOUS
  <1> DEFINE u == Tail(s)
             d == <<a, b>>
  <1>2. d \in Seq(S) /\ Len(d) = 2 /\ d[1] = a /\ d[2] = b OBVIOUS
  <1> HIDE DEF u, d
  <1>3. u \in Seq(S) /\ Len(u) = Len(s) - 1 /\ \A k \in 1 .. Len(s) - 1 : u[k] = s[k + 1]
    BY <1>1 DEF u
  <1>4. t = d \o u BY DEF d, u
  <1>5. /\ t \in Seq(S) /\ Len(t) = 2 + Len(u)
        /\ t[1] = d[1] /\ t[2] = d[2] /\ \A k \in 3 .. 2 + Len(u) : t[k] = u[k - 2]
    <2>1. Len(u) \in Nat BY <1>3
    <2>2. /\ t \in Seq(S) /\ Len(t) = Len(d) + Len(u)
          /\ \A k \in 1 .. Len(d) : t[k] = d[k]
          /\ \A k \in 1 .. Len(u) : t[Len(d) + k] = u[k]
      <3>1. /\ d \o u \in Seq(S) /\ Len(d \o u) = Len(d) + Len(u)
            /\ \A k \in 1 .. Len(d) : (d \o u)[k] = d[k]
            /\ \A k \in 1 .. Len(u) : (d \o u)[Len(d) + k] = u[k]
        <4>1. d \in Seq(S) /\ u \in Seq(S) BY <1>2, <1>3
        <4> QED BY <4>1
      <3> QED BY <1>4, <3>1, Zenon
    <2>3. t[1] = d[1] /\ t[2] = d[2] BY <1>2, <2>2
    <2>4. ASSUME NEW k \in 3 .. 2 + Len(u) PROVE t[k] = u[k - 2]
      <3>1. k - 2 \in 1 .. Len(u) /\ 2 + (k - 2) = k BY <2>1
      <3> QED BY <1>2, <2>2, <3>1
    <2> QED BY <1>2, <2>2, <2>3, <2>4
  <1>6. Head(t) = t[1] BY <1>1, <1>3, <1>5
  <1>7. ASSUME NEW k \in 3 .. Len(s) + 1 PROVE t[k] = s[k - 1]
    <2>1. k \in 3 .. 2 + Len(u) /\ k - 2 \in 1 .. Len(s) - 1 /\ k - 2 + 1 = k - 1 BY <1>1, <1>3
    <2> QED BY <1>3, <1>5, <2>1
  <1> QED BY <1>1, <1>2, <1>3, <1>5, <1>6, <1>7

LEMMA PushOK ==
  ASSUME StackOK, NEW new, NEW low, frames' = <<new, low>> \o Tail(frames),
         FrameOK(new), FrameOK(low), low.fn = Top.fn, low.arg = Top.arg, new.fn # "main",
         errno' = errno, Len(frames) > 1 => job' = job, Linked(new, low, job', errno)
  PROVE  /\ StackOK' /\ Len(frames') = Len(frames) + 1 /\ Len(frames) <= 3
         /\ Top' = new /\ frames'[1] = new /\ frames'[2] = low
         /\ \A k \in 3 .. Len(frames') : frames'[k] = frames[k - 1]
  <1>1. /\ frames \in Seq(FrameSet) /\ Len(frames) \in Nat /\ Len(frames) >= 1 /\ Len(frames) <= 4 /\ frames # <<>>
        /\ new \in FrameSet /\ low \in FrameSet
    BY DEF StackOK, FrameOK
  <1>2. /\ frames' \in Seq(FrameSet) /\ Len(frames') = Len(frames) + 1 /\ Head(frames') = new
        /\ frames'[1] = new /\ frames'[2] = low
        /\ \A k \in 3 .. Len(frames) + 1 : frames'[k] = frames[k - 1]
    BY <1>1, OnTop
  <1>3. Top' = new BY <1>2 DEF Top
  <1>4. Len(frames) <= 3
    <2>1. Rank(Top.fn) > 0 BY RankType DEF Linked
    <2> QED BY <2>1, StackFacts
  <1>5. Top = frames[1] /\ (Top.fn = "main" <=> Len(frames) = 1) BY StackFacts
  <1>6. ASSUME NEW k \in 1 .. Len(frames')
        PROVE  FrameOK(frames'[k]) /\ (frames'[k].fn = "main" <=> k = Len(frames'))
    <2>1. CASE k = 1
      <3>1. frames'[k] = new /\ k # Len(frames') BY <1>1, <1>2, <2>1
      <3> QED BY <3>1, Zenon
    <2>2. CASE k = 2
      <3>1. frames'[k] = low BY <1>2, <2>2
      <3>2. k = Len(frames') <=> Len(frames) = 1
        <4>1. Len(frames) \in Nat /\ Len(frames') = Len(frames) + 1 BY <1>1, <1>2
        <4>2. Len(frames) = 1 => Len(frames') = 2 BY <4>1
        <4>3. Len(frames') = 2 => Len(frames) = 1
          <5>1. \A n \in Nat : \A m : m = n + 1 /\ m = 2 => n = 1 OBVIOUS
          <5> QED BY <4>1, <5>1, Zenon
        <4> QED BY <2>2, <4>2, <4>3, Zenon
      <3> QED BY <1>5, <3>1, <3>2, Zenon
    <2>3. CASE k > 2
      <3>1. k - 1 \in 1 .. Len(frames) /\ frames'[k] = frames[k - 1] BY <1>1, <1>2, <2>3
      <3>2. FrameOK(frames[k - 1]) /\ (frames[k - 1].fn = "main" <=> k - 1 = Len(frames))
        BY <3>1, Zenon DEF StackOK
      <3>3. k - 1 = Len(frames) <=> k = Len(frames') BY <1>1, <1>2, <3>1
      <3> QED BY <3>1, <3>2, <3>3, Zenon
    <2> QED BY <1>1, <1>2, <2>1, <2>2, <2>3
  <1>7. ASSUME NEW k \in 1 .. Len(frames') - 1
        PROVE  Linked(frames'[k], frames'[k + 1], job', errno')
    <2>1. CASE k = 1 BY <1>2, <2>1
    <2>2. CASE k = 2
      <3>1. Len(frames) > 1 /\ frames'[3] = frames[2] BY <1>1, <1>2, <2>2
      <3>2. Linked(Top, frames[2], job, errno) BY <3>1, StackFacts
      <3>3. Linked(low, frames[2], job, errno) BY <3>2 DEF Linked, CalledBy
      <3> QED BY <1>2, <2>2, <3>1, <3>3
    <2>3. CASE k > 2
      <3>1. /\ k - 1 \in 1 .. Len(frames) - 1 /\ Len(frames) > 1
            /\ frames'[k] = frames[k - 1] /\ frames'[k + 1] = frames[(k - 1) + 1]
        BY <1>1, <1>2, <2>3
      <3>2. Linked(frames[k - 1], frames[(k - 1) + 1], job, errno) BY <3>1 DEF StackOK
      <3> QED BY <3>1, <3>2
    <2> QED BY <1>1, <1>2, <2>1, <2>2, <2>3
  <1>8. StackOK'
    <2>1. frames' \in Seq(FrameSet) /\ Len(frames') >= 1 /\ Len(frames') <= 4
      BY <1>1, <1>2, <1>4
    <2> QED BY <1>6, <1>7, <2>1, Zenon DEF StackOK
  <1> QED BY <1>2, <1>3, <1>4, <1>8

LEMMA PopOK ==
  ASSUME StackOK, Len(frames) > 1, frames' = Tail(frames), UNCHANGED <<job, errno>>
  PROVE  /\ StackOK' /\ Len(frames') = Len(frames) - 1 /\ Top' = frames[2]
         /\ \A k \in 1 .. Len(frames') : frames'[k] = frames[k + 1]
  <1>1. /\ frames \in Seq(FrameSet) /\ Len(frames) \in Nat /\ Len(frames) >= 1 /\ Len(frames) <= 4
        /\ frames' \in Seq(FrameSet) /\ Len(frames') = Len(frames) - 1
        /\ \A k \in 1 .. Len(frames) - 1 : frames'[k] = frames[k + 1]
    BY StackFacts DEF StackOK
  <1>2. Top' = frames[2] BY <1>1 DEF Top
  <1>3. ASSUME NEW k \in 1 .. Len(frames')
        PROVE  FrameOK(frames'[k]) /\ (frames'[k].fn = "main" <=> k = Len(frames'))
    <2>1. k + 1 \in 1 .. Len(frames) /\ frames'[k] = frames[k + 1] BY <1>1
    <2>2. FrameOK(frames[k + 1]) /\ (frames[k + 1].fn = "main" <=> k + 1 = Len(frames))
      BY <2>1, Zenon DEF StackOK
    <2>3. k + 1 = Len(frames) <=> k = Len(frames') BY <1>1
    <2> QED BY <2>1, <2>2, <2>3, Zenon
  <1>4. ASSUME NEW k \in 1 .. Len(frames') - 1
        PROVE  Linked(frames'[k], frames'[k + 1], job', errno')
    <2>1. /\ k + 1 \in 1 .. Len(frames) - 1 /\ frames'[k] = frames[k + 1]
          /\ frames'[k + 1] = frames[(k + 1) + 1]
      BY <1>1
    <2>2. Linked(frames[k + 1], frames[(k + 1) + 1], job, errno) BY <2>1 DEF StackOK
    <2> QED BY <2>1, <2>2
  <1>5. StackOK'
    <2>1. Len(frames') >= 1 /\ Len(frames') <= 4 BY <1>1
    <2> QED BY <1>1, <1>3, <1>4, <2>1 DEF StackOK
  <1> QED BY <1>1, <1>2, <1>5
---------------------------------------------------------------------------
(* What the program sees of the kernel: module Syscalls. *)
SeenByProgram == <<CallPhase, CallResult, req, printed, sysret, errno>>

LEMMA SeenUnchanged ==
  ASSUME UNCHANGED Abstract!vars PROVE UNCHANGED SeenByProgram
  BY DEF Abstract!vars, SeenByProgram

LEMMA TickSeen == ASSUME Abstract!Tick PROVE UNCHANGED SeenByProgram
  BY DEF Abstract!Tick, SeenByProgram

(* In the kernel a call shows a byte, is answered, or faults. *)
LEMMA InsideSeen ==
  ASSUME SyscallInv, KernelInv', at \in CallCode \ {"sysenter_fin"},
         [Abstract!Next]_Abstract!vars
  PROVE  /\ CallPhase = "kernel"
         /\ UNCHANGED SeenByProgram \/ Abstract!Show \/ Abstract!Serve \/ Abstract!Halt
  <1>1. at \in PlainCode /\ at \notin FaultCode
    BY DEF PlainCode, CallCode, FaultCode
  <1>2. CallPhase = "kernel"
    <2>1. CallPhase = PhaseOf(Here) /\ Here = at BY <1>1, Seen, PlainHere DEF SyscallInv
    <2> QED BY <2>1 DEF PhaseOf, CallCode
  <1>3. ~Abstract!Invoke /\ ~Abstract!Deliver /\ ~Abstract!Resume
    BY <1>2 DEF Abstract!Invoke, Abstract!Deliver, Abstract!Resume
  <1> QED BY <1>2, <1>3, SeenUnchanged, TickSeen DEF Abstract!Next

LEMMA KernelSeen ==
  ASSUME SyscallInv, KernelStep
  PROVE  /\ SyscallInv' /\ [Abstract!Next]_Abstract!vars
         /\ \/ UNCHANGED SeenByProgram
            \/ CallPhase = "kernel" /\ (Abstract!Show \/ Abstract!Serve \/ Abstract!Halt)
  <1>1. KernelInv' BY KernelStepInv DEF SyscallInv
  <1>2. CallServed' /\ [Abstract!Next]_Abstract!vars BY <1>1, SyscallKernelStep
  <1>3. CASE \/ clock_handler \/ keyboard_routine \/ keyboard_printc_xy \/ keyboard_eoi
             \/ print_page_fault
    BY <1>1, <1>2, <1>3, HandlerStep, SeenUnchanged DEF SyscallInv
  <1>4. CASE clock_iret \/ keyboard_iret
    BY <1>1, <1>2, <1>4, iretStep, SeenUnchanged DEF SyscallInv
  <1>5. CASE clock_routine
    BY <1>1, <1>2, <1>5, clock_routineStep, TickSeen DEF SyscallInv
  <1>6. CASE sysenter_fin
    BY <1>1, <1>2, <1>6, sysenter_finStep, SeenUnchanged DEF SyscallInv
  <1>7. CASE \/ syscall_handler \/ sys_ni_syscall \/ sys_gettime \/ sys_write
             \/ copy_from_user \/ sys_write_console
    <2>1. at \in CallCode \ {"sysenter_fin"}
      BY <1>7 DEF syscall_handler, sys_ni_syscall, sys_gettime, sys_write, copy_from_user,
                  sys_write_console, CallCode
    <2> QED BY <1>1, <1>2, <2>1, InsideSeen DEF SyscallInv
  <1> QED BY <1>3, <1>4, <1>5, <1>6, <1>7 DEF KernelStep

LEMMA DevicesSeen ==
  ASSUME SyscallInv, Devices
  PROVE  SyscallInv' /\ UNCHANGED Abstract!vars /\ UNCHANGED SeenByProgram
  <1>1. CASE TimerPulse
    <2>1. KernelInv' BY <1>1, TimerPulseInv DEF SyscallInv
    <2>2. UNCHANGED <<cpu, syscall, history, zeos_ticks>> BY <1>1 DEF TimerPulse
    <2> QED BY <2>1, <2>2, DeviceStep, SeenUnchanged DEF SyscallInv
  <1>2. CASE \E event \in Scancodes : KeyEvent(event)
    <2>1. KernelInv' BY <1>2, KeyEventInv DEF SyscallInv
    <2>2. UNCHANGED <<cpu, syscall, history, zeos_ticks>> BY <1>2 DEF KeyEvent
    <2> QED BY <2>1, <2>2, DeviceStep, SeenUnchanged DEF SyscallInv
  <1>3. CASE \E irq \in {CLOCK, KEYBOARD} : Deliver(irq)
    <2>1. KernelInv' BY <1>3, DeliverInv DEF SyscallInv
    <2> QED BY <1>3, <2>1, DeliverStep, SeenUnchanged DEF SyscallInv
  <1> QED BY <1>1, <1>2, <1>3 DEF Devices

LEMMA VarsSeen ==
  ASSUME SyscallInv, UNCHANGED vars
  PROVE  SyscallInv' /\ UNCHANGED Abstract!vars /\ UNCHANGED SeenByProgram
  <1>1. KernelInv' BY StutterInv DEF SyscallInv
  <1>2. UNCHANGED <<cpu, syscall, history, zeos_ticks>> BY DEF vars
  <1> QED BY <1>1, <1>2, DeviceStep, SeenUnchanged DEF SyscallInv

LEMMA CallSeen ==
  ASSUME SyscallInv, NEW nr \in Int, NEW fd \in Int, NEW buffer \in Int, NEW size \in Int,
         SYSCALL(nr, fd, buffer, size)
  PROVE  /\ SyscallInv' /\ Abstract!Invoke
         /\ req' = [nr |-> nr, fd |-> fd, buffer |-> buffer, size |-> size]
  <1>1. KernelInv' BY SYSCALLInv DEF SyscallInv
  <1>2. CallServed' /\ Abstract!Invoke BY <1>1, SYSCALLStep
  <1> QED BY <1>1, <1>2 DEF SyscallInv, SYSCALL

LEMMA CheckSeen ==
  ASSUME SyscallInv, CHECK_ERROR PROVE SyscallInv' /\ Abstract!Deliver
  BY CHECK_ERRORInv, CHECK_ERRORStep DEF SyscallInv

LEMMA ResumesSeen ==
  ASSUME SyscallInv, UserResumes
  PROVE  SyscallInv' /\ Abstract!Resume /\ CallResult = eax
  <1>1. KernelInv' BY UserResumesInv DEF SyscallInv
  <1>2. CallServed' /\ Abstract!Resume BY <1>1, UserResumesStep
  <1>3. at = "returned" BY DEF UserResumes, UserRuns
  <1>4. Here = "returned" BY <1>3, PlainHere DEF PlainCode, UserCode
  <1> QED BY <1>1, <1>2, <1>4, Seen DEF SyscallInv

LEMMA FaultSeen ==
  ASSUME SyscallInv, UserFault PROVE SyscallInv' /\ Abstract!Halt /\ CallPhase' = "halted"
  <1>1. KernelInv' BY UserFaultInv DEF SyscallInv
  <1>2. CallServed' /\ Abstract!Halt BY <1>1, UserFaultStep
  <1> QED BY <1>1, <1>2 DEF SyscallInv, Abstract!Halt

(* The program runs between its calls. *)
LEMMA UserPhase ==
  ASSUME SyscallInv, NEW label \in UserCode, UserRuns(label)
  PROVE  at = label /\ CallPhase = PhaseOf(label)
  <1>1. at = label /\ at \in PlainCode /\ at \notin FaultCode
    BY DEF UserRuns, UserCode, PlainCode, FaultCode
  <1> QED BY <1>1, Seen, PlainHere DEF SyscallInv
---------------------------------------------------------------------------
(* Steps that leave the program alone. *)
Observed == <<frames, ret, c_param, itoa_buff, answered, job, out>>

LEMMA SilentStep ==
  ASSUME ProgramInv, UNCHANGED SeenByProgram, UNCHANGED Observed
  PROVE  ProgramInv'
  <1>1. /\ UNCHANGED <<CallPhase, CallResult, req, printed, sysret, errno>>
        /\ UNCHANGED <<frames, ret, c_param, itoa_buff, answered, job, out>>
    BY DEF SeenByProgram, Observed
  <1>2. StackOK' BY <1>1 DEF ProgramInv, StackOK
  <1>3. BuffOK' BY <1>1 DEF ProgramInv, BuffOK
  <1>4. JobOK' BY <1>1 DEF ProgramInv, JobOK
  <1>5. PhaseOK'
    <2>1. Top' = Top /\ Context' = Context BY <1>1 DEF Top, Context, Earlier
    <2>2. InLibrary' <=> InLibrary BY <1>1, <2>1 DEF InLibrary
    <2>3. InMain' <=> InMain BY <1>1, <2>1 DEF InMain
    <2>4. LibraryCalls' <=> LibraryCalls BY <1>1, <2>1 DEF LibraryCalls
    <2>5. MainCalls' <=> MainCalls BY <1>1, <2>1 DEF MainCalls
    <2> QED BY <1>1, <2>2, <2>3, <2>4, <2>5 DEF ProgramInv, PhaseOK
  <1> QED BY <1>1, <1>2, <1>3, <1>4, <1>5 DEF ProgramInv

(* A fault ends the program. *)
LEMMA HaltStep ==
  ASSUME ProgramInv, CallPhase' = "halted",
         UNCHANGED <<errno, frames, ret, itoa_buff, job>>
  PROVE  ProgramInv'
  <1>2. StackOK' BY DEF ProgramInv, StackOK
  <1>3. BuffOK' BY DEF ProgramInv, BuffOK
  <1>4. JobOK' BY DEF ProgramInv, JobOK
  <1>5. PhaseOK' BY DEF PhaseOK
  <1> QED BY <1>2, <1>3, <1>4, <1>5 DEF ProgramInv
---------------------------------------------------------------------------
(* The text of the running print or printchar. *)
LEMMA PrintsBuffer ==
  ASSUME StackOK, BuffOK, JobOK, Len(frames) > 1, Top.fn = "print", Top.arg = ITOA_AT
  PROVE  \E n \in Int : n <= INT_MAX /\ itoa_buff = itoa(n)
  <1> DEFINE g == frames[2]
  <1>1. /\ Linked(Top, g, job, errno) /\ FrameOK(g) /\ Len(frames) \in Nat
    BY StackFacts
  <1>2. ITOA_AT \notin LiteralAt BY LiteralPlace
  <1>3. g.fn # "main"
    <2> SUFFICES ASSUME g.fn = "main" PROVE FALSE OBVIOUS
    <2>1. job.fn = "print" /\ job.arg = ITOA_AT BY <1>1 DEF Linked
    <2> QED BY <1>2, <2>1 DEF JobOK
  <1>4. g.pc >= 1 /\ CalledBy(Top, g, errno) /\ Rank(g.fn) > 0
    BY <1>1, <1>3, RankType DEF Linked, Rank, Writers
  <1>5. g.fn \in Functions /\ g.pc \in Nat /\ g.pc <= Calls(g.fn) /\ ArgOK(g.fn, g.arg) /\ g.arg \in Int
    BY <1>1 DEF FrameOK, FrameSet
  <1>6. Literal(" (") \in LiteralAt BY LiteralOf DEF Strings
  <1>7. g.fn = "printint"
    <2>1. CASE g.fn = "println"
      <3>1. g.pc = 1 \/ g.pc = 2 BY <1>4, <1>5, <2>1 DEF Calls
      <3>2. g.arg \in LiteralAt BY <1>5, <2>1 DEF ArgOK
      <3> QED BY <1>2, <1>4, <2>1, <3>1, <3>2 DEF CalledBy
    <2>2. CASE g.fn = "printintln"
      <3>1. g.pc = 1 \/ g.pc = 2 BY <1>4, <1>5, <2>2 DEF Calls
      <3> QED BY <1>4, <2>2, <3>1 DEF CalledBy
    <2>3. CASE g.fn = "perror" BY <1>4, <2>3 DEF CalledBy
    <2>4. CASE g.fn = "printlntest"
      <3>1. g.pc = 1 \/ g.pc = 2 \/ g.pc = 3 \/ g.pc = 4 BY <1>4, <1>5, <2>4 DEF Calls
      <3>2. g.arg \in LiteralAt BY <1>5, <2>4 DEF ArgOK
      <3> QED BY <1>2, <1>4, <1>6, <2>4, <3>1, <3>2 DEF CalledBy
    <2>5. CASE g.fn \in Writers BY <1>4, <2>5 DEF Rank
    <2> QED BY <1>3, <1>5, <2>1, <2>2, <2>3, <2>4, <2>5 DEF Functions, Writers
  <1>8. g.pc = 1 BY <1>4, <1>5, <1>7 DEF Calls
  <1>9. 2 \in 1 .. Len(frames) BY <1>1
  <1>10. itoa_buff = itoa(g.arg) BY <1>7, <1>8, <1>9 DEF BuffOK
  <1> QED BY <1>5, <1>7, <1>10 DEF ArgOK

(* write's arguments are the place and the length of that text, and the    *)
(* bytes there are its bytes.                                              *)
LEMMA SaidOK ==
  ASSUME StackOK, BuffOK, JobOK, Len(frames) > 1, Top.fn \in Writers
  PROVE  LET text == Said(Top, itoa_buff)
             buffer == BufferOf(Top)
         IN /\ text \in Seq(Nat) /\ Len(text) \in Nat /\ buffer \in Nat
            /\ Whole(Top, errno, itoa_buff) = text
            /\ Top.fn = "print" => string_length(Top.arg) = Len(text)
            /\ Top.fn = "printchar" => Len(text) = 1
            /\ UserMapped(buffer) /\ \A k \in 1 .. Len(text) : UserMapped(buffer + k - 1)
            /\ (Top.fn = "printchar" => c_param = Top.arg) =>
                 \A k \in 1 .. Len(text) : Byte(buffer + k - 1) = text[k]
  <1> DEFINE text == Said(Top, itoa_buff)
             buffer == BufferOf(Top)
  <1>0. Whole(Top, errno, itoa_buff) = text BY DEF Whole
  <1>1. FrameOK(Top) BY StackFacts
  <1>2. CASE Top.fn = "printchar"
    <2>1. Top.arg = NEWLINE BY <1>1, <1>2 DEF FrameOK, ArgOK
    <2>2. text = <<NEWLINE>> /\ buffer = CHAR_AT BY <1>2, <2>1 DEF Said, BufferOf
    <2>3. text \in Seq(Nat) /\ Len(text) = 1 /\ text[1] = NEWLINE BY <2>2 DEF NEWLINE
    <2>4. buffer \in Nat /\ UserMapped(buffer) BY <2>2, UserAssumption
    <2>5. Byte(CHAR_AT) = c_param
      <3>1. ~InItoaBuff(CHAR_AT) BY UserAssumption
      <3> QED BY <3>1, Zenon DEF Byte
    <2> HIDE DEF text, buffer
    <2>6. \A k \in 1 .. Len(text) : k = 1 /\ buffer + k - 1 = buffer BY <2>3, <2>4
    <2> QED BY <1>0, <1>2, <2>1, <2>2, <2>3, <2>4, <2>5, <2>6 DEF text, buffer
  <1>3. CASE Top.fn = "print" /\ Top.arg = ITOA_AT
    <2>1. PICK n \in Int : n <= INT_MAX /\ itoa_buff = itoa(n) BY <1>3, PrintsBuffer
    <2>2. text = Num(n) /\ buffer = ITOA_AT BY <1>3, <2>1 DEF Said, BufferOf, Num
    <2>3. /\ itoa(n) \in Seq(Nat) /\ Len(itoa(n)) <= ITOA_BUFF /\ Len(itoa(n)) >= 1
          /\ strlen(itoa(n)) = Len(itoa(n)) - 1
          /\ Num(n) \in Seq(Nat) /\ Len(Num(n)) = Len(itoa(n)) - 1
      BY <2>1, ItoaFits
    <2>4. string_length(Top.arg) = strlen(itoa_buff) BY <1>3 DEF string_length
    <2>5. Len(text) \in Nat /\ Len(text) <= 10 /\ text \in Seq(Nat) /\ Len(text) = string_length(Top.arg)
      BY <2>1, <2>2, <2>3, <2>4 DEF ITOA_BUFF
    <2>6. ITOA_AT \in Nat /\ \A a \in ITOA_AT .. ITOA_AT + ITOA_BUFF - 1 : UserMapped(a)
      BY UserAssumption
    <2>7. UserMapped(ITOA_AT) BY <2>6 DEF ITOA_BUFF
    <2>8. ASSUME NEW k \in 1 .. Len(text)
          PROVE  UserMapped(ITOA_AT + k - 1) /\ Byte(ITOA_AT + k - 1) = text[k]
      <3>1. k \in Nat /\ k >= 1 /\ k <= Len(text) /\ k <= 10 BY <2>5
      <3>2. /\ ITOA_AT + k - 1 \in ITOA_AT .. ITOA_AT + ITOA_BUFF - 1
            /\ (ITOA_AT + k - 1) - ITOA_AT + 1 = k
        BY <2>6, <3>1 DEF ITOA_BUFF
      <3>3. InItoaBuff(ITOA_AT + k - 1) BY <3>2 DEF InItoaBuff
      <3>4. ITOA_AT + k - 1 # CHAR_AT BY <3>3, UserAssumption
      <3>5. Byte(ITOA_AT + k - 1) = itoa_buff[k] BY <3>2, <3>3, <3>4 DEF Byte
      <3>6. text[k] = itoa_buff[k]
        <4>1. text = SubSeq(itoa_buff, 1, Len(itoa_buff) - 1) BY <1>3, Zenon DEF Said, TextOf
        <4>2. Len(itoa_buff) - 1 = Len(text) BY <2>1, <2>2, <2>3
        <4> QED BY <2>1, <2>3, <3>1, <4>1, <4>2
      <3> QED BY <2>6, <3>2, <3>5, <3>6
    <2> QED BY <1>0, <1>3, <2>2, <2>5, <2>6, <2>7, <2>8
  <1>4. CASE Top.fn = "print" /\ Top.arg # ITOA_AT
    <2> DEFINE a == Top.arg
    <2>1. a \in LiteralAt BY <1>1, <1>4 DEF FrameOK, ArgOK
    <2>2. text = Content(a) /\ buffer = a BY <1>4 DEF Said, BufferOf
    <2>3. /\ a \in Nat /\ LengthAt(a) \in Nat /\ string_length(a) = LengthAt(a)
          /\ \A x \in a .. a + LengthAt(a) : UserMapped(x) /\ x # CHAR_AT /\ ~InItoaBuff(x)
      BY <2>1, LiteralPlace
    <2>4. /\ Content(a) \in Seq(Nat) /\ Len(Content(a)) = LengthAt(a)
          /\ \A k \in 1 .. LengthAt(a) : Content(a)[k] = a + k - 1
      BY <2>1, ContentOf
    <2> HIDE DEF a, text, buffer
    <2>5. UserMapped(a) BY <2>3
    <2>6. ASSUME NEW k \in 1 .. LengthAt(a)
          PROVE  UserMapped(a + k - 1) /\ Byte(a + k - 1) = Content(a)[k]
      <3>1. a + k - 1 \in a .. a + LengthAt(a) BY <2>3
      <3>2. Byte(a + k - 1) = a + k - 1 BY <2>3, <3>1 DEF Byte
      <3> QED BY <2>3, <2>4, <3>1, <3>2
    <2>7. /\ text \in Seq(Nat) /\ Len(text) \in Nat /\ buffer \in Nat /\ UserMapped(buffer)
          /\ string_length(a) = Len(text)
          /\ \A k \in 1 .. Len(text) : UserMapped(buffer + k - 1) /\ Byte(buffer + k - 1) = text[k]
      BY <2>2, <2>3, <2>4, <2>5, <2>6
    <2> QED BY <1>0, <1>4, <2>7 DEF a, text, buffer
  <1> QED BY <1>2, <1>3, <1>4 DEF Writers

(* The kernel answers such a write with its length. *)
LEMMA WriteAccepted ==
  ASSUME StackOK, BuffOK, JobOK, Len(frames) > 1, LibraryCalls
  PROVE  Abstract!Answers = {Len(Said(Top, itoa_buff))}
  <1> DEFINE text == Said(Top, itoa_buff)
             n == Len(text)
             b == BufferOf(Top)
  <1>1. /\ n \in Nat /\ b \in Nat /\ UserMapped(b)
        /\ \A k \in 1 .. n : UserMapped(b + k - 1)
    BY SaidOK DEF LibraryCalls
  <1>2. req = [nr |-> NR_WRITE, fd |-> 1, buffer |-> b, size |-> n] BY DEF LibraryCalls
  <1> HIDE DEF n, b
  <1>3. FirstByte <= b /\ b <= LastByte /\ FirstByte > 0 /\ FirstByte \in Nat /\ LastByte \in Int
    BY <1>1, MappedBytes, Space
  <1>4. b + n - 1 <= LastByte
    <2>1. CASE n = 0 BY <1>1, <1>3, <2>1
    <2>2. CASE n > 0
      <3>1. n \in 1 .. n /\ b + n - 1 \in Int BY <1>1, <2>2
      <3> QED BY <1>1, <3>1, MappedBytes
    <2> QED BY <1>1, <2>1, <2>2
  <1>5. req.nr = NR_WRITE /\ req.fd = 1 /\ req.buffer = b /\ req.size = n BY <1>2
  <1>6. Abstract!Owned BY <1>3, <1>4, <1>5, OwnedBytes
  <1>7. Abstract!Acceptable BY <1>1, <1>3, <1>5 DEF Abstract!Acceptable
  <1>8. NR_WRITE # NR_GETTIME BY KernelAssumption
  <1>9. Abstract!Answers = {n} BY <1>5, <1>6, <1>7, <1>8 DEF Abstract!Answers
  <1> QED BY <1>9 DEF n
---------------------------------------------------------------------------
(* A call of the program in the kernel. *)
LEMMA OneMore ==
  ASSUME NEW p \in Seq(Nat), NEW q \in Seq(Nat), Len(q) = Len(p) + 1,
         \A k \in 1 .. Len(p) : q[k] = p[k]
  PROVE  q = Append(p, q[Len(p) + 1])
  <1>1. q[Len(p) + 1] \in Nat BY ElementOfSeq
  <1> DEFINE x == q[Len(p) + 1]
             u == Append(p, x)
  <1> HIDE DEF x
  <1>2. /\ u \in Seq(Nat) /\ Len(u) = Len(p) + 1 /\ u[Len(p) + 1] = x
        /\ \A k \in 1 .. Len(p) : u[k] = p[k]
    BY <1>1, AppendProperties DEF x
  <1> HIDE DEF u
  <1>3. ASSUME NEW k \in 1 .. Len(u) PROVE u[k] = q[k]
    <2>1. k \in 1 .. Len(p) \/ k = Len(p) + 1 BY <1>2
    <2>2. CASE k \in 1 .. Len(p) BY <1>2, <2>2, Zenon
    <2>3. CASE k = Len(p) + 1 BY <1>2, <2>3, Zenon DEF x
    <2> QED BY <2>1, <2>2, <2>3
  <1>4. u = q BY <1>2, <1>3, SeqEqual
  <1> QED BY <1>4 DEF u, x

LEMMA NextByte ==
  ASSUME NEW text \in Seq(Nat), NEW n \in Nat, n < Len(text), NEW ctx \in Seq(Nat)
  PROVE  Append(ctx \o SubSeq(text, 1, n), text[n + 1]) = ctx \o SubSeq(text, 1, n + 1)
  <1> DEFINE p == SubSeq(text, 1, n)
             q == SubSeq(text, 1, n + 1)
             x == text[n + 1]
  <1>1. /\ p \in Seq(Nat) /\ q \in Seq(Nat) /\ Len(p) = n /\ Len(q) = n + 1
        /\ \A k \in 1 .. n : p[k] = text[k] /\ q[k] = text[k]
        /\ q[n + 1] = x /\ x \in Nat
    OBVIOUS
  <1> HIDE DEF p, q, x
  <1>2. q = Append(p, x)
    <2>1. Len(q) = Len(p) + 1 /\ \A k \in 1 .. Len(p) : q[k] = p[k] BY <1>1
    <2>2. q = Append(p, q[Len(p) + 1]) BY <1>1, <2>1, OneMore
    <2> QED BY <1>1, <2>2, Zenon
  <1>3. \A s \in Seq(Nat) : \A y \in Nat : Append(s, y) = s \o <<y>> OBVIOUS
  <1>4. <<x>> \in Seq(Nat) BY <1>1
  <1>5. ctx \o p \in Seq(Nat) BY <1>1, Joined
  <1>6. Append(ctx \o p, x) = (ctx \o p) \o <<x>> BY <1>1, <1>3, <1>5, Zenon
  <1>7. (ctx \o p) \o <<x>> = ctx \o (p \o <<x>>) BY <1>1, <1>4, Assoc
  <1>8. p \o <<x>> = q BY <1>1, <1>2, <1>3, Zenon
  <1> QED BY <1>6, <1>7, <1>8, Zenon DEF p, q, x

LEMMA ContextType ==
  ASSUME StackOK
  PROVE  /\ Earlier(3) \in Seq(Nat) /\ Earlier(2) \in Seq(Nat) /\ Context \in Seq(Nat)
  <1>1. \A k \in 1 .. Len(frames) : FrameOK(frames[k]) BY DEF StackOK
  <1>2. Len(frames) \in Nat BY StackFacts
  <1>3. ASSUME NEW k \in {2, 3} PROVE Earlier(k) \in Seq(Nat)
    <2>1. CASE k < Len(frames)
      <3>1. k \in 1 .. Len(frames) BY <1>2, <2>1
      <3> QED BY <1>1, <2>1, <3>1, PartType DEF Earlier
    <2>2. CASE ~(k < Len(frames)) BY <2>2, NoText DEF Earlier
    <2> QED BY <2>1, <2>2
  <1> QED BY <1>3, Joined DEF Context

LEMMA CallKept ==
  ASSUME ProgramInv, UNCHANGED <<frames, ret, itoa_buff, job, errno>>
  PROVE  /\ StackOK /\ BuffOK /\ JobOK /\ StackOK' /\ BuffOK' /\ JobOK' /\ ret' \in Int
         /\ Top' = Top /\ Context' = Context /\ Len(frames) \in Nat
         /\ PhaseOK' => ProgramInv'
  <1>1. StackOK' BY DEF ProgramInv, StackOK
  <1>2. BuffOK' BY DEF ProgramInv, BuffOK
  <1>3. JobOK' BY DEF ProgramInv, JobOK
  <1>4. Top' = Top /\ Context' = Context BY DEF Top, Context, Earlier
  <1> QED BY <1>1, <1>2, <1>3, <1>4, StackFacts DEF ProgramInv

LEMMA ShowStep ==
  ASSUME SyscallInv, ProgramInv, Abstract!Show, UNCHANGED <<frames, ret, c_param, itoa_buff, answered, job>>,
         out' = IF Len(printed') > Len(printed)
                  THEN Append(out, Byte(printed'[Len(printed')])) ELSE out
  PROVE  ProgramInv'
  <1> DEFINE n == Len(printed)
  <1>1. /\ CallPhase = "kernel" /\ CallPhase' = "kernel" /\ n < req.size
        /\ printed' = Append(printed, req.buffer + n)
        /\ UNCHANGED <<req, sysret, errno, CallResult>>
    BY DEF Abstract!Show, Abstract!Byte
  <1>2. printed \in Seq(Int) /\ n \in Nat BY DEF SyscallInv, KernelInv, TypeOK
  <1>3. Len(printed') = n + 1 /\ printed'[n + 1] = req.buffer + n BY <1>1, <1>2
  <1> HIDE DEF n
  <1>4. out' = Append(out, Byte(req.buffer + n))
    <2>1. Len(printed') > Len(printed) /\ printed'[Len(printed')] = req.buffer + n
      BY <1>2, <1>3 DEF n
    <2> QED BY <2>1
  <1>5. /\ StackOK /\ BuffOK /\ JobOK /\ StackOK' /\ BuffOK' /\ JobOK' /\ ret' \in Int
        /\ Top' = Top /\ Context' = Context /\ Len(frames) \in Nat /\ (PhaseOK' => ProgramInv')
    BY <1>1, CallKept
  <1>6. CASE Len(frames) > 1
    <2>1. LibraryCalls BY <1>1, <1>6 DEF ProgramInv, PhaseOK
    <2> DEFINE text == Said(Top, itoa_buff)
               b == BufferOf(Top)
    <2>2. /\ Top.fn \in Writers /\ (Top.fn = "printchar" => c_param = Top.arg)
          /\ req = [nr |-> NR_WRITE, fd |-> 1, buffer |-> b, size |-> Len(text)]
          /\ out = Context \o SubSeq(text, 1, n)
      BY <2>1 DEF LibraryCalls, n
    <2>3. /\ text \in Seq(Nat) /\ b \in Nat /\ Len(text) \in Nat
          /\ \A k \in 1 .. Len(text) : Byte(b + k - 1) = text[k]
      BY <1>5, <1>6, <2>2, SaidOK
    <2>4. text' = text /\ b' = b BY <1>5
    <2> HIDE DEF text, b
    <2>5. req.buffer = b /\ req.size = Len(text) BY <2>2
    <2>6. n + 1 \in 1 .. Len(text) /\ b + (n + 1) - 1 = b + n /\ n < Len(text)
      BY <1>1, <1>2, <2>3, <2>5
    <2>7. Byte(b + n) = text[n + 1] BY <2>3, <2>6
    <2>8. out' = Context \o SubSeq(text, 1, n + 1)
      BY <1>2, <1>4, <1>5, <2>2, <2>3, <2>5, <2>6, <2>7, ContextType, NextByte
    <2>9. LibraryCalls'
      <3>1. n + 1 <= Len(text) BY <1>2, <2>3, <2>6
      <3> QED BY <1>1, <1>3, <1>5, <2>2, <2>4, <2>8, <3>1 DEF LibraryCalls, text, b
    <2>10. PhaseOK' BY <1>1, <1>6, <2>9 DEF PhaseOK
    <2> QED BY <1>5, <2>10
  <1>7. CASE ~(Len(frames) > 1)
    <2>1. MainCalls BY <1>1, <1>7 DEF ProgramInv, PhaseOK
    <2>2. MainCalls' BY <1>1, <1>5, <2>1 DEF MainCalls
    <2>3. PhaseOK' BY <1>1, <1>7, <2>2 DEF PhaseOK
    <2> QED BY <1>5, <2>3
  <1> QED BY <1>6, <1>7

(* gettime's answer is an int. *)
LEMMA CountFits ==
  ASSUME SyscallInv PROVE Abstract!Count \in Int /\ Abstract!Count <= INT_MAX
  <1>1. zeos_ticks \in 0 .. TICK_RANGE - 1 BY DEF SyscallInv, KernelInv, TypeOK
  <1>2. TICK_RANGE \in Nat \ {0} /\ (TICK_RANGE - 1) \div 2 <= INT_MAX
    BY KernelAssumption, UserAssumption
  <1>3. CASE 2 * zeos_ticks < TICK_RANGE
    <2>1. Abstract!Count = zeos_ticks BY <1>3 DEF Abstract!Count
    <2>2. zeos_ticks <= (TICK_RANGE - 1) \div 2 BY <1>1, <1>2, <1>3
    <2> QED BY <1>1, <1>2, <2>1, <2>2 DEF INT_MAX
  <1>4. CASE ~(2 * zeos_ticks < TICK_RANGE)
    <2>1. Abstract!Count = zeos_ticks - TICK_RANGE BY <1>4 DEF Abstract!Count
    <2> QED BY <1>1, <1>2, <2>1 DEF INT_MAX
  <1> QED BY <1>3, <1>4

LEMMA RefusedAnswers ==
  ASSUME SyscallInv, NEW v \in Abstract!Answers
  PROVE  /\ req.nr = NR_WRITE /\ v < 0 => v \in Refusals
         /\ req.nr = NR_GETTIME => v <= INT_MAX
  <1>1. NR_WRITE # NR_GETTIME BY KernelAssumption
  <1>2. req.nr = NR_GETTIME => v = Abstract!Count BY DEF Abstract!Answers
  <1>3. ASSUME req.nr = NR_WRITE, v < 0 PROVE v \in Refusals
    <2>1. CASE req.fd # 1 BY <1>1, <1>3, <2>1 DEF Abstract!Answers, Refusals
    <2>2. CASE req.fd = 1 /\ ~Abstract!Acceptable
      BY <1>1, <1>3, <2>2 DEF Abstract!Answers, Refusals
    <2>3. CASE req.fd = 1 /\ Abstract!Acceptable
      <3>1. req.size \in Int /\ req.size >= 0
        BY <2>3 DEF Abstract!Acceptable, SyscallInv, KernelInv, TypeOK
      <3>2. v = req.size \/ v = -EFAULT \/ v = 0
        BY <1>1, <1>3, <2>3 DEF Abstract!Answers
      <3> QED BY <1>3, <3>1, <3>2 DEF Refusals
    <2> QED BY <2>1, <2>2, <2>3
  <1> QED BY <1>2, <1>3, CountFits

LEMMA ServeStep ==
  ASSUME SyscallInv, ProgramInv, Abstract!Serve, UNCHANGED Observed
  PROVE  ProgramInv'
  <1>0. UNCHANGED <<frames, ret, c_param, itoa_buff, answered, job, out>> BY DEF Observed
  <1>1. /\ CallPhase = "kernel" /\ CallPhase' = "served" /\ sysret' \in Abstract!Answers
        /\ printed = <<>> \/ Len(printed) = sysret'
        /\ req.nr = NR_WRITE /\ sysret' > 0 => Len(printed) = sysret'
        /\ UNCHANGED <<req, printed, errno, CallResult>>
    BY DEF Abstract!Serve
  <1>2. /\ StackOK /\ BuffOK /\ JobOK /\ StackOK' /\ BuffOK' /\ JobOK' /\ ret' \in Int
        /\ Top' = Top /\ Context' = Context /\ Len(frames) \in Nat /\ (PhaseOK' => ProgramInv')
    BY <1>0, <1>1, CallKept
  <1>3. CASE Len(frames) > 1
    <2>1. LibraryCalls BY <1>1, <1>3 DEF ProgramInv, PhaseOK
    <2> DEFINE text == Said(Top, itoa_buff)
    <2>2. sysret' = Len(text) BY <1>1, <1>2, <1>3, <2>1, WriteAccepted
    <2>3. Len(text) \in Nat BY <1>2, <1>3, <2>1, SaidOK DEF LibraryCalls
    <2>4. req.nr = NR_WRITE BY <2>1 DEF LibraryCalls
    <2>5. text' = text BY <1>0, <1>2
    <2> HIDE DEF text
    <2>6. Len(printed) = Len(text) BY <1>1, <2>2, <2>3, <2>4
    <2>7. LibraryCalls' BY <1>0, <1>1, <1>2, <2>1, <2>2, <2>5, <2>6 DEF LibraryCalls, text
    <2>8. PhaseOK' BY <1>0, <1>1, <1>3, <2>7 DEF PhaseOK
    <2> QED BY <1>2, <2>8
  <1>4. CASE ~(Len(frames) > 1)
    <2>1. MainCalls BY <1>1, <1>4 DEF ProgramInv, PhaseOK
    <2>2. /\ req.nr = NR_WRITE /\ sysret' < 0 => sysret' \in Refusals
          /\ req.nr = NR_GETTIME => sysret' <= INT_MAX
      BY <1>1, RefusedAnswers
    <2>3. MainCalls' BY <1>0, <1>1, <1>2, <2>1, <2>2 DEF MainCalls
    <2>4. PhaseOK' BY <1>0, <1>1, <1>4, <2>3 DEF PhaseOK
    <2> QED BY <1>2, <2>4
  <1> QED BY <1>3, <1>4
---------------------------------------------------------------------------
(* Calls inside the program. *)
LEMMA PartSame ==
  ASSUME NEW f, NEW g, g.fn = f.fn, g.arg = f.arg
  PROVE  \A k, e : Part(g, k, e) = Part(f, k, e)
  BY Zenon DEF Part

LEMMA OtherPrintint ==
  ASSUME StackOK, NEW k \in 2 .. Len(frames), Rank(Top.fn) >= 1
  PROVE  frames[k].fn # "printint"
  <1>1. Rank(Top.fn) < Rank(frames[k].fn) BY StackFacts
  <1>2. Rank("printint") = 1 BY DEF Rank, Writers
  <1>3. Rank(Top.fn) \in Int /\ Rank(frames[k].fn) \in Int BY RankType
  <1> QED BY <1>1, <1>2, <1>3

(* A function of the library calls another. *)
LEMMA CallOK ==
  ASSUME ProgramInv, Len(frames) > 1, CallPhase = "user", CallPhase' = "user",
         NEW new, NEW low, frames' = <<new, low>> \o Tail(frames),
         FrameOK(new), FrameOK(low), low.fn = Top.fn, low.arg = Top.arg, low.pc = Top.pc + 1,
         new.fn # "main", new.pc = 0, Linked(new, low, job, errno),
         UNCHANGED <<errno, job, ret, out>>,
         IF low.fn = "printint" THEN itoa_buff' = itoa(low.arg) ELSE itoa_buff' = itoa_buff
  PROVE  ProgramInv'
  <1>0. StackOK /\ BuffOK /\ JobOK /\ ret \in Int /\ PhaseOK BY DEF ProgramInv
  <1>1. /\ StackOK' /\ Len(frames') = Len(frames) + 1 /\ Len(frames) <= 3
        /\ Top' = new /\ frames'[1] = new /\ frames'[2] = low
        /\ \A k \in 3 .. Len(frames') : frames'[k] = frames[k - 1]
    BY <1>0, PushOK
  <1>2. Len(frames) \in Nat /\ FrameOK(Top) /\ Rank(Top.fn) >= 1
    <2>1. Rank(Top.fn) >= 1 BY RankType DEF Linked
    <2> QED BY <1>0, <2>1, StackFacts
  <1>3. BuffOK'
    <2>1. CASE low.fn = "printint"
      <3>1. low.arg \in Int /\ low.arg <= INT_MAX BY <2>1 DEF FrameOK, FrameSet, ArgOK
      <3>2. itoa_buff' \in Seq(Nat) /\ Len(itoa_buff') >= 1 /\ Len(itoa_buff') <= ITOA_BUFF
        BY <2>1, <3>1, ItoaFits
      <3>3. ASSUME NEW k \in 1 .. Len(frames'), frames'[k].fn = "printint", frames'[k].pc = 1
            PROVE  itoa_buff' = itoa(frames'[k].arg)
        <4>1. CASE k = 1 BY <1>1, <3>3, <4>1
        <4>2. CASE k = 2 BY <1>1, <2>1, <4>2
        <4>3. CASE k > 2
          <5>1. k - 1 \in 2 .. Len(frames) /\ frames'[k] = frames[k - 1] BY <1>1, <1>2, <4>3
          <5> QED BY <1>0, <1>2, <3>3, <5>1, OtherPrintint
        <4> QED BY <1>1, <1>2, <4>1, <4>2, <4>3
      <3> QED BY <3>2, <3>3 DEF BuffOK
    <2>2. CASE low.fn # "printint"
      <3>1. ASSUME NEW k \in 1 .. Len(frames'), frames'[k].fn = "printint", frames'[k].pc = 1
            PROVE  itoa_buff = itoa(frames'[k].arg)
        <4>1. k # 1 /\ k # 2 BY <1>1, <2>2, <3>1
        <4>2. k - 1 \in 1 .. Len(frames) /\ frames'[k] = frames[k - 1] BY <1>1, <1>2, <4>1
        <4> QED BY <1>0, <3>1, <4>2 DEF BuffOK
      <3> QED BY <1>0, <2>2, <3>1 DEF BuffOK
    <2> QED BY <2>1, <2>2
  <1>4. JobOK' BY <1>0 DEF JobOK
  <1>5. InLibrary BY <1>0 DEF PhaseOK
  <1> DEFINE below == Earlier(2)
             done == Part(Top, Top.pc, errno)
  <1>6. Context = below
    <2>1. Earlier(3) = <<>> BY <1>1, <1>2 DEF Earlier
    <2> QED BY <1>0, <2>1, ContextType, NoText DEF Context
  <1>7. Context' = below \o done
    <2>1. Earlier(2)' = done
      <3>1. 2 < Len(frames') BY <1>1, <1>2
      <3>2. Earlier(2)' = Part(low, low.pc - 1, errno) BY <1>1, <3>1 DEF Earlier
      <3>3. low.pc - 1 = Top.pc BY <1>2 DEF FrameOK, FrameSet
      <3> QED BY <3>2, <3>3, PartSame
    <2>2. Earlier(3)' = below
      <3>1. 3 < Len(frames') <=> 2 < Len(frames) BY <1>1, <1>2
      <3>2. 3 < Len(frames') => frames'[3] = frames[2] BY <1>1, <1>2
      <3> QED BY <3>1, <3>2 DEF Earlier
    <2> QED BY <2>1, <2>2 DEF Context
  <1>8. below \in Seq(Nat) /\ done \in Seq(Nat) BY <1>0, <1>2, ContextType, PartType
  <1> HIDE DEF below, done
  <1>9. out' = below \o done BY <1>5, <1>6, Zenon DEF InLibrary, done
  <1>10. InLibrary'
    <2>1. Part(new, 0, errno) = <<>> BY PartOf
    <2>2. out' = Context' \o <<>> BY <1>7, <1>8, <1>9, Joined, NoText
    <2>3. Got(new, ret) BY DEF Got
    <2> QED BY <1>1, <2>1, <2>2, <2>3 DEF InLibrary
  <1>11. Len(frames') > 1 BY <1>1, <1>2
  <1>12. PhaseOK' BY <1>10, <1>11 DEF PhaseOK
  <1> QED BY <1>0, <1>1, <1>3, <1>4, <1>12 DEF ProgramInv

(* main calls a function of the library. *)
LEMMA JobStarts ==
  ASSUME ProgramInv, Len(frames) = 1, CallPhase' = "user",
         NEW fn \in Jobs, NEW arg \in Int, ArgOK(fn, arg), fn = "print" => arg \in LiteralAt,
         Top.pc + 1 \in AfterJob, Job(fn, arg), errno' = errno,
         fn = "perror" => /\ errno = -answered.value
                          /\ answered.nr = NR_WRITE => answered.value \in Refusals
  PROVE  ProgramInv'
  <1>0. StackOK /\ BuffOK /\ JobOK /\ ret \in Int BY DEF ProgramInv
  <1> DEFINE new == Frame(fn, arg)
             low == Resumed
  <1>1. /\ frames' = <<new, low>> \o Tail(frames) /\ out' = <<>>
        /\ job' = [fn |-> fn, arg |-> arg, after |-> answered] /\ UNCHANGED <<ret, itoa_buff>>
    BY DEF Job, Call
  <1>2. Top = frames[1] /\ FrameOK(Top) /\ Top.fn = "main" BY <1>0, StackFacts
  <1>3. low = [Top EXCEPT !.pc = Top.pc + 1] BY DEF Resumed
  <1>4. Top \in FrameSet BY <1>2 DEF FrameOK
  <1>5. /\ low \in FrameSet /\ low.fn = "main" /\ low.arg = Top.arg /\ low.pc = Top.pc + 1
    BY <1>2, <1>3, <1>4 DEF FrameSet
  <1>6. /\ new = [fn |-> fn, arg |-> arg, pc |-> 0, written |-> 0]
        /\ new.fn = fn /\ new.arg = arg /\ new.pc = 0
    BY DEF Frame
  <1>7. fn \in Functions /\ fn # "main" BY DEF Jobs, Functions
  <1>8. new \in FrameSet BY <1>6, <1>7 DEF FrameSet
  <1> HIDE DEF new, low
  <1>9. Calls(fn) >= 0 BY WhileIs DEF Calls
  <1>10. FrameOK(new) BY <1>6, <1>8, <1>9 DEF FrameOK
  <1>11. FrameOK(low)
    <2>1. low.pc <= Calls(low.fn) BY <1>5, WhileIs DEF Calls, AfterJob, Writers
    <2> QED BY <1>5, <2>1 DEF FrameOK, ArgOK
  <1>12. Linked(new, low, job', errno)
    <2>1. Rank(fn) < Rank("main") BY DEF Rank, Writers, Jobs
    <2> QED BY <1>1, <1>5, <1>6, <2>1 DEF Linked
  <1>13. /\ StackOK' /\ Len(frames') = Len(frames) + 1 /\ Top' = new
         /\ frames'[1] = new /\ frames'[2] = low
    <2>1. /\ frames' = <<new, low>> \o Tail(frames) /\ low.fn = Top.fn /\ low.arg = Top.arg
          /\ new.fn # "main" /\ (Len(frames) > 1 => job' = job)
      BY <1>1, <1>2, <1>5, <1>6, <1>7
    <2> QED BY <1>0, <1>10, <1>11, <1>12, <2>1, PushOK
  <1>14. BuffOK'
    <2>1. ASSUME NEW k \in 1 .. Len(frames'), frames'[k].fn = "printint", frames'[k].pc = 1
          PROVE  FALSE
      <3>1. k = 1 \/ k = 2 BY <1>13
      <3> QED BY <1>5, <1>6, <1>13, <2>1, <3>1
    <2> QED BY <1>0, <1>1, <2>1 DEF BuffOK
  <1>15. JobOK' BY <1>1 DEF JobOK
  <1>16. InLibrary'
    <2>1. Earlier(2)' = <<>> /\ Earlier(3)' = <<>> BY <1>13 DEF Earlier
    <2>2. Context' = <<>> BY <2>1, NoText DEF Context
    <2>3. Part(new, 0, errno) = <<>> BY PartOf
    <2>4. Got(new, ret) BY <1>6 DEF Got
    <2>5. out' = Context' \o Part(new, 0, errno) BY <1>1, <2>2, <2>3, NoText
    <2> QED BY <1>1, <1>6, <1>13, <2>4, <2>5 DEF InLibrary
  <1>17. PhaseOK' BY <1>13, <1>16 DEF PhaseOK
  <1> QED BY <1>0, <1>1, <1>13, <1>14, <1>15, <1>17 DEF ProgramInv

(* A function of the library returns. *)
LEMMA ReturnOK ==
  ASSUME StackOK, BuffOK, JobOK, Len(frames) > 1, CallPhase' = "user",
         frames' = Tail(frames), UNCHANGED <<errno, job, out>>, ret' \in Int,
         Whole(Top, errno, itoa_buff) \in Seq(Nat),
         out = Context \o Whole(Top, errno, itoa_buff),
         Top.fn \in Counted => ret' = Len(Whole(Top, errno, itoa_buff)),
         \/ itoa_buff' = itoa_buff
         \/ Top.fn = "printint" /\ itoa_buff' = <<EndOfString>>
  PROVE  ProgramInv'
  <1> DEFINE g == frames[2]
             all == Whole(Top, errno, itoa_buff)
  <1>1. /\ StackOK' /\ Len(frames') = Len(frames) - 1 /\ Top' = g
        /\ \A k \in 1 .. Len(frames') : frames'[k] = frames[k + 1]
    BY PopOK
  <1>2. /\ Len(frames) \in Nat /\ Len(frames) <= 4 /\ FrameOK(Top) /\ FrameOK(g)
        /\ Linked(Top, g, job, errno) /\ (g.fn = "main" <=> Len(frames) = 2)
        /\ Len(frames) >= 2
    BY StackFacts
  <1>3. BuffOK'
    <2>1. CASE itoa_buff' = itoa_buff
      <3>1. ASSUME NEW k \in 1 .. Len(frames'), frames'[k].fn = "printint", frames'[k].pc = 1
            PROVE  itoa_buff = itoa(frames'[k].arg)
        <4>1. k + 1 \in 1 .. Len(frames) /\ frames'[k] = frames[k + 1] BY <1>1, <1>2
        <4> QED BY <3>1, <4>1 DEF BuffOK
      <3> QED BY <2>1, <3>1 DEF BuffOK
    <2>2. CASE Top.fn = "printint" /\ itoa_buff' = <<EndOfString>>
      <3>1. Rank(Top.fn) >= 1 BY <2>2 DEF Rank, Writers
      <3>2. ASSUME NEW k \in 1 .. Len(frames'), frames'[k].fn = "printint" PROVE FALSE
        <4>1. k + 1 \in 2 .. Len(frames) /\ frames'[k] = frames[k + 1] BY <1>1, <1>2
        <4> QED BY <3>1, <3>2, <4>1, OtherPrintint
      <3>3. itoa_buff' \in Seq(Nat) /\ Len(itoa_buff') = 1 BY <2>2 DEF EndOfString
      <3> QED BY <3>2, <3>3 DEF BuffOK, ITOA_BUFF
    <2> QED BY <2>1, <2>2
  <1>4. JobOK' BY DEF JobOK
  <1> HIDE DEF all
  <1>5. CASE Len(frames) = 2
    <2>1. Len(frames') = 1 /\ g.fn = "main" BY <1>1, <1>2, <1>5
    <2>2. Top.fn = job.fn /\ Top.arg = job.arg /\ g.pc \in AfterJob BY <1>2, <2>1 DEF Linked
    <2>3. Context = <<>>
      <3>1. Earlier(2) = <<>> /\ Earlier(3) = <<>> BY <1>5 DEF Earlier
      <3> QED BY <3>1, NoText DEF Context
    <2>4. out = all BY <2>3, NoText DEF all
    <2>5. job.fn \in Jobs => all = JobShows(job, errno)
      <3> DEFINE j == [fn |-> job.fn, arg |-> job.arg]
      <3>1. j.fn = job.fn /\ j.arg = job.arg OBVIOUS
      <3> HIDE DEF j
      <3>2. CASE job.fn = "print"
        <4>1. job.arg # ITOA_AT BY <3>2, LiteralPlace DEF JobOK
        <4>2. all = Content(job.arg) BY <2>2, <3>2, <4>1, WholeOf DEF all
        <4>3. Whole(j, errno, <<>>) = Content(job.arg) BY <3>1, <3>2, <4>1, WholeOf
        <4> QED BY <4>2, <4>3 DEF JobShows, j
      <3>3. CASE job.fn \in Jobs /\ job.fn # "print"
        <4>1. job.fn \notin Writers BY <3>3 DEF Jobs, Writers
        <4>2. /\ all = Part(Top, Calls(job.fn), errno)
              /\ Whole(j, errno, <<>>) = Part(j, Calls(job.fn), errno)
          BY <2>2, <3>1, <4>1, Zenon DEF Whole, all
        <4>3. Part(j, Calls(job.fn), errno) = Part(Top, Calls(job.fn), errno)
          BY <2>2, <3>1, PartSame
        <4> QED BY <4>2, <4>3 DEF JobShows, j
      <3> QED BY <3>2, <3>3
    <2>6. InMain'
      <3>1. Top'.pc \notin AfterCall /\ Top'.pc # WHILE + 2
        <4>1. AfterJob = {1, 2, 4, 6, 8, 9, 11, 13} /\ AfterCall = {3, 5, 7, 12} /\ WHILE + 2 = 10
          BY WhileIs DEF AfterJob, AfterCall
        <4>2. Top'.pc \in {1, 2, 4, 6, 8, 9, 11, 13} BY <1>1, <2>2, <4>1
        <4>3. \A x \in {1, 2, 4, 6, 8, 9, 11, 13} : x \notin {3, 5, 7, 12} /\ x # 10 OBVIOUS
        <4> QED BY <4>1, <4>2, <4>3, Zenon
      <3>2. job.fn \in Jobs => out = JobShows(job, errno) BY <2>4, <2>5
      <3>3. job.fn \in Counted => ret' = Len(out) BY <2>2, <2>4 DEF all
      <3>4. job' = job /\ errno' = errno /\ out' = out OBVIOUS
      <3> QED BY <3>1, <3>2, <3>3, <3>4, Zenon DEF InMain
    <2>7. PhaseOK'
      <3>0. ~(1 > 1) OBVIOUS
      <3>1. ~(Len(frames') > 1) BY <2>1, <3>0, Zenon
      <3> QED BY <2>6, <3>1 DEF PhaseOK
    <2> QED BY <1>1, <1>3, <1>4, <2>7 DEF ProgramInv
  <1>6. CASE Len(frames) > 2
    <2>1. Len(frames') > 1 /\ Len(frames') <= 3 /\ g.fn # "main"
      <3>1. Len(frames) \in Nat /\ Len(frames) <= 4 /\ Len(frames') = Len(frames) - 1 BY <1>1, <1>2
      <3>0. \A n \in Nat : \A m : n <= 4 /\ n > 2 /\ m = n - 1 => m > 1 /\ m <= 3 /\ n # 2 OBVIOUS
      <3>2. Len(frames') > 1 /\ Len(frames') <= 3 /\ Len(frames) # 2 BY <1>6, <3>0, <3>1, Zenon
      <3> QED BY <1>2, <3>2, Zenon
    <2>2. g.pc >= 1 /\ CalledBy(Top, g, errno) /\ Rank(Top.fn) < Rank(g.fn)
      BY <1>2, <2>1 DEF Linked
    <2>3. g.fn = "printint" => itoa_buff = itoa(g.arg)
      <3> SUFFICES ASSUME g.fn = "printint" PROVE itoa_buff = itoa(g.arg) OBVIOUS
      <3>1. g.pc = 1 BY <1>2, <2>2 DEF FrameOK, FrameSet, Calls
      <3>2. 2 \in 1 .. Len(frames) BY <1>2
      <3> QED BY <3>1, <3>2 DEF BuffOK
    <2>4. /\ Part(g, g.pc, errno) = Part(g, g.pc - 1, errno) \o all
          /\ \A r : (Top.fn \in Counted => r = Len(all)) => Got(g, r)
      BY <1>2, <2>1, <2>2, <2>3, Continues DEF all
    <2> DEFINE below == Earlier(3)
               mine == Part(g, g.pc - 1, errno)
    <2>5. Context = below \o mine
      <3>1. Earlier(2) = mine BY <1>2, <1>6 DEF Earlier
      <3> QED BY <3>1 DEF Context
    <2>6. Context' = below
      <3>1. Earlier(3)' = <<>> BY <2>1, <1>2, <1>1 DEF Earlier
      <3>2. Earlier(2)' = below
        <4>1. 2 < Len(frames') <=> 3 < Len(frames) BY <1>1, <1>2
        <4>2. 2 < Len(frames') => frames'[2] = frames[3] BY <1>1, <1>2
        <4> QED BY <4>1, <4>2 DEF Earlier
      <3>3. below \in Seq(Nat) BY ContextType
      <3> QED BY <3>1, <3>2, <3>3, NoText DEF Context
    <2>7. below \in Seq(Nat) /\ mine \in Seq(Nat) /\ all \in Seq(Nat)
      BY <1>2, ContextType, PartType DEF all
    <2> HIDE DEF below, mine
    <2>8. out = below \o (mine \o all)
      <3>1. out = (below \o mine) \o all BY <2>5, Zenon DEF all
      <3> QED BY <2>7, <3>1, Assoc
    <2>9. InLibrary'
      <3>1. Got(g, ret') BY <2>4 DEF all
      <3>2. out' = Context' \o Part(g, g.pc, errno) BY <2>4, <2>6, <2>8 DEF mine
      <3> QED BY <1>1, <3>1, <3>2 DEF InLibrary
    <2>10. PhaseOK' BY <2>1, <2>9 DEF PhaseOK
    <2> QED BY <1>1, <1>3, <1>4, <2>10 DEF ProgramInv
  <1>7. Len(frames) = 2 \/ Len(frames) > 2
    <2>1. Len(frames) \in Nat /\ Len(frames) >= 2 BY <1>2
    <2>2. \A n \in Nat : n >= 2 => n = 2 \/ n > 2 OBVIOUS
    <2> QED BY <2>1, <2>2, Zenon
  <1> QED BY <1>5, <1>6, <1>7

(* A function that has made its last call returns. *)
LEMMA LastReturn ==
  ASSUME ProgramInv, Len(frames) > 1, CallPhase = "user", CallPhase' = "user",
         Top.fn \notin Writers, Top.pc = Calls(Top.fn), frames' = Tail(frames),
         UNCHANGED <<errno, job, out>>, ret' \in Int,
         Top.fn \in Counted => ret' = Len(Part(Top, Calls(Top.fn), errno)),
         \/ itoa_buff' = itoa_buff
         \/ Top.fn = "printint" /\ itoa_buff' = <<EndOfString>>
  PROVE  ProgramInv'
  <1> DEFINE all == Whole(Top, errno, itoa_buff)
  <1>1. all = Part(Top, Calls(Top.fn), errno) BY Zenon DEF Whole
  <1>2. StackOK /\ BuffOK /\ JobOK /\ InLibrary BY DEF ProgramInv, PhaseOK
  <1>3. FrameOK(Top) BY <1>2, StackFacts
  <1>4. all \in Seq(Nat) BY <1>1, <1>3, PartType
  <1> HIDE DEF all
  <1>5. out = Context \o all BY <1>1, <1>2 DEF InLibrary
  <1>6. Top.fn \in Counted => ret' = Len(all) BY <1>1
  <1> QED BY <1>2, <1>4, <1>5, <1>6, ReturnOK DEF all
---------------------------------------------------------------------------
(* System calls of the program. *)
LEMMA MainMoves ==
  ASSUME StackOK, Len(frames) = 1, NEW n \in Nat, n <= WHILE + 5,
         frames' = <<[Top EXCEPT !.pc = n]>>
  PROVE  /\ StackOK' /\ Len(frames') = 1 /\ Top'.pc = n /\ Top'.fn = "main" /\ Top.fn = "main"
         /\ frames'[1].fn = "main" /\ Top.pc \in Nat /\ Tail(frames) = <<>>
  <1>1. Top = frames[1] /\ FrameOK(Top) /\ Top.fn = "main" BY StackFacts
  <1>2. Top \in FrameSet BY <1>1 DEF FrameOK
  <1> DEFINE f == [Top EXCEPT !.pc = n]
  <1>3. f \in FrameSet /\ f.fn = "main" /\ f.arg = Top.arg /\ f.pc = n
    BY <1>1, <1>2 DEF FrameSet
  <1> HIDE DEF f
  <1>4. frames' = <<f>> BY DEF f
  <1>5. frames' \in Seq(FrameSet) /\ Len(frames') = 1 /\ frames'[1] = f /\ Top' = f
    BY <1>3, <1>4 DEF Top
  <1>6. FrameOK(f) BY <1>3, WhileIs DEF FrameOK, ArgOK, Calls, Writers
  <1>7. StackOK'
    <2>1. ASSUME NEW k \in 1 .. Len(frames')
          PROVE  FrameOK(frames'[k]) /\ (frames'[k].fn = "main" <=> k = Len(frames'))
      <3>1. k = 1 BY <1>5
      <3> QED BY <1>3, <1>5, <1>6, <3>1
    <2>2. \A k \in 1 .. Len(frames') - 1 : Linked(frames'[k], frames'[k + 1], job', errno')
      BY <1>5
    <2> QED BY <1>5, <2>1, <2>2 DEF StackOK
  <1>8. Top.pc \in Nat BY <1>2 DEF FrameSet
  <1>9. Tail(frames) = <<>>
    <2>1. Len(Tail(frames)) = 0 /\ Tail(frames) \in Seq(FrameSet) BY StackFacts
    <2> QED BY <2>1, EmptySeq
  <1> QED BY <1>1, <1>3, <1>5, <1>7, <1>8, <1>9

LEMMA BuffInMain ==
  ASSUME BuffOK, Len(frames') = 1, frames'[1].fn = "main", itoa_buff' = itoa_buff
  PROVE  BuffOK'
  <1>1. ASSUME NEW k \in 1 .. Len(frames'), frames'[k].fn = "printint" PROVE FALSE
    <2>1. k = 1 OBVIOUS
    <2> QED BY <1>1, <2>1
  <1> QED BY <1>1 DEF BuffOK

(* print and printchar enter the kernel. *)
LEMMA LibraryInvokes ==
  ASSUME ProgramInv, Len(frames) > 1, Top.fn \in Writers, Abstract!Invoke,
         req' = [nr |-> NR_WRITE, fd |-> 1, buffer |-> BufferOf(Top),
                 size |-> Len(Said(Top, itoa_buff))],
         Top.fn = "printchar" => c_param' = Top.arg,
         UNCHANGED <<frames, ret, itoa_buff, job, out>>
  PROVE  ProgramInv'
  <1>1. /\ CallPhase = "user" /\ CallPhase' = "kernel" /\ printed' = <<>> /\ errno' = errno
    BY DEF Abstract!Invoke
  <1>2. /\ StackOK /\ BuffOK /\ JobOK /\ StackOK' /\ BuffOK' /\ JobOK' /\ ret' \in Int
        /\ Top' = Top /\ Context' = Context /\ Len(frames) \in Nat /\ (PhaseOK' => ProgramInv')
    BY <1>1, CallKept
  <1> DEFINE text == Said(Top, itoa_buff)
  <1>3. text \in Seq(Nat) /\ Len(text) \in Nat BY <1>2, SaidOK
  <1>4. text' = text /\ BufferOf(Top)' = BufferOf(Top) BY <1>2
  <1>5. InLibrary BY <1>1 DEF ProgramInv, PhaseOK
  <1>6. Part(Top, Top.pc, errno) = <<>> BY DEF Part, Writers
  <1> HIDE DEF text
  <1>7. SubSeq(text, 1, 0) = <<>> BY <1>3
  <1>8. Len(printed') = 0 BY <1>1
  <1>9. out' = Context' \o SubSeq(text, 1, Len(printed')) BY <1>2, <1>5, <1>6, <1>7, <1>8, Zenon DEF InLibrary
  <1>10. 0 <= Len(text) BY <1>3
  <1>11. LibraryCalls' BY <1>1, <1>2, <1>4, <1>8, <1>9, <1>10 DEF LibraryCalls, text
  <1>12. PhaseOK' BY <1>1, <1>11 DEF PhaseOK
  <1> QED BY <1>2, <1>12

(* main enters the kernel. *)
LEMMA MainInvokes ==
  ASSUME ProgramInv, Len(frames) = 1, Abstract!Invoke, job' = NoJob, StackOK', Len(frames') = 1,
         frames'[1].fn = "main", Top'.pc \in {2, 4, 6, WHILE + 1, WHILE + 3},
         Top'.pc = WHILE + 1 => req'.nr = NR_GETTIME, UNCHANGED <<ret, itoa_buff>>
  PROVE  ProgramInv'
  <1>1. CallPhase' = "kernel" /\ errno' = errno BY DEF Abstract!Invoke
  <1>2. JobOK' BY DEF JobOK, NoJob
  <1>3. BuffOK' BY BuffInMain DEF ProgramInv
  <1>4. MainCalls' BY <1>1 DEF MainCalls, NoJob
  <1>5. PhaseOK'
    <2>0. ~(1 > 1) OBVIOUS
    <2>1. ~(Len(frames') > 1) BY <2>0, Zenon
    <2> QED BY <1>1, <1>4, <2>1 DEF PhaseOK
  <1> QED BY <1>2, <1>3, <1>5 DEF ProgramInv

(* The wrapper takes the kernel's answer. *)
LEMMA DeliverStepOK ==
  ASSUME SyscallInv, ProgramInv, Abstract!Deliver, UNCHANGED Observed
  PROVE  ProgramInv'
  <1>0. UNCHANGED <<frames, ret, c_param, itoa_buff, answered, job, out>> BY DEF Observed
  <1>1. /\ CallPhase = "served" /\ CallPhase' = "back"
        /\ CallResult' = IF sysret < 0 THEN -1 ELSE sysret
        /\ errno' = IF sysret < 0 THEN -sysret ELSE errno
        /\ UNCHANGED <<req, printed, sysret>>
    BY DEF Abstract!Deliver
  <1>2. StackOK /\ BuffOK /\ JobOK /\ ret \in Int BY DEF ProgramInv
  <1>3. CASE Len(frames) > 1
    <2>1. LibraryCalls BY <1>1, <1>3 DEF ProgramInv, PhaseOK
    <2> DEFINE text == Said(Top, itoa_buff)
    <2>2. sysret = Len(text) BY <1>1, <2>1 DEF LibraryCalls
    <2>3. Len(text) \in Nat BY <1>2, <1>3, <2>1, SaidOK DEF LibraryCalls
    <2>4. errno' = errno /\ CallResult' = sysret BY <1>1, <2>2, <2>3
    <2>5. /\ StackOK' /\ BuffOK' /\ JobOK' /\ ret' \in Int
          /\ Top' = Top /\ Context' = Context /\ (PhaseOK' => ProgramInv')
      BY <1>0, <2>4, CallKept
    <2>6. LibraryCalls' BY <1>0, <1>1, <2>1, <2>4, <2>5 DEF LibraryCalls
    <2>7. PhaseOK' BY <1>0, <1>1, <1>3, <2>6 DEF PhaseOK
    <2> QED BY <2>5, <2>7
  <1>4. CASE ~(Len(frames) > 1)
    <2>1. MainCalls BY <1>1, <1>4 DEF ProgramInv, PhaseOK
    <2>2. Top' = Top BY <1>0 DEF Top
    <2>3. Len(frames) = 1
      <3>1. Len(frames) \in Nat /\ Len(frames) >= 1 BY <1>2, StackFacts
      <3>2. \A n \in Nat : n >= 1 /\ ~(n > 1) => n = 1 OBVIOUS
      <3> QED BY <1>4, <3>1, <3>2, Zenon
    <2>4. StackOK'
      <3>1. \A k \in 1 .. Len(frames) - 1 : Linked(frames[k], frames[k + 1], job', errno')
        BY <2>3
      <3> QED BY <1>0, <1>2, <3>1 DEF StackOK
    <2>5. BuffOK' BY <1>0, <1>2 DEF BuffOK
    <2>6. job.fn = "none" BY <2>1 DEF MainCalls
    <2>7. JobOK' BY <1>0, <2>6 DEF JobOK
    <2>8. MainCalls' BY <1>0, <1>1, <2>1, <2>2 DEF MainCalls
    <2>9. PhaseOK' BY <1>0, <1>1, <1>4, <2>8 DEF PhaseOK
    <2> QED BY <1>0, <1>2, <2>4, <2>5, <2>7, <2>9 DEF ProgramInv
  <1> QED BY <1>3, <1>4

LEMMA SubSeqAll ==
  ASSUME NEW s \in Seq(Nat) PROVE SubSeq(s, 1, Len(s)) = s
  <1> DEFINE p == SubSeq(s, 1, Len(s))
  <1>1. p \in Seq(Nat) /\ Len(p) = Len(s) /\ \A k \in 1 .. Len(p) : p[k] = s[k] OBVIOUS
  <1> HIDE DEF p
  <1>2. p = s BY <1>1, SeqEqual
  <1> QED BY <1>2 DEF p

(* A system call comes back to the function that made it. *)
LEMMA ReturnedOK ==
  ASSUME SyscallInv, ProgramInv, Returned
  PROVE  ProgramInv' /\ SyscallInv' /\ Abstract!Resume
  <1>1. SyscallInv' /\ Abstract!Resume /\ CallResult = eax
    BY ResumesSeen DEF Returned
  <1>2. CallPhase = "back" /\ CallPhase' = "user" /\ errno' = errno
    BY <1>1 DEF Abstract!Resume
  <1>3. /\ ret' = CallResult /\ answered' = [nr |-> req.nr, value |-> sysret]
        /\ UNCHANGED <<itoa_buff, job, out>>
        /\ frames' = IF Top.fn \in {"print", "printchar"} THEN Tail(frames)
                                                          ELSE <<Resumed>> \o Tail(frames)
    BY <1>1 DEF Returned
  <1>4. StackOK /\ BuffOK /\ JobOK BY DEF ProgramInv
  <1>5. CASE Len(frames) > 1
    <2>1. LibraryCalls BY <1>2, <1>5 DEF ProgramInv, PhaseOK
    <2> DEFINE text == Said(Top, itoa_buff)
    <2>2. /\ Top.fn \in Writers /\ out = Context \o SubSeq(text, 1, Len(printed))
          /\ Len(printed) = Len(text) /\ CallResult = Len(text)
      BY <1>2, <2>1 DEF LibraryCalls
    <2>3. text \in Seq(Nat) /\ Len(text) \in Nat /\ Whole(Top, errno, itoa_buff) = text
      BY <1>4, <1>5, <2>2, SaidOK
    <2> HIDE DEF text
    <2>4. out = Context \o text BY <2>2, <2>3, SubSeqAll
    <2>5. frames' = Tail(frames) BY <1>3, <2>2 DEF Writers
    <2>6. ret' = Len(text) BY <1>3, <2>2
    <2>7. ProgramInv'
      BY <1>2, <1>3, <1>4, <1>5, <2>3, <2>4, <2>5, <2>6, ReturnOK
    <2> QED BY <1>1, <2>7
  <1>6. CASE ~(Len(frames) > 1)
    <2>1. MainCalls BY <1>2, <1>6 DEF ProgramInv, PhaseOK
    <2>2. Len(frames) = 1
      <3>1. Len(frames) \in Nat /\ Len(frames) >= 1 BY <1>4, StackFacts
      <3>2. \A n \in Nat : n >= 1 /\ ~(n > 1) => n = 1 OBVIOUS
      <3> QED BY <1>6, <3>1, <3>2, Zenon
    <2>3. Top.fn = "main" /\ Len(Tail(frames)) = 0 /\ Tail(frames) \in Seq(FrameSet)
      BY <1>4, <2>2, StackFacts
    <2>4. Tail(frames) = <<>> BY <2>3, EmptySeq
    <2>5. Top.pc \in {2, 4, 6, 9, 11} /\ WHILE = 8
      BY <2>1, WhileIs DEF MainCalls
    <2> DEFINE n == Top.pc + 1
    <2>6. n \in {3, 5, 7, 10, 12} /\ n \in Nat /\ n <= WHILE + 5 /\ (n = 10 <=> Top.pc = 9)
      BY <2>5
    <2>7. frames' = <<[Top EXCEPT !.pc = n]>>
      <3>1. frames' = <<Resumed>> \o <<>> BY <1>3, <2>3, <2>4
      <3>2. <<Resumed>> \o <<>> = <<Resumed>> OBVIOUS
      <3> QED BY <3>1, <3>2 DEF Resumed
    <2> HIDE DEF n
    <2>8. /\ StackOK' /\ Len(frames') = 1 /\ Top'.pc = n /\ frames'[1].fn = "main"
      BY <1>4, <2>2, <2>6, <2>7, MainMoves
    <2>9. BuffOK' BY <1>3, <1>4, <2>8, BuffInMain
    <2>10. job.fn = "none" BY <2>1 DEF MainCalls
    <2>11. JobOK' BY <1>3, <2>10 DEF JobOK
    <2>12. sysret \in Int BY DEF SyscallInv, KernelInv, TypeOK
    <2>13. /\ sysret < 0 => ret' = -1 /\ errno' = -sysret
           /\ ~(sysret < 0) => ret' = sysret
      BY <1>2, <1>3, <2>1 DEF MainCalls
    <2>14. ret' \in Int BY <2>12, <2>13
    <2>15. InMain'
      <3>1. job'.fn \notin Jobs BY <1>3, <2>10 DEF Jobs
      <3>2. ASSUME ret' < 0 PROVE errno' = -sysret /\ (req.nr = NR_WRITE => sysret \in Refusals)
        <4>1. sysret < 0 BY <2>12, <2>13, <3>2
        <4> QED BY <1>2, <2>1, <2>13, <4>1 DEF MainCalls
      <3>3. n = WHILE + 2 => ret' <= INT_MAX
        <4> SUFFICES ASSUME n = WHILE + 2 PROVE ret' <= INT_MAX OBVIOUS
        <4>1. Top.pc = WHILE + 1 BY <2>5, <2>6
        <4>2. sysret <= INT_MAX BY <1>2, <2>1, <4>1 DEF MainCalls
        <4> QED BY <2>12, <2>13, <4>2 DEF INT_MAX
      <3>4. answered'.nr = req.nr /\ answered'.value = sysret BY <1>3
      <3> QED BY <2>8, <3>1, <3>2, <3>3, <3>4 DEF InMain
    <2>16. PhaseOK'
      <3>0. ~(1 > 1) OBVIOUS
      <3>1. ~(Len(frames') > 1) BY <2>8, <3>0, Zenon
      <3> QED BY <1>2, <2>15, <3>1 DEF PhaseOK
    <2>17. ProgramInv' BY <2>8, <2>9, <2>11, <2>14, <2>16 DEF ProgramInv
    <2> QED BY <1>1, <2>17
  <1> QED BY <1>5, <1>6
---------------------------------------------------------------------------
(* The functions of the library. *)
LEMMA InUser ==
  ASSUME SyscallInv, ProgramInv, UserRuns("user")
  PROVE  /\ StackOK /\ BuffOK /\ JobOK /\ ret \in Int /\ CallPhase = "user" /\ at = "user"
         /\ FrameOK(Top) /\ Top \in FrameSet /\ Len(frames) \in Nat
         /\ Top.fn = "main" => Len(frames) = 1 /\ InMain
         /\ Top.fn # "main" => Len(frames) > 1 /\ InLibrary
  <1>1. StackOK /\ BuffOK /\ JobOK /\ ret \in Int /\ PhaseOK BY DEF ProgramInv
  <1>2. CallPhase = "user" /\ at = "user" BY UserPhase DEF UserCode, PhaseOf
  <1>3. FrameOK(Top) /\ Len(frames) \in Nat /\ Len(frames) >= 1 /\ (Top.fn = "main" <=> Len(frames) = 1)
    BY <1>1, StackFacts
  <1>4. Top \in FrameSet BY <1>3 DEF FrameOK
  <1>5. \A n \in Nat : n >= 1 => (n = 1 /\ ~(n > 1)) \/ (n # 1 /\ n > 1) OBVIOUS
  <1>6. /\ Len(frames) = 1 => ~(Len(frames) > 1)
        /\ Len(frames) # 1 => Len(frames) > 1
    BY <1>3, <1>5, Zenon
  <1>7. CASE Top.fn = "main"
    <2>1. Len(frames) = 1 BY <1>3, <1>7, Zenon
    <2>2. InMain BY <1>1, <1>2, <1>6, <2>1 DEF PhaseOK
    <2> QED BY <1>1, <1>2, <1>3, <1>4, <1>7, <2>1, <2>2
  <1>8. CASE Top.fn # "main"
    <2>1. Len(frames) > 1 BY <1>3, <1>6, <1>8, Zenon
    <2>2. InLibrary BY <1>1, <1>2, <2>1 DEF PhaseOK
    <2> QED BY <1>1, <1>2, <1>3, <1>4, <1>8, <2>1, <2>2
  <1> QED BY <1>7, <1>8

LEMMA ResumedIs ==
  ASSUME Top \in FrameSet, NEW v \in Int
  PROVE  /\ Resumed \in FrameSet /\ Resumed.fn = Top.fn /\ Resumed.arg = Top.arg
         /\ Resumed.pc = Top.pc + 1 /\ Resumed.written = Top.written
         /\ LET low == [Resumed EXCEPT !.written = v]
            IN /\ low \in FrameSet /\ low.fn = Top.fn /\ low.arg = Top.arg
               /\ low.pc = Top.pc + 1 /\ low.written = v
  <1>1. Resumed = [Top EXCEPT !.pc = Top.pc + 1] BY DEF Resumed
  <1>2. /\ Resumed \in FrameSet /\ Resumed.fn = Top.fn /\ Resumed.arg = Top.arg
        /\ Resumed.pc = Top.pc + 1 /\ Resumed.written = Top.written
    BY <1>1 DEF FrameSet
  <1> QED BY <1>2 DEF FrameSet

LEMMA LibraryCall ==
  ASSUME SyscallInv, ProgramInv, UserRuns("user"), UNCHANGED <<vars, job, out, ret>>,
         Top.fn # "main", Top.pc < Calls(Top.fn),
         NEW fn \in Functions, NEW arg \in Int, fn # "main", ArgOK(fn, arg), Rank(fn) < Rank(Top.fn),
         NEW low \in FrameSet, low.fn = Top.fn, low.arg = Top.arg, low.pc = Top.pc + 1,
         frames' = <<Frame(fn, arg), low>> \o Tail(frames),
         CalledBy(Frame(fn, arg), low, errno),
         low.pc >= 2 => /\ Top.fn \in {"println", "printlntest"} => low.written = LengthAt(Top.arg)
                        /\ Top.fn = "printintln" => low.written = Len(Num(Top.arg)),
         IF Top.fn = "printint" THEN itoa_buff' = itoa(Top.arg) ELSE itoa_buff' = itoa_buff
  PROVE  SyscallInv' /\ UNCHANGED Abstract!vars /\ ProgramInv'
  <1> DEFINE new == Frame(fn, arg)
  <1>1. /\ new \in FrameSet /\ new.fn = fn /\ new.arg = arg /\ new.pc = 0
    BY DEF Frame, FrameSet
  <1>2. /\ StackOK /\ CallPhase = "user" /\ FrameOK(Top) /\ Top \in FrameSet /\ Len(frames) > 1
    BY InUser
  <1>3. SyscallInv' /\ UNCHANGED Abstract!vars /\ UNCHANGED SeenByProgram BY VarsSeen
  <1>4. CallPhase' = "user" /\ errno' = errno BY <1>2, <1>3 DEF SeenByProgram
  <1> HIDE DEF new
  <1>5. FrameOK(new)
    <2>1. Calls(fn) >= 0 BY WhileIs DEF Calls
    <2> QED BY <1>1, <2>1 DEF FrameOK
  <1>6. FrameOK(low)
    <2>1. Top.pc \in Nat BY <1>2 DEF FrameSet
    <2>2. Calls(Top.fn) \in Nat BY WhileIs DEF Calls
    <2>3. low.pc <= Calls(low.fn) BY <2>1, <2>2
    <2>4. ArgOK(low.fn, low.arg) BY <1>2 DEF FrameOK
    <2> QED BY <2>3, <2>4 DEF FrameOK
  <1>7. Linked(new, low, job, errno)
    <2>1. low.pc >= 1 BY <1>2 DEF FrameSet
    <2> QED BY <1>1, <2>1 DEF Linked, new
  <1>8. ProgramInv'
    <2>1. /\ frames' = <<new, low>> \o Tail(frames) /\ new.fn # "main" /\ new.pc = 0
          /\ UNCHANGED <<errno, job, ret, out>>
      BY <1>1, <1>4 DEF new
    <2>2. IF low.fn = "printint" THEN itoa_buff' = itoa(low.arg) ELSE itoa_buff' = itoa_buff
      OBVIOUS
    <2> QED BY <1>2, <1>4, <1>5, <1>6, <1>7, <2>1, <2>2, CallOK
  <1> QED BY <1>3, <1>8

LEMMA LibraryReturn ==
  ASSUME SyscallInv, ProgramInv, UserRuns("user"), UNCHANGED <<vars, job, out>>,
         Top.fn \notin Writers \cup {"main"}, Top.pc = Calls(Top.fn), NEW value \in Int, Ret(value),
         Top.fn \in Counted => value = Len(Part(Top, Calls(Top.fn), errno)),
         \/ itoa_buff' = itoa_buff
         \/ Top.fn = "printint" /\ itoa_buff' = <<EndOfString>>
  PROVE  SyscallInv' /\ UNCHANGED Abstract!vars /\ ProgramInv'
  <1>1. CallPhase = "user" /\ Len(frames) > 1 BY InUser
  <1>2. SyscallInv' /\ UNCHANGED Abstract!vars /\ UNCHANGED SeenByProgram BY VarsSeen
  <1>3. CallPhase' = "user" /\ errno' = errno BY <1>1, <1>2 DEF SeenByProgram
  <1>4. frames' = Tail(frames) /\ ret' = value BY DEF Ret
  <1>5. ProgramInv' BY <1>1, <1>3, <1>4, LastReturn
  <1> QED BY <1>2, <1>5

LEMMA RanksOf ==
  /\ Rank("print") = 0 /\ Rank("printchar") = 0 /\ Rank("printint") = 1 /\ Rank("println") = 1
  /\ Rank("printintln") = 2 /\ Rank("perror") = 2 /\ Rank("printlntest") = 2
  BY DEF Rank, Writers

LEMMA CallsOf ==
  /\ Calls("printint") = 1 /\ Calls("perror") = 1
  /\ Calls("println") = 2 /\ Calls("printintln") = 2 /\ Calls("printlntest") = 4
  BY DEF Calls

LEMMA FrameIs ==
  ASSUME NEW fn, NEW arg PROVE Frame(fn, arg).fn = fn /\ Frame(fn, arg).arg = arg
  BY DEF Frame

LEMMA printintOK ==
  ASSUME SyscallInv, ProgramInv, printint
  PROVE  SyscallInv' /\ UNCHANGED Abstract!vars /\ ProgramInv'
  <1>1. UserRuns("user") /\ Top.fn = "printint" /\ UNCHANGED <<vars, job, out>>
    BY DEF printint, Runs, uhistory
  <1>2. FrameOK(Top) /\ Top \in FrameSet /\ InLibrary /\ ret \in Int BY <1>1, InUser
  <1>3. CASE Top.pc = 0 /\ itoa_buff' = itoa(Top.arg) /\ Call("print", ITOA_AT)
    <2>1. /\ frames' = <<Frame("print", ITOA_AT), Resumed>> \o Tail(frames) /\ ret' = ret
      BY <1>3 DEF Call
    <2>2. /\ Resumed \in FrameSet /\ Resumed.fn = Top.fn /\ Resumed.arg = Top.arg
          /\ Resumed.pc = Top.pc + 1
      BY <1>2, ResumedIs
    <2>3. "print" \in Functions /\ ITOA_AT \in Int /\ ArgOK("print", ITOA_AT)
      BY UserAssumption DEF Functions, ArgOK
    <2>4. CalledBy(Frame("print", ITOA_AT), Resumed, errno)
      BY <1>1, <2>2, FrameIs DEF CalledBy
    <2>5. Rank("print") < Rank(Top.fn) /\ Top.pc < Calls(Top.fn) /\ ~(Resumed.pc >= 2)
      BY <1>1, <1>3, <2>2, RanksOf, CallsOf
    <2> QED BY <1>1, <1>3, <2>1, <2>2, <2>3, <2>4, <2>5, LibraryCall
  <1>4. CASE Top.pc = 1 /\ Ret(ret) /\ itoa_buff' = <<EndOfString>>
    <2>1. ret = Len(Num(Top.arg)) BY <1>1, <1>2, <1>4 DEF InLibrary, Got
    <2>2. Part(Top, Calls(Top.fn), errno) = Num(Top.arg) BY <1>1, CallsOf, PartOf
    <2>3. Top.pc = Calls(Top.fn) /\ Top.fn \notin Writers \cup {"main"}
      BY <1>1, <1>4, CallsOf DEF Writers
    <2> QED BY <1>1, <1>2, <1>4, <2>1, <2>2, <2>3, LibraryReturn
  <1> QED BY <1>3, <1>4 DEF printint, Runs

(* println and printintln. *)
LineText(fn, arg) == IF fn = "println" THEN Content(arg) ELSE Num(arg)

LEMMA LineFacts ==
  ASSUME FrameOK(Top), Top.fn \in {"println", "printintln"}
  PROVE  LET text == LineText(Top.fn, Top.arg)
         IN /\ text \in Seq(Nat) /\ Len(text) \in Nat
            /\ Top.fn = "println" => Len(text) = LengthAt(Top.arg)
            /\ Top.fn = "printintln" => Len(text) = Len(Num(Top.arg))
            /\ Top.pc >= 2 => Top.written = Len(text)
            /\ \A r : Got(Top, r) /\ Top.pc = 1 => r = Len(text)
            /\ \A e : Part(Top, 2, e) = LinePart(text, 2)
            /\ Calls(Top.fn) = 2
  <1>1. CASE Top.fn = "println"
    <2>1. LineText(Top.fn, Top.arg) = Content(Top.arg) BY <1>1 DEF LineText
    <2>2. Top.arg \in LiteralAt BY <1>1 DEF FrameOK, ArgOK
    <2>3. /\ Content(Top.arg) \in Seq(Nat) /\ Len(Content(Top.arg)) = LengthAt(Top.arg)
          /\ LengthAt(Top.arg) \in Nat
      BY <2>2, ContentOf, LiteralPlace
    <2>4. Top.pc >= 2 => Top.written = LengthAt(Top.arg) BY <1>1 DEF FrameOK
    <2>5. \A r : Got(Top, r) /\ Top.pc = 1 => r = LengthAt(Top.arg) BY <1>1 DEF Got
    <2>6. \A e : Part(Top, 2, e) = LinePart(Content(Top.arg), 2) BY <1>1, PartOf
    <2> QED BY <1>1, <2>1, <2>3, <2>4, <2>5, <2>6, CallsOf
  <1>2. CASE Top.fn = "printintln"
    <2>1. LineText(Top.fn, Top.arg) = Num(Top.arg) BY <1>2 DEF LineText
    <2>2. Top.arg \in Int /\ Top.arg <= INT_MAX BY <1>2 DEF FrameOK, ArgOK, FrameSet
    <2>3. Num(Top.arg) \in Seq(Nat) /\ Len(Num(Top.arg)) \in Nat BY <2>2, NumOf
    <2>4. Top.pc >= 2 => Top.written = Len(Num(Top.arg)) BY <1>2 DEF FrameOK
    <2>5. \A r : Got(Top, r) /\ Top.pc = 1 => r = Len(Num(Top.arg)) BY <1>2 DEF Got
    <2>6. \A e : Part(Top, 2, e) = LinePart(Num(Top.arg), 2) BY <1>2, PartOf
    <2> QED BY <1>2, <2>1, <2>3, <2>4, <2>5, <2>6, CallsOf
  <1> QED BY <1>1, <1>2

LEMMA LineOK ==
  ASSUME SyscallInv, ProgramInv, NEW fn, NEW text, Line(fn, text),
         \/ fn = "println" /\ text = "print"
         \/ fn = "printintln" /\ text = "printint"
  PROVE  SyscallInv' /\ UNCHANGED Abstract!vars /\ ProgramInv'
  <1>1. /\ UserRuns("user") /\ Top.fn = fn /\ UNCHANGED <<vars, job, out, itoa_buff>>
    BY DEF Line, Runs, Quiet, uhistory
  <1>2. FrameOK(Top) /\ Top \in FrameSet /\ InLibrary /\ ret \in Int BY <1>1, InUser
  <1>3. Top.arg \in Int /\ ArgOK(fn, Top.arg) BY <1>1, <1>2 DEF FrameOK, FrameSet
  <1> DEFINE shown == LineText(Top.fn, Top.arg)
  <1>4. /\ shown \in Seq(Nat) /\ Len(shown) \in Nat
        /\ Top.fn = "println" => Len(shown) = LengthAt(Top.arg)
        /\ Top.fn = "printintln" => Len(shown) = Len(Num(Top.arg))
        /\ Top.pc >= 2 => Top.written = Len(shown)
        /\ Top.pc = 1 => ret = Len(shown)
        /\ Part(Top, 2, errno) = LinePart(shown, 2)
        /\ Calls(Top.fn) = 2
    BY <1>1, <1>2, LineFacts DEF InLibrary
  <1> HIDE DEF shown
  <1>5. CASE Top.pc = 0 /\ Call(text, Top.arg)
    <2>1. /\ frames' = <<Frame(text, Top.arg), Resumed>> \o Tail(frames) /\ ret' = ret
      BY <1>5 DEF Call
    <2>2. /\ Resumed \in FrameSet /\ Resumed.fn = Top.fn /\ Resumed.arg = Top.arg
          /\ Resumed.pc = Top.pc + 1
      BY <1>2, ResumedIs
    <2>3. text \in Functions /\ text # "main" /\ ArgOK(text, Top.arg)
      BY <1>3 DEF Functions, ArgOK
    <2>4. CalledBy(Frame(text, Top.arg), Resumed, errno)
      BY <1>1, <1>5, <2>2, FrameIs DEF CalledBy
    <2>5. Rank(text) < Rank(Top.fn) /\ Top.pc < Calls(Top.fn) /\ ~(Resumed.pc >= 2)
      BY <1>1, <1>4, <1>5, <2>2, RanksOf
    <2>6. Top.fn # "printint" /\ Top.fn # "main" BY <1>1
    <2> QED BY <1>1, <1>3, <2>1, <2>2, <2>3, <2>4, <2>5, <2>6, LibraryCall
  <1>6. CASE Top.pc = 1 /\ IF ret < 0 THEN Ret(ret) ELSE CallKeeping("printchar", NEWLINE, ret)
    <2> DEFINE low == [Resumed EXCEPT !.written = ret]
    <2>0. ret = Len(shown) /\ ~(ret < 0) BY <1>4, <1>6
    <2>1. /\ frames' = <<Frame("printchar", NEWLINE), low>> \o Tail(frames) /\ ret' = ret
      BY <1>6, <2>0 DEF CallKeeping
    <2>2. /\ low \in FrameSet /\ low.fn = Top.fn /\ low.arg = Top.arg
          /\ low.pc = Top.pc + 1 /\ low.written = ret
      BY <1>2, ResumedIs
    <2> HIDE DEF low
    <2>3. "printchar" \in Functions /\ NEWLINE \in Int /\ ArgOK("printchar", NEWLINE)
      BY DEF Functions, ArgOK, NEWLINE
    <2>4. CalledBy(Frame("printchar", NEWLINE), low, errno)
      <3>1. low.pc = 2 /\ 2 # 1 /\ (low.fn = "println" \/ low.fn = "printintln") BY <1>1, <1>6, <2>2
      <3>2. Frame("printchar", NEWLINE).fn = "printchar" /\ Frame("printchar", NEWLINE).arg = NEWLINE
        BY FrameIs
      <3> HIDE DEF NEWLINE
      <3>3. CASE low.fn = "println" BY <3>1, <3>2, <3>3, Zenon DEF CalledBy
      <3>4. CASE low.fn = "printintln" BY <3>1, <3>2, <3>4, Zenon DEF CalledBy
      <3> QED BY <3>1, <3>3, <3>4
    <2>5. Rank("printchar") < Rank(Top.fn) /\ Top.pc < Calls(Top.fn)
      BY <1>1, <1>4, <1>6, RanksOf
    <2>6. Top.fn # "printint" /\ Top.fn # "main" BY <1>1
    <2>7. low.pc >= 2 => /\ Top.fn \in {"println", "printlntest"} => low.written = LengthAt(Top.arg)
                         /\ Top.fn = "printintln" => low.written = Len(Num(Top.arg))
      BY <1>1, <1>4, <2>0, <2>2
    <2> QED BY <1>1, <2>1, <2>2, <2>3, <2>4, <2>5, <2>6, <2>7, LibraryCall
  <1>7. CASE Top.pc = 2 /\ Ret(IF ret < 0 THEN ret ELSE Top.written + 1)
    <2> DEFINE value == IF ret < 0 THEN ret ELSE Top.written + 1
    <2>1. ret = 1 BY <1>1, <1>2, <1>7 DEF InLibrary, Got
    <2>2. value = Len(shown) + 1 /\ value \in Int BY <1>4, <1>7, <2>1
    <2>3. Len(LinePart(shown, 2)) = Len(shown) + 1 BY <1>4, LineLength
    <2> HIDE DEF value
    <2>4. value = Len(Part(Top, Calls(Top.fn), errno)) BY <1>4, <2>2, <2>3
    <2>5. Top.pc = Calls(Top.fn) /\ Top.fn \notin Writers \cup {"main"}
      BY <1>1, <1>4, <1>7 DEF Writers
    <2>6. Ret(value) BY <1>7 DEF value
    <2> QED BY <1>1, <2>2, <2>4, <2>5, <2>6, LibraryReturn
  <1> QED BY <1>5, <1>6, <1>7 DEF Line, Runs

LEMMA perrorOK ==
  ASSUME SyscallInv, ProgramInv, perror
  PROVE  SyscallInv' /\ UNCHANGED Abstract!vars /\ ProgramInv'
  <1>1. /\ UserRuns("user") /\ Top.fn = "perror" /\ UNCHANGED <<vars, job, out, itoa_buff>>
    BY DEF perror, Runs, Quiet, uhistory
  <1>2. FrameOK(Top) /\ Top \in FrameSet /\ ret \in Int BY <1>1, InUser
  <1>3. CASE Top.pc = 0 /\ Call("println", errno_message(errno))
    <2> DEFINE arg == errno_message(errno)
    <2>0. arg \in LiteralAt BY MessageOf
    <2>1. /\ frames' = <<Frame("println", arg), Resumed>> \o Tail(frames) /\ ret' = ret
      BY <1>3 DEF Call
    <2> HIDE DEF arg
    <2>2. /\ Resumed \in FrameSet /\ Resumed.fn = Top.fn /\ Resumed.arg = Top.arg
          /\ Resumed.pc = Top.pc + 1
      BY <1>2, ResumedIs
    <2>3. "println" \in Functions /\ ArgOK("println", arg) /\ arg \in Int
      BY <2>0, LiteralPlace DEF Functions, ArgOK
    <2>4. CalledBy(Frame("println", arg), Resumed, errno)
      BY <1>1, <2>2, FrameIs DEF CalledBy, arg
    <2>5. Rank("println") < Rank(Top.fn) /\ Top.pc < Calls(Top.fn) /\ ~(Resumed.pc >= 2)
      BY <1>1, <1>3, <2>2, RanksOf, CallsOf
    <2>6. Top.fn # "printint" /\ Top.fn # "main" BY <1>1
    <2> QED BY <1>1, <2>1, <2>2, <2>3, <2>4, <2>5, <2>6, LibraryCall
  <1>4. CASE Top.pc = 1 /\ Ret(ret)
    <2>1. Top.pc = Calls(Top.fn) /\ Top.fn \notin Writers \cup {"main"} /\ Top.fn \notin Counted
      BY <1>1, <1>4, CallsOf DEF Writers, Counted
    <2> QED BY <1>1, <1>2, <1>4, <2>1, LibraryReturn
  <1> QED BY <1>3, <1>4 DEF perror, Runs

LEMMA printlntestOK ==
  ASSUME SyscallInv, ProgramInv, printlntest
  PROVE  SyscallInv' /\ UNCHANGED Abstract!vars /\ ProgramInv'
  <1>1. /\ UserRuns("user") /\ Top.fn = "printlntest" /\ UNCHANGED <<vars, job, out, itoa_buff>>
    BY DEF printlntest, Runs, Quiet, uhistory
  <1>2. FrameOK(Top) /\ Top \in FrameSet /\ InLibrary /\ ret \in Int BY <1>1, InUser
  <1>3. /\ Top.arg \in LiteralAt /\ Top.arg \in Int /\ Top.written \in Int
        /\ Top.pc >= 2 => Top.written = LengthAt(Top.arg)
        /\ Top.pc = 1 => ret = LengthAt(Top.arg)
        /\ LengthAt(Top.arg) \in Nat /\ LengthAt(Top.arg) <= INT_MAX
    <2>1. Top.arg \in LiteralAt BY <1>1, <1>2 DEF FrameOK, ArgOK
    <2> QED BY <1>1, <1>2, <2>1, LiteralPlace DEF FrameOK, FrameSet, InLibrary, Got
  <1> DEFINE open == Literal(" (")
             close == Literal(" bytes)")
  <1>4. open \in LiteralAt /\ close \in LiteralAt BY LiteralOf DEF Strings
  <1>a. ASSUME NEW f, NEW g, g.fn = "printlntest"
        PROVE  /\ g.pc = 2 /\ f.fn = "print" /\ f.arg = open => CalledBy(f, g, errno)
               /\ g.pc = 4 /\ f.fn = "println" /\ f.arg = close => CalledBy(f, g, errno)
    <2>1. 2 # 1 /\ 2 # 3 /\ 2 # 4 /\ 4 # 1 /\ 4 # 2 /\ 4 # 3 OBVIOUS
    <2> QED BY <1>a, <2>1, Zenon DEF CalledBy
  <1>b. \/ Top.pc = 0 /\ Call("print", Top.arg)
        \/ Top.pc = 1 /\ IF ret < 0 THEN Ret(ret) ELSE CallKeeping("print", open, ret)
        \/ Top.pc = 2 /\ Call("printint", Top.written)
        \/ Top.pc = 3 /\ Call("println", close)
        \/ Top.pc = 4 /\ Ret(ret)
    BY Zenon DEF printlntest, Runs
  <1> HIDE DEF open, close
  <1>5. /\ Resumed \in FrameSet /\ Resumed.fn = Top.fn /\ Resumed.arg = Top.arg
        /\ Resumed.pc = Top.pc + 1 /\ Resumed.written = Top.written
    BY <1>2, ResumedIs
  <1>6. Top.fn # "printint" /\ Top.fn # "main" /\ Top.fn # "printintln" /\ Calls(Top.fn) = 4
        /\ Rank(Top.fn) = 2 /\ Top.pc \in Nat
    BY <1>1, <1>2, CallsOf, RanksOf DEF FrameSet
  <1>7. CASE Top.pc = 0 /\ Call("print", Top.arg)
    <2>1. /\ frames' = <<Frame("print", Top.arg), Resumed>> \o Tail(frames) /\ ret' = ret
      BY <1>7 DEF Call
    <2>2. "print" \in Functions /\ ArgOK("print", Top.arg) BY <1>3 DEF Functions, ArgOK
    <2>3. CalledBy(Frame("print", Top.arg), Resumed, errno)
      BY <1>1, <1>5, <1>7, FrameIs DEF CalledBy
    <2>4. Rank("print") < Rank(Top.fn) /\ Top.pc < Calls(Top.fn) /\ ~(Resumed.pc >= 2)
      BY <1>5, <1>6, <1>7, RanksOf
    <2> QED BY <1>1, <1>3, <1>5, <1>6, <2>1, <2>2, <2>3, <2>4, LibraryCall
  <1>8. CASE Top.pc = 1 /\ IF ret < 0 THEN Ret(ret) ELSE CallKeeping("print", open, ret)
    <2> DEFINE low == [Resumed EXCEPT !.written = ret]
    <2>0. ret = LengthAt(Top.arg) /\ ~(ret < 0) BY <1>3, <1>8
    <2>1. /\ frames' = <<Frame("print", open), low>> \o Tail(frames) /\ ret' = ret
      BY <1>8, <2>0 DEF CallKeeping
    <2>2. /\ low \in FrameSet /\ low.fn = Top.fn /\ low.arg = Top.arg
          /\ low.pc = Top.pc + 1 /\ low.written = ret
      BY <1>2, ResumedIs
    <2> HIDE DEF low
    <2>3. "print" \in Functions /\ open \in Int /\ ArgOK("print", open)
      BY <1>4, LiteralPlace DEF Functions, ArgOK
    <2>4. CalledBy(Frame("print", open), low, errno)
      <3>1. low.pc = 2 BY <1>8, <2>2
      <3> QED BY <1>1, <1>a, <2>2, <3>1, FrameIs
    <2>5. Rank("print") < Rank(Top.fn) /\ Top.pc < Calls(Top.fn)
      BY <1>6, <1>8, RanksOf
    <2>6. low.pc >= 2 => /\ Top.fn \in {"println", "printlntest"} => low.written = LengthAt(Top.arg)
                         /\ Top.fn = "printintln" => low.written = Len(Num(Top.arg))
      BY <1>6, <2>0, <2>2
    <2> QED BY <1>1, <1>6, <2>1, <2>2, <2>3, <2>4, <2>5, <2>6, LibraryCall
  <1>9. CASE Top.pc = 2 /\ Call("printint", Top.written)
    <2>1. /\ frames' = <<Frame("printint", Top.written), Resumed>> \o Tail(frames) /\ ret' = ret
      BY <1>9 DEF Call
    <2>2. "printint" \in Functions /\ ArgOK("printint", Top.written)
      BY <1>3, <1>9 DEF Functions, ArgOK
    <2>3. CalledBy(Frame("printint", Top.written), Resumed, errno)
      BY <1>1, <1>5, <1>9, FrameIs DEF CalledBy
    <2>4. Rank("printint") < Rank(Top.fn) /\ Top.pc < Calls(Top.fn)
      BY <1>6, <1>9, RanksOf
    <2>5. Resumed.pc >= 2 =>
            /\ Top.fn \in {"println", "printlntest"} => Resumed.written = LengthAt(Top.arg)
            /\ Top.fn = "printintln" => Resumed.written = Len(Num(Top.arg))
      BY <1>3, <1>5, <1>6, <1>9
    <2> QED BY <1>1, <1>3, <1>5, <1>6, <2>1, <2>2, <2>3, <2>4, <2>5, LibraryCall
  <1>10. CASE Top.pc = 3 /\ Call("println", close)
    <2>1. /\ frames' = <<Frame("println", close), Resumed>> \o Tail(frames) /\ ret' = ret
      BY <1>10 DEF Call
    <2>2. "println" \in Functions /\ ArgOK("println", close) /\ close \in Int
      BY <1>4, LiteralPlace DEF Functions, ArgOK
    <2>3. CalledBy(Frame("println", close), Resumed, errno)
      <3>1. Resumed.pc = 4 BY <1>5, <1>10
      <3> QED BY <1>1, <1>5, <1>a, <3>1, FrameIs
    <2>4. Rank("println") < Rank(Top.fn) /\ Top.pc < Calls(Top.fn)
      BY <1>6, <1>10, RanksOf
    <2>5. Resumed.pc >= 2 =>
            /\ Top.fn \in {"println", "printlntest"} => Resumed.written = LengthAt(Top.arg)
            /\ Top.fn = "printintln" => Resumed.written = Len(Num(Top.arg))
      BY <1>3, <1>5, <1>6, <1>10
    <2> QED BY <1>1, <1>5, <1>6, <2>1, <2>2, <2>3, <2>4, <2>5, LibraryCall
  <1>11. CASE Top.pc = 4 /\ Ret(ret)
    <2>1. Top.pc = Calls(Top.fn) /\ Top.fn \notin Writers \cup {"main"} /\ Top.fn \notin Counted
      BY <1>1, <1>6, <1>11 DEF Writers, Counted
    <2> QED BY <1>1, <1>2, <1>11, <2>1, LibraryReturn
  <1> QED BY <1>b, <1>7, <1>8, <1>9, <1>10, <1>11

(* print and printchar. *)
LEMMA printOK ==
  ASSUME SyscallInv, ProgramInv, print \/ printchar
  PROVE  SyscallInv' /\ Abstract!Invoke /\ ProgramInv'
  <1>1. /\ UserRuns("user") /\ Top.fn \in Writers /\ Top.fn # "main"
        /\ UNCHANGED <<frames, ret, itoa_buff, job, out>>
        /\ Top.fn = "printchar" => c_param' = Top.arg
    BY DEF print, printchar, Runs, Writers, program, uhistory
  <1>2. StackOK /\ BuffOK /\ JobOK /\ Len(frames) > 1 BY <1>1, InUser
  <1> DEFINE b == BufferOf(Top)
             n == Len(Said(Top, itoa_buff))
  <1>3. /\ b \in Int /\ n \in Int
        /\ Top.fn = "print" => string_length(Top.arg) = n
        /\ Top.fn = "printchar" => n = 1
    BY <1>1, <1>2, SaidOK
  <1>4. /\ Top.fn = "print" => b = Top.arg
        /\ Top.fn = "printchar" => b = CHAR_AT
    BY DEF BufferOf
  <1> HIDE DEF b, n
  <1>5. SYSCALL(NR_WRITE, 1, b, n)
    <2>1. CASE print
      <3>1. Top.fn = "print" /\ write(1, Top.arg, string_length(Top.arg)) BY <2>1 DEF print, Runs
      <3> QED BY <1>3, <1>4, <3>1 DEF write
    <2>2. CASE printchar
      <3>1. Top.fn = "printchar" /\ write(1, CHAR_AT, 1) BY <2>2 DEF printchar, Runs
      <3> QED BY <1>3, <1>4, <3>1 DEF write
    <2> QED BY <2>1, <2>2
  <1>6. NR_WRITE \in Int /\ 1 \in Int BY KernelAssumption
  <1>7. /\ SyscallInv' /\ Abstract!Invoke
        /\ req' = [nr |-> NR_WRITE, fd |-> 1, buffer |-> b, size |-> n]
    BY <1>3, <1>5, <1>6, CallSeen
  <1>8. ProgramInv' BY <1>1, <1>2, <1>7, LibraryInvokes DEF b, n
  <1> QED BY <1>7, <1>8
---------------------------------------------------------------------------
(* main. *)
LEMMA JobOfMain ==
  ASSUME SyscallInv, ProgramInv, UserRuns("user"), Top.fn = "main",
         NEW fn \in Jobs, NEW arg \in Int, ArgOK(fn, arg), fn = "print" => arg \in LiteralAt,
         Top.pc + 1 \in AfterJob, Job(fn, arg),
         fn = "perror" => Top.pc \in AfterCall /\ ret < 0
  PROVE  SyscallInv' /\ UNCHANGED Abstract!vars /\ ProgramInv'
  <1>1. CallPhase = "user" /\ Len(frames) = 1 /\ InMain BY InUser
  <1>2. SyscallInv' /\ UNCHANGED Abstract!vars /\ UNCHANGED SeenByProgram
    BY VarsSeen DEF Job
  <1>3. CallPhase' = "user" /\ errno' = errno BY <1>1, <1>2 DEF SeenByProgram
  <1>4. fn = "perror" => /\ errno = -answered.value
                         /\ answered.nr = NR_WRITE => answered.value \in Refusals
    BY <1>1 DEF InMain
  <1>5. ProgramInv' BY <1>1, <1>3, <1>4, JobStarts
  <1> QED BY <1>2, <1>5

LEMMA perror_if_failedOK ==
  ASSUME SyscallInv, ProgramInv, UserRuns("user"), Top.fn = "main", Top.pc \in {3, 5, 7, 12},
         perror_if_failed
  PROVE  SyscallInv' /\ UNCHANGED Abstract!vars /\ ProgramInv'
  <1>0. WHILE = 8 BY WhileIs
  <1>1. Top.pc + 1 \in AfterJob /\ Top.pc \in AfterCall BY <1>0 DEF AfterJob, AfterCall
  <1>2. CASE ret < 0
    <2>1. Job("perror", 0) BY <1>2 DEF perror_if_failed
    <2>2. "perror" \in Jobs /\ 0 \in Int /\ ArgOK("perror", 0) BY DEF Jobs, ArgOK
    <2> QED BY <1>1, <1>2, <2>1, <2>2, JobOfMain
  <1>3. CASE ~(ret < 0)
    <2>1. /\ frames' = <<Resumed>> /\ UNCHANGED ret /\ UNCHANGED <<vars, job, out, itoa_buff, answered>>
      BY <1>3 DEF perror_if_failed, Quiet, uhistory
    <2>2. /\ StackOK /\ BuffOK /\ JobOK /\ ret \in Int /\ CallPhase = "user" /\ Len(frames) = 1 /\ InMain
      BY InUser
    <2>3. SyscallInv' /\ UNCHANGED Abstract!vars /\ UNCHANGED SeenByProgram BY <2>1, VarsSeen
    <2>4. CallPhase' = "user" /\ errno' = errno BY <2>2, <2>3 DEF SeenByProgram
    <2> DEFINE n == Top.pc + 1
    <2>5. n \in Nat /\ n <= WHILE + 5 /\ n \in {4, 6, 8, 13} BY <1>0
    <2>6. frames' = <<[Top EXCEPT !.pc = n]>> BY <2>1 DEF Resumed
    <2> HIDE DEF n
    <2>7. StackOK' /\ Len(frames') = 1 /\ Top'.pc = n /\ frames'[1].fn = "main"
      BY <2>2, <2>5, <2>6, MainMoves
    <2>8. BuffOK' BY <2>1, <2>2, <2>7, BuffInMain
    <2>9. JobOK' BY <2>1, <2>2, <2>4 DEF JobOK
    <2>10. InMain'
      <3>1. n \notin AfterCall /\ n # WHILE + 2 BY <1>0, <2>5 DEF AfterCall
      <3> QED BY <2>1, <2>2, <2>4, <2>7, <3>1 DEF InMain
    <2>11. PhaseOK'
      <3>0. ~(1 > 1) OBVIOUS
      <3>1. ~(Len(frames') > 1) BY <2>7, <3>0, Zenon
      <3> QED BY <2>4, <2>10, <3>1 DEF PhaseOK
    <2>12. ProgramInv' BY <2>1, <2>2, <2>7, <2>8, <2>9, <2>11 DEF ProgramInv
    <2> QED BY <2>3, <2>12
  <1> QED BY <1>2, <1>3

(* main's calls, in order. *)
LEMMA MainCallsAre ==
  /\ main[1].fn = "printlntest" /\ main[1].arg = "Hello"
  /\ main[2].fn = "printlntest" /\ main[2].arg = "alive"
  /\ \A k \in {3, 5, 7} : /\ main[k].fn = "write" /\ main[k].fd \in Int /\ main[k].size \in Int
                          /\ main[k].buffer \in {NULL, Literal("alo"), Literal("alo2")}
  /\ \A k \in {4, 6, 8} : main[k].fn = "perror"
  BY DEF main

LEMMA main_stepOK ==
  ASSUME SyscallInv, ProgramInv, main_step
  PROVE  /\ SyscallInv' /\ ProgramInv'
         /\ UNCHANGED Abstract!vars \/ Abstract!Invoke
  <1> DEFINE step == main[Top.pc + 1]
  <1>1. UserRuns("user") /\ Top.fn = "main" /\ Top.pc < 8 BY WhileIs DEF main_step
  <1>2. /\ StackOK /\ BuffOK /\ JobOK /\ ret \in Int /\ Top \in FrameSet /\ Len(frames) = 1
    BY <1>1, InUser
  <1>3. Top.pc \in {0, 1, 2, 3, 4, 5, 6, 7}
    <2>1. Top.pc \in Nat BY <1>2 DEF FrameSet
    <2> QED BY <1>1, <2>1
  <1>4. /\ step.fn = "printlntest" => Top.pc \in {0, 1} /\ step.arg \in {"Hello", "alive"}
        /\ step.fn = "perror" => Top.pc \in {3, 5, 7}
        /\ step.fn = "write" => /\ Top.pc \in {2, 4, 6} /\ step.fd \in Int /\ step.size \in Int
                                /\ step.buffer \in {NULL, Literal("alo"), Literal("alo2")}
    BY <1>3, MainCallsAre
  <1> HIDE DEF step
  <1>5. CASE step.fn = "printlntest" /\ Job(step.fn, Literal(step.arg))
    <2>1. Literal(step.arg) \in LiteralAt BY <1>4, <1>5, LiteralOf DEF Strings
    <2>2. "printlntest" \in Jobs /\ ArgOK("printlntest", Literal(step.arg)) BY <2>1 DEF Jobs, ArgOK
    <2>3. Literal(step.arg) \in Int BY <2>1, LiteralPlace
    <2>4. Top.pc + 1 \in AfterJob BY <1>4, <1>5 DEF AfterJob
    <2> QED BY <1>1, <1>5, <2>2, <2>3, <2>4, JobOfMain
  <1>6. CASE step.fn = "perror" /\ perror_if_failed
    BY <1>1, <1>4, <1>6, perror_if_failedOK
  <1>7. CASE /\ step.fn = "write" /\ write(step.fd, step.buffer, step.size)
             /\ Unobserved /\ UNCHANGED program
    <2>1. Literal("alo") \in LiteralAt /\ Literal("alo2") \in LiteralAt BY LiteralOf DEF Strings
    <2>2. step.buffer \in Int /\ step.fd \in Int /\ step.size \in Int /\ NR_WRITE \in Int
      BY <1>4, <1>7, <2>1, LiteralPlace, KernelAssumption DEF NULL
    <2>3. SyscallInv' /\ Abstract!Invoke BY <1>7, <2>2, CallSeen DEF write
    <2>4. UNCHANGED <<frames, ret, itoa_buff>> /\ job' = NoJob BY <1>7 DEF program, Unobserved
    <2>5. errno' = errno BY <2>3 DEF Abstract!Invoke
    <2>6. StackOK' /\ Top' = Top
      <3>1. \A k \in 1 .. Len(frames) - 1 : Linked(frames[k], frames[k + 1], job', errno')
        BY <1>2
      <3> QED BY <1>2, <2>4, <3>1 DEF StackOK, Top
    <2>7. /\ Len(frames') = 1 /\ frames'[1].fn = "main"
          /\ Top'.pc \in {2, 4, 6, WHILE + 1, WHILE + 3} /\ Top'.pc # WHILE + 1
      <3>1. Top = frames[1] BY <1>2, StackFacts
      <3>2. \A x \in {2, 4, 6} : x # 9 OBVIOUS
      <3>3. WHILE + 1 = 9 BY WhileIs
      <3> QED BY <1>1, <1>2, <1>4, <1>7, <2>4, <2>6, <3>1, <3>2, <3>3
    <2>8. ProgramInv' BY <1>2, <2>3, <2>4, <2>6, <2>7, MainInvokes
    <2> QED BY <2>3, <2>8
  <1> QED BY <1>5, <1>6, <1>7 DEF main_step, step
---------------------------------------------------------------------------
(* The calls of while(1). *)
LEMMA call_libraryOK ==
  ASSUME SyscallInv, ProgramInv, call_library
  PROVE  SyscallInv' /\ UNCHANGED Abstract!vars /\ ProgramInv'
  <1>1. UserRuns("user") /\ Top.fn = "main" /\ Top.pc = 8 BY WhileIs DEF call_library, Runs
  <1>2. Top.pc + 1 \in AfterJob BY <1>1, WhileIs DEF AfterJob
  <1>3. ASSUME NEW n \in Numbers, NEW fn \in {"printint", "printintln"}, Job(fn, n)
        PROVE  SyscallInv' /\ UNCHANGED Abstract!vars /\ ProgramInv'
    <2>1. n \in Int /\ n <= INT_MAX BY UserAssumption DEF IsInt
    <2>2. fn \in Jobs /\ ArgOK(fn, n) /\ fn # "print" /\ fn # "perror" BY <2>1 DEF Jobs, ArgOK
    <2> QED BY <1>1, <1>2, <1>3, <2>1, <2>2, JobOfMain
  <1>4. ASSUME NEW l \in Texts, NEW fn \in {"print", "println"}, Job(fn, Literal(l))
        PROVE  SyscallInv' /\ UNCHANGED Abstract!vars /\ ProgramInv'
    <2>1. Literal(l) \in LiteralAt BY LiteralOf
    <2>2. Literal(l) \in Int BY <2>1, LiteralPlace
    <2>3. fn \in Jobs /\ ArgOK(fn, Literal(l)) /\ fn # "perror" BY <2>1 DEF Jobs, ArgOK
    <2> QED BY <1>1, <1>2, <1>4, <2>1, <2>2, <2>3, JobOfMain
  <1> QED BY <1>3, <1>4 DEF call_library

LEMMA call_systemOK ==
  ASSUME SyscallInv, ProgramInv, call_system
  PROVE  SyscallInv' /\ Abstract!Invoke /\ ProgramInv'
  <1>0. WHILE = 8 BY WhileIs
  <1>1. /\ UserRuns("user") /\ Top.fn = "main" /\ job' = NoJob /\ UNCHANGED <<ret, itoa_buff>>
    BY DEF call_system, Runs, Unobserved
  <1>2. StackOK /\ Len(frames) = 1 BY <1>1, InUser
  <1>3. CASE gettime /\ frames' = <<[Top EXCEPT !.pc = WHILE + 1]>>
    <2>1. NR_GETTIME \in Int /\ 0 \in Int BY KernelAssumption
    <2>2. SYSCALL(NR_GETTIME, 0, 0, 0) BY <1>3 DEF gettime
    <2>3. SyscallInv' /\ Abstract!Invoke /\ req'.nr = NR_GETTIME BY <2>1, <2>2, CallSeen
    <2> DEFINE n == WHILE + 1
    <2>4. n \in Nat /\ n <= WHILE + 5 BY <1>0
    <2> HIDE DEF n
    <2>5. frames' = <<[Top EXCEPT !.pc = n]>> BY <1>3 DEF n
    <2>6. StackOK' /\ Len(frames') = 1 /\ frames'[1].fn = "main" /\ Top'.pc = n
      BY <1>2, <2>4, <2>5, MainMoves
    <2>7. ProgramInv' BY <1>1, <1>2, <2>3, <2>6, MainInvokes DEF n
    <2> QED BY <2>3, <2>7
  <1>4. CASE UserCall /\ frames' = <<[Top EXCEPT !.pc = WHILE + 3]>>
    <2>1. KernelInv' BY <1>4, UserCallInv DEF SyscallInv
    <2>2. SyscallInv' /\ Abstract!Invoke BY <1>4, <2>1, UserCallStep DEF SyscallInv
    <2> DEFINE n == WHILE + 3
    <2>4. n \in Nat /\ n <= WHILE + 5 /\ n # WHILE + 1 BY <1>0
    <2> HIDE DEF n
    <2>5. frames' = <<[Top EXCEPT !.pc = n]>> BY <1>4 DEF n
    <2>6. StackOK' /\ Len(frames') = 1 /\ frames'[1].fn = "main" /\ Top'.pc = n
      BY <1>2, <2>4, <2>5, MainMoves
    <2>7. n \in {2, 4, 6, WHILE + 1, WHILE + 3} BY DEF n
    <2>8. ProgramInv' BY <1>1, <1>2, <2>2, <2>4, <2>6, <2>7, MainInvokes
    <2> QED BY <2>2, <2>8
  <1> QED BY <1>3, <1>4 DEF call_system

LEMMA use_resultOK ==
  ASSUME SyscallInv, ProgramInv, use_result
  PROVE  SyscallInv' /\ UNCHANGED Abstract!vars /\ ProgramInv'
  <1>0. WHILE = 8 BY WhileIs
  <1>1. UserRuns("user") /\ Top.fn = "main" BY DEF use_result, Runs
  <1>2. ret \in Int /\ InMain BY <1>1, InUser
  <1>3. CASE Top.pc = WHILE + 2 /\ Job("printintln", ret)
    <2>1. ret <= INT_MAX BY <1>2, <1>3 DEF InMain
    <2>2. "printintln" \in Jobs /\ ArgOK("printintln", ret) BY <2>1 DEF Jobs, ArgOK
    <2>3. Top.pc + 1 \in AfterJob BY <1>0, <1>3 DEF AfterJob
    <2> QED BY <1>1, <1>2, <1>3, <2>2, <2>3, JobOfMain
  <1>4. CASE Top.pc = WHILE + 4 /\ perror_if_failed
    <2>1. Top.pc \in {3, 5, 7, 12} BY <1>0, <1>4
    <2> QED BY <1>1, <1>4, <2>1, perror_if_failedOK
  <1> QED BY <1>3, <1>4 DEF use_result, Runs

LEMMA strayOK ==
  ASSUME SyscallInv, ProgramInv, stray
  PROVE  SyscallInv' /\ Abstract!Halt /\ ProgramInv'
  <1>1. SyscallInv' /\ Abstract!Halt /\ CallPhase' = "halted" BY FaultSeen DEF stray
  <1>2. errno' = errno BY <1>1 DEF Abstract!Halt
  <1>3. UNCHANGED <<frames, ret, itoa_buff, job>> BY DEF stray, program, uhistory
  <1>4. ProgramInv' BY <1>1, <1>2, <1>3, HaltStep
  <1> QED BY <1>1, <1>4

(* The kernel and the devices. *)
LEMMA KernelRunsOK ==
  ASSUME SyscallInv, ProgramInv, KernelRuns
  PROVE  SyscallInv' /\ [Abstract!Next]_Abstract!vars /\ ProgramInv'
  <1>1. /\ SyscallInv' /\ [Abstract!Next]_Abstract!vars
        /\ \/ UNCHANGED SeenByProgram
           \/ CallPhase = "kernel" /\ (Abstract!Show \/ Abstract!Serve \/ Abstract!Halt)
    BY KernelSeen DEF KernelRuns
  <1>2. /\ UNCHANGED <<frames, ret, c_param, itoa_buff, answered, job>>
        /\ out' = IF Len(printed') > Len(printed)
                    THEN Append(out, Byte(printed'[Len(printed')])) ELSE out
    BY DEF KernelRuns, program
  <1>3. ASSUME printed' = printed PROVE UNCHANGED Observed
    <2>1. Len(printed) \in Nat
      <3>1. printed \in Seq(Int) BY DEF SyscallInv, KernelInv, TypeOK
      <3> QED BY <3>1
    <2>2. ~(Len(printed') > Len(printed)) BY <1>3, <2>1
    <2> QED BY <1>2, <2>2 DEF Observed
  <1>4. ProgramInv'
    <2>1. CASE UNCHANGED SeenByProgram
      <3>1. printed' = printed BY <2>1 DEF SeenByProgram
      <3> QED BY <1>3, <2>1, <3>1, SilentStep
    <2>2. CASE Abstract!Show BY <1>2, <2>2, ShowStep
    <2>3. CASE Abstract!Serve
      <3>1. printed' = printed BY <2>3 DEF Abstract!Serve
      <3> QED BY <1>3, <2>3, <3>1, ServeStep
    <2>4. CASE Abstract!Halt
      <3>1. CallPhase' = "halted" /\ errno' = errno BY <2>4 DEF Abstract!Halt
      <3> QED BY <1>2, <3>1, HaltStep
    <2> QED BY <1>1, <2>1, <2>2, <2>3, <2>4
  <1> QED BY <1>1, <1>4

LEMMA DevicesOK ==
  ASSUME SyscallInv, ProgramInv, Devices
  PROVE  SyscallInv' /\ UNCHANGED Abstract!vars /\ ProgramInv'
  <1>1. SyscallInv' /\ UNCHANGED Abstract!vars /\ UNCHANGED SeenByProgram BY DevicesSeen
  <1>2. UNCHANGED Observed BY DEF Devices, Observed, program, uhistory
  <1> QED BY <1>1, <1>2, SilentStep

LEMMA CheckErrorOK ==
  ASSUME SyscallInv, ProgramInv, CheckError
  PROVE  SyscallInv' /\ Abstract!Deliver /\ ProgramInv'
  <1>1. SyscallInv' /\ Abstract!Deliver BY CheckSeen DEF CheckError
  <1>2. UNCHANGED Observed BY DEF CheckError, Observed, program, uhistory
  <1> QED BY <1>1, <1>2, DeliverStepOK

LEMMA StutterOK ==
  ASSUME SyscallInv, ProgramInv, UNCHANGED allvars
  PROVE  SyscallInv' /\ UNCHANGED Abstract!vars /\ ProgramInv'
  <1>1. UNCHANGED vars /\ UNCHANGED Observed BY DEF allvars, Observed, program, uhistory
  <1>2. SyscallInv' /\ UNCHANGED Abstract!vars /\ UNCHANGED SeenByProgram BY <1>1, VarsSeen
  <1> QED BY <1>1, <1>2, SilentStep
---------------------------------------------------------------------------
(* The report of a page fault. *)
LEMMA ReportKept ==
  ASSUME FaultInv, fault' = fault, at' = at \/ at' # "page_fault_routine"
  PROVE  FaultInv'
  BY DEF FaultInv

(* Only print_page_fault leads to libzeos' routine. *)
LEMMA ReportEntered ==
  ASSUME KernelInv, KernelStep, at # "print_page_fault"
  PROVE  at' # "page_fault_routine"
  <1>1. CASE clock_iret \/ keyboard_iret
    <2>1. at \in ClockCode \cup KeyCode /\ at' = Head(stack).at
      BY <1>1 DEF clock_iret, keyboard_iret, iret, ClockCode, KeyCode
    <2>2. stack[1].at \in UserCode /\ stack[1] = Head(stack)
      BY <2>1 DEF KernelInv, TypeOK, NoNesting, ClockCode, KeyCode, FaultCode
    <2> QED BY <2>1, <2>2 DEF UserCode
  <1>2. CASE clock_handler \/ clock_routine \/ keyboard_routine \/ keyboard_printc_xy \/ keyboard_eoi
    BY <1>2 DEF clock_handler, clock_routine, keyboard_routine, keyboard_printc_xy,
                keyboard_eoi, Goto
  <1>3. CASE print_page_fault BY <1>3 DEF print_page_fault
  <1>4. CASE syscall_handler
    BY <1>4 DEF syscall_handler, Goto, sys_call_table
  <1>5. CASE sys_ni_syscall \/ sys_gettime \/ sys_write \/ sysenter_fin
    BY <1>5 DEF sys_ni_syscall, sys_gettime, sys_write, sysenter_fin, Return, Goto
  <1>6. CASE copy_from_user
    BY <1>6 DEF copy_from_user, PageFault, Enter, Goto
  <1>7. CASE sys_write_console
    BY <1>7 DEF sys_write_console, Return, Goto, cpu
  <1> QED BY <1>1, <1>2, <1>3, <1>4, <1>5, <1>6, <1>7 DEF KernelStep

LEMMA KernelRunsReport ==
  ASSUME KernelInv, FaultInv, KernelRuns PROVE FaultInv'
  <1>0. KernelStep BY DEF KernelRuns
  <1>1. CASE at = "print_page_fault"
    <2>1. PICK rest \in Junk : fault' = [fault EXCEPT !.text = fault_text(fault.eip, rest)]
      BY <1>1, Zenon DEF KernelRuns
    <2> DEFINE text == fault_text(fault.eip, rest)
    <2>2. fault' = [fault EXCEPT !.text = text] BY <2>1
    <2>3. fault = [eip |-> fault.eip, text |-> fault.text] BY DEF FaultInv
    <2> HIDE DEF text
    <2>4. fault' = [eip |-> fault.eip, text |-> text] BY <2>2, <2>3
    <2>5. fault'.eip = fault.eip /\ fault'.text = text BY <2>4
    <2>6. fault' = [eip |-> fault'.eip, text |-> fault'.text] BY <2>4, <2>5
    <2>7. \E junk \in Junk : fault'.text = fault_text(fault'.eip, junk)
      BY <2>1, <2>5 DEF text
    <2> QED BY <2>5, <2>6, <2>7, Zenon DEF FaultInv
  <1>2. CASE at # "print_page_fault"
    <2>1. at' # "page_fault_routine" BY <1>0, <1>2, ReportEntered
    <2>2. fault' = IF at' = "print_page_fault" THEN [fault EXCEPT !.eip = COPY_EIP] ELSE fault
      BY <1>2 DEF KernelRuns
    <2>3. CASE fault' = fault BY <2>1, <2>3, ReportKept
    <2>4. CASE fault' = [fault EXCEPT !.eip = COPY_EIP]
      <3>1. fault = [eip |-> fault.eip, text |-> fault.text] BY DEF FaultInv
      <3>2. fault' = [eip |-> COPY_EIP, text |-> fault.text] BY <2>4, <3>1
      <3>3. fault'.eip = COPY_EIP /\ fault' = [eip |-> fault'.eip, text |-> fault'.text] BY <3>2
      <3>4. IsInt(COPY_EIP) BY UserAssumption
      <3> QED BY <2>1, <3>3, <3>4, Zenon DEF FaultInv
    <2> QED BY <2>2, <2>3, <2>4
  <1> QED BY <1>1, <1>2

LEMMA strayReport == ASSUME FaultInv, stray PROVE FaultInv'
  <1>1. PICK eip \in Eips : fault' = [fault EXCEPT !.eip = eip] BY DEF stray
  <1>2. at' # "page_fault_routine" BY DEF stray, UserFault, PageFault, Enter
  <1>3. fault = [eip |-> fault.eip, text |-> fault.text] BY DEF FaultInv
  <1>4. fault' = [eip |-> eip, text |-> fault.text] BY <1>1, <1>3
  <1>5. fault'.eip = eip /\ fault' = [eip |-> fault'.eip, text |-> fault'.text] BY <1>4
  <1>6. IsInt(eip) BY UserAssumption
  <1> QED BY <1>2, <1>5, <1>6, Zenon DEF FaultInv

LEMMA CallReport ==
  ASSUME NEW nr, NEW fd, NEW buffer, NEW size, SYSCALL(nr, fd, buffer, size)
  PROVE  at' # "page_fault_routine"
  BY DEF SYSCALL

LEMMA OthersReport ==
  ASSUME FaultInv, Devices \/ Program \/ call_library \/ call_system \/ UNCHANGED allvars
  PROVE  FaultInv'
  <1>1. CASE Devices
    <2>1. fault' = fault BY <1>1 DEF Devices
    <2>2. at' = at \/ at' # "page_fault_routine"
      BY <1>1 DEF Devices, TimerPulse, KeyEvent, Deliver, Enter, cpu
    <2> QED BY <2>1, <2>2, ReportKept
  <1>2. CASE CheckError
    BY <1>2, ReportKept DEF CheckError, CHECK_ERROR, Goto
  <1>3. CASE Returned
    BY <1>3, ReportKept DEF Returned, UserResumes, Goto
  <1>4. CASE print \/ printchar
    <2>1. fault' = fault BY <1>4 DEF print, printchar
    <2>2. at' # "page_fault_routine" BY <1>4, CallReport DEF print, printchar, write
    <2> QED BY <2>1, <2>2, ReportKept
  <1>5. CASE UNCHANGED vars /\ fault' = fault
    BY <1>5, ReportKept DEF vars, cpu
  <1>6. CASE printint BY <1>5, <1>6 DEF printint
  <1>7. CASE println \/ printintln BY <1>5, <1>7 DEF println, printintln, Line, Quiet
  <1>8. CASE perror \/ printlntest BY <1>5, <1>8 DEF perror, printlntest, Quiet
  <1>9. CASE main_step
    <2>1. CASE \E fn, arg : Job(fn, arg) BY <1>5, <2>1 DEF Job
    <2>2. CASE perror_if_failed BY <1>5, <2>2 DEF perror_if_failed, Job, Quiet
    <2>3. CASE \E fd, buffer, size : write(fd, buffer, size) /\ Unobserved
      <3>1. at' # "page_fault_routine" BY <2>3, CallReport DEF write
      <3>2. fault' = fault BY <2>3 DEF Unobserved
      <3> QED BY <3>1, <3>2, ReportKept
    <2> QED BY <1>9, <2>1, <2>2, <2>3 DEF main_step
  <1>10. CASE use_result BY <1>5, <1>10 DEF use_result, Job, perror_if_failed, Quiet
  <1>11. CASE call_library BY <1>5, <1>11 DEF call_library, Job
  <1>12. CASE call_system
    <2>1. fault' = fault BY <1>12 DEF call_system, Unobserved
    <2>2. at' # "page_fault_routine"
      BY <1>12, CallReport DEF call_system, UserCall, gettime, write, other_call
    <2> QED BY <2>1, <2>2, ReportKept
  <1>13. CASE UNCHANGED allvars BY <1>5, <1>13 DEF allvars
  <1> QED BY <1>1, <1>2, <1>3, <1>4, <1>6, <1>7, <1>8, <1>9, <1>10, <1>11, <1>12, <1>13
          DEF Program
---------------------------------------------------------------------------
(* The inductive invariant of the program on the kernel. *)
LEMMA UserInitInv == UserInit => UserInv /\ Abstract!Init
  <1> SUFFICES ASSUME UserInit PROVE UserInv /\ Abstract!Init
    OBVIOUS
  <1>0. WHILE = 8 BY WhileIs
  <1>1. SyscallInv /\ Abstract!Init BY SyscallInit DEF UserInit
  <1> DEFINE f == Frame("main", 0)
  <1>2. f \in FrameSet /\ f.fn = "main" /\ f.pc = 0
    BY DEF Frame, FrameSet, Functions
  <1> HIDE DEF f
  <1>3. frames = <<f>> BY DEF UserInit, f
  <1>4. frames \in Seq(FrameSet) /\ Len(frames) = 1 /\ frames[1] = f /\ Top = f
    BY <1>2, <1>3 DEF Top
  <1>5. FrameOK(f) BY <1>0, <1>2 DEF FrameOK, Calls, ArgOK, Writers
  <1>6. StackOK
    <2>1. ASSUME NEW k \in 1 .. Len(frames)
          PROVE  FrameOK(frames[k]) /\ (frames[k].fn = "main" <=> k = Len(frames))
      <3>1. k = 1 BY <1>4
      <3> QED BY <1>2, <1>4, <1>5, <3>1
    <2>2. \A k \in 1 .. Len(frames) - 1 : Linked(frames[k], frames[k + 1], job, errno)
      BY <1>4
    <2> QED BY <1>4, <2>1, <2>2 DEF StackOK
  <1>7. BuffOK
    <2>1. itoa_buff = <<EndOfString>> BY DEF UserInit
    <2>2. itoa_buff \in Seq(Nat) /\ Len(itoa_buff) = 1 BY <2>1 DEF EndOfString
    <2>3. ASSUME NEW k \in 1 .. Len(frames) PROVE frames[k].fn # "printint"
      <3>1. k = 1 BY <1>4
      <3> QED BY <1>2, <1>4, <3>1
    <2> QED BY <2>2, <2>3 DEF BuffOK, ITOA_BUFF
  <1>8. JobOK /\ job.fn = "none" BY DEF UserInit, JobOK, NoJob
  <1>9. PhaseOK
    <2>1. CallPhase = "user" BY <1>1 DEF Abstract!Init
    <2>2. job.fn \notin Jobs BY <1>8 DEF Jobs
    <2>3. Top.pc \notin AfterCall /\ Top.pc # WHILE + 2 BY <1>0, <1>2, <1>4 DEF AfterCall
    <2>4. InMain BY <2>2, <2>3 DEF InMain
    <2>5. ~(1 > 1) OBVIOUS
    <2>6. ~(Len(frames) > 1) BY <1>4, <2>5, Zenon
    <2> QED BY <2>1, <2>4, <2>6 DEF PhaseOK
  <1>10. ProgramInv BY <1>6, <1>7, <1>8, <1>9 DEF ProgramInv, UserInit
  <1>11. FaultInv
    <2>1. at = "user" /\ fault = [eip |-> 0, text |-> <<>>] BY DEF UserInit, Init
    <2>2. fault.eip = 0 /\ fault.text = <<>> BY <2>1
    <2>3. IsInt(0) BY DEF IsInt, INT_MAX
    <2> QED BY <2>1, <2>2, <2>3 DEF FaultInv
  <1> QED BY <1>1, <1>10, <1>11 DEF UserInv

LEMMA UserNextInv ==
  ASSUME UserInv, [UserNext]_allvars PROVE UserInv' /\ [Abstract!Next]_Abstract!vars
  <1>0. SyscallInv /\ ProgramInv /\ FaultInv /\ KernelInv BY DEF UserInv, SyscallInv
  <1>1. FaultInv'
    BY <1>0, KernelRunsReport, strayReport, OthersReport DEF UserNext
  <1>2. CASE UNCHANGED allvars BY <1>0, <1>1, <1>2, StutterOK DEF UserInv
  <1>3. CASE Devices BY <1>0, <1>1, <1>3, DevicesOK DEF UserInv
  <1>4. CASE KernelRuns BY <1>0, <1>1, <1>4, KernelRunsOK DEF UserInv
  <1>5. CASE CheckError BY <1>0, <1>1, <1>5, CheckErrorOK DEF UserInv, Abstract!Next
  <1>6. CASE Returned BY <1>0, <1>1, <1>6, ReturnedOK DEF UserInv, Abstract!Next
  <1>7. CASE print \/ printchar BY <1>0, <1>1, <1>7, printOK DEF UserInv, Abstract!Next
  <1>8. CASE printint BY <1>0, <1>1, <1>8, printintOK DEF UserInv
  <1>9. CASE println \/ printintln
    BY <1>0, <1>1, <1>9, LineOK DEF println, printintln, UserInv
  <1>10. CASE perror BY <1>0, <1>1, <1>10, perrorOK DEF UserInv
  <1>11. CASE printlntest BY <1>0, <1>1, <1>11, printlntestOK DEF UserInv
  <1>12. CASE main_step BY <1>0, <1>1, <1>12, main_stepOK DEF UserInv, Abstract!Next
  <1>13. CASE use_result BY <1>0, <1>1, <1>13, use_resultOK DEF UserInv
  <1>14. CASE call_library BY <1>0, <1>1, <1>14, call_libraryOK DEF UserInv
  <1>15. CASE call_system BY <1>0, <1>1, <1>15, call_systemOK DEF UserInv, Abstract!Next
  <1>16. CASE stray BY <1>0, <1>1, <1>16, strayOK DEF UserInv, Abstract!Next
  <1> QED
    BY <1>2, <1>3, <1>4, <1>5, <1>6, <1>7, <1>8, <1>9, <1>10, <1>11, <1>12, <1>13, <1>14,
       <1>15, <1>16 DEF UserNext, Program
---------------------------------------------------------------------------
(* For every int, itoa stays inside the 11 bytes of printint's itoa_buff   *)
(* and ends its text with a NUL; of a number that is not negative the text *)
(* is the decimal numeral, without leading zeros, and of a negative one    *)
(* nothing.                                                                *)
THEOREM ItoaIsDecimal ==
  \A n \in Int : n <= INT_MAX =>
    /\ Len(itoa(n)) <= ITOA_BUFF /\ strlen(itoa(n)) = Len(itoa(n)) - 1
    /\ n >= 0 => Denotes(SubSeq(itoa(n), 1, strlen(itoa(n))), 10, n)
    /\ n < 0 => strlen(itoa(n)) = 0
  <1> SUFFICES ASSUME NEW n \in Int, n <= INT_MAX
               PROVE  /\ Len(itoa(n)) <= ITOA_BUFF /\ strlen(itoa(n)) = Len(itoa(n)) - 1
                      /\ n >= 0 => Denotes(SubSeq(itoa(n), 1, strlen(itoa(n))), 10, n)
                      /\ n < 0 => strlen(itoa(n)) = 0
    OBVIOUS
  <1>1. /\ Len(itoa(n)) <= ITOA_BUFF /\ strlen(itoa(n)) = Len(itoa(n)) - 1
        /\ n >= 0 => Denotes(Num(n), 10, n)
    BY ItoaFits
  <1>2. Num(n) = SubSeq(itoa(n), 1, strlen(itoa(n)))
    BY <1>1, Zenon DEF Num, TextOf
  <1>3. n < 0 => Len(itoa(n)) = 1
    <2>1. 10 \in Bases BY DEF Bases
    <2>2. n < 0 => itoa(n) = <<EndOfString>> BY <2>1, NumberWritten DEF itoa
    <2> QED BY <2>2
  <1>4. n < 0 => strlen(itoa(n)) = 0 BY <1>1, <1>3
  <1> QED BY <1>1, <1>2, <1>4, Zenon

(* The same of itox, in hexadecimal: it writes at most nine bytes for an   *)
(* int, so that the newline print_page_fault puts at buff[8] is never      *)
(* among the digits.                                                       *)
THEOREM ItoxIsHexadecimal ==
  \A eip \in Nat : eip <= INT_MAX =>
    /\ Len(itox(eip)) <= 9 /\ strlen(itox(eip)) = Len(itox(eip)) - 1
    /\ Denotes(SubSeq(itox(eip), 1, strlen(itox(eip))), 16, eip)
  <1> SUFFICES ASSUME NEW eip \in Nat, eip <= INT_MAX
               PROVE  /\ Len(itox(eip)) <= 9 /\ strlen(itox(eip)) = Len(itox(eip)) - 1
                      /\ Denotes(SubSeq(itox(eip), 1, strlen(itox(eip))), 16, eip)
    OBVIOUS
  <1>1. Len(itox(eip)) <= 9 BY ItoxFits
  <1>2. 16 \in Bases BY DEF Bases
  <1>3. Written(itox(eip), 16, eip) BY <1>2, NumberWritten DEF itox
  <1>4. /\ strlen(itox(eip)) = Len(itox(eip)) - 1
        /\ Denotes(TextOf(itox(eip)), 16, eip)
    BY <1>3 DEF Written
  <1> QED BY <1>1, <1>4, Zenon DEF TextOf
---------------------------------------------------------------------------
(* The inductive invariant of the program: what each function of libc on   *)
(* the stack has shown so far, what the system call in progress will       *)
(* answer it, and what is left of an error.                                *)
THEOREM UserInvariant == UserSpec => []UserInv
  BY UserInitInv, UserNextInv, PTL DEF UserSpec

(* main, the library and the faults make no call and take no interrupt     *)
(* that the kernel is not ready for: its invariant holds under them too.   *)
THEOREM KernelUnderProgram == UserSpec => [](KernelInv /\ CallServed)
  <1>1. UserInv => KernelInv /\ CallServed BY DEF UserInv, SyscallInv
  <1> QED BY <1>1, UserInvariant, PTL

(* The system calls the program and the library make are those of Syscalls.*)
THEOREM ProgramMakesSyscalls == UserSpec => ImplementsSyscalls
  BY UserInitInv, UserNextInv, UserInvariant, PTL
     DEF UserSpec, ImplementsSyscalls, Abstract!Spec

(* User.UserTypeOK: frames are of known functions, main is below them, and *)
(* itoa never writes past the end of itoa_buff.                            *)
THEOREM UserTypeCorrect == UserSpec => []UserTypeOK
  <1>1. ASSUME UserInv PROVE UserTypeOK
    <2>0. StackOK /\ BuffOK /\ ret \in Int BY <1>1 DEF UserInv, ProgramInv
    <2>1. ASSUME NEW k \in 1 .. Len(frames)
          PROVE  frames[k].fn \in Functions /\ frames[k].pc \in 0 .. WHILE + 5
      <3>1. FrameOK(frames[k]) BY <2>0 DEF StackOK
      <3>2. /\ frames[k].fn \in Functions /\ frames[k].pc \in Nat
            /\ frames[k].pc <= Calls(frames[k].fn)
        BY <3>1 DEF FrameOK, FrameSet
      <3>3. Calls(frames[k].fn) \in Nat /\ Calls(frames[k].fn) <= WHILE + 5 BY WhileIs DEF Calls
      <3>4. WHILE + 5 \in Nat BY WhileIs
      <3> QED BY <3>2, <3>3, <3>4
    <2>2. Len(frames) \in Nat /\ Len(frames) >= 1 /\ frames \in Seq(FrameSet)
      BY <2>0, StackFacts DEF StackOK
    <2>3. frames # <<>> BY <2>2
    <2>4. Len(frames) \in 1 .. Len(frames) BY <2>2
    <2>5. frames[Len(frames)].fn = "main" BY <2>0, <2>4 DEF StackOK
    <2>6. Len(itoa_buff) \in 1 .. ITOA_BUFF
      <3>1. /\ itoa_buff \in Seq(Nat) /\ Len(itoa_buff) >= 1 /\ Len(itoa_buff) <= ITOA_BUFF
        BY <2>0 DEF BuffOK
      <3>2. \A n \in Nat : n >= 1 /\ n <= 11 => n \in 1 .. 11 OBVIOUS
      <3>3. Len(itoa_buff) \in Nat BY <3>1
      <3> QED BY <3>1, <3>2, <3>3, Zenon DEF ITOA_BUFF
    <2> QED BY <2>0, <2>1, <2>3, <2>5, <2>6 DEF UserTypeOK
  <1> QED BY <1>1, UserInvariant, PTL

(* What main sees when it has called a function. *)
LEMMA Shown ==
  ASSUME UserInv, NEW fn \in Jobs, JobDone(fn)
  PROVE  /\ out = Whole([fn |-> fn, arg |-> job.arg], errno, <<>>)
         /\ fn \in Counted => ret = Len(out)
         /\ job.arg \in Int /\ ArgOK(fn, job.arg) /\ job.fn = fn /\ JobOK
         /\ fn = "print" => job.arg \in LiteralAt
  <1>1. SyscallInv /\ StackOK /\ JobOK /\ PhaseOK BY DEF UserInv, ProgramInv
  <1>2. at = "user" /\ Len(frames) = 1 /\ job.fn = fn BY DEF JobDone
  <1>3. CallPhase = "user"
    <2>1. at \in PlainCode /\ at \notin FaultCode BY <1>2 DEF PlainCode, UserCode, FaultCode
    <2> QED BY <1>1, <1>2, <2>1, Seen, PlainHere DEF SyscallInv, PhaseOf
  <1>4. InMain
    <2>0. ~(1 > 1) OBVIOUS
    <2>1. ~(Len(frames) > 1) BY <1>2, <2>0, Zenon
    <2> QED BY <1>1, <1>3, <2>1 DEF PhaseOK
  <1>5. out = JobShows(job, errno) /\ (fn \in Counted => ret = Len(out)) BY <1>2, <1>4 DEF InMain
  <1>6. fn # "none" BY DEF Jobs
  <1>7. job.arg \in Int /\ ArgOK(fn, job.arg) /\ (fn = "print" => job.arg \in LiteralAt)
    BY <1>1, <1>2, <1>6 DEF JobOK
  <1> QED BY <1>1, <1>2, <1>5, <1>7 DEF JobShows

(* What the lines show in all. *)
LEMMA LineWhole ==
  ASSUME NEW f, NEW e
  PROVE  /\ f.fn = "println" => Whole(f, e, <<>>) = LinePart(Content(f.arg), 2)
         /\ f.fn = "printintln" => Whole(f, e, <<>>) = LinePart(Num(f.arg), 2)
         /\ f.fn = "printlntest" => Whole(f, e, <<>>) = TestPart(f.arg, 4)
  <1>1. f.fn \in {"println", "printintln", "printlntest"} =>
          Whole(f, e, <<>>) = Part(f, Calls(f.fn), e)
    BY DEF Whole, Writers
  <1>2. CASE f.fn = "println"
    <2>1. Calls(f.fn) = 2 BY <1>2, CallsOf
    <2>2. \A k : Part(f, k, e) = LinePart(Content(f.arg), k) BY <1>2, PartOf
    <2> QED BY <1>1, <1>2, <2>1, <2>2
  <1>3. CASE f.fn = "printintln"
    <2>1. Calls(f.fn) = 2 BY <1>3, CallsOf
    <2>2. \A k : Part(f, k, e) = LinePart(Num(f.arg), k) BY <1>3, PartOf
    <2> QED BY <1>1, <1>3, <2>1, <2>2
  <1>4. CASE f.fn = "printlntest"
    <2>1. Calls(f.fn) = 4 BY <1>4, CallsOf
    <2>2. \A k : Part(f, k, e) = TestPart(f.arg, k) BY <1>4, PartOf
    <2> QED BY <1>1, <1>4, <2>1, <2>2
  <1> QED BY <1>2, <1>3, <1>4

LEMMA Middle ==
  ASSUME NEW s \in Seq(Nat), NEW t \in Seq(Nat), NEW u \in Seq(Nat)
  PROVE  Inside((s \o t) \o u, Len(s), Len(u)) = t
  <1> DEFINE all == (s \o t) \o u
             p == SubSeq(all, Len(s) + 1, Len(all) - Len(u))
  <1>1. /\ all \in Seq(Nat) /\ Len(all) = Len(s) + Len(t) + Len(u)
        /\ \A k \in 1 .. Len(t) : all[Len(s) + k] = t[k]
    OBVIOUS
  <1>2. Len(s) \in Nat /\ Len(t) \in Nat /\ Len(u) \in Nat OBVIOUS
  <1> HIDE DEF all
  <1> DEFINE m == Len(s) + 1
             n == Len(s) + Len(t)
  <1>3. /\ p \in Seq(Nat) /\ Len(p) = Len(t)
        /\ \A k \in 1 .. Len(p) : p[k] = all[Len(s) + k]
    <2>1. p = SubSeq(all, m, n) /\ m \in Nat /\ n \in Nat BY <1>1, <1>2
    <2>2. \A k \in m .. n : all[k] \in Nat
      <3>1. \A k \in m .. n : k \in 1 .. Len(all) BY <1>1, <1>2
      <3> QED BY <1>1, <3>1, ElementOfSeq
    <2>3. n - m + 1 = Len(t) /\ (m <= n \/ Len(t) = 0) /\ \A k \in Nat : m + k - 1 = Len(s) + k
      BY <1>2
    <2> HIDE DEF p, m, n
    <2>4. /\ SubSeq(all, m, n) \in Seq(Nat)
          /\ Len(SubSeq(all, m, n)) = IF m <= n THEN n - m + 1 ELSE 0
          /\ \A k \in 1 .. n - m + 1 : SubSeq(all, m, n)[k] = all[m + k - 1]
      BY <2>1, <2>2, SubSeqProperties
    <2>8. p \in Seq(Nat) /\ Len(p) = Len(t) BY <2>1, <2>3, <2>4, Zenon
    <2>9. \A k \in 1 .. Len(t) : p[k] = all[Len(s) + k]
      <3>1. \A k \in 1 .. Len(t) : p[k] = all[m + k - 1] BY <2>1, <2>3, <2>4, Zenon
      <3>2. \A k \in 1 .. Len(t) : k \in Nat BY <1>2
      <3> QED BY <2>3, <3>1, <3>2, Zenon
    <2> QED BY <2>8, <2>9
  <1> HIDE DEF p
  <1>4. p = t BY <1>1, <1>3, SeqEqual
  <1> QED BY <1>4 DEF Inside, p, all

LEMMA NewlineLast ==
  ASSUME NEW s \in Seq(Nat)
  PROVE  LET line == s \o <<NEWLINE>>
         IN /\ line = Append(s, NEWLINE) /\ line[Len(line)] = NEWLINE
            /\ Inside(line, 0, 1) = s
  <1> DEFINE nl == <<NEWLINE>>
             line == s \o nl
  <1>1. nl \in Seq(Nat) /\ Len(nl) = 1 /\ nl[1] = NEWLINE BY DEF NEWLINE
  <1>2. line = Append(s, NEWLINE) BY DEF NEWLINE
  <1>3. line[Len(line)] = NEWLINE 
    <2>1. NEWLINE \in Nat BY DEF NEWLINE
    <2> HIDE DEF line
    <2>2. Len(line) = Len(s) + 1 /\ line[Len(s) + 1] = NEWLINE BY <1>2, <2>1, AppendProperties
    <2> QED BY <2>2
  <1> HIDE DEF nl
  <1>4. Inside(line, 0, 1) = s
    <2> DEFINE e == <<>>
    <2>1. e \in Seq(Nat) /\ Len(e) = 0 /\ e \o s = s BY NoText
    <2> HIDE DEF e
    <2>2. Inside((e \o s) \o nl, Len(e), Len(nl)) = s BY <1>1, <2>1, Middle
    <2> QED BY <1>1, <2>1, <2>2, Zenon
  <1> QED BY <1>2, <1>3, <1>4 DEF nl

(* User.LibraryPrints: whatever interrupts come in between, a function of  *)
(* libc shows all of its text, numbers in decimal, and nothing else, and   *)
(* returns the number of bytes it has shown.                               *)
THEOREM LibraryIsCorrect == UserSpec => []LibraryPrints
  <1>1. ASSUME UserInv PROVE LibraryPrints
    <2>1. ASSUME JobDone("print") PROVE out = Bytes(job.arg)
      <3>1. job.arg \in LiteralAt /\ out = Whole([fn |-> "print", arg |-> job.arg], errno, <<>>)
        BY <1>1, <2>1, Shown DEF Jobs
      <3>2. job.arg # ITOA_AT /\ Bytes(job.arg) = Content(job.arg) BY <3>1, LiteralPlace, ContentOf
      <3>3. out = Content(job.arg) BY <3>1, <3>2 DEF Whole, Said, Writers
      <3> QED BY <3>2, <3>3
    <2>2. ASSUME JobDone("println") PROVE out = Append(Bytes(job.arg), NEWLINE)
      <3> DEFINE f == [fn |-> "println", arg |-> job.arg]
      <3>1. ArgOK("println", job.arg) /\ out = Whole(f, errno, <<>>)
        BY <1>1, <2>2, Shown DEF Jobs
      <3>2. job.arg \in LiteralAt BY <3>1 DEF ArgOK
      <3>3. Bytes(job.arg) = Content(job.arg) /\ Content(job.arg) \in Seq(Nat) BY <3>2, ContentOf
      <3>4. f.fn = "println" /\ f.arg = job.arg OBVIOUS
      <3> HIDE DEF f
      <3>5. out = LinePart(Content(job.arg), 2) BY <3>1, <3>4, LineWhole
      <3>6. out = Content(job.arg) \o <<NEWLINE>> BY <3>5, LineParts
      <3> QED BY <3>3, <3>6, NewlineLast
    <2>3. ASSUME JobDone("printint"), job.arg >= 0 PROVE Denotes(out, 10, job.arg)
      <3> DEFINE f == [fn |-> "printint", arg |-> job.arg]
      <3>1. ArgOK("printint", job.arg) /\ job.arg \in Int /\ out = Whole(f, errno, <<>>)
        BY <1>1, <2>3, Shown DEF Jobs
      <3>2. job.arg <= INT_MAX BY <3>1 DEF ArgOK
      <3>3. f.fn = "printint" /\ f.arg = job.arg OBVIOUS
      <3> HIDE DEF f
      <3>4. out = Num(job.arg) BY <3>1, <3>3, PartOf, CallsOf DEF Whole, Writers
      <3> QED BY <2>3, <3>1, <3>2, <3>4, ItoaFits
    <2>4. ASSUME JobDone("printintln"), job.arg >= 0
          PROVE  Denotes(Inside(out, 0, 1), 10, job.arg) /\ out[Len(out)] = NEWLINE
      <3> DEFINE f == [fn |-> "printintln", arg |-> job.arg]
      <3>1. ArgOK("printintln", job.arg) /\ job.arg \in Int /\ out = Whole(f, errno, <<>>)
        BY <1>1, <2>4, Shown DEF Jobs
      <3>2. job.arg <= INT_MAX BY <3>1 DEF ArgOK
      <3>3. f.fn = "printintln" /\ f.arg = job.arg OBVIOUS
      <3> HIDE DEF f
      <3>4. out = LinePart(Num(job.arg), 2) BY <3>1, <3>3, LineWhole
      <3>5. out = Num(job.arg) \o <<NEWLINE>> BY <3>4, LineParts
      <3>6. Num(job.arg) \in Seq(Nat) /\ Denotes(Num(job.arg), 10, job.arg)
        BY <2>4, <3>1, <3>2, ItoaFits
      <3>7. Inside(out, 0, 1) = Num(job.arg) /\ out[Len(out)] = NEWLINE BY <3>5, <3>6, NewlineLast
      <3> QED BY <3>6, <3>7
    <2>5. ASSUME JobDone("printlntest")
          PROVE  LET text == Bytes(job.arg)
                     number == Inside(out, Len(text) + Len(Parenthesis), Len(Trailer))
                 IN /\ out = text \o Parenthesis \o number \o Trailer
                    /\ Denotes(number, 10, Len(text))
      <3> DEFINE f == [fn |-> "printlntest", arg |-> job.arg]
                 a == job.arg
                 n == LengthAt(a)
                 open == Literal(" (")
                 close == Literal(" bytes)")
      <3>0. open \in LiteralAt /\ close \in LiteralAt BY LiteralOf DEF Strings
      <3>1. ArgOK("printlntest", a) /\ out = Whole(f, errno, <<>>)
        BY <1>1, <2>5, Shown DEF Jobs
      <3>2. a \in LiteralAt BY <3>1 DEF ArgOK
      <3>3. f.fn = "printlntest" /\ f.arg = a OBVIOUS
      <3>4. Parenthesis = Bytes(open) /\ Trailer = Bytes(close) \o <<NEWLINE>>
        BY DEF Parenthesis, Trailer
      <3>5. TestPart(a, 4) = ((Content(a) \o Content(open)) \o Num(n)) \o LinePart(Content(close), 2)
        BY TestParts, Zenon
      <3> HIDE DEF f, open, close
      <3>6. out = TestPart(a, 4) BY <3>1, <3>3, LineWhole
      <3>7. /\ Content(a) \in Seq(Nat) /\ Len(Content(a)) = n /\ Bytes(a) = Content(a)
            /\ Content(open) \in Seq(Nat) /\ Bytes(open) = Content(open)
            /\ Content(close) \in Seq(Nat) /\ Bytes(close) = Content(close)
        BY <3>0, <3>2, ContentOf
      <3>8. n \in Nat /\ n <= INT_MAX BY <3>2, LiteralPlace
      <3>9. Num(n) \in Seq(Nat) /\ Denotes(Num(n), 10, n) BY <3>8, ItoaFits
      <3> DEFINE s == Bytes(a) \o Parenthesis
                 u == Trailer
                 t == Num(n)
      <3>10. s \in Seq(Nat) /\ Len(s) = Len(Bytes(a)) + Len(Parenthesis)
        BY <3>4, <3>7, Joined
      <3>11. u = LinePart(Content(close), 2) /\ u \in Seq(Nat)
        <4>1. u = Content(close) \o <<NEWLINE>> BY <3>4, <3>7
        <4>2. u = LinePart(Content(close), 2) BY <4>1, LineParts, Zenon
        <4>3. LinePart(Content(close), 2) \in Seq(Nat) BY <3>7, LineType
        <4> QED BY <4>2, <4>3
      <3>12. out = (s \o t) \o u BY <3>4, <3>5, <3>6, <3>7, <3>11
      <3> HIDE DEF s, t, u, n
      <3>13. Inside(out, Len(s), Len(u)) = t BY <3>9, <3>10, <3>11, <3>12, Middle DEF t
      <3>14. Denotes(t, 10, Len(Bytes(a))) BY <3>7, <3>9 DEF t
      <3>15. Inside(out, Len(Bytes(a)) + Len(Parenthesis), Len(Trailer)) = t
        BY <3>10, <3>13, Zenon DEF u
      <3>16. out = Bytes(a) \o Parenthesis \o t \o Trailer BY <3>12, Zenon DEF s, u
      <3> QED BY <3>14, <3>15, <3>16, Zenon
    <2>6. ASSUME NEW fn \in {"print", "println", "printint", "printintln"}, JobDone(fn)
          PROVE  ret = Len(out)
      BY <1>1, <2>6, Shown DEF Jobs, Counted
    <2> QED BY <2>1, <2>2, <2>3, <2>4, <2>5, <2>6, Zenon DEF LibraryPrints
  <1> QED BY <1>1, UserInvariant, PTL

LEMMA NegNeg == \A x \in Int : -(-x) = x
  OBVIOUS

(* User.PerrorExplains: perror after a write the kernel refused shows the  *)
(* message of that error.                                                  *)
THEOREM PerrorIsCorrect == UserSpec => []PerrorExplains
  <1>1. ASSUME UserInv PROVE PerrorExplains
    <2> SUFFICES ASSUME JobDone("perror"), job.after.nr = NR_WRITE
                 PROVE  \E e \in ErrorTexts :
                          /\ job.after.value = -e[1]
                          /\ out = Append(Bytes(Literal(e[2])), NEWLINE)
      BY DEF PerrorExplains
    <2> DEFINE f == [fn |-> "perror", arg |-> job.arg]
               m == errno_message(errno)
    <2>1. JobOK /\ job.fn = "perror" /\ out = Whole(f, errno, <<>>) BY <1>1, Shown DEF Jobs
    <2>2. errno = -job.after.value /\ job.after.value \in Refusals BY <2>1 DEF JobOK
    <2>3. f.fn = "perror" OBVIOUS
    <2> HIDE DEF f
    <2>4. out = LinePart(Content(m), 2) BY <2>1, <2>3, PartOf, CallsOf DEF Whole, Writers
    <2>5. m \in LiteralAt BY MessageOf
    <2>6. Bytes(m) = Content(m) /\ Content(m) \in Seq(Nat) BY <2>5, ContentOf
    <2>7. out = Append(Bytes(m), NEWLINE) BY <2>4, <2>6, LineParts, NewlineLast
    <2>8. PICK e \in ErrorTexts : job.after.value = -e[1] /\ m = Literal(e[2])
      <3>0. /\ EBADF = 9 /\ EACCES = 13 /\ EFAULT = 14 /\ EINVAL = 22 /\ ENOSYS = 38
        BY DEF EBADF, EACCES, EFAULT, EINVAL, ENOSYS
      <3> DEFINE v == job.after.value
      <3>1. CASE v = -EBADF
        <4>0. EBADF \in Int BY <3>0
        <4>1. -(-EBADF) = EBADF BY <4>0, NegNeg, Zenon
        <4>2. errno = EBADF BY <2>2, <3>1, <4>1, Zenon
        <4>3. EBADF # EACCES /\ EBADF # EFAULT /\ EBADF # EINVAL /\ EBADF # ENOSYS BY <3>0
        <4>4. m = Literal("Bad file number") BY <4>2, <4>3, Zenon DEF errno_message
        <4>5. <<EBADF, "Bad file number">> \in ErrorTexts BY Zenon DEF ErrorTexts
        <4> QED BY <3>1, <4>4, <4>5, Zenon
      <3>2. CASE v = -EFAULT
        <4>0. EFAULT \in Int BY <3>0
        <4>1. -(-EFAULT) = EFAULT BY <4>0, NegNeg, Zenon
        <4>2. errno = EFAULT BY <2>2, <3>2, <4>1, Zenon
        <4>3. EFAULT # EBADF /\ EFAULT # EACCES /\ EFAULT # EINVAL /\ EFAULT # ENOSYS BY <3>0
        <4>4. m = Literal("Bad address") BY <4>2, <4>3, Zenon DEF errno_message
        <4>5. <<EFAULT, "Bad address">> \in ErrorTexts BY Zenon DEF ErrorTexts
        <4> QED BY <3>2, <4>4, <4>5, Zenon
      <3>3. CASE v = -EINVAL
        <4>0. EINVAL \in Int BY <3>0
        <4>1. -(-EINVAL) = EINVAL BY <4>0, NegNeg, Zenon
        <4>2. errno = EINVAL BY <2>2, <3>3, <4>1, Zenon
        <4>3. EINVAL # EBADF /\ EINVAL # EACCES /\ EINVAL # EFAULT /\ EINVAL # ENOSYS BY <3>0
        <4>4. m = Literal("Invalid argument") BY <4>2, <4>3, Zenon DEF errno_message
        <4>5. <<EINVAL, "Invalid argument">> \in ErrorTexts BY Zenon DEF ErrorTexts
        <4> QED BY <3>3, <4>4, <4>5, Zenon
      <3> QED BY <2>2, <3>1, <3>2, <3>3 DEF Refusals
    <2>9. Bytes(m) = Bytes(Literal(e[2])) BY <2>8
    <2> QED BY <2>7, <2>8, <2>9
  <1> QED BY <1>1, UserInvariant, PTL

(* User.FaultReported: the report of a page fault shows the faulting       *)
(* address in hexadecimal, for every address itox takes for a positive     *)
(* int, and whatever lies behind print_page_fault's buff.                  *)
THEOREM FaultsAreReported == UserSpec => []FaultReported
  <1>1. ASSUME UserInv PROVE FaultReported
    <2> SUFFICES ASSUME at = "page_fault_routine", fault.eip >= 0
                 PROVE  Shows8(fault.text, fault.eip)
      BY Zenon DEF FaultReported, Shows8
    <2>1. IsInt(fault.eip) /\ \E rest \in Junk : fault.text = fault_text(fault.eip, rest)
      BY <1>1 DEF UserInv, FaultInv
    <2>2. PICK rest \in Junk : fault.text = fault_text(fault.eip, rest) BY <2>1
    <2>3. rest \in Seq(Nat) BY UserAssumption
    <2>4. fault.eip \in Int /\ fault.eip <= INT_MAX BY <2>1 DEF IsInt
    <2>5. Shows8(fault_text(fault.eip, rest), fault.eip) BY <2>3, <2>4, FaultText
    <2> QED BY <2>2, <2>5
  <1> QED BY <1>1, UserInvariant, PTL
===========================================================================
