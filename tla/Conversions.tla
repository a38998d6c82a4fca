---------------------------- MODULE Conversions ---------------------------
(***************************************************************************)
(* Numbers to text: itoa of libc.c (__itoa of io.c is the same code), itox *)
(* of utils.c, and the text print_page_fault of interrupt.c builds.        *)
(*                                                                         *)
(* Characters are their ASCII codes.  A char array is the sequence of the  *)
(* bytes the code has written to it; its byte b[i] is element i + 1.       *)
(***************************************************************************)
EXTENDS Integers, Sequences

EndOfString == 0
NEWLINE == 10
CHAR_0 == 48
CHAR_9 == 57
CHAR_A == 65

(* b[i]=(a%16)+'0'; if (b[i] > '9') b[i] = b[i] - ('9'+1) + 'A'; *)
digit_char_no_letters(d) == d + CHAR_0
digit_char(d) ==
  IF d + CHAR_0 > CHAR_9 THEN d + CHAR_0 - (CHAR_9 + 1) + CHAR_A ELSE d + CHAR_0

(* while (a>0): the last digit first; nothing for a negative number. *)
digits(a, base) ==
  LET loop[n \in Int] ==
        IF n > 0 THEN <<digit_char(n % base)>> \o loop[n \div base] ELSE <<>>
  IN loop[a]

(* for (i1=0; i1<i/2; i1++): b[i1] and b[i-i1-1] change places. *)
swap_ends_short(b) ==
  LET i == Len(b)
      swapped == {k \in 1 .. i : k < i \div 2 \/ i + 1 - k < i \div 2}
  IN [k \in 1 .. i |-> IF k \in swapped THEN b[i + 1 - k] ELSE b[k]]
swap_ends(b) ==
  LET i == Len(b)
      swapped == {k \in 1 .. i : k <= i \div 2 \/ i + 1 - k <= i \div 2}
  IN [k \in 1 .. i |-> IF k \in swapped THEN b[i + 1 - k] ELSE b[k]]

Number(a, base) ==
  IF a = 0 THEN <<CHAR_0, EndOfString>>
           ELSE Append(swap_ends(digits(a, base)), EndOfString)
itoa(a) == Number(a, 10)
itox(a) == Number(a, 16)

strlen(b) == (CHOOSE k \in 1 .. Len(b) : /\ b[k] = EndOfString
                                         /\ \A j \in 1 .. k - 1 : b[j] # EndOfString) - 1

(* print_page_fault: buff[8] = '\n' lands behind the end of a number of up *)
(* to seven digits, which printk does not reach, and on the end of one of  *)
(* eight: printk then goes on with the bytes that lie after it, rest.      *)
fault_text(eip, rest) ==
  LET buff == itox(eip)
  IN IF Len(buff) = 9 THEN SubSeq(buff, 1, 8) \o <<NEWLINE>> \o rest
                      ELSE SubSeq(buff, 1, strlen(buff))
---------------------------------------------------------------------------
(* Reference: the number a text denotes, by the positions of its digits. *)
DigitValue(ch) == IF ch <= CHAR_9 THEN ch - CHAR_0 ELSE ch - CHAR_A + 10
DigitChars(base) == {ch \in CHAR_0 .. CHAR_9 \cup CHAR_A .. CHAR_A + 5 : DigitValue(ch) < base}
Value(text, base) ==
  LET v[k \in 0 .. Len(text)] ==
        IF k = 0 THEN 0 ELSE v[k - 1] * base + DigitValue(text[k])
  IN v[Len(text)]
Denotes(text, base, n) ==
  /\ text # <<>> /\ \A k \in 1 .. Len(text) : text[k] \in DigitChars(base)
  /\ text[1] = CHAR_0 => Len(text) = 1
  /\ Value(text, base) = n
===========================================================================
