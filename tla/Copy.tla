-------------------------------- MODULE Copy ------------------------------
(***************************************************************************)
(* The loop copy_data, copy_from_user and copy_to_user of utils.c share:   *)
(* words of four bytes while more than four are left, then single bytes.   *)
(* Bytes are named by their offset from start: copied[k + 1] is the one    *)
(* that dest + k received.                                                 *)
(***************************************************************************)
EXTENDS Integers, Sequences

DWORD == 4       \* sizeof(DWord)

VARIABLES copied, size
copyvars == <<copied, size>>

copy_begin(n) == copied' = <<>> /\ size' = n

(* *q++ = *p++; size -= 4 *)
Take(n) ==
  /\ copied' = copied \o [k \in 1 .. n |-> Len(copied) + k - 1]
  /\ size' = size - n

copy_words_all == size > 0 /\ Take(DWORD)
copy_words == size > DWORD /\ Take(DWORD)
copy_bytes == size <= DWORD /\ size > 0 /\ Take(1)
copy_data == copy_words \/ copy_bytes
copy_done == size <= 0

(* After every step the bytes copied are the first of the block, in order, *)
(* and with those that are left they make n; at the end none is missing    *)
(* and none was written past the block.                                    *)
CopiedPrefix(n) ==
  /\ copied = [k \in 1 .. Len(copied) |-> k - 1]
  /\ size >= 0 /\ Len(copied) + size = n
===========================================================================
