-------------------------------- MODULE Build -----------------------------
(***************************************************************************)
(* build.c, which runs on the host and makes the diskette image zeos.bin   *)
(* from the boot sector, the system and the user program: it copies the    *)
(* three files to stdout in pieces of BUF bytes, then goes back and writes *)
(* four numbers over what it has written.  Every call of the host's libc   *)
(* may fail, a write also after part of its bytes; build then dies.        *)
(*                                                                         *)
(* A byte of a file is named by its place in the file, so that it can be   *)
(* told from any other; a byte of a number is a digit in base BYTE.        *)
(***************************************************************************)
EXTENDS Integers, Sequences

CONSTANTS BYTE,        \* values of a byte (256)
          SECTOR,      \* bytes of the boot sector (512)
          BUF,         \* sizeof(buf) (1024)
          PARA,        \* bytes of a paragraph (16)
          IM_SIZE_AT,  \* offset of syssize in the boot sector (500)
          RDTR,        \* the word return_gate stores on the user's stack (0x7E6A)
          Files,       \* <<length of system, length of user>>
          BootFiles    \* [header |-> Minix header is right, len, flag |-> ends in 55 AA]

VARIABLES build_pc,    \* the next part of main, or how build has ended
          bootfile, sys_size, usr_size,
          sz,          \* bytes of the current file still to copy
          stdout       \* the image so far

buildvars == <<build_pc, bootfile, sys_size, usr_size, sz, stdout>>

boot_byte(k) == 10000 + k
sys_byte(k)  == 20000 + k
usr_byte(k)  == 30000 + k

BuildInit ==
  /\ build_pc = "boot_sector"
  /\ bootfile \in BootFiles
  /\ \E f \in Files : sys_size = f[1] /\ usr_size = f[2]
  /\ sz = 0 /\ stdout = <<>>
---------------------------------------------------------------------------
die == build_pc' = "exit_1"

(* The bytes written at an offset, over those that are there. *)
Overlay(offset, bytes) ==
  LET end == offset + Len(bytes)
  IN [k \in 1 .. (IF end > Len(stdout) THEN end ELSE Len(stdout)) |->
        IF k > offset /\ k <= end THEN bytes[k - offset] ELSE stdout[k]]

(* write(1, buf, l) != l: all the bytes, or some of them and die. *)
Write(offset, bytes, next) ==
  \/ /\ stdout' = Overlay(offset, bytes) /\ build_pc' = next
  \/ /\ stdout' = Overlay(offset, SubSeq(bytes, 1, Len(bytes) \div 2)) /\ die

(* open may fail; the header must be that of an a.out with text only. *)
minix_open == bootfile.header

(* buf[508] = minor_root; buf[509] = major_root; both are 0. *)
root_device == {SECTOR - 4, SECTOR - 3}
BootSector == [k \in 1 .. SECTOR |-> IF k - 1 \in root_device THEN 0 ELSE boot_byte(k - 1)]

boot_sector ==
  /\ build_pc = "boot_sector"
  /\ \/ /\ minix_open /\ bootfile.len = SECTOR /\ bootfile.flag
        /\ Write(0, BootSector, "open_system")
     \/ die /\ UNCHANGED stdout
  /\ UNCHANGED <<bootfile, sys_size, usr_size, sz>>

(* open and fstat, either of which may fail. *)
open(part, next, size) ==
  /\ build_pc = part
  /\ build_pc' \in {next, "exit_1"}
  /\ sz' = size
  /\ UNCHANGED <<bootfile, sys_size, usr_size, stdout>>

piece_whole_buf == BUF
piece == IF sz > BUF THEN BUF ELSE sz

(* One turn of the loop; the file's bytes are named from first on. *)
copy(part, next, size, first) ==
  /\ build_pc = part
  /\ IF sz = 0 THEN build_pc' = next /\ UNCHANGED <<sz, stdout>>
     ELSE /\ \/ Write(Len(stdout), [k \in 1 .. piece |-> first + size - sz + k - 1], part)
             \/ die /\ UNCHANGED stdout      \* read(fd, buf, l) != l
          /\ sz' = sz - piece
  /\ UNCHANGED <<bootfile, sys_size, usr_size>>

open_system == open("open_system", "copy_system", sys_size)
copy_system == copy("copy_system", "open_user", sys_size, sys_byte(0))
open_user == open("open_user", "copy_user", usr_size)
copy_user == copy("copy_user", "image_length", usr_size, usr_byte(0))

(* The low bytes of a number, the lowest first. *)
digit(n, unit) == (n \div unit) % BYTE
word(n) == <<digit(n, 1), digit(n, BYTE)>>
dword(n) == <<digit(n, 1), digit(n, BYTE), digit(n, BYTE * BYTE), 0>>
im_size == (sys_size + usr_size + PARA - 1) \div PARA

(* lseek to where the number goes, and write it. *)
patch(part, next, offset, bytes) ==
  /\ build_pc = part
  /\ Write(offset, bytes, next) \/ (die /\ UNCHANGED stdout)
  /\ UNCHANGED <<bootfile, sys_size, usr_size, sz>>

usr_size_at_code == SECTOR + 12
usr_size_at == SECTOR + 4
image_length == patch("image_length", "system_length", IM_SIZE_AT, word(im_size))
system_length == patch("system_length", "user_length", SECTOR, dword(sys_size))
user_length == patch("user_length", "rdtr", usr_size_at, dword(usr_size))
rdtr == patch("rdtr", "exit_0", SECTOR + 8, dword(RDTR))

BuildNext ==
  \/ boot_sector \/ open_system \/ copy_system \/ open_user \/ copy_user
  \/ image_length \/ system_length \/ user_length \/ rdtr
---------------------------------------------------------------------------
(* The first bytes of the system, which system.lds keeps for the numbers. *)
RESERVED == 12

(* build says it has succeeded only if the image is whole: the boot sector *)
(* with the length, then all of the system but its reserved bytes, then    *)
(* all of the user program, whatever the sizes are to BUF and whichever    *)
(* call failed.                                                            *)
ImageComplete ==
  build_pc = "exit_0" =>
    /\ Len(stdout) = SECTOR + sys_size + usr_size
    /\ \A k \in 0 .. SECTOR - 1 :
         stdout[k + 1] = IF k \in {IM_SIZE_AT, IM_SIZE_AT + 1}
                           THEN word(im_size)[k - IM_SIZE_AT + 1] ELSE BootSector[k + 1]
    /\ \A k \in RESERVED .. sys_size - 1 : stdout[SECTOR + k + 1] = sys_byte(k)
    /\ \A k \in 0 .. usr_size - 1 : stdout[SECTOR + sys_size + k + 1] = usr_byte(k)
===========================================================================
