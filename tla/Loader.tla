------------------------------- MODULE Loader -----------------------------
(***************************************************************************)
(* The boot sector's loader: read_it and read_track of bootsect.S, which   *)
(* bring the image build.c lays out from sector 1 of the diskette to       *)
(* address 0x10000 with as few BIOS calls as it can.  The image length     *)
(* comes with the diskette: Image sets syssize and image when it boots.    *)
(*                                                                         *)
(* Memory, bx and the diskette are counted in sectors of 512 bytes: bx is  *)
(* always a multiple of one.  16-bit arithmetic on bx wraps at SEGMENT     *)
(* sectors (64 kB), es advances by one segment at a time.  The BIOS is     *)
(* external: int 0x13 copies the sectors it is asked for or, when it fails, *)
(* the first of them.                                                      *)
(***************************************************************************)
EXTENDS Integers

CONSTANTS SECTORS,      \* sectors per track (SEC_PISTA)
          SEGMENT,      \* sectors in 64 kB (128)
          PARAGRAPHS,   \* paragraphs of 16 bytes in a sector (32)
          LOADER_AT,    \* sectors from 0x10000 to the loader at 0x90000
          WORD          \* values of the 16-bit word syssize (2^16)

ASSUME LoaderAssumption ==
  /\ SECTORS \in Nat /\ SECTORS > 1 /\ SEGMENT \in Nat /\ SECTORS <= SEGMENT
  /\ PARAGRAPHS \in Nat \ {0} /\ WORD \in Nat \ {0}
  /\ LOADER_AT \in Nat /\ LOADER_AT % SEGMENT = 0

VARIABLES
  pc,                  \* the part of read_it that comes next
  seg,                 \* (es - SYSSEG) / 0x1000
  bx, ax,              \* offset in the segment; sectors to read
  sread, head, track,
  syssize,             \* word at offset 500 of the boot sector
  image,               \* History: real length of the image, in paragraphs
  memory               \* sector of the diskette at each place from 0x10000 on

vars == <<pc, seg, bx, ax, sread, head, track, syssize, image, memory>>

(* setup_sects + 1: the first sector of the image follows the boot sector. *)
SETUPSECS == 0
LoaderInit ==
  /\ pc = "rp_read"
  /\ seg = 0 /\ bx = 0 /\ ax = 0
  /\ sread = SETUPSECS + 1 /\ head = 0 /\ track = 0
  /\ image = 0 /\ syssize = 0
  /\ memory = [a \in {} |-> 0]
---------------------------------------------------------------------------
segments_loaded_one_less == (seg + 1) * SEGMENT * PARAGRAPHS > syssize

(* sub ax,#SYSSEG; cmp ax,syssize; jbe: a segment is 0x1000 paragraphs. *)
segments_loaded == seg * SEGMENT * PARAGRAPHS > syssize

sectors_to_read_track == SECTORS - sread
sectors_to_read_none ==
  IF SECTORS - sread + bx <= SEGMENT THEN SECTORS - sread ELSE 0

(* The rest of the track, or of the segment if that is less: the carry of  *)
(* add cx,bx says that the read would cross 64 kB, je that it just fits.   *)
sectors_to_read ==
  IF SECTORS - sread + bx <= SEGMENT THEN SECTORS - sread ELSE SEGMENT - bx

rp_read ==
  /\ pc = "rp_read"
  /\ IF segments_loaded THEN pc' = "done" /\ UNCHANGED ax
                        ELSE pc' = "read_track" /\ ax' = sectors_to_read
  /\ UNCHANGED <<seg, bx, sread, head, track, syssize, image, memory>>

(* int 0x13: al sectors from cylinder track, head head, sector sread + 1. *)
lba(t, h, s) == (2 * t + h) * SECTORS + s
Place == seg * SEGMENT + bx

(* A place whose sector the BIOS did not deliver: it keeps what it held. *)
UNREAD == 0
Unread == {a \in DOMAIN memory : memory[a] = UNREAD}

(* The BIOS delivers n of the ax sectors.  Fewer than ax is an error in    *)
(* the carry flag and ah, and read_track looks at neither.  A read that    *)
(* reaches the loader's own segment leaves no loader to run.               *)
read(n) ==
  /\ pc = "read_track"
  /\ memory' = [a \in DOMAIN memory \cup (Place .. Place + ax - 1) |->
                  IF a < Place THEN memory[a]
                  ELSE IF a < Place + n THEN lba(track, head, sread) + (a - Place)
                  ELSE UNREAD]
  /\ pc' = IF Place + n > LOADER_AT THEN "overwritten" ELSE "advance"
  /\ UNCHANGED <<seg, bx, ax, sread, head, track, syssize, image>>

read_track == read(ax)

(* At most one call of the BIOS fails. *)
read_error == Unread = {} /\ \E n \in 0 .. ax - 1 : read(n)

next_track_same_head ==
  /\ sread' = 0 /\ track' = track + 1 /\ UNCHANGED head

(* The other head of the track, or, after head 1, the next track. *)
next_track ==
  /\ sread' = 0
  /\ head' = 1 - head
  /\ track' = IF 1 - head = 0 THEN track + 1 ELSE track

(* jnc rp_read; add ah,#0x10: the next segment when bx has wrapped. *)
advance ==
  /\ pc = "advance"
  /\ IF ax + sread = SECTORS THEN next_track
                             ELSE sread' = ax + sread /\ UNCHANGED <<head, track>>
  /\ IF bx + ax >= SEGMENT THEN seg' = seg + 1 /\ bx' = 0
                           ELSE bx' = bx + ax /\ UNCHANGED seg
  /\ pc' = "rp_read"
  /\ UNCHANGED <<ax, syssize, image, memory>>

LoaderStep == rp_read \/ read_track \/ read_error \/ advance
---------------------------------------------------------------------------
(* Registers and the loader's words stay in range. *)
TypeOK ==
  /\ pc \in {"rp_read", "read_track", "advance", "done", "overwritten"}
  /\ seg \in Nat /\ bx \in 0 .. SEGMENT - 1
  /\ ax \in 0 .. SECTORS
  /\ sread \in 0 .. SECTORS - 1 /\ head \in 0..1 /\ track \in Nat
  /\ image \in Nat /\ syssize \in 0 .. WORD - 1

(* No read crosses a 64 kB boundary (which the diskette's DMA cannot do)   *)
(* or the end of a track (which the BIOS cannot do), however tracks and    *)
(* segments fall.                                                          *)
ReadsAreLegal ==
  pc = "read_track" => bx + ax <= SEGMENT /\ sread + ax <= SECTORS

(* The image arrives in one piece: what lies at a place of memory is the   *)
(* sector that lies at the same place of the image, across changes of      *)
(* head, track and segment, and with no place left out.  A call of the     *)
(* BIOS that fails, which the loader does not notice, costs its own        *)
(* sectors and shifts none of the others.                                  *)
ImageInOrder ==
  /\ DOMAIN memory = 0 .. Place + (IF pc \in {"advance", "overwritten"} THEN ax ELSE 0) - 1
  /\ \A a \in DOMAIN memory : memory[a] \in {a + SETUPSECS + 1, UNREAD}
===========================================================================
