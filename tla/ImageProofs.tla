--------------------------- MODULE ImageProofs ----------------------------
(***************************************************************************)
(* Proofs about module Image, for any diskette, any size of the files and  *)
(* any call of the host or of the BIOS that fails.                         *)
(***************************************************************************)
EXTENDS Image, SequenceTheorems, TLAPS

(* The loader. *)
Reading == pc \in {"read_track", "advance", "overwritten"}
LoaderInv ==
  /\ TypeOK
  /\ Reading => bx + ax <= SEGMENT /\ sread + ax <= SECTORS
  /\ lba(track, head, sread) = Place + SETUPSECS + 1
  /\ ImageInOrder
  /\ pc = "done" => segments_loaded

(* build.  Raw is the image before the numbers are written over it, and    *)
(* Byte the image as far as they are.                                      *)
Parts == {"boot_sector", "open_system", "copy_system", "open_user", "copy_user",
          "image_length", "system_length", "user_length", "rdtr", "exit_0", "exit_1"}
Raw(k) ==
  IF k < SECTOR THEN BootSector[k + 1]
  ELSE IF k < SECTOR + sys_size THEN sys_byte(k - SECTOR)
  ELSE usr_byte(k - SECTOR - sys_size)

Patched(n) ==
  build_pc \in IF n = 1 THEN {"system_length", "user_length", "rdtr", "exit_0"}
               ELSE IF n = 2 THEN {"user_length", "rdtr", "exit_0"}
               ELSE IF n = 3 THEN {"rdtr", "exit_0"}
               ELSE {"exit_0"}
Byte(k) ==
  IF Patched(1) /\ k \in IM_SIZE_AT .. IM_SIZE_AT + 1 THEN word(im_size)[k - IM_SIZE_AT + 1]
  ELSE IF Patched(2) /\ k \in SECTOR .. SECTOR + 3 THEN dword(sys_size)[k - SECTOR + 1]
  ELSE IF Patched(3) /\ k \in SECTOR + 4 .. SECTOR + 7 THEN dword(usr_size)[k - SECTOR - 4 + 1]
  ELSE IF Patched(4) /\ k \in SECTOR + 8 .. SECTOR + 11 THEN dword(RDTR)[k - SECTOR - 8 + 1]
  ELSE Raw(k)

Total == SECTOR + sys_size + usr_size
WrittenLen ==
  IF build_pc = "boot_sector" THEN 0
  ELSE IF build_pc = "open_system" THEN SECTOR
  ELSE IF build_pc = "copy_system" THEN SECTOR + sys_size - sz
  ELSE IF build_pc = "open_user" THEN SECTOR + sys_size
  ELSE IF build_pc = "copy_user" THEN Total - sz
  ELSE Total

BuildInv ==
  /\ build_pc \in Parts
  /\ <<sys_size, usr_size>> \in Files
  /\ sz \in Nat
  /\ build_pc = "copy_system" => sz <= sys_size
  /\ build_pc = "copy_user" => sz <= usr_size
  /\ stdout \in Seq(Int)
  /\ build_pc # "exit_1" =>
       /\ Len(stdout) = WrittenLen
       /\ \A k \in 1 .. Len(stdout) : stdout[k] = Byte(k - 1)

(* The stages. *)
StageInv ==
  /\ stage \in {"build", "load", "crash", "copy", "user"}
  /\ stage = "build" => pc = "rp_read" /\ memory = [a \in {} |-> 0]
  /\ stage # "build" => /\ build_pc = "exit_0"
                        /\ syssize = im_size % WORD
  /\ stage = "crash" => ~Sound
  /\ stage \in {"copy", "user"} => pc = "done" /\ KernelLoaded
  /\ stage = "copy" => copied \in Seq(Nat) /\ size \in Nat /\ CopiedPrefix(usr_size)
  /\ stage = "user" => Len(copied) = usr_size

ImageInv == LoaderInv /\ BuildInv /\ StageInv
---------------------------------------------------------------------------
(* The loader's arithmetic: a product of tracks or of segments with one    *)
(* more of them, and what it takes that the sum stays in step.             *)
LEMMA OneMore ==
  ASSUME NEW a \in Int, NEW b \in Int
  PROVE  a * b \in Int /\ (a + 1) * b = a * b + b
OBVIOUS

LEMMA PlaceType ==
  ASSUME TypeOK
  PROVE  Place \in Nat
BY LoaderAssumption DEF TypeOK, Place

LEMMA LoaderInitially ==
  ASSUME LoaderInit
  PROVE  LoaderInv
<1>1. TypeOK
  BY LoaderAssumption DEF LoaderInit, TypeOK, SETUPSECS
<1>2. Place = 0 /\ lba(track, head, sread) = 1
  BY LoaderAssumption DEF LoaderInit, Place, lba, SETUPSECS
<1> QED
  BY <1>1, <1>2 DEF LoaderInit, LoaderInv, Reading, ImageInOrder, SETUPSECS

LEMMA RpRead ==
  ASSUME LoaderInv, rp_read
  PROVE  LoaderInv'
<1>1. TypeOK /\ pc = "rp_read" /\ UNCHANGED <<seg, bx, sread, head, track, syssize, image, memory>>
  BY DEF LoaderInv, rp_read
<1>2. /\ sectors_to_read \in 0 .. SECTORS
      /\ bx + sectors_to_read <= SEGMENT /\ sread + sectors_to_read <= SECTORS
  BY <1>1, LoaderAssumption DEF sectors_to_read, TypeOK
<1>3. /\ pc' \in {"done", "read_track"}
      /\ (pc' = "done" => segments_loaded /\ ax' = ax)
      /\ (pc' = "read_track" => ax' = sectors_to_read)
  BY DEF rp_read
<1>4. TypeOK'
  BY <1>1, <1>2, <1>3 DEF TypeOK
<1>5. Reading' => bx' + ax' <= SEGMENT /\ sread' + ax' <= SECTORS
  BY <1>1, <1>2, <1>3 DEF Reading
<1>6. lba(track, head, sread)' = (Place + SETUPSECS + 1)'
  BY <1>1 DEF LoaderInv, lba, Place, SETUPSECS
<1>7. ImageInOrder'
  BY <1>1, <1>3 DEF LoaderInv, ImageInOrder, Place, SETUPSECS, UNREAD
<1>8. (pc = "done" => segments_loaded)'
  BY <1>1, <1>3 DEF segments_loaded
<1> QED
  BY <1>4, <1>5, <1>6, <1>7, <1>8 DEF LoaderInv

LEMMA ReadTrack ==
  ASSUME LoaderInv, NEW n \in 0 .. ax, read(n)
  PROVE  LoaderInv'
<1>1. /\ TypeOK /\ pc = "read_track" /\ pc' \in {"advance", "overwritten"}
      /\ UNCHANGED <<seg, bx, ax, sread, head, track, syssize, image>>
      /\ DOMAIN memory = 0 .. Place - 1
      /\ \A a \in DOMAIN memory : memory[a] \in {a + SETUPSECS + 1, UNREAD}
      /\ lba(track, head, sread) = Place + SETUPSECS + 1
      /\ bx + ax <= SEGMENT /\ sread + ax <= SECTORS
  <2>1. Place \in Nat
    BY PlaceType DEF LoaderInv
  <2>2. pc = "read_track" /\ Place + 0 - 1 = Place - 1
    BY <2>1 DEF read
  <2> QED
    BY <2>2 DEF LoaderInv, ImageInOrder, read, Reading
<1>2. Place \in Nat /\ ax \in Nat
  BY <1>1, PlaceType DEF TypeOK
<1>3. TypeOK'
  BY <1>1 DEF TypeOK
<1>4. Place' = Place /\ lba(track, head, sread)' = lba(track, head, sread)
  BY <1>1 DEF Place, lba
<1>5. DOMAIN memory' = 0 .. Place + ax - 1
  <2>1. DOMAIN memory' = (0 .. Place - 1) \cup (Place .. Place + ax - 1)
    BY <1>1 DEF read
  <2> QED
    BY <1>2, <2>1
<1>6. ASSUME NEW a \in 0 .. Place + ax - 1
      PROVE  memory'[a] \in {a + SETUPSECS + 1, UNREAD}
  <2>1. memory'[a] = IF a < Place THEN memory[a]
                     ELSE IF a < Place + n THEN lba(track, head, sread) + (a - Place)
                     ELSE UNREAD
    BY <1>1, <1>2 DEF read
  <2>2. CASE a < Place
    <3>1. a \in DOMAIN memory
      BY <1>1, <1>2, <2>2
    <3> QED
      BY <1>1, <2>1, <2>2, <3>1
  <2>3. CASE a >= Place /\ a < Place + n
    <3>1. Place + SETUPSECS + 1 + (a - Place) = a + SETUPSECS + 1
      BY <1>2 DEF SETUPSECS
    <3> QED
      BY <1>1, <1>2, <2>1, <2>3, <3>1
  <2> QED
    BY <1>2, <2>1, <2>2, <2>3
<1>7. ImageInOrder'
  <2>1. DOMAIN memory' = 0 .. Place' + (IF pc' \in {"advance", "overwritten"} THEN ax' ELSE 0) - 1
    BY <1>1, <1>4, <1>5
  <2> QED
    BY <1>5, <1>6, <2>1 DEF ImageInOrder, SETUPSECS, UNREAD
<1> QED
  BY <1>1, <1>3, <1>4, <1>7 DEF LoaderInv, SETUPSECS

LEMMA Advance ==
  ASSUME LoaderInv, advance
  PROVE  LoaderInv'
<1>1. /\ TypeOK /\ pc = "advance" /\ pc' = "rp_read" /\ UNCHANGED <<ax, syssize, image, memory>>
      /\ DOMAIN memory = 0 .. Place + ax - 1
      /\ \A a \in DOMAIN memory : memory[a] \in {a + SETUPSECS + 1, UNREAD}
      /\ lba(track, head, sread) = Place + SETUPSECS + 1
      /\ bx + ax <= SEGMENT /\ sread + ax <= SECTORS
  BY DEF LoaderInv, ImageInOrder, advance, Reading
<1>2. /\ seg \in Nat /\ bx \in Nat /\ ax \in Nat /\ sread \in Nat /\ head \in 0..1
      /\ track \in Nat /\ SECTORS \in Nat /\ SEGMENT \in Nat
      /\ SECTORS > 1 /\ SECTORS <= SEGMENT
  BY <1>1, LoaderAssumption DEF TypeOK
<1>3. /\ seg' \in Nat /\ bx' \in 0 .. SEGMENT - 1 /\ Place' = Place + ax
  <2>1. CASE bx + ax >= SEGMENT
    <3>1. seg' = seg + 1 /\ bx' = 0 /\ bx + ax = SEGMENT
      BY <1>1, <1>2, <2>1 DEF advance
    <3>2. (seg + 1) * SEGMENT = seg * SEGMENT + SEGMENT /\ seg * SEGMENT \in Int
      BY <1>2, OneMore
    <3> QED
      BY <1>2, <3>1, <3>2 DEF Place
  <2>2. CASE ~(bx + ax >= SEGMENT)
    <3>1. seg' = seg /\ bx' = bx + ax
      BY <2>2 DEF advance
    <3>2. seg * SEGMENT \in Int
      BY <1>2, OneMore
    <3> QED
      BY <1>2, <2>2, <3>1, <3>2 DEF Place
  <2> QED
    BY <2>1, <2>2
<1>4. /\ sread' \in 0 .. SECTORS - 1 /\ head' \in 0..1 /\ track' \in Nat
      /\ lba(track', head', sread') = lba(track, head, sread) + ax
  <2> DEFINE t == 2 * track + head
  <2>1. t \in Int /\ t * SECTORS \in Int /\ (t + 1) * SECTORS = t * SECTORS + SECTORS
    BY <1>2, OneMore
  <2>2. CASE ax + sread = SECTORS
    <3>1. sread' = 0 /\ head' = 1 - head /\ track' = IF 1 - head = 0 THEN track + 1 ELSE track
      BY <2>2 DEF advance, next_track
    <3>2. 2 * track' + head' = t + 1 /\ head' \in 0..1 /\ track' \in Nat
      BY <1>2, <3>1
    <3>3. lba(track', head', sread') = t * SECTORS + SECTORS
      BY <1>2, <2>1, <3>1, <3>2 DEF lba
    <3>4. lba(track, head, sread) = t * SECTORS + sread
      BY DEF lba
    <3> HIDE DEF t
    <3> QED
      BY <1>2, <2>1, <2>2, <3>1, <3>2, <3>3, <3>4
  <2>3. CASE ax + sread # SECTORS
    <3>1. sread' = ax + sread /\ head' = head /\ track' = track
      BY <2>3 DEF advance
    <3>2. lba(track', head', sread') = t * SECTORS + (ax + sread)
      BY <3>1 DEF lba
    <3>3. lba(track, head, sread) = t * SECTORS + sread
      BY DEF lba
    <3> HIDE DEF t
    <3> QED
      BY <1>1, <1>2, <2>1, <2>3, <3>1, <3>2, <3>3
  <2> QED
    BY <2>2, <2>3
<1>5. TypeOK'
  BY <1>1, <1>3, <1>4 DEF TypeOK
<1>6. lba(track, head, sread)' = (Place + SETUPSECS + 1)'
  <2>1. Place \in Int
    BY <1>1, PlaceType
  <2>2. lba(track', head', sread') = Place + ax + SETUPSECS + 1
    BY <1>1, <1>2, <1>4, <2>1 DEF SETUPSECS
  <2> QED
    BY <1>3, <2>2 DEF lba, SETUPSECS
<1>7. ImageInOrder'
  <2>1. Place' + 0 - 1 = Place + ax - 1
    BY <1>1, <1>2, <1>3, PlaceType
  <2>2. DOMAIN memory' = 0 .. Place' + (IF pc' \in {"advance", "overwritten"} THEN ax' ELSE 0) - 1
    BY <1>1, <2>1
  <2> QED
    BY <1>1, <2>2 DEF ImageInOrder, SETUPSECS, UNREAD
<1> QED
  BY <1>1, <1>5, <1>6, <1>7 DEF LoaderInv, Reading

LEMMA LoaderPreserved ==
  ASSUME LoaderInv, LoaderStep
  PROVE  LoaderInv'
<1>1. ax \in Nat
  BY DEF LoaderInv, TypeOK
<1>2. CASE rp_read
  BY <1>2, RpRead
<1>3. CASE read_track
  BY <1>1, <1>3, ReadTrack DEF read_track
<1>4. CASE read_error
  <2>1. PICK n \in 0 .. ax - 1 : read(n)
    BY <1>4 DEF read_error
  <2>2. n \in 0 .. ax
    BY <1>1
  <2> QED
    BY <2>1, <2>2, ReadTrack
<1>5. CASE advance
  BY <1>5, Advance
<1> QED
  BY <1>2, <1>3, <1>4, <1>5 DEF LoaderStep
---------------------------------------------------------------------------
(* Numbers and the bytes they are taken apart into. *)
LEMMA Sizes ==
  ASSUME <<sys_size, usr_size>> \in Files
  PROVE  /\ sys_size \in Nat /\ usr_size \in Nat /\ sys_size >= 12
         /\ sys_size < BYTE * BYTE * BYTE /\ usr_size < BYTE * BYTE * BYTE
         /\ im_size \in Nat
<1> DEFINE f == <<sys_size, usr_size>>
<1>1. f[1] = sys_size /\ f[2] = usr_size
  OBVIOUS
<1>2. sys_size \in Nat /\ usr_size \in Nat
  BY ImageAssumption
<1>3. /\ f[1] >= 12 /\ f[1] < BYTE * BYTE * BYTE /\ f[2] < BYTE * BYTE * BYTE
  BY ImageAssumption DEF RESERVED
<1>4. im_size \in Nat
  BY <1>2, ImageAssumption DEF im_size
<1> QED
  BY <1>1, <1>2, <1>3, <1>4

LEMMA SectorSize == SECTOR \in Nat /\ SECTOR > 5 /\ IM_SIZE_AT \in Nat /\ IM_SIZE_AT + 1 < SECTOR - 4
<1>1. SECTOR \in Nat
  BY LoaderAssumption, ImageAssumption
<1> QED
  BY <1>1, ImageAssumption

LEMMA DivMod ==
  ASSUME NEW b \in Nat, b > 1, NEW n \in Nat
  PROVE  n \div b \in Nat /\ n % b \in 0 .. b - 1 /\ n = b * (n \div b) + (n % b)
OBVIOUS

LEMMA Distribute ==
  ASSUME NEW b \in Int, NEW x \in Int, NEW y \in Int
  PROVE  b * (b * x + y) = (b * b) * x + b * y
OBVIOUS

LEMMA DivModUnique ==
  ASSUME NEW b \in Nat, b > 1, NEW n \in Nat, NEW q \in Nat, NEW r \in 0 .. b - 1, n = b * q + r
  PROVE  n \div b = q /\ n % b = r
OBVIOUS

LEMMA Digits ==
  ASSUME NEW n \in Nat
  PROVE  /\ digit(n, 1) \in 0 .. BYTE - 1 /\ digit(n, BYTE) \in 0 .. BYTE - 1
         /\ digit(n, BYTE * BYTE) \in 0 .. BYTE - 1
<1>1. BYTE \in Nat /\ BYTE > 1 /\ BYTE * BYTE \in Nat /\ BYTE * BYTE > 0
  BY ImageAssumption
<1>2. n \div 1 \in Nat /\ n \div BYTE \in Nat /\ n \div (BYTE * BYTE) \in Nat
  BY <1>1
<1> QED
  BY <1>1, <1>2 DEF digit

LEMMA Words ==
  ASSUME NEW n \in Nat
  PROVE  /\ word(n) \in Seq(Int) /\ Len(word(n)) = 2
         /\ dword(n) \in Seq(Int) /\ Len(dword(n)) = 4
BY Digits DEF word, dword

(* A number that fits is what its bytes say, and one that does not fits    *)
(* its word after all, as another number.                                  *)
LEMMA WordValue ==
  ASSUME NEW n \in Nat
  PROVE  digit(n, 1) + BYTE * digit(n, BYTE) = n % WORD
<1> DEFINE q == n \div BYTE
<1>1. BYTE \in Nat /\ BYTE > 1 /\ WORD = BYTE * BYTE
  BY ImageAssumption
<1>2. q \in Nat /\ n % BYTE \in 0 .. BYTE - 1 /\ n = BYTE * q + (n % BYTE)
  BY <1>1
<1>3. q \div BYTE \in Nat /\ q % BYTE \in 0 .. BYTE - 1 /\ q = BYTE * (q \div BYTE) + (q % BYTE)
  BY <1>1, <1>2
<1> DEFINE r == (n % BYTE) + BYTE * (q % BYTE)
<1>4. r \in 0 .. WORD - 1
  BY <1>1, <1>2, <1>3
<1>5. n = WORD * (q \div BYTE) + r
  <2>1. PICK x \in Nat, y \in Nat, z \in Nat : x = q \div BYTE /\ y = q % BYTE /\ z = n % BYTE
    BY <1>2, <1>3
  <2>2. BYTE * (BYTE * x + y) = WORD * x + BYTE * y
    BY <1>1, Distribute
  <2>3. n = BYTE * (BYTE * x + y) + z /\ r = z + BYTE * y
    BY <1>2, <1>3, <2>1
  <2>4. WORD * x \in Int /\ BYTE * y \in Int
    BY <1>1
  <2> HIDE DEF r
  <2>5. n = WORD * x + r
    BY <2>2, <2>3, <2>4
  <2> QED
    BY <2>1, <2>5
<1>6. n % WORD = r
  <2>1. WORD \in Nat /\ WORD > 1 /\ q \div BYTE \in Nat
    BY <1>1, <1>3
  <2> HIDE DEF r, q
  <2> QED
    BY <1>4, <1>5, <2>1, DivModUnique
<1> QED
  BY <1>1, <1>6 DEF digit

LEMMA DwordValue ==
  ASSUME NEW n \in Nat, n < BYTE * BYTE * BYTE
  PROVE  digit(n, 1) + BYTE * digit(n, BYTE) + BYTE * BYTE * digit(n, BYTE * BYTE) = n
<1>1. BYTE \in Nat /\ BYTE > 1 /\ WORD = BYTE * BYTE /\ WORD \in Nat /\ WORD > 1
  BY ImageAssumption
<1>2. n \div WORD \in Nat /\ n = WORD * (n \div WORD) + (n % WORD) /\ n % WORD \in Nat
  <2>1. WORD \in Nat /\ WORD > 1
    BY <1>1
  <2>2. n \div WORD \in Nat /\ n % WORD \in 0 .. WORD - 1 /\ n = WORD * (n \div WORD) + (n % WORD)
    BY <2>1, DivMod, Zenon
  <2> QED
    BY <2>1, <2>2
<1>3. n \div WORD < BYTE
  <2> SUFFICES ASSUME n \div WORD >= BYTE PROVE FALSE
    BY <1>1, <1>2
  <2>1. WORD * (n \div WORD) >= WORD * BYTE
    BY <1>1, <1>2
  <2>2. WORD * BYTE = BYTE * BYTE * BYTE
    BY <1>1
  <2> QED
    BY <1>1, <1>2, <2>1, <2>2
<1>4. digit(n, BYTE * BYTE) = n \div WORD
  <2>1. PICK x \in Nat : x = n \div WORD /\ x < BYTE
    BY <1>2, <1>3
  <2>2. x % BYTE = x
    BY <1>1, <2>1
  <2> QED
    BY <1>1, <2>1, <2>2 DEF digit
<1>5. digit(n, 1) + BYTE * digit(n, BYTE) = n % WORD
  BY WordValue
<1> QED
  BY <1>1, <1>2, <1>4, <1>5
---------------------------------------------------------------------------
(* build. *)
sizes == <<bootfile, sys_size, usr_size>>

LEMMA OverlaySeq ==
  ASSUME stdout \in Seq(Int), NEW bytes \in Seq(Int), NEW offset \in 0 .. Len(stdout)
  PROVE  /\ Overlay(offset, bytes) \in Seq(Int)
         /\ Len(Overlay(offset, bytes)) =
              IF offset + Len(bytes) > Len(stdout) THEN offset + Len(bytes) ELSE Len(stdout)
         /\ \A k \in 1 .. Len(Overlay(offset, bytes)) :
              Overlay(offset, bytes)[k] =
                IF k > offset /\ k <= offset + Len(bytes) THEN bytes[k - offset] ELSE stdout[k]
<1> DEFINE end == offset + Len(bytes)
           len == IF end > Len(stdout) THEN end ELSE Len(stdout)
           at(k) == IF k > offset /\ k <= end THEN bytes[k - offset] ELSE stdout[k]
<1>1. Len(stdout) \in Nat /\ Len(bytes) \in Nat /\ len \in Nat
  OBVIOUS
<1>2. \A k \in 1 .. len : at(k) \in Int
  BY <1>1
<1>3. Overlay(offset, bytes) = [k \in 1 .. len |-> at(k)]
  BY DEF Overlay
<1> HIDE DEF len, at
<1>4. Overlay(offset, bytes) \in Seq(Int) /\ Len(Overlay(offset, bytes)) = len
  BY <1>1, <1>2, <1>3
<1> QED
  BY <1>3, <1>4 DEF len, at

(* A write that fails after some of its bytes. *)
LEMMA HalfWritten ==
  ASSUME stdout \in Seq(Int), NEW bytes \in Seq(Int), NEW offset \in 0 .. Len(stdout)
  PROVE  Overlay(offset, SubSeq(bytes, 1, Len(bytes) \div 2)) \in Seq(Int)
<1>1. Len(bytes) \in Nat
  OBVIOUS
<1>2. Len(bytes) \div 2 \in 0 .. Len(bytes)
  BY <1>1
<1>3. SubSeq(bytes, 1, Len(bytes) \div 2) \in Seq(Int)
  BY <1>1, <1>2
<1> QED
  BY <1>3, OverlaySeq

LEMMA Dies ==
  ASSUME BuildInv, UNCHANGED sizes, build_pc' = "exit_1", sz' \in Nat, stdout' \in Seq(Int)
  PROVE  BuildInv'
BY DEF BuildInv, sizes, Parts

(* Before the numbers are written the image is a prefix of Raw. *)
Early == {"boot_sector", "open_system", "copy_system", "open_user", "copy_user", "image_length"}

LEMMA Unpatched ==
  ASSUME build_pc \in Early, NEW k
  PROVE  Byte(k) = Raw(k)
BY DEF Early, Byte, Patched

LEMMA RawUnchanged ==
  ASSUME UNCHANGED sizes, NEW k
  PROVE  Raw(k)' = Raw(k)
BY SMT DEF sizes, Raw, BootSector, root_device, boot_byte, sys_byte, usr_byte

LEMMA Extend ==
  ASSUME BuildInv, build_pc \in Early, build_pc' \in Early, UNCHANGED sizes,
         NEW bytes \in Seq(Int), stdout' = Overlay(Len(stdout), bytes),
         \A j \in 1 .. Len(bytes) : bytes[j] = Raw(Len(stdout) + j - 1)
  PROVE  /\ stdout' \in Seq(Int) /\ Len(stdout') = Len(stdout) + Len(bytes)
         /\ \A k \in 1 .. Len(stdout') : stdout'[k] = Byte(k - 1)'
<1>0. stdout \in Seq(Int)
  BY DEF BuildInv
<1>1. stdout \in Seq(Int) /\ Len(stdout) \in Nat /\ Len(bytes) \in Nat
  BY <1>0
<1>2. \A k \in 1 .. Len(stdout) : stdout[k] = Raw(k - 1)
  BY Unpatched DEF BuildInv, Early
<1>3. Len(stdout) \in 0 .. Len(stdout)
  BY <1>1
<1>4. /\ stdout' \in Seq(Int)
      /\ Len(stdout') = IF Len(stdout) + Len(bytes) > Len(stdout)
                          THEN Len(stdout) + Len(bytes) ELSE Len(stdout)
      /\ \A k \in 1 .. Len(stdout') :
           stdout'[k] = IF k > Len(stdout) /\ k <= Len(stdout) + Len(bytes)
                          THEN bytes[k - Len(stdout)] ELSE stdout[k]
  BY <1>1, <1>3, OverlaySeq
<1>5. Len(stdout') = Len(stdout) + Len(bytes)
  BY <1>1, <1>4
<1>6. ASSUME NEW k \in 1 .. Len(stdout') PROVE stdout'[k] = Raw(k - 1)
  <2>1. CASE k <= Len(stdout)
    <3>1. k \in 1 .. Len(stdout) /\ ~(k > Len(stdout))
      BY <1>1, <1>5, <2>1
    <3>2. stdout'[k] = stdout[k]
      BY <1>4, <3>1
    <3> QED
      BY <1>2, <3>1, <3>2
  <2>2. CASE k > Len(stdout)
    <3>1. k - Len(stdout) \in 1 .. Len(bytes) /\ Len(stdout) + (k - Len(stdout)) - 1 = k - 1
      BY <1>1, <1>5, <2>2
    <3> QED
      BY <1>1, <1>4, <1>5, <2>2, <3>1
  <2> QED
    BY <1>1, <2>1, <2>2
<1>7. ASSUME NEW k PROVE Byte(k)' = Raw(k)
  <2>1. Byte(k)' = Raw(k)'
    BY DEF Early, Byte, Patched
  <2> QED
    BY <2>1, RawUnchanged
<1> QED
  BY <1>4, <1>5, <1>6, <1>7

LEMMA SameRaw ==
  ASSUME BuildInv, build_pc \in Early, build_pc' \in Early, UNCHANGED sizes, stdout' = stdout
  PROVE  \A k \in 1 .. Len(stdout') : stdout'[k] = Byte(k - 1)'
<1>1. \A k \in 1 .. Len(stdout) : stdout[k] = Raw(k - 1)
  BY Unpatched DEF BuildInv, Early
<1>2. \A k : Byte(k)' = Raw(k)'
  BY DEF Byte, Patched, Early
<1>3. \A k : Raw(k)' = Raw(k)
  BY RawUnchanged
<1> QED
  BY <1>1, <1>2, <1>3

(* The names of bytes are numbers, and follow one another. *)
LEMMA ByteNames ==
  /\ \A k \in Int : boot_byte(k) \in Int /\ sys_byte(k) \in Int /\ usr_byte(k) \in Int
  /\ \A k \in Int : sys_byte(0) + k = sys_byte(k) /\ usr_byte(0) + k = usr_byte(k)
BY SMT DEF boot_byte, sys_byte, usr_byte

LEMMA BootSectorSeq ==
  /\ BootSector \in Seq(Int) /\ Len(BootSector) = SECTOR
<1>1. \A k \in 1 .. SECTOR : (IF k - 1 \in root_device THEN 0 ELSE boot_byte(k - 1)) \in Int
  BY SectorSize, ByteNames
<1> QED
  BY <1>1, SectorSize DEF BootSector

LEMMA BuildInitially ==
  ASSUME BuildInit
  PROVE  BuildInv
<1>1. PICK f \in Files : sys_size = f[1] /\ usr_size = f[2]
  BY DEF BuildInit
<1>2. f \in Nat \X Nat
  BY ImageAssumption
<1>3. <<sys_size, usr_size>> = f
  BY <1>1, <1>2
<1>4. stdout \in Seq(Int) /\ Len(stdout) = 0 /\ \A k \in 1 .. Len(stdout) : FALSE
  <2>1. stdout = <<>>
    BY DEF BuildInit
  <2> QED
    BY <2>1, EmptySeq
<1>5. build_pc = "boot_sector" /\ sz \in Nat /\ WrittenLen = 0 /\ build_pc \in Parts
  BY DEF BuildInit, WrittenLen, Parts
<1> QED
  BY <1>3, <1>4, <1>5 DEF BuildInv

LEMMA DoesBootSector ==
  ASSUME BuildInv, boot_sector
  PROVE  BuildInv'
<1>1. /\ build_pc = "boot_sector" /\ UNCHANGED sizes /\ sz' = sz /\ sz \in Nat
      /\ stdout \in Seq(Int) /\ Len(stdout) = 0 /\ build_pc \in Early
      /\ <<sys_size, usr_size>> \in Files
  BY DEF boot_sector, BuildInv, sizes, WrittenLen, Early
<1>2. Len(stdout) \in Nat /\ 0 \in 0 .. Len(stdout)
  <2>1. Len(stdout) \in Nat
    BY <1>1, LenProperties
  <2> QED
    BY <2>1
<1>3. CASE build_pc' = "exit_1"
  <2>1. stdout' = stdout \/ stdout' = Overlay(0, BootSector)
        \/ stdout' = Overlay(0, SubSeq(BootSector, 1, Len(BootSector) \div 2))
    BY DEF boot_sector, Write
  <2>2. stdout' \in Seq(Int)
    BY <1>1, <1>2, <2>1, OverlaySeq, HalfWritten, BootSectorSeq
  <2> QED
    BY <1>1, <1>3, <2>2, Dies
<1>4. CASE build_pc' # "exit_1"
  <2>1. build_pc' = "open_system" /\ stdout' = Overlay(0, BootSector) /\ build_pc' \in Early
    BY <1>4 DEF boot_sector, Write, die, Early
  <2>2. \A j \in 1 .. Len(BootSector) : BootSector[j] = Raw(Len(stdout) + j - 1)
    <3> SUFFICES ASSUME NEW j \in 1 .. SECTOR PROVE BootSector[j] = Raw(0 + j - 1)
      BY <1>1, BootSectorSeq
    <3>1. 0 + j - 1 < SECTOR /\ (0 + j - 1) + 1 = j
      BY SectorSize
    <3> QED
      BY <3>1 DEF Raw
  <2>3. /\ stdout' \in Seq(Int) /\ Len(stdout') = Len(stdout) + Len(BootSector)
        /\ \A k \in 1 .. Len(stdout') : stdout'[k] = Byte(k - 1)'
    BY <1>1, <2>1, <2>2, BootSectorSeq, Extend
  <2>4. Len(stdout') = SECTOR
    <3>1. Len(stdout') = 0 + SECTOR
      BY <1>1, <2>3, BootSectorSeq, Zenon
    <3> QED
      BY <3>1, SectorSize
  <2> QED
    BY <1>1, <2>1, <2>3, <2>4 DEF BuildInv, WrittenLen, sizes, Parts
<1> QED
  BY <1>3, <1>4

LEMMA DoesOpen ==
  ASSUME BuildInv, open_system \/ open_user
  PROVE  BuildInv'
<1>1. <<sys_size, usr_size>> \in Files /\ UNCHANGED sizes
  BY DEF BuildInv, open_system, open_user, open, sizes
<1>2. /\ sys_size \in Nat /\ usr_size \in Nat /\ SECTOR \in Nat
      /\ sys_size' = sys_size /\ usr_size' = usr_size
  BY <1>1, Sizes, SectorSize DEF sizes
<1>3. stdout' = stdout /\ stdout \in Seq(Int)
  BY DEF BuildInv, open_system, open_user, open
<1>4. \/ build_pc = "open_system" /\ build_pc' \in {"copy_system", "exit_1"} /\ sz' = sys_size
      \/ build_pc = "open_user" /\ build_pc' \in {"copy_user", "exit_1"} /\ sz' = usr_size
  BY DEF open_system, open_user, open
<1>5. sz' \in Nat
  BY <1>2, <1>4
<1>6. CASE build_pc' = "exit_1"
  BY <1>1, <1>3, <1>5, <1>6, Dies
<1>7. CASE build_pc' # "exit_1"
  <2>1. \/ build_pc = "open_system" /\ build_pc' = "copy_system" /\ sz' = sys_size
        \/ build_pc = "open_user" /\ build_pc' = "copy_user" /\ sz' = usr_size
    BY <1>4, <1>7
  <2>2. Len(stdout') = WrittenLen'
    <3>1. Len(stdout) = WrittenLen
      BY <2>1 DEF BuildInv
    <3>2. CASE build_pc = "open_system"
      <4>1. WrittenLen = SECTOR /\ WrittenLen' = SECTOR + sys_size - sys_size
        BY <1>2, <2>1, <3>2 DEF WrittenLen
      <4> QED
        BY <1>2, <1>3, <3>1, <4>1
    <3>3. CASE build_pc = "open_user"
      <4>1. WrittenLen = SECTOR + sys_size /\ WrittenLen' = SECTOR + sys_size + usr_size - usr_size
        BY <1>2, <2>1, <3>3 DEF WrittenLen, Total
      <4> QED
        BY <1>2, <1>3, <3>1, <4>1
    <3> QED
      BY <2>1, <3>2, <3>3
  <2>3. \A k \in 1 .. Len(stdout') : stdout'[k] = Byte(k - 1)'
    BY <1>1, <1>3, <2>1, SameRaw DEF Early
  <2>4. build_pc' \in Parts /\ (build_pc' = "copy_system" => sz' <= sys_size')
        /\ (build_pc' = "copy_user" => sz' <= usr_size')
    BY <1>2, <2>1 DEF Parts
  <2> QED
    BY <1>1, <1>3, <1>5, <2>2, <2>3, <2>4 DEF BuildInv, sizes
<1> QED
  BY <1>6, <1>7

LEMMA DoesCopy ==
  ASSUME BuildInv,
         NEW part, NEW next, NEW n, NEW first,
         \/ part = "copy_system" /\ next = "open_user" /\ n = sys_size /\ first = sys_byte(0)
         \/ part = "copy_user" /\ next = "image_length" /\ n = usr_size /\ first = usr_byte(0),
         copy(part, next, n, first)
  PROVE  BuildInv'
<1>1. <<sys_size, usr_size>> \in Files /\ UNCHANGED sizes
  BY DEF BuildInv, copy, sizes
<1>2. /\ sys_size \in Nat /\ usr_size \in Nat /\ SECTOR \in Nat
      /\ sys_size' = sys_size /\ usr_size' = usr_size
  BY <1>1, Sizes, SectorSize DEF sizes
<1>3. stdout \in Seq(Int)
  BY DEF BuildInv
<1>4. sz \in Nat /\ BUF \in Nat \ {0} /\ Len(stdout) \in Nat
  BY <1>3, LenProperties, ImageAssumption DEF BuildInv
<1>5. build_pc = part /\ part \in Early /\ part \in Parts /\ next \in Early /\ next \in Parts
  BY DEF copy, Early, Parts
<1>6. n \in Nat /\ first \in Int /\ sz <= n
  <2>1. sys_byte(0) \in Int /\ usr_byte(0) \in Int
    BY ByteNames
  <2>2. /\ (part = "copy_system" => sz <= sys_size)
        /\ (part = "copy_user" => sz <= usr_size)
    BY <1>5 DEF BuildInv
  <2> QED
    BY <1>2, <2>1, <2>2
<1>7. Len(stdout) = SECTOR + (IF part = "copy_system" THEN n ELSE sys_size + n) - sz
  <2>1. Len(stdout) = WrittenLen
    BY <1>5 DEF BuildInv, Early
  <2>2. WrittenLen = SECTOR + (IF part = "copy_system" THEN n ELSE sys_size + n) - sz
    BY <1>2, <1>4, <1>5, <1>6 DEF WrittenLen, Total
  <2> QED
    BY <2>1, <2>2
<1>8. CASE sz = 0
  <2>1. build_pc' = next /\ sz' = sz /\ stdout' = stdout
    BY <1>8 DEF copy
  <2>2. Len(stdout') = WrittenLen'
    <3>1. CASE part = "copy_system"
      <4>1. WrittenLen' = SECTOR + sys_size
        BY <1>2, <2>1, <3>1 DEF WrittenLen
      <4> QED
        BY <1>2, <1>7, <1>8, <2>1, <3>1, <4>1
    <3>2. CASE part = "copy_user"
      <4>1. WrittenLen' = SECTOR + sys_size + usr_size
        BY <1>2, <2>1, <3>2 DEF WrittenLen, Total
      <4> QED
        BY <1>2, <1>7, <1>8, <2>1, <3>2, <4>1
    <3> QED
      BY <3>1, <3>2
  <2>3. \A k \in 1 .. Len(stdout') : stdout'[k] = Byte(k - 1)'
    BY <1>1, <1>5, <2>1, SameRaw
  <2>4. build_pc' # "copy_system" /\ build_pc' # "copy_user" /\ sz' \in Nat /\ build_pc' \in Parts
    BY <1>4, <1>5, <2>1
  <2> QED
    BY <1>1, <1>3, <2>1, <2>2, <2>3, <2>4 DEF BuildInv, sizes
<1>9. CASE sz # 0
  <2> DEFINE bytes == [k \in 1 .. piece |-> first + n - sz + k - 1]
  <2>1. piece \in 1 .. sz /\ piece \in Nat /\ sz - piece \in Nat
    BY <1>4, <1>9 DEF piece
  <2>2. bytes \in Seq(Int) /\ Len(bytes) = piece
    <3>1. \A k \in 1 .. piece : first + n - sz + k - 1 \in Int
      BY <1>4, <1>6, <2>1
    <3> QED
      BY <2>1, <3>1
  <2>3. Write(Len(stdout), bytes, part) \/ (die /\ UNCHANGED stdout)
    BY <1>9 DEF copy
  <2>4. sz' = sz - piece
    BY <1>9 DEF copy
  <2>5. sz' \in Nat /\ sz' <= n
    BY <1>4, <1>6, <2>1, <2>4
  <2>6. Len(stdout) \in 0 .. Len(stdout)
    BY <1>4
  <2>7. \A k \in 1 .. piece : bytes[k] = first + n - sz + k - 1
    OBVIOUS
  <2> HIDE DEF bytes
  <2>8. CASE build_pc' = "exit_1"
    <3>1. stdout' = stdout \/ stdout' = Overlay(Len(stdout), bytes)
          \/ stdout' = Overlay(Len(stdout), SubSeq(bytes, 1, Len(bytes) \div 2))
      BY <2>3 DEF Write
    <3>2. stdout' \in Seq(Int)
      BY <1>3, <2>2, <2>6, <3>1, OverlaySeq, HalfWritten
    <3> QED
      BY <1>1, <2>5, <2>8, <3>2, Dies
  <2>9. CASE build_pc' # "exit_1"
    <3>1. build_pc' = part /\ stdout' = Overlay(Len(stdout), bytes)
      BY <2>3, <2>9 DEF Write, die
    <3>2. ASSUME NEW j \in 1 .. Len(bytes) PROVE bytes[j] = Raw(Len(stdout) + j - 1)
      <4>1. j \in 1 .. piece /\ bytes[j] = first + n - sz + j - 1
        BY <2>2, <2>7
      <4>2. CASE part = "copy_system"
        <5>1. PICK l \in Int : l = Len(stdout) + j - 1
          BY <1>4, <2>1, <4>1
        <5>2. l - SECTOR = n - sz + j - 1 /\ n = sys_size /\ first = sys_byte(0)
          BY <1>2, <1>4, <1>7, <4>1, <4>2, <5>1
        <5>3. ~(l < SECTOR) /\ l < SECTOR + sys_size /\ l - SECTOR \in Int
          BY <1>2, <1>4, <1>6, <2>1, <4>1, <5>2
        <5>4. Raw(l) = sys_byte(l - SECTOR) /\ sys_byte(l - SECTOR) = sys_byte(0) + (l - SECTOR)
          BY <5>3, ByteNames DEF Raw
        <5> QED
          BY <1>4, <1>6, <4>1, <5>1, <5>2, <5>4
      <4>3. CASE part = "copy_user"
        <5>1. PICK l \in Int : l = Len(stdout) + j - 1
          BY <1>4, <2>1, <4>1
        <5>2. l - SECTOR - sys_size = n - sz + j - 1 /\ first = usr_byte(0)
          BY <1>2, <1>4, <1>6, <1>7, <4>1, <4>3, <5>1
        <5>3. ~(l < SECTOR) /\ ~(l < SECTOR + sys_size) /\ l - SECTOR - sys_size \in Int
          BY <1>2, <1>4, <1>6, <2>1, <4>1, <5>2
        <5>4. /\ Raw(l) = usr_byte(l - SECTOR - sys_size)
              /\ usr_byte(l - SECTOR - sys_size) = usr_byte(0) + (l - SECTOR - sys_size)
          BY <5>3, ByteNames DEF Raw
        <5> QED
          BY <1>4, <1>6, <4>1, <5>1, <5>2, <5>4
      <4> QED
        BY <4>2, <4>3
    <3>3. /\ stdout' \in Seq(Int) /\ Len(stdout') = Len(stdout) + Len(bytes)
          /\ \A k \in 1 .. Len(stdout') : stdout'[k] = Byte(k - 1)'
      BY <1>1, <1>5, <2>2, <3>1, <3>2, Extend
    <3>4. Len(stdout') = WrittenLen'
      <4>1. WrittenLen' = SECTOR + (IF part = "copy_system" THEN n ELSE sys_size + n) - (sz - piece)
        <5>1. CASE part = "copy_system"
          BY <1>2, <2>4, <3>1, <5>1 DEF WrittenLen
        <5>2. CASE part = "copy_user"
          BY <1>2, <2>4, <3>1, <5>2 DEF WrittenLen, Total
        <5> QED
          BY <5>1, <5>2
      <4>2. Len(stdout') = Len(stdout) + piece
        BY <2>2, <3>3
      <4> QED
        BY <1>2, <1>4, <1>6, <1>7, <2>1, <4>1, <4>2
    <3>5. (build_pc' = "copy_system" => sz' <= sys_size') /\ (build_pc' = "copy_user" => sz' <= usr_size')
      BY <1>2, <2>5, <3>1
    <3> QED
      BY <1>1, <1>5, <2>5, <3>1, <3>3, <3>4, <3>5 DEF BuildInv, sizes
  <2> QED
    BY <2>8, <2>9
<1> QED
  BY <1>8, <1>9

(* A number is written over bytes that are there. *)
LEMMA DoesPatch ==
  ASSUME BuildInv,
         NEW part, NEW next, NEW offset \in Nat, NEW bytes \in Seq(Int),
         patch(part, next, offset, bytes),
         part \in {"image_length", "system_length", "user_length", "rdtr"},
         next \in {"system_length", "user_length", "rdtr", "exit_0"},
         offset + Len(bytes) <= Total,
         build_pc' = next => \A k \in 0 .. Total - 1 :
           Byte(k)' = IF k \in offset .. offset + Len(bytes) - 1 THEN bytes[k - offset + 1]
                      ELSE Byte(k)
  PROVE  BuildInv'
<1>1. <<sys_size, usr_size>> \in Files /\ UNCHANGED sizes
  BY DEF BuildInv, patch, sizes
<1>2. /\ sys_size \in Nat /\ usr_size \in Nat /\ SECTOR \in Nat
      /\ sys_size' = sys_size /\ usr_size' = usr_size
  BY <1>1, Sizes, SectorSize DEF sizes
<1>3. stdout \in Seq(Int)
  BY DEF BuildInv
<1>4. Len(bytes) \in Nat /\ Total \in Nat
  BY <1>2, LenProperties DEF Total
<1>5. build_pc = part /\ sz' = sz /\ sz \in Nat
  BY DEF patch, BuildInv
<1>6. Len(stdout) = Total /\ Len(stdout) \in Nat
  BY <1>4, <1>5 DEF BuildInv, WrittenLen
<1>7. offset \in 0 .. Len(stdout)
  BY <1>4, <1>6
<1>8. CASE build_pc' = "exit_1"
  <2>1. stdout' = stdout \/ stdout' = Overlay(offset, bytes)
        \/ stdout' = Overlay(offset, SubSeq(bytes, 1, Len(bytes) \div 2))
    BY DEF patch, Write
  <2>2. stdout' \in Seq(Int)
    BY <1>3, <1>7, <2>1, OverlaySeq, HalfWritten
  <2> QED
    BY <1>1, <1>5, <1>8, <2>2, Dies
<1>9. CASE build_pc' # "exit_1"
  <2>1. build_pc' = next /\ stdout' = Overlay(offset, bytes)
    BY <1>9 DEF patch, Write, die
  <2>2. /\ stdout' \in Seq(Int)
        /\ Len(stdout') = IF offset + Len(bytes) > Len(stdout) THEN offset + Len(bytes) ELSE Len(stdout)
        /\ \A k \in 1 .. Len(stdout') :
             stdout'[k] = IF k > offset /\ k <= offset + Len(bytes) THEN bytes[k - offset] ELSE stdout[k]
    BY <1>3, <1>7, <2>1, OverlaySeq
  <2>3. Len(stdout') = Total
    BY <1>4, <1>6, <2>2
  <2>4. WrittenLen' = Total
    BY <1>2, <2>1 DEF WrittenLen, Total
  <2>5. ASSUME NEW k \in 1 .. Len(stdout') PROVE stdout'[k] = Byte(k - 1)'
    <3>1. k \in 1 .. Total /\ k - 1 \in 0 .. Total - 1
      BY <1>4, <2>3
    <3>2. Byte(k - 1)' = IF k - 1 \in offset .. offset + Len(bytes) - 1
                          THEN bytes[k - 1 - offset + 1] ELSE Byte(k - 1)
      BY <2>1, <3>1
    <3>3. stdout[k] = Byte(k - 1)
      BY <1>5, <1>6, <3>1 DEF BuildInv
    <3>4. CASE k > offset /\ k <= offset + Len(bytes)
      <4>1. k - 1 \in offset .. offset + Len(bytes) - 1 /\ k - 1 - offset + 1 = k - offset
        BY <1>4, <3>1, <3>4
      <4> QED
        BY <2>2, <3>2, <3>4, <4>1
    <3>5. CASE ~(k > offset /\ k <= offset + Len(bytes))
      <4>1. k - 1 \notin offset .. offset + Len(bytes) - 1
        BY <1>4, <3>1, <3>5
      <4> QED
        BY <2>2, <3>2, <3>3, <3>5, <4>1
    <3> QED
      BY <3>4, <3>5
  <2>6. build_pc' \in Parts /\ build_pc' # "copy_system" /\ build_pc' # "copy_user"
    BY <2>1 DEF Parts
  <2> QED
    BY <1>1, <1>5, <2>2, <2>3, <2>4, <2>5, <2>6 DEF BuildInv, sizes
<1> QED
  BY <1>8, <1>9

LEMMA WritesNumbers ==
  ASSUME BuildInv, image_length \/ system_length \/ user_length \/ rdtr
  PROVE  BuildInv'
<1>1. <<sys_size, usr_size>> \in Files /\ UNCHANGED sizes
  BY DEF BuildInv, image_length, system_length, user_length, rdtr, patch, sizes
<1>2. /\ sys_size \in Nat /\ usr_size \in Nat /\ sys_size >= 12 /\ im_size \in Nat
      /\ SECTOR \in Nat /\ IM_SIZE_AT \in Nat /\ IM_SIZE_AT + 1 < SECTOR - 4
  BY <1>1, Sizes, SectorSize
<1>3. RDTR \in Nat /\ Total \in Nat /\ Total >= SECTOR + 12
  BY <1>2, ImageAssumption DEF Total
<1>4. /\ word(im_size)' = word(im_size) /\ dword(sys_size)' = dword(sys_size)
      /\ dword(usr_size)' = dword(usr_size)
  BY <1>1 DEF sizes, word, dword, digit, im_size
<1>5. \A k : Raw(k)' = Raw(k)
  BY <1>1, RawUnchanged
<1>6. CASE image_length
  <2>1. word(im_size) \in Seq(Int) /\ Len(word(im_size)) = 2
    BY <1>2, Words
  <2>2. patch("image_length", "system_length", IM_SIZE_AT, word(im_size))
    BY <1>6 DEF image_length
  <2>3. build_pc = "image_length"
    BY <2>2 DEF patch
  <2>4. IM_SIZE_AT + Len(word(im_size)) - 1 = IM_SIZE_AT + 1 /\ IM_SIZE_AT + Len(word(im_size)) <= Total
    BY <1>2, <1>3, <2>1
  <2>5. ASSUME build_pc' = "system_length", NEW k
        PROVE  Byte(k)' = IF k \in IM_SIZE_AT .. IM_SIZE_AT + 1
                            THEN word(im_size)[k - IM_SIZE_AT + 1] ELSE Byte(k)
    <3>1. Byte(k)' = IF k \in IM_SIZE_AT .. IM_SIZE_AT + 1
                            THEN word(im_size)'[k - IM_SIZE_AT + 1] ELSE Raw(k)'
      BY <2>5 DEF Byte, Patched
    <3>2. Byte(k) = Raw(k)
      BY <2>3 DEF Byte, Patched
    <3> QED
      BY <1>4, <1>5, <3>1, <3>2
  <2> QED
    BY <1>2, <2>1, <2>2, <2>4, <2>5, DoesPatch
<1>7. CASE system_length
  <2>1. dword(sys_size) \in Seq(Int) /\ Len(dword(sys_size)) = 4
    BY <1>2, Words
  <2>2. patch("system_length", "user_length", SECTOR, dword(sys_size))
    BY <1>7 DEF system_length
  <2>3. build_pc = "system_length"
    BY <2>2 DEF patch
  <2>4. SECTOR + Len(dword(sys_size)) - 1 = SECTOR + 3 /\ SECTOR + Len(dword(sys_size)) <= Total
    BY <1>2, <1>3, <2>1
  <2>5. ASSUME build_pc' = "user_length", NEW k \in 0 .. Total - 1
        PROVE  Byte(k)' = IF k \in SECTOR .. SECTOR + 3
                            THEN dword(sys_size)[k - SECTOR + 1] ELSE Byte(k)
    <3>1. Byte(k)' = IF k \in IM_SIZE_AT .. IM_SIZE_AT + 1
                       THEN word(im_size)'[k - IM_SIZE_AT + 1]
                     ELSE IF k \in SECTOR .. SECTOR + 3 THEN dword(sys_size)'[k - SECTOR + 1]
                     ELSE Raw(k)'
      BY <2>5 DEF Byte, Patched
    <3>2. Byte(k) = IF k \in IM_SIZE_AT .. IM_SIZE_AT + 1 THEN word(im_size)[k - IM_SIZE_AT + 1]
                    ELSE Raw(k)
      BY <2>3 DEF Byte, Patched
    <3>3. ~(k \in IM_SIZE_AT .. IM_SIZE_AT + 1 /\ k \in SECTOR .. SECTOR + 3)
      BY <1>2
    <3> QED
      BY <1>4, <1>5, <3>1, <3>2, <3>3
  <2> QED
    BY <1>2, <2>1, <2>2, <2>4, <2>5, DoesPatch
<1>8. CASE user_length
  <2>1. dword(usr_size) \in Seq(Int) /\ Len(dword(usr_size)) = 4
    BY <1>2, Words
  <2>2. patch("user_length", "rdtr", SECTOR + 4, dword(usr_size))
    BY <1>8 DEF user_length, usr_size_at
  <2>3. build_pc = "user_length"
    BY <2>2 DEF patch
  <2>4. /\ SECTOR + 4 + Len(dword(usr_size)) - 1 = SECTOR + 7
        /\ SECTOR + 4 + Len(dword(usr_size)) <= Total /\ SECTOR + 4 \in Nat
    BY <1>2, <1>3, <2>1
  <2>5. ASSUME build_pc' = "rdtr", NEW k \in 0 .. Total - 1
        PROVE  Byte(k)' = IF k \in SECTOR + 4 .. SECTOR + 7
                            THEN dword(usr_size)[k - (SECTOR + 4) + 1] ELSE Byte(k)
    <3>1. Byte(k)' = IF k \in IM_SIZE_AT .. IM_SIZE_AT + 1
                       THEN word(im_size)'[k - IM_SIZE_AT + 1]
                     ELSE IF k \in SECTOR .. SECTOR + 3 THEN dword(sys_size)'[k - SECTOR + 1]
                     ELSE IF k \in SECTOR + 4 .. SECTOR + 7
                            THEN dword(usr_size)'[k - SECTOR - 4 + 1]
                     ELSE Raw(k)'
      BY <2>5 DEF Byte, Patched
    <3>2. Byte(k) = IF k \in IM_SIZE_AT .. IM_SIZE_AT + 1 THEN word(im_size)[k - IM_SIZE_AT + 1]
                    ELSE IF k \in SECTOR .. SECTOR + 3 THEN dword(sys_size)[k - SECTOR + 1]
                    ELSE Raw(k)
      BY <2>3 DEF Byte, Patched
    <3>3. /\ ~(k \in IM_SIZE_AT .. IM_SIZE_AT + 1 /\ k \in SECTOR + 4 .. SECTOR + 7)
          /\ ~(k \in SECTOR .. SECTOR + 3 /\ k \in SECTOR + 4 .. SECTOR + 7)
          /\ k - SECTOR - 4 + 1 = k - (SECTOR + 4) + 1
      BY <1>2, <1>3
    <3> QED
      BY <1>4, <1>5, <3>1, <3>2, <3>3
  <2> QED
    BY <2>1, <2>2, <2>4, <2>5, DoesPatch
<1>9. CASE rdtr
  <2>1. dword(RDTR) \in Seq(Int) /\ Len(dword(RDTR)) = 4
    BY <1>3, Words
  <2>2. patch("rdtr", "exit_0", SECTOR + 8, dword(RDTR))
    BY <1>9 DEF rdtr
  <2>3. build_pc = "rdtr"
    BY <2>2 DEF patch
  <2>4. /\ SECTOR + 8 + Len(dword(RDTR)) - 1 = SECTOR + 11
        /\ SECTOR + 8 + Len(dword(RDTR)) <= Total /\ SECTOR + 8 \in Nat
    BY <1>2, <1>3, <2>1
  <2>5. ASSUME build_pc' = "exit_0", NEW k \in 0 .. Total - 1
        PROVE  Byte(k)' = IF k \in SECTOR + 8 .. SECTOR + 11
                            THEN dword(RDTR)[k - (SECTOR + 8) + 1] ELSE Byte(k)
    <3>1. Byte(k)' = IF k \in IM_SIZE_AT .. IM_SIZE_AT + 1
                       THEN word(im_size)'[k - IM_SIZE_AT + 1]
                     ELSE IF k \in SECTOR .. SECTOR + 3 THEN dword(sys_size)'[k - SECTOR + 1]
                     ELSE IF k \in SECTOR + 4 .. SECTOR + 7
                            THEN dword(usr_size)'[k - SECTOR - 4 + 1]
                     ELSE IF k \in SECTOR + 8 .. SECTOR + 11
                            THEN dword(RDTR)[k - SECTOR - 8 + 1]
                     ELSE Raw(k)'
      BY <2>5 DEF Byte, Patched, dword, digit
    <3>2. Byte(k) = IF k \in IM_SIZE_AT .. IM_SIZE_AT + 1 THEN word(im_size)[k - IM_SIZE_AT + 1]
                    ELSE IF k \in SECTOR .. SECTOR + 3 THEN dword(sys_size)[k - SECTOR + 1]
                    ELSE IF k \in SECTOR + 4 .. SECTOR + 7
                           THEN dword(usr_size)[k - SECTOR - 4 + 1]
                    ELSE Raw(k)
      BY <2>3 DEF Byte, Patched
    <3>3. /\ ~(k \in IM_SIZE_AT .. IM_SIZE_AT + 1 /\ k \in SECTOR + 8 .. SECTOR + 11)
          /\ ~(k \in SECTOR .. SECTOR + 3 /\ k \in SECTOR + 8 .. SECTOR + 11)
          /\ ~(k \in SECTOR + 4 .. SECTOR + 7 /\ k \in SECTOR + 8 .. SECTOR + 11)
          /\ k - SECTOR - 8 + 1 = k - (SECTOR + 8) + 1
      BY <1>2, <1>3
    <3> QED
      BY <1>4, <1>5, <3>1, <3>2, <3>3
  <2> QED
    BY <2>1, <2>2, <2>4, <2>5, DoesPatch
<1> QED
  BY <1>6, <1>7, <1>8, <1>9

LEMMA BuildPreserved ==
  ASSUME BuildInv, BuildNext
  PROVE  BuildInv'
<1>1. CASE boot_sector
  BY <1>1, DoesBootSector
<1>2. CASE open_system \/ open_user
  BY <1>2, DoesOpen
<1>3. CASE copy_system
  <2>1. copy("copy_system", "open_user", sys_size, sys_byte(0))
    BY <1>3 DEF copy_system
  <2> QED
    BY <2>1, DoesCopy
<1>4. CASE copy_user
  <2>1. copy("copy_user", "image_length", usr_size, usr_byte(0))
    BY <1>4 DEF copy_user
  <2> QED
    BY <2>1, DoesCopy
<1>5. CASE image_length \/ system_length \/ user_length \/ rdtr
  BY <1>5, WritesNumbers
<1> QED
  BY <1>1, <1>2, <1>3, <1>4, <1>5 DEF BuildNext

(* What a finished image holds. *)
LEMMA Built ==
  ASSUME BuildInv, build_pc = "exit_0"
  PROVE  /\ stdout \in Seq(Int) /\ Len(stdout) = SECTOR + sys_size + usr_size
         /\ \A k \in 0 .. SECTOR + sys_size + usr_size - 1 : stdout[k + 1] = Byte(k)
<1>1. <<sys_size, usr_size>> \in Files /\ stdout \in Seq(Int)
  BY DEF BuildInv
<1>2. sys_size \in Nat /\ usr_size \in Nat /\ SECTOR \in Nat
  BY <1>1, Sizes, SectorSize
<1>3. Len(stdout) = SECTOR + sys_size + usr_size
  BY DEF BuildInv, WrittenLen, Total
<1>4. \A k \in 1 .. Len(stdout) : stdout[k] = Byte(k - 1)
  BY DEF BuildInv
<1>5. \A k \in 0 .. SECTOR + sys_size + usr_size - 1 :
        k + 1 \in 1 .. Len(stdout) /\ (k + 1) - 1 = k
  BY <1>2, <1>3
<1> QED
  BY <1>1, <1>3, <1>4, <1>5

LEMMA BuiltComplete ==
  ASSUME BuildInv
  PROVE  ImageComplete
<1> SUFFICES ASSUME build_pc = "exit_0"
             PROVE  /\ Len(stdout) = SECTOR + sys_size + usr_size
                    /\ \A k \in 0 .. SECTOR - 1 :
                         stdout[k + 1] = IF k \in {IM_SIZE_AT, IM_SIZE_AT + 1}
                           THEN word(im_size)[k - IM_SIZE_AT + 1] ELSE BootSector[k + 1]
                    /\ \A k \in 12 .. sys_size - 1 : stdout[SECTOR + k + 1] = sys_byte(k)
                    /\ \A k \in 0 .. usr_size - 1 :
                         stdout[SECTOR + sys_size + k + 1] = usr_byte(k)
  BY DEF ImageComplete, RESERVED
<1>1. /\ Len(stdout) = SECTOR + sys_size + usr_size
      /\ \A k \in 0 .. SECTOR + sys_size + usr_size - 1 : stdout[k + 1] = Byte(k)
  BY Built
<1>2. /\ sys_size \in Nat /\ usr_size \in Nat /\ sys_size >= 12 /\ SECTOR \in Nat
      /\ IM_SIZE_AT \in Nat /\ IM_SIZE_AT + 1 < SECTOR - 4
  BY Sizes, SectorSize DEF BuildInv
<1>3. ASSUME NEW k \in 0 .. SECTOR - 1
      PROVE  stdout[k + 1] = IF k \in {IM_SIZE_AT, IM_SIZE_AT + 1}
                           THEN word(im_size)[k - IM_SIZE_AT + 1] ELSE BootSector[k + 1]
  <2>1. /\ k \in 0 .. SECTOR + sys_size + usr_size - 1 /\ k < SECTOR
        /\ (k \in {IM_SIZE_AT, IM_SIZE_AT + 1} <=> k \in IM_SIZE_AT .. IM_SIZE_AT + 1)
        /\ k \notin SECTOR .. SECTOR + 3 /\ k \notin SECTOR + 4 .. SECTOR + 7
        /\ k \notin SECTOR + 8 .. SECTOR + 11
    BY <1>2
  <2>2. Byte(k) = IF k \in {IM_SIZE_AT, IM_SIZE_AT + 1}
                    THEN word(im_size)[k - IM_SIZE_AT + 1] ELSE BootSector[k + 1]
    BY <2>1 DEF Byte, Patched, Raw
  <2> QED
    BY <1>1, <2>1, <2>2
<1>4. ASSUME NEW k \in 12 .. sys_size - 1 PROVE stdout[SECTOR + k + 1] = sys_byte(k)
  <2>1. PICK l \in Int : l = SECTOR + k
    BY <1>2
  <2>2. /\ l \in 0 .. SECTOR + sys_size + usr_size - 1 /\ ~(l < SECTOR) /\ l < SECTOR + sys_size
        /\ l \notin IM_SIZE_AT .. IM_SIZE_AT + 1 /\ l \notin SECTOR .. SECTOR + 3
        /\ l \notin SECTOR + 4 .. SECTOR + 7 /\ l \notin SECTOR + 8 .. SECTOR + 11
        /\ l - SECTOR = k
    BY <1>2, <2>1
  <2>3. Byte(l) = sys_byte(k)
    BY <2>2 DEF Byte, Raw
  <2> QED
    BY <1>1, <2>1, <2>2, <2>3
<1>5. ASSUME NEW k \in 0 .. usr_size - 1 PROVE stdout[SECTOR + sys_size + k + 1] = usr_byte(k)
  <2>1. PICK l \in Int : l = SECTOR + sys_size + k
    BY <1>2
  <2>2. /\ l \in 0 .. SECTOR + sys_size + usr_size - 1 /\ ~(l < SECTOR) /\ ~(l < SECTOR + sys_size)
        /\ l \notin IM_SIZE_AT .. IM_SIZE_AT + 1 /\ l \notin SECTOR .. SECTOR + 3
        /\ l \notin SECTOR + 4 .. SECTOR + 7 /\ l \notin SECTOR + 8 .. SECTOR + 11
        /\ l - SECTOR - sys_size = k
    BY <1>2, <2>1
  <2>3. Byte(l) = usr_byte(k)
    BY <2>2 DEF Byte, Raw
  <2> QED
    BY <1>1, <2>1, <2>2, <2>3
<1> QED
  BY <1>1, <1>3, <1>4, <1>5
---------------------------------------------------------------------------
(* From the diskette to memory. *)

LEMMA SectorOf ==
  ASSUME NEW a \in Nat
  PROVE  a \div SECTOR \in Nat /\ a = SECTOR * (a \div SECTOR) + (a % SECTOR) /\ a % SECTOR \in Nat
<1>1. SECTOR \in Nat /\ SECTOR > 1
  BY SectorSize
<1>2. a \div SECTOR \in Nat /\ a % SECTOR \in 0 .. SECTOR - 1 /\ a = SECTOR * (a \div SECTOR) + (a % SECTOR)
  BY <1>1, DivMod, Zenon
<1> QED
  BY <1>1, <1>2

(* What lies in memory is the image, moved by the boot sector. *)
LEMMA MemoryIsImage ==
  ASSUME LoaderInv, BuildInv, build_pc = "exit_0",
         NEW a \in 0 .. sys_size + usr_size - 1, Loaded(a)
  PROVE  Memory(a) = stdout[SECTOR + a + 1]
<1>1. /\ sys_size \in Nat /\ usr_size \in Nat /\ SECTOR \in Nat /\ SECTOR > 5
      /\ Len(stdout) = SECTOR + sys_size + usr_size
  BY Sizes, SectorSize, Built DEF BuildInv
<1>2. a \div SECTOR \in Nat /\ a = SECTOR * (a \div SECTOR) + (a % SECTOR) /\ a % SECTOR \in Nat
  BY <1>1, SectorOf
<1>3. memory[a \div SECTOR] = (a \div SECTOR) + 0 + 1
  BY DEF LoaderInv, ImageInOrder, Loaded, Unread, SETUPSECS, UNREAD
<1>4. memory[a \div SECTOR] * SECTOR + (a % SECTOR) = SECTOR + a
  <2>1. PICK q \in Nat : q = a \div SECTOR /\ memory[a \div SECTOR] = q + 1
    BY <1>2, <1>3
  <2>2. (q + 1) * SECTOR = q * SECTOR + SECTOR /\ q * SECTOR \in Int
    BY <1>1, OneMore
  <2>3. SECTOR * q = q * SECTOR
    BY <1>1
  <2> QED
    BY <1>1, <1>2, <2>1, <2>2, <2>3
<1>5. SECTOR + a < Len(stdout)
  BY <1>1
<1> QED
  BY <1>4, <1>5 DEF Memory

(* The loader has read whatever the length in the boot sector says. *)
LEMMA AllIsRead ==
  ASSUME LoaderInv, BuildInv, pc = "done", im_size < WORD, syssize = im_size % WORD, Unread = {},
         NEW a \in 0 .. sys_size + usr_size - 1
  PROVE  Loaded(a)
<1>1. /\ sys_size \in Nat /\ usr_size \in Nat /\ SECTOR \in Nat /\ SECTOR > 5 /\ im_size \in Nat
  BY Sizes, SectorSize DEF BuildInv
<1>2. /\ PARAGRAPHS \in Nat \ {0} /\ PARA \in Nat \ {0} /\ SECTOR = PARAGRAPHS * PARA
      /\ WORD \in Nat \ {0} /\ SEGMENT \in Nat /\ seg \in Nat /\ bx \in Nat
  BY LoaderAssumption, ImageAssumption DEF LoaderInv, TypeOK
<1>3. syssize = im_size
  BY <1>1, <1>2
<1>4. seg * SEGMENT * PARAGRAPHS > im_size
  BY <1>3 DEF LoaderInv, segments_loaded
<1>5. im_size * PARA >= sys_size + usr_size
  <2>1. PICK t \in Nat : t = sys_size + usr_size
    BY <1>1
  <2>2. im_size = (t + PARA - 1) \div PARA
    BY <1>1, <1>2, <2>1 DEF im_size
  <2>3. ((t + PARA - 1) \div PARA) * PARA >= t
    BY <1>2
  <2> QED
    BY <2>1, <2>2, <2>3
<1>6. seg * SEGMENT * SECTOR >= sys_size + usr_size
  <2>1. PICK s \in Nat : s = seg * SEGMENT
    BY <1>2
  <2>2. s * PARAGRAPHS \in Nat /\ s * PARAGRAPHS >= im_size
    BY <1>1, <1>2, <1>4, <2>1
  <2>3. (s * PARAGRAPHS) * PARA >= im_size * PARA
    BY <1>1, <1>2, <2>2
  <2>4. (s * PARAGRAPHS) * PARA = s * SECTOR
    BY <1>2
  <2> QED
    BY <1>1, <1>2, <1>5, <2>1, <2>3, <2>4
<1>7. a \div SECTOR < seg * SEGMENT
  <2>1. PICK s \in Nat : s = seg * SEGMENT
    BY <1>2
  <2>2. a \div SECTOR \in Nat /\ a = SECTOR * (a \div SECTOR) + (a % SECTOR) /\ a % SECTOR \in Nat
    BY <1>1, SectorOf
  <2>3. PICK q \in Nat : q = a \div SECTOR
    BY <2>2
  <2>4. SECTOR * q <= a /\ a < s * SECTOR
    BY <1>1, <1>6, <2>1, <2>2, <2>3
  <2>5. q >= s => SECTOR * q >= s * SECTOR
    BY <1>1
  <2>6. q < s
    BY <1>1, <2>4, <2>5
  <2> QED
    BY <2>1, <2>3, <2>6
<1>8. DOMAIN memory = 0 .. Place - 1
  <2>1. Place \in Nat
    BY PlaceType DEF LoaderInv
  <2>2. Place + 0 - 1 = Place - 1
    BY <2>1
  <2> QED
    BY <2>2 DEF LoaderInv, ImageInOrder
<1>9. a \div SECTOR \in 0 .. Place - 1
  <2>1. a \div SECTOR \in Nat /\ seg * SEGMENT \in Nat
    BY <1>1, <1>2
  <2> QED
    BY <1>2, <1>7, <2>1 DEF Place
<1> QED
  BY <1>8, <1>9 DEF Loaded

(* The numbers main finds at its start are those build wrote there. *)
LEMMA NumbersArrive ==
  ASSUME LoaderInv, BuildInv, build_pc = "exit_0", KernelLoaded
  PROVE  Dword(0) = sys_size /\ Dword(4) = usr_size
<1>1. /\ sys_size \in Nat /\ usr_size \in Nat /\ sys_size >= 12 /\ SECTOR \in Nat
      /\ sys_size < BYTE * BYTE * BYTE /\ usr_size < BYTE * BYTE * BYTE
      /\ IM_SIZE_AT \in Nat /\ IM_SIZE_AT + 1 < SECTOR - 4
  BY Sizes, SectorSize DEF BuildInv
<1>2. ASSUME NEW a \in 0 .. 11 PROVE Memory(a) = Byte(SECTOR + a)
  <2>1. Loaded(a) /\ a \in 0 .. sys_size + usr_size - 1
    BY <1>1 DEF KernelLoaded
  <2>2. Memory(a) = stdout[SECTOR + a + 1]
    BY <2>1, MemoryIsImage
  <2>3. SECTOR + a \in 0 .. SECTOR + sys_size + usr_size - 1
    BY <1>1
  <2> QED
    BY <2>2, <2>3, Built
<1>3. ASSUME NEW i \in 0 .. 2
      PROVE  Memory(i) = dword(sys_size)[i + 1] /\ Memory(4 + i) = dword(usr_size)[i + 1]
  <2>1. PICK x \in Int, y \in Int : x = SECTOR + i /\ y = SECTOR + (4 + i)
    BY <1>1
  <2>2. /\ x \notin IM_SIZE_AT .. IM_SIZE_AT + 1 /\ x \in SECTOR .. SECTOR + 3
        /\ x - SECTOR + 1 = i + 1
        /\ y \notin IM_SIZE_AT .. IM_SIZE_AT + 1 /\ y \notin SECTOR .. SECTOR + 3
        /\ y \in SECTOR + 4 .. SECTOR + 7 /\ y - SECTOR - 4 + 1 = i + 1
    BY <1>1, <2>1
  <2>3. Byte(x) = dword(sys_size)[i + 1] /\ Byte(y) = dword(usr_size)[i + 1]
    BY <2>2 DEF Byte, Patched
  <2>4. i \in 0 .. 11 /\ 4 + i \in 0 .. 11
    OBVIOUS
  <2> QED
    BY <1>2, <2>1, <2>3, <2>4
<1>4. \A n \in Nat : /\ dword(n)[0 + 1] = digit(n, 1) /\ dword(n)[1 + 1] = digit(n, BYTE)
                      /\ dword(n)[2 + 1] = digit(n, BYTE * BYTE)
  BY DEF dword
<1>5. /\ Memory(0) = digit(sys_size, 1) /\ Memory(0 + 1) = digit(sys_size, BYTE)
      /\ Memory(0 + 2) = digit(sys_size, BYTE * BYTE)
  <2>1. 0 + 1 = 1 /\ 0 + 2 = 2 /\ 0 \in 0 .. 2 /\ 1 \in 0 .. 2 /\ 2 \in 0 .. 2
    OBVIOUS
  <2> QED
    BY <1>1, <1>3, <1>4, <2>1
<1>6. /\ Memory(4) = digit(usr_size, 1) /\ Memory(4 + 1) = digit(usr_size, BYTE)
      /\ Memory(4 + 2) = digit(usr_size, BYTE * BYTE)
  <2>1. 4 + 0 = 4 /\ 0 \in 0 .. 2 /\ 1 \in 0 .. 2 /\ 2 \in 0 .. 2
    OBVIOUS
  <2> QED
    BY <1>1, <1>3, <1>4, <2>1
<1> QED
  BY <1>1, <1>5, <1>6, DwordValue DEF Dword

LEMMA KernelIsThere ==
  ASSUME LoaderInv, BuildInv, build_pc = "exit_0", KernelLoaded,
         NEW a \in RESERVED .. sys_size - 1
  PROVE  Memory(a) = sys_byte(a)
<1>1. sys_size \in Nat /\ usr_size \in Nat /\ SECTOR \in Nat
  BY Sizes, SectorSize DEF BuildInv
<1>2. Loaded(a) /\ a \in 0 .. sys_size + usr_size - 1
  BY <1>1 DEF KernelLoaded, RESERVED
<1> QED
  BY <1>2, MemoryIsImage, BuiltComplete DEF ImageComplete

LEMMA UserIsThere ==
  ASSUME LoaderInv, BuildInv, build_pc = "exit_0", NEW k \in 0 .. usr_size - 1, Loaded(sys_size + k)
  PROVE  Memory(sys_size + k) = usr_byte(k)
<1>1. sys_size \in Nat /\ usr_size \in Nat /\ SECTOR \in Nat
  BY Sizes, SectorSize DEF BuildInv
<1>2. sys_size + k \in 0 .. sys_size + usr_size - 1
      /\ SECTOR + (sys_size + k) + 1 = SECTOR + sys_size + k + 1
  BY <1>1
<1>3. Memory(sys_size + k) = stdout[SECTOR + (sys_size + k) + 1]
  BY <1>2, MemoryIsImage
<1> QED
  BY <1>2, <1>3, BuiltComplete DEF ImageComplete
---------------------------------------------------------------------------
(* copy_data: words while more than one is left, then bytes. *)
LEMMA Takes ==
  ASSUME NEW n \in Nat, NEW total \in Nat, copied \in Seq(Nat), size \in Nat, n <= size,
         CopiedPrefix(total), Take(n)
  PROVE  copied' \in Seq(Nat) /\ size' \in Nat /\ CopiedPrefix(total)'
<1> DEFINE more == [k \in 1 .. n |-> Len(copied) + k - 1]
<1>1. Len(copied) \in Nat /\ copied = [k \in 1 .. Len(copied) |-> k - 1] /\ Len(copied) + size = total
  BY LenProperties DEF CopiedPrefix
<1>2. more \in Seq(Nat) /\ Len(more) = n /\ \A k \in 1 .. n : more[k] = Len(copied) + k - 1
  <2>1. \A k \in 1 .. n : Len(copied) + k - 1 \in Nat
    BY <1>1
  <2> QED
    BY <2>1
<1>3. copied' = copied \o more /\ size' = size - n
  BY DEF Take
<1> HIDE DEF more
<1>4. /\ copied' \in Seq(Nat) /\ Len(copied') = Len(copied) + n
      /\ \A k \in 1 .. Len(copied) + n :
           copied'[k] = IF k <= Len(copied) THEN copied[k] ELSE more[k - Len(copied)]
  BY <1>2, <1>3, ConcatProperties
<1>5. ASSUME NEW k \in 1 .. Len(copied) + n PROVE copied'[k] = k - 1
  <2>1. CASE k <= Len(copied)
    <3>1. k \in 1 .. Len(copied)
      BY <1>1, <2>1
    <3>2. copied[k] = k - 1
      BY <1>1, <3>1
    <3> QED
      BY <1>4, <2>1, <3>2
  <2>2. CASE ~(k <= Len(copied))
    <3>1. k - Len(copied) \in 1 .. n /\ Len(copied) + (k - Len(copied)) - 1 = k - 1
      BY <1>1, <2>2
    <3> QED
      BY <1>2, <1>4, <2>2, <3>1
  <2> QED
    BY <2>1, <2>2
<1>6. copied' = [k \in 1 .. Len(copied') |-> k - 1]
  BY <1>4, <1>5, LenProperties
<1>7. size' \in Nat /\ size' >= 0 /\ Len(copied') + size' = total
  <2>1. PICK c \in Nat : c = Len(copied)
    BY <1>1
  <2>2. size' = size - n /\ Len(copied') = c + n /\ c + size = total
    BY <1>1, <1>3, <1>4, <2>1
  <2>3. size - n \in Nat /\ (c + n) + (size - n) = c + size
    OBVIOUS
  <2> QED
    BY <2>2, <2>3
<1> QED
  BY <1>4, <1>6, <1>7 DEF CopiedPrefix

LEMMA CopyData ==
  ASSUME NEW total \in Nat, copied \in Seq(Nat), size \in Nat, CopiedPrefix(total), copy_data
  PROVE  copied' \in Seq(Nat) /\ size' \in Nat /\ CopiedPrefix(total)'
<1>1. CASE copy_words
  <2>1. Take(4) /\ 4 <= size
    BY <1>1 DEF copy_words, DWORD
  <2> QED
    BY <2>1, Takes
<1>2. CASE copy_bytes
  <2>1. Take(1) /\ 1 <= size
    BY <1>2 DEF copy_bytes
  <2> QED
    BY <2>1, Takes
<1> QED
  BY <1>1, <1>2 DEF copy_data
---------------------------------------------------------------------------
(* The stages. *)
LEMMA LoaderUnchanged ==
  ASSUME LoaderInv, UNCHANGED vars
  PROVE  LoaderInv'
BY DEF LoaderInv, vars, TypeOK, Reading, lba, Place, ImageInOrder, segments_loaded,
       SETUPSECS, UNREAD

LEMMA BuildUnchanged ==
  ASSUME BuildInv, UNCHANGED buildvars
  PROVE  BuildInv'
<1>1. UNCHANGED sizes /\ UNCHANGED <<build_pc, sz, stdout>>
  BY DEF buildvars, sizes
<1>2. \A k : Byte(k)' = Byte(k)
  <2>1. \A k : Raw(k)' = Raw(k)
    BY <1>1, RawUnchanged
  <2>2. /\ word(im_size)' = word(im_size) /\ dword(sys_size)' = dword(sys_size)
        /\ dword(usr_size)' = dword(usr_size) /\ dword(RDTR)' = dword(RDTR)
    BY <1>1 DEF sizes, word, dword, digit, im_size
  <2> QED
    BY <1>1, <2>1, <2>2 DEF Byte, Patched
<1>3. WrittenLen' = WrittenLen
  BY <1>1 DEF WrittenLen, Total, sizes
<1> QED
  BY <1>1, <1>2, <1>3 DEF BuildInv, sizes

LEMMA LoadedUnchanged ==
  ASSUME UNCHANGED <<vars, buildvars>>
  PROVE  /\ KernelLoaded' = KernelLoaded /\ Sound' = Sound /\ im_size' = im_size
         /\ usr_size' = usr_size /\ build_pc' = build_pc /\ syssize' = syssize /\ pc' = pc
         /\ memory' = memory
<1>1. /\ memory' = memory /\ sys_size' = sys_size /\ usr_size' = usr_size
      /\ build_pc' = build_pc /\ syssize' = syssize /\ pc' = pc
  BY DEF vars, buildvars
<1>2. im_size' = im_size
  BY <1>1 DEF im_size
<1> QED
  BY <1>1, <1>2 DEF KernelLoaded, Loaded, Unread, Sound, UNREAD

LEMMA ImageInitially ==
  ASSUME ImageInit
  PROVE  ImageInv
<1>1. LoaderInv /\ BuildInv
  BY LoaderInitially, BuildInitially DEF ImageInit
<1> QED
  BY <1>1 DEF ImageInv, ImageInit, StageInv, LoaderInit

LEMMA StageBuild ==
  ASSUME ImageInv, build
  PROVE  ImageInv'
<1>1. stage = "build" /\ stage' = stage /\ UNCHANGED vars /\ pc' = pc /\ memory' = memory
  BY DEF build, vars
<1>2. LoaderInv'
  BY <1>1, LoaderUnchanged DEF ImageInv
<1>3. BuildInv'
  BY BuildPreserved DEF ImageInv, build
<1> QED
  BY <1>1, <1>2, <1>3 DEF ImageInv, StageInv

(* The loader finds the length word build wrote: the length of the image,  *)
(* if that fits a word.                                                    *)
LEMMA StageBoot ==
  ASSUME ImageInv, boot
  PROVE  ImageInv'
<1>1. /\ LoaderInv /\ BuildInv /\ TypeOK /\ build_pc = "exit_0" /\ stage' = "load"
      /\ image' = im_size
      /\ syssize' = stdout[IM_SIZE_AT + 1] + BYTE * stdout[IM_SIZE_AT + 2]
      /\ UNCHANGED <<pc, seg, bx, ax, sread, head, track, memory>> /\ UNCHANGED buildvars
      /\ pc = "rp_read"
  BY DEF ImageInv, LoaderInv, StageInv, boot
<1>2. /\ im_size \in Nat /\ SECTOR \in Nat /\ IM_SIZE_AT \in Nat /\ IM_SIZE_AT + 1 < SECTOR - 4
  BY <1>1, Sizes, SectorSize DEF BuildInv
<1>3. /\ stdout[IM_SIZE_AT + 1] = digit(im_size, 1)
      /\ stdout[IM_SIZE_AT + 2] = digit(im_size, BYTE)
  <2>1. \A k \in 0 .. SECTOR - 1 :
          stdout[k + 1] = IF k \in {IM_SIZE_AT, IM_SIZE_AT + 1}
                           THEN word(im_size)[k - IM_SIZE_AT + 1] ELSE BootSector[k + 1]
    BY <1>1, BuiltComplete DEF ImageComplete
  <2>2. /\ IM_SIZE_AT \in 0 .. SECTOR - 1 /\ IM_SIZE_AT + 1 \in 0 .. SECTOR - 1
        /\ IM_SIZE_AT - IM_SIZE_AT + 1 = 1 /\ (IM_SIZE_AT + 1) - IM_SIZE_AT + 1 = 2
        /\ (IM_SIZE_AT + 1) + 1 = IM_SIZE_AT + 2
    BY <1>2
  <2>3. stdout[IM_SIZE_AT + 1] = word(im_size)[1] /\ stdout[IM_SIZE_AT + 2] = word(im_size)[2]
    BY <2>1, <2>2
  <2> QED
    BY <2>3 DEF word
<1>4. syssize' = im_size % WORD
  BY <1>1, <1>2, <1>3, WordValue
<1>5. im_size % WORD \in 0 .. WORD - 1
  BY <1>2, LoaderAssumption
<1>6. TypeOK'
  BY <1>1, <1>2, <1>4, <1>5 DEF TypeOK
<1>7. LoaderInv'
  BY <1>1, <1>6 DEF LoaderInv, Reading, lba, Place, ImageInOrder, SETUPSECS, UNREAD
<1>8. BuildInv'
  BY <1>1, BuildUnchanged
<1>9. im_size' = im_size /\ build_pc' = build_pc
  BY <1>1 DEF buildvars, im_size
<1> QED
  BY <1>1, <1>4, <1>7, <1>8, <1>9 DEF ImageInv, StageInv

LEMMA StageLoad ==
  ASSUME ImageInv, load
  PROVE  ImageInv'
<1>1. stage = "load" /\ stage' = "load" /\ LoaderStep /\ UNCHANGED buildvars
  BY DEF load
<1>2. LoaderInv' /\ BuildInv'
  BY <1>1, LoaderPreserved, BuildUnchanged DEF ImageInv
<1>3. syssize' = syssize /\ im_size' = im_size /\ build_pc' = build_pc
  BY <1>1 DEF LoaderStep, rp_read, read_track, read_error, read, advance, buildvars, im_size
<1> QED
  BY <1>1, <1>2, <1>3 DEF ImageInv, StageInv

LEMMA StageCrash ==
  ASSUME ImageInv, crash
  PROVE  ImageInv'
<1>1. /\ stage = "load" /\ stage' = "crash" /\ pc = "done" /\ ~KernelLoaded
      /\ UNCHANGED <<vars, buildvars>>
  BY DEF crash
<1>2. LoaderInv' /\ BuildInv'
  BY <1>1, LoaderUnchanged, BuildUnchanged DEF ImageInv
<1>3. ~Sound
  <2> SUFFICES ASSUME Unread = {}, im_size < WORD, NEW a \in 0 .. sys_size - 1 PROVE Loaded(a)
    BY <1>1 DEF Sound, KernelLoaded
  <2>1. a \in 0 .. sys_size + usr_size - 1
    BY Sizes DEF ImageInv, BuildInv
  <2> QED
    BY <1>1, <2>1, AllIsRead DEF ImageInv, StageInv
<1> QED
  BY <1>1, <1>2, <1>3, LoadedUnchanged DEF ImageInv, StageInv

LEMMA StageCopyStarts ==
  ASSUME ImageInv, copy_user_image
  PROVE  ImageInv'
<1>1. /\ stage = "load" /\ stage' = "copy" /\ pc = "done" /\ KernelLoaded
      /\ copied' = <<>> /\ size' = Dword(4)
      /\ UNCHANGED <<vars, buildvars>>
  BY DEF copy_user_image, copy_begin, p_usr_size
<1>2. LoaderInv' /\ BuildInv'
  BY <1>1, LoaderUnchanged, BuildUnchanged DEF ImageInv
<1>3. Dword(4) = usr_size /\ usr_size \in Nat
  BY <1>1, NumbersArrive, Sizes DEF ImageInv, StageInv, BuildInv
<1>4. usr_size' = usr_size
  BY <1>1, LoadedUnchanged
<1>5. copied' \in Seq(Nat) /\ size' \in Nat /\ CopiedPrefix(usr_size)'
  <2>1. copied' \in Seq(Nat) /\ Len(copied') = 0
    BY <1>1, EmptySeq
  <2>2. copied' = [k \in 1 .. Len(copied') |-> k - 1]
    BY <1>1, <2>1, LenProperties
  <2> QED
    BY <1>1, <1>3, <1>4, <2>1, <2>2 DEF CopiedPrefix
<1> QED
  BY <1>1, <1>2, <1>5, LoadedUnchanged DEF ImageInv, StageInv

LEMMA StageCopying ==
  ASSUME ImageInv, copying
  PROVE  ImageInv'
<1>1. /\ stage = "copy" /\ UNCHANGED <<vars, buildvars>>
      /\ copied \in Seq(Nat) /\ size \in Nat /\ CopiedPrefix(usr_size)
  BY DEF copying, ImageInv, StageInv
<1>2. LoaderInv' /\ BuildInv'
  BY <1>1, LoaderUnchanged, BuildUnchanged DEF ImageInv
<1>3. usr_size' = usr_size /\ usr_size \in Nat
  BY <1>1, LoadedUnchanged, Sizes DEF ImageInv, BuildInv
<1>4. CASE copy_done
  <2>1. stage' = "user" /\ copied' = copied
    BY <1>4 DEF copying, copyvars
  <2>2. Len(copied) = usr_size
    <3>1. size = 0
      BY <1>1, <1>4 DEF copy_done
    <3> QED
      BY <1>1, <3>1, LenProperties DEF CopiedPrefix
  <2> QED
    BY <1>1, <1>2, <1>3, <2>1, <2>2, LoadedUnchanged DEF ImageInv, StageInv
<1>5. CASE ~copy_done
  <2>1. stage' = "copy" /\ copy_data
    BY <1>1, <1>5 DEF copying
  <2>2. copied' \in Seq(Nat) /\ size' \in Nat /\ CopiedPrefix(usr_size)'
    <3>1. PICK total \in Nat : total = usr_size
      BY <1>3
    <3>2. copied' \in Seq(Nat) /\ size' \in Nat /\ CopiedPrefix(total)'
      BY <1>1, <2>1, <3>1, CopyData
    <3> QED
      BY <1>3, <3>1, <3>2 DEF CopiedPrefix
  <2> QED
    BY <1>1, <1>2, <2>1, <2>2, LoadedUnchanged DEF ImageInv, StageInv
<1> QED
  BY <1>4, <1>5

LEMMA ImagePreserved ==
  ASSUME ImageInv, [ImageNext]_allvars
  PROVE  ImageInv'
<1>1. CASE UNCHANGED allvars
  <2>1. UNCHANGED <<vars, buildvars>> /\ copied' = copied /\ size' = size /\ stage' = stage
    BY <1>1 DEF allvars, copyvars
  <2>2. LoaderInv' /\ BuildInv'
    BY <2>1, LoaderUnchanged, BuildUnchanged DEF ImageInv
  <2>3. /\ KernelLoaded' = KernelLoaded /\ Sound' = Sound /\ im_size' = im_size
        /\ usr_size' = usr_size /\ build_pc' = build_pc /\ syssize' = syssize /\ pc' = pc
        /\ memory' = memory
    BY <2>1, LoadedUnchanged
  <2>4. CopiedPrefix(usr_size)' = CopiedPrefix(usr_size)
    BY <2>1, <2>3 DEF CopiedPrefix
  <2> QED
    BY <2>1, <2>2, <2>3, <2>4 DEF ImageInv, StageInv
<1> QED
  BY <1>1, StageBuild, StageBoot, StageLoad, StageCrash, StageCopyStarts, StageCopying
  DEF ImageNext, Finished
---------------------------------------------------------------------------
(* What the three programs keep between them, whatever the files, the      *)
(* geometry of the diskette and the calls that fail: the loader's place on *)
(* the diskette and in memory in step, the bytes build has written so far, *)
(* and what each program has left the next.                                *)
THEOREM ImageStays == ImageSpec => []ImageInv
BY ImageInitially, ImagePreserved, PTL DEF ImageSpec

(* Registers, sizes and stages stay in range. *)
THEOREM ImageTypes == ImageSpec => []ImageTypeOK
<1>1. ImageInv => ImageTypeOK
  BY DEF ImageInv, LoaderInv, BuildInv, StageInv, ImageTypeOK
<1> QED
  BY <1>1, ImageStays, PTL

(* No call of the BIOS crosses 64 kB or the end of a track (read_it's      *)
(* choice of ax), for any number of sectors in a track and in a segment.   *)
THEOREM DiskReadsLegal == ImageSpec => []ReadsAreLegal
<1>1. ImageInv => ReadsAreLegal
  BY DEF ImageInv, LoaderInv, Reading, ReadsAreLegal
<1> QED
  BY <1>1, ImageStays, PTL

(* read_track leaves no hole and shifts no sector, across heads, tracks    *)
(* and segments, even when the BIOS fails.                                 *)
THEOREM SectorsInOrder == ImageSpec => []ImageInOrder
<1>1. ImageInv => ImageInOrder
  BY DEF ImageInv, LoaderInv
<1> QED
  BY <1>1, ImageStays, PTL

(* A build.c that exits with 0 has written the whole image, whatever the   *)
(* sizes of the files and of buf.                                          *)
THEOREM BuildsWhole == ImageSpec => []ImageComplete
<1>1. ImageInv => ImageComplete
  BY BuiltComplete DEF ImageInv
<1> QED
  BY <1>1, ImageStays, PTL

(* main finds the kernel whole, and from a readable diskette that is the   *)
(* only thing the loader ever jumps to.                                    *)
THEOREM KernelWhole == ImageSpec => []KernelArrives
<1>1. ASSUME ImageInv PROVE KernelArrives
  <2>1. stage = "crash" => ~Sound
    BY <1>1 DEF ImageInv, StageInv
  <2>2. ASSUME stage \in {"copy", "user"}, NEW a \in RESERVED .. sys_size - 1
        PROVE  Memory(a) = sys_byte(a)
    <3>1. LoaderInv /\ BuildInv /\ build_pc = "exit_0" /\ KernelLoaded
      BY <1>1, <2>2 DEF ImageInv, StageInv
    <3> QED
      BY <3>1, KernelIsThere
  <2> QED
    BY <2>1, <2>2 DEF KernelArrives
<1> QED
  BY <1>1, ImageStays, PTL

(* copy_data puts the user program, all of it and in order, where main     *)
(* expects it.                                                             *)
THEOREM UserWhole == ImageSpec => []UserArrives
<1>1. ASSUME ImageInv PROVE UserArrives
  <2>1. stage = "user" => Len(copied) = usr_size
    BY <1>1 DEF ImageInv, StageInv
  <2>2. ASSUME stage = "copy", im_size < WORD
        PROVE  /\ CopiedPrefix(usr_size)
               /\ \A k \in 1 .. Len(copied) :
                    Unread = {} \/ Loaded(start + k - 1) => UserAt(k) = usr_byte(k - 1)
    <3>1. /\ LoaderInv /\ BuildInv /\ build_pc = "exit_0" /\ KernelLoaded /\ pc = "done"
          /\ syssize = im_size % WORD /\ copied \in Seq(Nat) /\ size \in Nat
          /\ CopiedPrefix(usr_size)
      BY <1>1, <2>2 DEF ImageInv, StageInv
    <3>2. start = sys_size /\ sys_size \in Nat /\ usr_size \in Nat
      BY <3>1, NumbersArrive, Sizes DEF start, p_sys_size, BuildInv
    <3>3. ASSUME NEW k \in 1 .. Len(copied), Unread = {} \/ Loaded(start + k - 1)
          PROVE  UserAt(k) = usr_byte(k - 1)
      <4>1. copied[k] = k - 1
        BY <3>1 DEF CopiedPrefix
      <4>2. k - 1 \in 0 .. usr_size - 1
        <5>1. PICK c \in Nat : c = Len(copied)
          BY <3>1, LenProperties
        <5>2. c + size = usr_size
          BY <3>1, <5>1 DEF CopiedPrefix
        <5> QED
          BY <3>1, <3>2, <5>1, <5>2
      <4>3. Loaded(sys_size + (k - 1))
        <5>1. sys_size + (k - 1) \in 0 .. sys_size + usr_size - 1
              /\ sys_size + k - 1 = sys_size + (k - 1)
          BY <3>2, <4>2
        <5>2. CASE Unread = {}
          BY <2>2, <3>1, <5>1, <5>2, AllIsRead
        <5>3. CASE Loaded(start + k - 1)
          BY <3>2, <5>1, <5>3
        <5> QED
          BY <3>3, <5>2, <5>3
      <4>4. Memory(sys_size + (k - 1)) = usr_byte(k - 1)
        BY <3>1, <4>2, <4>3, UserIsThere
      <4> QED
        BY <3>2, <4>1, <4>4 DEF UserAt
    <3> QED
      BY <3>1, <3>3
  <2> QED
    BY <2>1, <2>2 DEF UserArrives
<1> QED
  BY <1>1, ImageStays, PTL
===========================================================================
