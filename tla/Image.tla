-------------------------------- MODULE Image -----------------------------
(***************************************************************************)
(* The way of the kernel and of the user program from their files to       *)
(* memory, through three programs that agree only on where a few numbers   *)
(* lie: Build writes the diskette, Loader reads it by the image length it  *)
(* finds in the boot sector, and the kernel's main copies the user program *)
(* with copy_data by the two lengths it finds at its own start.            *)
(***************************************************************************)
EXTENDS Loader, Build, Copy

VARIABLES stage    \* the program that runs

allvars == <<vars, buildvars, copyvars, stage>>

ASSUME ImageAssumption ==
  /\ BYTE \in Nat /\ BYTE > 1 /\ PARA \in Nat \ {0} /\ BUF \in Nat \ {0}
  /\ SECTOR = PARAGRAPHS * PARA /\ WORD = BYTE * BYTE
  /\ IM_SIZE_AT \in Nat /\ IM_SIZE_AT + 1 < SECTOR - 4
  /\ RDTR \in 0 .. BYTE * BYTE * BYTE - 1
  /\ Files \subseteq Nat \X Nat
  /\ \A f \in Files : /\ f[1] >= RESERVED /\ f[1] < BYTE * BYTE * BYTE
                      /\ f[2] < BYTE * BYTE * BYTE

ImageInit ==
  /\ LoaderInit
  /\ BuildInit
  /\ copied = <<>> /\ size = 0
  /\ stage = "build"
---------------------------------------------------------------------------
build ==
  /\ stage = "build" /\ BuildNext
  /\ UNCHANGED <<vars, copyvars, stage>>

(* The diskette is booted: the loader finds its length word. *)
boot ==
  /\ stage = "build" /\ build_pc = "exit_0"
  /\ stage' = "load"
  /\ image' = im_size
  /\ syssize' = stdout[IM_SIZE_AT + 1] + BYTE * stdout[IM_SIZE_AT + 2]
  /\ UNCHANGED <<pc, seg, bx, ax, sread, head, track, memory, buildvars, copyvars>>

load ==
  /\ stage = "load" /\ LoaderStep
  /\ UNCHANGED <<buildvars, copyvars, stage>>

(* A byte of memory, from KERNEL_START on; past the end of the file the    *)
(* diskette, and where a sector was not read the memory, holds garbage.    *)
Loaded(a) == a \div SECTOR \in DOMAIN memory \ Unread
Memory(a) ==
  LET d == memory[a \div SECTOR] * SECTOR + (a % SECTOR)
  IN IF Loaded(a) /\ d < Len(stdout) THEN stdout[d + 1] ELSE 0
Dword(a) == Memory(a) + BYTE * Memory(a + 1) + BYTE * BYTE * Memory(a + 2)

p_sys_size == 0
p_usr_size == 4
start == Dword(p_sys_size)

(* The loader jumps to main; if a sector of the kernel was not read, what  *)
(* runs is not the kernel.                                                 *)
KernelLoaded == \A a \in 0 .. sys_size - 1 : Loaded(a)
crash ==
  /\ stage = "load" /\ pc = "done" /\ ~KernelLoaded
  /\ stage' = "crash"
  /\ UNCHANGED <<vars, buildvars, copyvars>>

copy_user_image ==
  /\ stage = "load" /\ pc = "done" /\ KernelLoaded
  /\ stage' = "copy"
  /\ copy_begin(Dword(p_usr_size))
  /\ UNCHANGED <<vars, buildvars>>

copying ==
  /\ stage = "copy"
  /\ IF copy_done THEN stage' = "user" /\ UNCHANGED copyvars
                  ELSE copy_data /\ UNCHANGED stage
  /\ UNCHANGED <<vars, buildvars>>

(* build has died, the image lies over the loader, the loader jumped to    *)
(* something else than the kernel, or the program runs.                    *)
Over == build_pc = "exit_1" \/ pc = "overwritten" \/ stage \in {"crash", "user"}
Finished == Over /\ UNCHANGED allvars

ImageNext == build \/ boot \/ load \/ crash \/ copy_user_image \/ copying \/ Finished

ImageSpec == ImageInit /\ [][ImageNext]_allvars
ImageFairSpec == ImageSpec /\ WF_allvars(build \/ boot \/ load \/ crash \/ copy_user_image \/ copying)
---------------------------------------------------------------------------
(* Registers, sizes and stages stay in range. *)
ImageTypeOK ==
  /\ TypeOK
  /\ stage \in {"build", "load", "crash", "copy", "user"}
  /\ sz >= 0

(* The diskette can be read, and the image's length fits its word. *)
Sound == Unread = {} /\ im_size < WORD
UserAt(k) == Memory(start + copied[k])

(* The user program arrives whole and in order at L_USER_START, and not a  *)
(* byte more is stored there, although the three programs that move it     *)
(* know its place only by numbers written over the system's first bytes.   *)
(* A sector that could not be read garbles its own bytes only.             *)
UserArrives ==
  /\ stage = "copy" /\ im_size < WORD =>
       /\ CopiedPrefix(usr_size)
       /\ \A k \in 1 .. Len(copied) :
            Unread = {} \/ Loaded(start + k - 1) => UserAt(k) = usr_byte(k - 1)
  /\ stage = "user" /\ im_size < WORD => Len(copied) = usr_size

(* With a readable diskette the loader never jumps into a kernel that is   *)
(* not there, and main finds the kernel whole: only its reserved bytes are *)
(* not its own.                                                            *)
KernelArrives ==
  /\ stage = "crash" => ~Sound
  /\ stage \in {"copy", "user"} =>
       \A a \in RESERVED .. sys_size - 1 : Memory(a) = sys_byte(a)

(* A build that succeeds leads to a running program, if the loader's own   *)
(* code is not in the way of the image; if the BIOS fails, the loader is   *)
(* at least not caught in its loop.                                        *)
ImageBoots ==
  (build_pc = "exit_0" /\ im_size < LOADER_AT * PARAGRAPHS)
    ~> (stage = "user" \/ (stage = "crash" /\ ~Sound))
===========================================================================
