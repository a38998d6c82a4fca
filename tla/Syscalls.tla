------------------------------ MODULE Syscalls ----------------------------
(***************************************************************************)
(* What the system calls of ZeOS promise their caller, with no chunks, no  *)
(* interrupts and no kernel stack: a call shows bytes, is served with a    *)
(* result, and the wrapper hands that to the program as a value or as -1   *)
(* and errno.  Module Kernel implements it.                                *)
(***************************************************************************)
EXTENDS Integers, Sequences

CONSTANTS WRITE, GETTIME,     \* numbers of the two calls
          UserSpace,          \* the first and the last address the program owns
          TICK_RANGE,
          EBADF, EFAULT, EINVAL, ENOSYS

VARIABLES phase,     \* "user", "kernel", "served", "back" or "halted"
          call,      \* [nr, fd, buffer, size] of the call in progress
          shown,     \* addresses of the bytes it has shown
          served,    \* what the kernel answered
          result, errno,
          ticks

vars == <<phase, call, shown, served, result, errno, ticks>>

NoCall == [nr |-> 0, fd |-> 0, buffer |-> 0, size |-> 0]

Init ==
  /\ phase = "user" /\ call = NoCall /\ shown = <<>> /\ served = 0
  /\ result = 0 /\ errno = 0 /\ ticks = 0

Tick ==
  /\ ticks' = (ticks + 1) % TICK_RANGE
  /\ UNCHANGED <<phase, call, shown, served, result, errno>>

Invoke ==
  /\ phase = "user" /\ phase' = "kernel"
  /\ call' \in [nr : Int, fd : Int, buffer : Int, size : Int]
  /\ shown' = <<>>
  /\ UNCHANGED <<served, result, errno, ticks>>

Owned == /\ call.buffer >= UserSpace[1]
         /\ call.buffer + call.size - 1 <= UserSpace[2]
         /\ call.buffer <= UserSpace[2]
Acceptable == call.nr = WRITE /\ call.fd = 1 /\ call.buffer # 0 /\ call.size >= 0

Byte == call.buffer + Len(shown)
Show ==
  /\ phase = "kernel" /\ Acceptable /\ Len(shown) < call.size
  /\ Byte \in UserSpace[1] .. UserSpace[2]
  /\ shown' = Append(shown, Byte)
  /\ UNCHANGED <<phase, call, served, result, errno, ticks>>

Count == IF 2 * ticks < TICK_RANGE THEN ticks ELSE ticks - TICK_RANGE

(* A write of memory the program owns succeeds; one of memory it does not  *)
(* is refused, unless it is of no byte.                                    *)
Answers ==
  IF call.nr = GETTIME THEN {Count}
  ELSE IF call.nr # WRITE THEN {-ENOSYS}
  ELSE IF call.fd # 1 THEN {-EBADF}
  ELSE IF ~Acceptable THEN {-EINVAL}
  ELSE IF Owned THEN {call.size}
  ELSE {-EFAULT} \cup ({0} \cap {call.size})

Serve ==
  /\ phase = "kernel" /\ phase' = "served"
  /\ served' \in Answers
  /\ shown = <<>> \/ Len(shown) = served'
  /\ call.nr = WRITE /\ served' > 0 => Len(shown) = served'
  /\ UNCHANGED <<call, shown, result, errno, ticks>>

Deliver ==
  /\ phase = "served" /\ phase' = "back"
  /\ result' = IF served < 0 THEN -1 ELSE served
  /\ errno' = IF served < 0 THEN -served ELSE errno
  /\ UNCHANGED <<call, shown, served, ticks>>

Resume ==
  /\ phase = "back" /\ phase' = "user"
  /\ call' = NoCall /\ shown' = <<>> /\ served' = 0 /\ result' = 0
  /\ UNCHANGED <<errno, ticks>>

(* The program faults, or the kernel does on memory the program has not. *)
Halt ==
  /\ phase = "user" \/ (phase = "kernel" /\ Acceptable /\ ~Owned)
  /\ phase' = "halted"
  /\ UNCHANGED <<call, shown, served, result, errno, ticks>>

Next == Tick \/ Invoke \/ Show \/ Serve \/ Deliver \/ Resume \/ Halt

Spec == Init /\ [][Next]_vars
===========================================================================
