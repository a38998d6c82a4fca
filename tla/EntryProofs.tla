---------------------------- MODULE EntryProofs ---------------------------
(***************************************************************************)
(* Proofs about the entry and exit paths of Entry, for every argument,     *)
(* every result of a service routine and every size of sys_call_table:     *)
(* the program counter determines what is on both stacks and in which      *)
(* registers, and an interrupt may come between any two instructions of    *)
(* the program.                                                            *)
(***************************************************************************)
EXTENDS Entry, TLAPS, SequenceTheorems

(* The order in which SAVE_ALL pushes the registers.                       *)
SaveOrder == <<"gs", "fs", "es", "ds", "eax", "ebp",
               "edi", "esi", "ebx", "ecx", "edx">>

Numbers == {NR_WRITE, NR_GETTIME, NR_NONE}

(* Each routine occupies the addresses from its own on.                    *)
LEMMA InstrAt ==
  /\ pc \in 100 .. 199 => Instr = write[pc - 99]
  /\ pc \in 200 .. 299 => Instr = gettime[pc - 199]
  /\ pc \in 300 .. 399 => Instr = no_such_call[pc - 299]
  /\ pc \in 400 .. 499 => Instr = syscall_handler[pc - 399]
  /\ pc \in 500 .. 599 => Instr = clock_handler[pc - 499]
  /\ pc \in 600 .. 699 => Instr = keyboard_handler[pc - 599]
  /\ pc \in 700 .. 799 => Instr = page_fault_handler2[pc - 699]
  <1> DEFINE At(start, routine) ==
        pc \in start .. start + 99 =>
          Routine(pc) = routine /\ ((pc % ALIGN) + 1) = pc - start + 1
  <1>1. /\ At(100, write) /\ At(200, gettime) /\ At(300, no_such_call)
        /\ At(400, syscall_handler) /\ At(500, clock_handler)
        /\ At(600, keyboard_handler) /\ At(700, page_fault_handler2)
    BY DEF Routine, ALIGN, write_at, gettime_at, no_such_call_at,
           syscall_handler_at, clock_handler_at, keyboard_handler_at,
           page_fault_handler2_at
  <1> QED BY <1>1 DEF Instr

(* The code of the macro SYSCALL, CHECK_ERROR included.                    *)
LEMMA SyscallCode ==
  ASSUME NEW nr
  PROVE  /\ SYSCALL(nr)[1] = movi(nr, "eax")
         /\ SYSCALL(nr)[2] = pushrel(4)
         /\ SYSCALL(nr)[3] = push("ebp")
         /\ SYSCALL(nr)[4] = mov("esp", "ebp")
         /\ SYSCALL(nr)[5] = plain("sysenter")
         /\ SYSCALL(nr)[6] = pop("ebp")
         /\ SYSCALL(nr)[7] = drop(1)
         /\ SYSCALL(nr)[8] = jge(5)
         /\ SYSCALL(nr)[9] = push("eax")
         /\ SYSCALL(nr)[10] = callc("set_errno")
         /\ SYSCALL(nr)[11] = drop(1)
         /\ SYSCALL(nr)[12] = movi(-1, "eax")
  BY DEF SYSCALL, CHECK_ERROR

LEMMA WrapperSyscalls ==
  /\ \A i \in 7 .. 18 : write[i] = SYSCALL(NR_WRITE)[i - 6]
  /\ \A i \in 3 .. 14 : /\ gettime[i] = SYSCALL(NR_GETTIME)[i - 2]
                        /\ no_such_call[i] = SYSCALL(NR_NONE)[i - 2]
  BY DEF write, gettime, no_such_call, SYSCALL, CHECK_ERROR

LEMMA WrapperCode ==
  /\ write[1] = push("ebp")
  /\ write[2] = mov("esp", "ebp")
  /\ write[3] = push("ebx")
  /\ write[4] = ldbp(2, "edx")
  /\ write[5] = ldbp(3, "ecx")
  /\ write[6] = ldbp(4, "ebx")
  /\ write[19] = pop("ebx")
  /\ write[20] = pop("ebp")
  /\ write[21] = plain("ret")
  /\ gettime[1] = push("ebp")
  /\ gettime[2] = mov("esp", "ebp")
  /\ gettime[15] = pop("ebp")
  /\ gettime[16] = plain("ret")
  /\ no_such_call[1] = push("ebp")
  /\ no_such_call[2] = mov("esp", "ebp")
  /\ no_such_call[15] = pop("ebp")
  /\ no_such_call[16] = plain("ret")
  BY DEF write, gettime, no_such_call, SYSCALL, CHECK_ERROR

(* The code of SAVE_ALL and RESTORE_ALL, wherever it is.                   *)
LEMMA SaveCode ==
  ASSUME NEW k \in 0 .. 10
  PROVE  /\ syscall_handler[k + 6] = push(SaveOrder[k + 1])
         /\ clock_handler[k + 1] = push(SaveOrder[k + 1])
         /\ keyboard_handler[k + 1] = push(SaveOrder[k + 1])
         /\ page_fault_handler2[k + 1] = push(SaveOrder[k + 1])
  <1>1. syscall_handler[k + 6] = push(SaveOrder[k + 1])
    BY DEF syscall_handler, SAVE_ALL, RESTORE_ALL, SaveOrder
  <1>2. clock_handler[k + 1] = push(SaveOrder[k + 1])
    BY DEF clock_handler, SAVE_ALL, RESTORE_ALL, EOI, SaveOrder
  <1>3. keyboard_handler[k + 1] = push(SaveOrder[k + 1])
    BY DEF keyboard_handler, SAVE_ALL, RESTORE_ALL, EOI, SaveOrder
  <1>4. page_fault_handler2[k + 1] = push(SaveOrder[k + 1])
    BY DEF page_fault_handler2, SAVE_ALL, RESTORE_ALL, EOI, SaveOrder
  <1> QED BY <1>1, <1>2, <1>3, <1>4

LEMMA RestoreCode ==
  ASSUME NEW k \in 0 .. 10
  PROVE  /\ syscall_handler[k + 26] = pop(SaveOrder[11 - k])
         /\ clock_handler[k + 18] = pop(SaveOrder[11 - k])
         /\ keyboard_handler[k + 18] = pop(SaveOrder[11 - k])
  <1>1. syscall_handler[k + 26] = pop(SaveOrder[11 - k])
    BY DEF syscall_handler, SAVE_ALL, RESTORE_ALL, SaveOrder
  <1>2. clock_handler[k + 18] = pop(SaveOrder[11 - k])
    BY DEF clock_handler, SAVE_ALL, RESTORE_ALL, EOI, SaveOrder
  <1>3. keyboard_handler[k + 18] = pop(SaveOrder[11 - k])
    BY DEF keyboard_handler, SAVE_ALL, RESTORE_ALL, EOI, SaveOrder
  <1> QED BY <1>1, <1>2, <1>3

(* The rest of syscall_handler.                                            *)
LEMMA SyscallHandlerCode ==
  /\ syscall_handler[1] = pushi(USER_DS)
  /\ syscall_handler[2] = push("ebp")
  /\ syscall_handler[3] = plain("pushfl")
  /\ syscall_handler[4] = pushi(USER_CS)
  /\ syscall_handler[5] = pushbp(1)
  /\ syscall_handler[17] = movi(KERNEL_DS, "edx")
  /\ syscall_handler[18] = mov("edx", "ds")
  /\ syscall_handler[19] = mov("edx", "es")
  /\ syscall_handler[20] = jl(4)
  /\ syscall_handler[21] = jg(MAX_SYSCALL, 3)
  /\ syscall_handler[22] = plain("calltable")
  /\ syscall_handler[23] = jmp(2)
  /\ syscall_handler[24] = movi(-ENOSYS, "eax")
  /\ syscall_handler[25] = stsp(6, "eax")
  /\ syscall_handler[37] = ldsp(0, "edx")
  /\ syscall_handler[38] = ldsp(3, "ecx")
  /\ syscall_handler[39] = plain("sti_sysexit")
  BY DEF syscall_handler, SAVE_ALL, RESTORE_ALL

(* The rest of the interrupt and fault handlers.                           *)
LEMMA HandlerCode ==
  /\ clock_handler[12] = movi(KERNEL_DS, "edx")
  /\ clock_handler[13] = mov("edx", "ds")
  /\ clock_handler[14] = mov("edx", "es")
  /\ clock_handler[15] = movi(32, "eax")
  /\ clock_handler[16] = plain("outb")
  /\ clock_handler[17] = callc("clock_routine")
  /\ clock_handler[29] = plain("iret")
  /\ keyboard_handler[12] = movi(KERNEL_DS, "edx")
  /\ keyboard_handler[13] = mov("edx", "ds")
  /\ keyboard_handler[14] = mov("edx", "es")
  /\ keyboard_handler[15] = callc("keyboard_routine")
  /\ keyboard_handler[16] = movi(32, "eax")
  /\ keyboard_handler[17] = plain("outb")
  /\ keyboard_handler[29] = plain("iret")
  /\ page_fault_handler2[12] = movi(KERNEL_DS, "edx")
  /\ page_fault_handler2[13] = mov("edx", "ds")
  /\ page_fault_handler2[14] = mov("edx", "es")
  /\ page_fault_handler2[15] = pushsp(12)
  /\ page_fault_handler2[16] = callc("print_page_fault")
  /\ page_fault_handler2[17] = callc("page_fault_routine")
  /\ page_fault_handler2[18] = movi(32, "eax")
  BY DEF clock_handler, keyboard_handler, page_fault_handler2, SAVE_ALL,
         RESTORE_ALL, EOI
---------------------------------------------------------------------------
(* What the processor does with each instruction.                          *)
Advance == pc' = pc + 1 /\ UNCHANGED <<flags, cs, errno, halted, call, snap>>

LEMMA Mnemonics ==
  /\ Data => op \in {"push", "pop", "pushi", "pushrel", "pushbp", "pushsp",
                     "pushfl", "mov", "movi", "ldbp", "ldsp", "stsp", "drop",
                     "outb"}
  /\ Jump => op \in {"jl", "jge", "jg", "jmp"}
  /\ CallC => op = "callc"
  /\ CallTable => op = "calltable"
  /\ Sysenter => op = "sysenter"
  /\ Sysexit => op = "sti_sysexit"
  /\ iret => op = "iret"
  /\ ret => op = "ret"
  BY Zenon DEF Data, Jump, CallC, CallTable, Sysenter, Sysexit, iret, ret

LEMMA PushData ==
  ASSUME Execute
  PROVE  /\ \A r : Instr = push(r) =>
              SetStack(Append(stack, regs[r])) /\ UNCHANGED regs /\ Advance
         /\ \A v : Instr = pushi(v) =>
              SetStack(Append(stack, v)) /\ UNCHANGED regs /\ Advance
         /\ \A n : Instr = pushrel(n) =>
              SetStack(Append(stack, pc + n)) /\ UNCHANGED regs /\ Advance
         /\ \A k : Instr = pushbp(k) =>
              /\ SetStack(Append(stack, ustack[regs["ebp"] - k]))
              /\ UNCHANGED regs /\ Advance
         /\ \A k : Instr = pushsp(k) =>
              SetStack(Append(stack, Word(k))) /\ UNCHANGED regs /\ Advance
         /\ Instr = plain("pushfl") =>
              SetStack(Append(stack, flags)) /\ UNCHANGED regs /\ Advance
  BY DEF Execute, Data, Jump, CallC, CallTable, Sysenter, Sysexit, iret, ret,
         op, Advance, Cpu, History, push, pushi, pushrel, pushbp, pushsp, plain

LEMMA PopData ==
  ASSUME Execute
  PROVE  /\ \A r : Instr = pop(r) =>
              /\ SetStack(Truncate(stack, Len(stack) - 1))
              /\ SetReg(r, Word(0)) /\ Advance
         /\ \A n : Instr = drop(n) =>
              /\ SetStack(Truncate(stack, Len(stack) - n))
              /\ UNCHANGED regs /\ Advance
         /\ \A k, r : Instr = stsp(k, r) =>
              /\ SetStack([stack EXCEPT ![Len(stack) - k] = regs[r]])
              /\ UNCHANGED regs /\ Advance
  BY DEF Execute, Data, Jump, CallC, CallTable, Sysenter, Sysexit, iret, ret,
         op, Advance, Cpu, History, pop, drop, stsp

LEMMA MoveData ==
  ASSUME Execute
  PROVE  /\ \A r : Instr = mov("edx", r) =>
              /\ SetReg(r, regs["edx"])
              /\ UNCHANGED <<ustack, kstack>> /\ Advance
         /\ \A r : Instr = mov("esp", r) =>
              /\ SetReg(r, Len(stack))
              /\ UNCHANGED <<ustack, kstack>> /\ Advance
         /\ \A v, r : Instr = movi(v, r) =>
              SetReg(r, v) /\ UNCHANGED <<ustack, kstack>> /\ Advance
         /\ \A k, r : Instr = ldbp(k, r) =>
              /\ SetReg(r, stack[regs["ebp"] - k])
              /\ UNCHANGED <<ustack, kstack>> /\ Advance
         /\ \A k, r : Instr = ldsp(k, r) =>
              SetReg(r, Word(k)) /\ UNCHANGED <<ustack, kstack>> /\ Advance
         /\ Instr = plain("outb") =>
              UNCHANGED <<regs, ustack, kstack>> /\ Advance
  BY DEF Execute, Data, Jump, CallC, CallTable, Sysenter, Sysexit, iret, ret,
         op, Advance, Cpu, History, mov, movi, ldbp, ldsp, plain

JumpTo(a) ==
  pc' = a /\ UNCHANGED <<regs, flags, cs, ustack, kstack, errno, halted, call, snap>>

LEMMA Jumps ==
  ASSUME Execute
  PROVE  /\ \A n : Instr = jl(n) =>
              JumpTo(pc + IF regs["eax"] < 0 THEN n ELSE 1)
         /\ \A n : Instr = jge(n) =>
              JumpTo(pc + IF regs["eax"] >= 0 THEN n ELSE 1)
         /\ \A v, n : Instr = jg(v, n) =>
              JumpTo(pc + IF regs["eax"] > v THEN n ELSE 1)
         /\ \A n : Instr = jmp(n) => JumpTo(pc + n)
  <1>1. op \in {"jl", "jge", "jg", "jmp"} => Jump
    BY Mnemonics DEF Execute
  <1> QED BY <1>1 DEF Jump, Taken, op, JumpTo, Cpu, History,
                        jl, jge, jg, jmp

LEMMA Transfers ==
  ASSUME Execute
  PROVE  /\ \A f : Instr = callc(f) => CallC
         /\ Instr = plain("calltable") => CallTable
         /\ Instr = plain("sysenter") => Sysenter
         /\ Instr = plain("sti_sysexit") => Sysexit
         /\ Instr = plain("iret") => iret
         /\ Instr = plain("ret") => ret
  BY Mnemonics DEF Execute, op, callc, plain
---------------------------------------------------------------------------
(* The inductive invariant.  First the program: C is its register file     *)
(* when it called the wrapper, and the stacks below grow from Called,      *)
(* what the call itself pushed.                                            *)
C == call.at.regs
Called == IF call.nr = NR_WRITE THEN <<Args[3], Args[2], Args[1], APP>> ELSE <<APP>>
Framed == Append(Called, C["ebp"])
Below == IF call.nr = NR_WRITE THEN Append(Framed, C["ebx"]) ELSE Framed

(* Where the wrapper's SYSCALL starts; its %ebp and the depth of its stack *)
(* there.                                                                  *)
SyscallAt == IF call.nr = NR_WRITE THEN 106
             ELSE IF call.nr = NR_GETTIME THEN 202 ELSE 302
FrameAt == IF call.nr = NR_WRITE THEN 5 ELSE 2
Depth == IF call.nr = NR_WRITE THEN 6 ELSE 2
Linked == Append(Below, SyscallAt + 5)
Entered == Append(Linked, FrameAt)

(* The registers as write fills them, then as SYSCALL does.                *)
WithFrame == [C EXCEPT !["ebp"] = FrameAt]
WithEdx == [WithFrame EXCEPT !["edx"] = Args[1]]
WithEcx == [WithEdx EXCEPT !["ecx"] = Args[2]]
Loaded == IF call.nr = NR_WRITE THEN [WithEcx EXCEPT !["ebx"] = Args[3]] ELSE WithFrame
Numbered == [Loaded EXCEPT !["eax"] = call.nr]
SysRegs == [Numbered EXCEPT !["ebp"] = Depth + 2]

(* What the ABI reserves, after the system call; write still has ebx on    *)
(* its stack.                                                              *)
Kept(r, ebp) ==
  /\ r["ebp"] = ebp
  /\ \A x \in {"esi", "edi", "ds", "es", "fs", "gs"} : r[x] = C[x]
  /\ call.nr # NR_WRITE => r["ebx"] = C["ebx"]

InPrologue(r, p, s) ==
  /\ errno = call.errno
  /\ \/ p = SyscallAt - 6 /\ r = C /\ s = Called /\ call.nr = NR_WRITE
     \/ p = SyscallAt - 5 /\ r = C /\ s = Framed /\ call.nr = NR_WRITE
     \/ p = SyscallAt - 4 /\ r = WithFrame /\ s = Framed /\ call.nr = NR_WRITE
     \/ p = SyscallAt - 3 /\ r = WithFrame /\ s = Below /\ call.nr = NR_WRITE
     \/ p = SyscallAt - 2 /\ r = WithEdx /\ s = Below /\ call.nr = NR_WRITE
     \/ p = SyscallAt - 1 /\ r = WithEcx /\ s = Below /\ call.nr = NR_WRITE
     \/ p = SyscallAt - 2 /\ r = C /\ s = Called /\ call.nr # NR_WRITE
     \/ p = SyscallAt - 1 /\ r = C /\ s = Framed /\ call.nr # NR_WRITE

InRequest(r, p, s) ==
  /\ errno = call.errno
  /\ \/ p = SyscallAt /\ r = Loaded /\ s = Below
     \/ p = SyscallAt + 1 /\ r = Numbered /\ s = Below
     \/ p = SyscallAt + 2 /\ r = Numbered /\ s = Linked
     \/ p = SyscallAt + 3 /\ r = Numbered /\ s = Entered
     \/ p = SyscallAt + 4 /\ r = SysRegs /\ s = Entered

InReply(r, p, s) ==
  /\ errno = call.errno /\ r["eax"] = Result
  /\ \/ p = SyscallAt + 5 /\ s = Entered /\ Kept(r, Depth + 2)
     \/ p = SyscallAt + 6 /\ s = Linked /\ Kept(r, FrameAt)
     \/ p = SyscallAt + 7 /\ s = Below /\ Kept(r, FrameAt)
     \/ p = SyscallAt + 8 /\ s = Below /\ Kept(r, FrameAt) /\ Result < 0
     \/ p = SyscallAt + 9 /\ s = Append(Below, Result) /\ Kept(r, FrameAt) /\ Result < 0

InError(r, p, s) ==
  /\ errno = -Result /\ Result < 0 /\ Kept(r, FrameAt)
  /\ \/ p = SyscallAt + 10 /\ s = Append(Below, Result)
     \/ p = SyscallAt + 11 /\ s = Below

InEpilogue(r, p, s) ==
  /\ r["eax"] = IF Result < 0 THEN -1 ELSE Result
  /\ errno = IF Result < 0 THEN -Result ELSE call.errno
  /\ \/ p = SyscallAt + 12 /\ s = Below /\ Kept(r, FrameAt)
     \/ /\ p = SyscallAt + 13 /\ s = Framed /\ Kept(r, FrameAt)
        /\ call.nr = NR_WRITE /\ r["ebx"] = C["ebx"]
     \/ /\ p = (IF call.nr = NR_WRITE THEN 120 ELSE SyscallAt + 13)
        /\ s = Called /\ Kept(r, C["ebp"]) /\ r["ebx"] = C["ebx"]

(* r, p and s are the registers, %eip and the stack of the program: now,   *)
(* or when it was interrupted.                                             *)
UserOK(r, p, s) ==
  /\ r \in [Registers -> Int] /\ s \in Seq(Int)
  /\ \/ p = APP /\ s = <<>>
     \/ /\ call.nr \in Numbers
        /\ \/ InPrologue(r, p, s) \/ InRequest(r, p, s) \/ InReply(r, p, s)
           \/ InError(r, p, s) \/ InEpilogue(r, p, s)

(* A kernel stack that holds a return context f and the first k registers  *)
(* of r that SAVE_ALL pushes.                                              *)
Holds(s, f, r, k) ==
  /\ s \in Seq(Int) /\ Len(s) = 5 + k
  /\ \A i \in 1 .. 5 : s[i] = f[i]
  /\ \A i \in 1 .. k : s[5 + i] = r[SaveOrder[i]]

(* RESTORE_ALL has taken k registers of r off the stack.                   *)
Restoring(s, f, r, now, k) ==
  /\ Holds(s, f, r, 11 - k)
  /\ \A i \in 12 - k .. 11 : now[SaveOrder[i]] = r[SaveOrder[i]]

(* SAVE_ALL loads the kernel's segments; p counts from its first movl.     *)
Segments(p) ==
  /\ p \in 1 .. 3 => regs["edx"] = KERNEL_DS
  /\ p >= 2 => regs["ds"] = KERNEL_DS
  /\ p >= 3 => regs["es"] = KERNEL_DS

(* syscall_handler: its return context, and what it will restore.          *)
SysFrame == <<USER_DS, Depth + 2, 0, USER_CS, SyscallAt + 5>>
Returns(r) == r \in [Registers -> Int] /\ Kept(r, Depth + 2)
Replies(r) == Returns(r) /\ r["eax"] = Result

SysPushing ==
  \/ \E j \in 0 .. 4 : /\ pc = 400 + j /\ regs = SysRegs /\ Len(kstack) = j
                       /\ \A i \in 1 .. j : kstack[i] = SysFrame[i]
  \/ \E k \in 0 .. 11 : /\ pc = 405 + k /\ regs = SysRegs
                        /\ Holds(kstack, SysFrame, SysRegs, k)

SysChecking ==
  \E j \in 17 .. 21 :
    /\ pc = 400 + j /\ Segments(j - 16) /\ Holds(kstack, SysFrame, SysRegs, 11)
    /\ regs["eax"] = call.nr
    /\ j = 20 => call.nr >= 0
    /\ j = 21 => call.nr # NR_NONE

SysReplying ==
  \/ /\ pc = 423 /\ call.nr = NR_NONE
     /\ Holds(kstack, SysFrame, SysRegs, 11)
  \/ /\ pc \in {422, 424} /\ regs["eax"] = Result
     /\ \E r : Returns(r) /\ Holds(kstack, SysFrame, r, 11)

SysRestoring ==
  \/ \E r : /\ Replies(r)
           /\ \E k \in 0 .. 11 : /\ pc = 425 + k
                                 /\ Restoring(kstack, SysFrame, r, regs, k)
  \/ /\ pc \in {437, 438} /\ Replies(regs) /\ regs["edx"] = SyscallAt + 5
     /\ Holds(kstack, SysFrame, regs, 0)
     /\ pc = 438 => regs["ecx"] = Depth + 2

SysMode ==
  /\ cs = KERNEL_CS /\ flags = 0 /\ ~halted
  /\ call.nr \in Numbers /\ errno = call.errno /\ ustack = Entered
  /\ SysPushing \/ SysChecking \/ SysReplying \/ SysRestoring

(* The clock and keyboard handlers; they restore what they interrupted.    *)
SnapRegs == snap.at.regs
IrqFrame == <<USER_DS, Len(snap.at.ustack), FLAGS_IF, USER_CS, snap.at.pc>>
IrqAt(start) ==
  \/ \E k \in 0 .. 11 : /\ pc = start + k /\ regs = SnapRegs
                        /\ Holds(kstack, IrqFrame, SnapRegs, k)
  \/ \E j \in 12 .. 16 : /\ pc = start + j /\ Segments(j - 11)
                         /\ Holds(kstack, IrqFrame, SnapRegs, 11)
  \/ \E k \in 0 .. 11 : /\ pc = start + 17 + k
                        /\ Restoring(kstack, IrqFrame, SnapRegs, regs, k)

IrqMode ==
  /\ cs = KERNEL_CS /\ flags = 0 /\ ~halted
  /\ UserOK(SnapRegs, snap.at.pc, snap.at.ustack)
  /\ snap.at.flags = FLAGS_IF /\ ustack = snap.at.ustack
  /\ IrqAt(clock_handler_at) \/ IrqAt(keyboard_handler_at)

(* page_fault_handler2, over a frame with an error code.                   *)
Faulted(k) ==
  /\ kstack \in Seq(Int) /\ Len(kstack) >= k + 2
  /\ kstack[Len(kstack) - k - 1] = snap.at.pc
FaultMode ==
  /\ cs = KERNEL_CS /\ flags = 0
  /\ \/ \E k \in 0 .. 11 : pc = 700 + k /\ Faulted(k)
     \/ \E j \in 12 .. 14 : pc = 700 + j /\ Faulted(11) /\ Segments(j - 11)
     \/ /\ pc = 715 /\ Segments(4)
        /\ kstack \in Seq(Int) /\ kstack # <<>> /\ kstack[Len(kstack)] = snap.at.pc
     \/ pc = 716 /\ Segments(4)
     \/ pc = 717 /\ halted
  /\ halted => pc = 717

UserMode ==
  cs = USER_CS /\ flags = FLAGS_IF /\ ~halted /\ UserOK(regs, pc, ustack)

States == [regs : [Registers -> Int], pc : Int, flags : Int, ustack : Seq(Int)]
EntryTypeOK ==
  /\ regs \in [Registers -> Int]
  /\ ustack \in Seq(Int) /\ kstack \in Seq(Int)
  /\ pc \in Int /\ errno \in Int /\ halted \in BOOLEAN
  /\ call \in [at : States, nr : Int, result : Int, errno : Int]
  /\ call.at.ustack = <<>>
  /\ snap \in [at : States, irq : BOOLEAN]

EntryInv ==
  EntryTypeOK /\ (UserMode \/ SysMode \/ IrqMode \/ FaultMode)
---------------------------------------------------------------------------
(* Facts about the stacks and registers of the invariant.                  *)
LEMMA PushPop ==
  ASSUME NEW s \in Seq(Int), NEW x \in Int
  PROVE  /\ Append(s, x) \in Seq(Int) /\ Len(Append(s, x)) = Len(s) + 1
         /\ Append(s, x)[Len(s) + 1] = x
         /\ \A i \in 1 .. Len(s) : Append(s, x)[i] = s[i]
         /\ Truncate(Append(s, x), Len(s)) = s
         /\ Len(s) \in Nat
  BY DEF Truncate

LEMMA Truncated ==
  ASSUME NEW s \in Seq(Int), NEW n \in Nat, n <= Len(s)
  PROVE  /\ Truncate(s, n) \in Seq(Int) /\ Len(Truncate(s, n)) = n
         /\ \A i \in 1 .. n : Truncate(s, n)[i] = s[i]
  <1>1. \A i \in 1 .. n : s[i] \in Int
    OBVIOUS
  <1>2. /\ SubSeq(s, 1, n) \in Seq(Int)
        /\ Len(SubSeq(s, 1, n)) = IF 1 <= n THEN n - 1 + 1 ELSE 0
        /\ \A i \in 1 .. n - 1 + 1 : SubSeq(s, 1, n)[i] = s[1 + i - 1]
    BY <1>1, SubSeqProperties
  <1>3. \A i \in 1 .. n : SubSeq(s, 1, n)[i] = s[i]
    BY <1>2
  <1> QED BY <1>2, <1>3 DEF Truncate

LEMMA Popped ==
  ASSUME NEW s \in Seq(Int), Len(s) > 0
  PROVE  /\ Truncate(s, Len(s) - 1) \in Seq(Int)
         /\ Len(Truncate(s, Len(s) - 1)) = Len(s) - 1
         /\ \A i \in 1 .. Len(s) - 1 : Truncate(s, Len(s) - 1)[i] = s[i]
         /\ s[Len(s)] \in Int
  <1>1. Len(s) - 1 \in Nat /\ Len(s) - 1 <= Len(s) /\ s[Len(s)] \in Int
    OBVIOUS
  <1> QED BY <1>1, Truncated

LEMMA CallStack ==
  ASSUME EntryTypeOK
  PROVE  /\ Called \in Seq(Int) /\ Len(Called) = Depth - (IF call.nr = NR_WRITE THEN 2 ELSE 1)
         /\ Framed \in Seq(Int) /\ Len(Framed) = FrameAt
         /\ Below \in Seq(Int) /\ Len(Below) = Depth
         /\ Linked \in Seq(Int) /\ Len(Linked) = Depth + 1
         /\ Entered \in Seq(Int) /\ Len(Entered) = Depth + 2
         /\ FrameAt \in Int /\ Depth \in Int /\ SyscallAt \in Int
         /\ Linked[Depth + 1] = SyscallAt + 5
         /\ Entered[Depth + 1] = SyscallAt + 5
         /\ Entered[Depth + 2] = FrameAt
         /\ call.nr = NR_WRITE => /\ Below[3] = Args[1] /\ Below[2] = Args[2]
                                 /\ Below[1] = Args[3]
                                 /\ Below[6] = C["ebx"]
         /\ Called[Len(Called)] = APP
         /\ Framed[Len(Framed)] = C["ebp"]
  <1>1. C \in [Registers -> Int] /\ C["ebp"] \in Int /\ C["ebx"] \in Int
    BY DEF EntryTypeOK, States, C, Registers
  <1>2. Args[1] \in Int /\ Args[2] \in Int /\ Args[3] \in Int
    BY EntryAssumption
  <1>3. /\ Called \in Seq(Int)
        /\ Len(Called) = IF call.nr = NR_WRITE THEN 4 ELSE 1
        /\ call.nr = NR_WRITE => /\ Called[1] = Args[3] /\ Called[2] = Args[2]
                                /\ Called[3] = Args[1]
        /\ Called[Len(Called)] = APP
    BY <1>2 DEF Called, APP
  <1>4. FrameAt \in Int /\ Depth \in Int /\ SyscallAt \in Int
        /\ SyscallAt + 5 \in Int
    BY DEF FrameAt, Depth, SyscallAt
  <1>5. /\ Framed \in Seq(Int) /\ Len(Framed) = FrameAt
        /\ Framed[Len(Framed)] = C["ebp"]
        /\ call.nr = NR_WRITE => /\ Framed[1] = Args[3] /\ Framed[2] = Args[2]
                                /\ Framed[3] = Args[1]
    <2>1. /\ Framed \in Seq(Int) /\ Len(Framed) = Len(Called) + 1
          /\ Framed[Len(Called) + 1] = C["ebp"]
          /\ \A i \in 1 .. Len(Called) : Framed[i] = Called[i]
      BY <1>1, <1>3, PushPop DEF Framed
    <2> QED BY <1>3, <2>1 DEF FrameAt
  <1>6. /\ Below \in Seq(Int) /\ Len(Below) = Depth
        /\ call.nr = NR_WRITE => /\ Below[3] = Args[1] /\ Below[2] = Args[2]
                                /\ Below[1] = Args[3] /\ Below[6] = C["ebx"]
    <2>1. CASE call.nr = NR_WRITE
      <3>1. /\ Below \in Seq(Int) /\ Len(Below) = Len(Framed) + 1
            /\ Below[Len(Framed) + 1] = C["ebx"]
            /\ \A i \in 1 .. Len(Framed) : Below[i] = Framed[i]
        BY <1>1, <1>5, <2>1, PushPop DEF Below
      <3> QED BY <1>5, <2>1, <3>1 DEF Depth, FrameAt
    <2>2. CASE call.nr # NR_WRITE
      BY <1>5, <2>2 DEF Below, Depth, FrameAt
    <2> QED BY <2>1, <2>2
  <1>7. /\ Linked \in Seq(Int) /\ Len(Linked) = Depth + 1
        /\ Linked[Depth + 1] = SyscallAt + 5
    BY <1>4, <1>6, PushPop DEF Linked
  <1>8. /\ Entered \in Seq(Int) /\ Len(Entered) = Depth + 2
        /\ Entered[Depth + 1] = SyscallAt + 5
        /\ Entered[Depth + 2] = FrameAt
    <2>1. Entered[Depth + 1] = Linked[Depth + 1]
      BY <1>4, <1>7, PushPop DEF Entered, Depth
    <2> QED BY <1>4, <1>7, <2>1, PushPop DEF Entered
  <1> QED BY <1>3, <1>4, <1>5, <1>6, <1>7, <1>8 DEF Depth

LEMMA Places ==
  /\ SyscallAt \in Int /\ FrameAt \in Int /\ Depth \in Int
  /\ SyscallAt \in 106 .. 302
  /\ call.nr = NR_WRITE => SyscallAt = 106
  BY DEF SyscallAt, FrameAt, Depth

LEMMA StackTypes ==
  ASSUME EntryTypeOK
  PROVE  /\ Called \in Seq(Int) /\ Framed \in Seq(Int) /\ Below \in Seq(Int)
         /\ Linked \in Seq(Int) /\ Entered \in Seq(Int)
  BY CallStack

LEMMA WriteArguments ==
  ASSUME EntryTypeOK, call.nr = NR_WRITE
  PROVE  /\ Below[FrameAt - 2] = Args[1] /\ Below[FrameAt - 3] = Args[2]
         /\ Below[FrameAt - 4] = Args[3]
  <1>1. FrameAt - 2 = 3 /\ FrameAt - 3 = 2 /\ FrameAt - 4 = 1
    BY DEF FrameAt
  <1>2. Below[3] = Args[1] /\ Below[2] = Args[2] /\ Below[1] = Args[3]
    BY CallStack
  <1> QED BY <1>1, <1>2

LEMMA CallPops ==
  ASSUME EntryTypeOK
  PROVE  /\ Truncate(Entered, Len(Entered) - 1) = Linked
         /\ Entered[Len(Entered)] = FrameAt
         /\ Truncate(Linked, Len(Linked) - 1) = Below
         /\ \A x \in Int : Truncate(Append(Below, x), Len(Append(Below, x)) - 1) = Below
         /\ \A x \in Int : Append(Below, x)[Len(Append(Below, x))] = x
         /\ call.nr = NR_WRITE => /\ Truncate(Below, Len(Below) - 1) = Framed
                                 /\ Below[Len(Below)] = C["ebx"]
         /\ Truncate(Framed, Len(Framed) - 1) = Called
         /\ Framed[Len(Framed)] = C["ebp"]
         /\ Called[Len(Called)] = APP
  <1> DEFINE Last(s, x) ==
        /\ Len(Append(s, x)) - 1 = Len(s)
        /\ Truncate(Append(s, x), Len(Append(s, x)) - 1) = s
        /\ Append(s, x)[Len(Append(s, x))] = x
  <1>1. \A s \in Seq(Int), x \in Int : Last(s, x)
    <2> TAKE s \in Seq(Int), x \in Int
    <2>1. Len(s) \in Nat /\ Len(Append(s, x)) = Len(s) + 1
      BY PushPop
    <2>2. Len(Append(s, x)) - 1 = Len(s)
      BY <2>1
    <2> QED BY <2>1, <2>2, PushPop
  <1> HIDE DEF Last
  <1>2. C["ebp"] \in Int /\ C["ebx"] \in Int
    BY DEF EntryTypeOK, States, C, Registers
  <1>3. /\ Called \in Seq(Int) /\ Framed \in Seq(Int) /\ Below \in Seq(Int)
        /\ Linked \in Seq(Int) /\ FrameAt \in Int /\ SyscallAt + 5 \in Int
        /\ Called[Len(Called)] = APP
    BY CallStack
  <1>4. Last(Linked, FrameAt) /\ Last(Below, SyscallAt + 5)
        /\ Last(Framed, C["ebx"]) /\ Last(Called, C["ebp"])
        /\ \A x \in Int : Last(Below, x)
    BY <1>1, <1>2, <1>3
  <1> QED BY <1>3, <1>4 DEF Last, Entered, Linked, Below, Framed

LEMMA CallRegisters ==
  ASSUME EntryTypeOK
  PROVE  /\ C \in [Registers -> Int] /\ WithFrame \in [Registers -> Int]
         /\ WithEdx \in [Registers -> Int] /\ WithEcx \in [Registers -> Int]
         /\ Loaded \in [Registers -> Int] /\ Numbered \in [Registers -> Int]
         /\ SysRegs \in [Registers -> Int]
         /\ WithFrame["ebp"] = FrameAt /\ WithFrame["ebx"] = C["ebx"]
         /\ WithEdx["ebp"] = FrameAt /\ WithEcx["ebp"] = FrameAt
         /\ Numbered["ebp"] = FrameAt
         /\ SysRegs["eax"] = call.nr
         /\ Kept(SysRegs, Depth + 2)
         /\ call.nr = NR_WRITE => /\ SysRegs["edx"] = Args[1]
                                 /\ SysRegs["ecx"] = Args[2]
                                 /\ SysRegs["ebx"] = Args[3]
  <1>1. C \in [Registers -> Int] /\ call.nr \in Int
    BY DEF EntryTypeOK, States, C
  <1>2. /\ Args[1] \in Int /\ Args[2] \in Int /\ Args[3] \in Int
        /\ FrameAt \in Int /\ Depth + 2 \in Int
    BY EntryAssumption DEF FrameAt, Depth
  <1>3. /\ WithFrame \in [Registers -> Int] /\ WithFrame["ebp"] = FrameAt
        /\ \A x \in Registers \ {"ebp"} : WithFrame[x] = C[x]
    BY <1>1, <1>2 DEF WithFrame, Registers
  <1>4. /\ WithEdx \in [Registers -> Int] /\ WithEdx["edx"] = Args[1]
        /\ WithEdx["ebp"] = FrameAt
        /\ \A x \in Registers \ {"ebp", "edx"} : WithEdx[x] = C[x]
    BY <1>2, <1>3 DEF WithEdx, Registers
  <1>5. /\ WithEcx \in [Registers -> Int] /\ WithEcx["edx"] = Args[1]
        /\ WithEcx["ecx"] = Args[2] /\ WithEcx["ebp"] = FrameAt
        /\ \A x \in Registers \ {"ebp", "edx", "ecx"} : WithEcx[x] = C[x]
    BY <1>2, <1>4 DEF WithEcx, Registers
  <1>6. /\ Loaded \in [Registers -> Int] /\ Loaded["ebp"] = FrameAt
        /\ call.nr = NR_WRITE => /\ Loaded["edx"] = Args[1]
                                /\ Loaded["ecx"] = Args[2]
                                /\ Loaded["ebx"] = Args[3]
        /\ call.nr # NR_WRITE => Loaded["ebx"] = C["ebx"]
        /\ \A x \in {"esi", "edi", "ds", "es", "fs", "gs"} : Loaded[x] = C[x]
    BY <1>2, <1>3, <1>5 DEF Loaded, Registers
  <1>7. /\ Numbered \in [Registers -> Int] /\ Numbered["eax"] = call.nr
        /\ \A x \in Registers \ {"eax"} : Numbered[x] = Loaded[x]
    BY <1>1, <1>6 DEF Numbered, Registers
  <1>8. /\ SysRegs \in [Registers -> Int] /\ SysRegs["ebp"] = Depth + 2
        /\ \A x \in Registers \ {"ebp"} : SysRegs[x] = Numbered[x]
    BY <1>2, <1>7 DEF SysRegs, Registers
  <1> QED BY <1>1, <1>3, <1>4, <1>5, <1>6, <1>7, <1>8 DEF Kept, Registers

(* All of them are fixed by the call.                                      *)
LEMMA FixedAt ==
  ASSUME call'.at = call.at, call'.nr = call.nr
  PROVE  /\ C' = C /\ Called' = Called /\ Framed' = Framed /\ Below' = Below
         /\ SyscallAt' = SyscallAt /\ FrameAt' = FrameAt /\ Depth' = Depth
         /\ Linked' = Linked /\ Entered' = Entered
         /\ WithFrame' = WithFrame /\ WithEdx' = WithEdx /\ WithEcx' = WithEcx
         /\ Loaded' = Loaded /\ Numbered' = Numbered /\ SysRegs' = SysRegs
         /\ SysFrame' = SysFrame
  BY DEF C, Called, Framed, Below, SyscallAt, FrameAt, Depth, Linked, Entered,
         WithFrame, WithEdx, WithEcx, Loaded, Numbered, SysRegs, SysFrame

LEMMA Fixed ==
  ASSUME call' = call
  PROVE  /\ C' = C /\ Called' = Called /\ Framed' = Framed /\ Below' = Below
         /\ SyscallAt' = SyscallAt /\ FrameAt' = FrameAt /\ Depth' = Depth
         /\ Linked' = Linked /\ Entered' = Entered
         /\ WithFrame' = WithFrame /\ WithEdx' = WithEdx /\ WithEcx' = WithEcx
         /\ Loaded' = Loaded /\ Numbered' = Numbered /\ SysRegs' = SysRegs
         /\ SysFrame' = SysFrame /\ Result' = Result
  BY FixedAt DEF Result
---------------------------------------------------------------------------
(* The program and the wrappers.                                           *)
LEMMA UserCode ==
  ASSUME call.nr \in Numbers
  PROVE  /\ pc \in SyscallAt .. SyscallAt + 11 =>
              Instr = SYSCALL(call.nr)[pc - SyscallAt + 1]
         /\ call.nr = NR_WRITE =>
              /\ pc = SyscallAt - 6 => Instr = push("ebp")
              /\ pc = SyscallAt - 5 => Instr = mov("esp", "ebp")
              /\ pc = SyscallAt - 4 => Instr = push("ebx")
              /\ pc = SyscallAt - 3 => Instr = ldbp(2, "edx")
              /\ pc = SyscallAt - 2 => Instr = ldbp(3, "ecx")
              /\ pc = SyscallAt - 1 => Instr = ldbp(4, "ebx")
              /\ pc = SyscallAt + 12 => Instr = pop("ebx")
              /\ pc = SyscallAt + 13 => Instr = pop("ebp")
              /\ pc = SyscallAt + 14 => Instr = plain("ret")
         /\ call.nr # NR_WRITE =>
              /\ pc = SyscallAt - 2 => Instr = push("ebp")
              /\ pc = SyscallAt - 1 => Instr = mov("esp", "ebp")
              /\ pc = SyscallAt + 12 => Instr = pop("ebp")
              /\ pc = SyscallAt + 13 => Instr = plain("ret")
  <1>1. CASE call.nr = NR_WRITE
    <2>1. SyscallAt = 106 BY <1>1 DEF SyscallAt
    <2>2. pc \in 106 .. 117 => Instr = SYSCALL(NR_WRITE)[pc - 105]
      BY InstrAt, WrapperSyscalls
    <2> QED BY <1>1, <2>1, <2>2, InstrAt, WrapperCode
  <1>2. CASE call.nr = NR_GETTIME
    <2>1. SyscallAt = 202 /\ call.nr # NR_WRITE
      BY <1>2, EntryAssumption DEF SyscallAt
    <2>2. pc \in 202 .. 213 => Instr = SYSCALL(NR_GETTIME)[pc - 201]
      BY InstrAt, WrapperSyscalls
    <2> QED BY <1>2, <2>1, <2>2, InstrAt, WrapperCode
  <1>3. CASE call.nr = NR_NONE
    <2>1. SyscallAt = 302 /\ call.nr # NR_WRITE
      BY <1>3, EntryAssumption DEF SyscallAt
    <2>2. pc \in 302 .. 313 => Instr = SYSCALL(NR_NONE)[pc - 301]
      BY InstrAt, WrapperSyscalls
    <2> QED BY <1>3, <2>1, <2>2, InstrAt, WrapperCode
  <1> QED BY <1>1, <1>2, <1>3 DEF Numbers

LEMMA WrapperSyscall ==
  ASSUME call.nr \in Numbers
  PROVE  /\ pc = SyscallAt => Instr = movi(call.nr, "eax")
         /\ pc = SyscallAt + 1 => Instr = pushrel(4)
         /\ pc = SyscallAt + 2 => Instr = push("ebp")
         /\ pc = SyscallAt + 3 => Instr = mov("esp", "ebp")
         /\ pc = SyscallAt + 4 => Instr = plain("sysenter")
         /\ pc = SyscallAt + 5 => Instr = pop("ebp")
         /\ pc = SyscallAt + 6 => Instr = drop(1)
         /\ pc = SyscallAt + 7 => Instr = jge(5)
         /\ pc = SyscallAt + 8 => Instr = push("eax")
         /\ pc = SyscallAt + 9 => Instr = callc("set_errno")
         /\ pc = SyscallAt + 10 => Instr = drop(1)
         /\ pc = SyscallAt + 11 => Instr = movi(-1, "eax")
  <1>1. SyscallAt \in Int BY DEF SyscallAt
  <1>2. pc \in SyscallAt .. SyscallAt + 11 =>
          Instr = SYSCALL(call.nr)[pc - SyscallAt + 1]
    BY UserCode
  <1> QED BY <1>1, <1>2, SyscallCode

(* An instruction of the program leaves the kernel's part alone.           *)
Quiet == UNCHANGED <<flags, cs, halted, call, snap, kstack>>

LEMMA UserData ==
  ASSUME Execute, cs = USER_CS
  PROVE  /\ \A r : Instr = push(r) =>
              /\ ustack' = Append(ustack, regs[r]) /\ pc' = pc + 1
              /\ UNCHANGED <<regs, errno>> /\ Quiet
         /\ \A n : Instr = pushrel(n) =>
              /\ ustack' = Append(ustack, pc + n) /\ pc' = pc + 1
              /\ UNCHANGED <<regs, errno>> /\ Quiet
         /\ \A r : Instr = pop(r) =>
              /\ ustack' = Truncate(ustack, Len(ustack) - 1) /\ pc' = pc + 1
              /\ regs' = [regs EXCEPT ![r] = ustack[Len(ustack) - 0]]
              /\ UNCHANGED errno /\ Quiet
         /\ \A n : Instr = drop(n) =>
              /\ ustack' = Truncate(ustack, Len(ustack) - n) /\ pc' = pc + 1
              /\ UNCHANGED <<regs, errno>> /\ Quiet
         /\ \A r : Instr = mov("esp", r) =>
              /\ regs' = [regs EXCEPT ![r] = Len(ustack)] /\ pc' = pc + 1
              /\ UNCHANGED <<ustack, errno>> /\ Quiet
         /\ \A v, r : Instr = movi(v, r) =>
              /\ regs' = [regs EXCEPT ![r] = v] /\ pc' = pc + 1
              /\ UNCHANGED <<ustack, errno>> /\ Quiet
         /\ \A k, r : Instr = ldbp(k, r) =>
              /\ regs' = [regs EXCEPT ![r] = ustack[regs["ebp"] - k]]
              /\ pc' = pc + 1 /\ UNCHANGED <<ustack, errno>> /\ Quiet
  BY PushData, PopData, MoveData, Zenon
     DEF SetStack, stack, SetReg, Word, Advance, Quiet

LEMMA Moved ==
  ASSUME call' = call
  PROVE  errno' = errno =>
           /\ InPrologue(regs, pc, ustack)' <=> InPrologue(regs', pc', ustack')
           /\ InRequest(regs, pc, ustack)' <=> InRequest(regs', pc', ustack')
           /\ InReply(regs, pc, ustack)' <=> InReply(regs', pc', ustack')
           /\ InError(regs, pc, ustack)' <=> InError(regs', pc', ustack')
           /\ InEpilogue(regs, pc, ustack)' <=> InEpilogue(regs', pc', ustack')
  BY Fixed DEF InPrologue, InRequest, InReply, InError, InEpilogue, Kept

(* pushl %ebp and so on, up to SYSCALL.                                    *)
LEMMA PrologueStep ==
  ASSUME EntryTypeOK, UserMode, Execute, call.nr \in Numbers,
         InPrologue(regs, pc, ustack)
  PROVE  Quiet /\ errno' = errno /\ pc' \in 100 .. 400 /\ UserOK(regs, pc, ustack)'
  <1>1. cs = USER_CS /\ errno = call.errno BY DEF UserMode, InPrologue
  <1>2. SUFFICES /\ Quiet /\ errno' = errno /\ pc' = pc + 1
                 /\ \/ InPrologue(regs', pc', ustack')
                    \/ InRequest(regs', pc', ustack')
    <2>1. pc' \in 100 .. 400 BY <1>2, Places DEF InPrologue, EntryTypeOK
    <2>2. EntryTypeOK /\ call' = call BY <1>2 DEF Quiet
    <2>3. regs' \in [Registers -> Int] /\ ustack' \in Seq(Int)
      BY <1>2, CallStack, CallRegisters DEF InPrologue, InRequest
    <2> QED BY <1>2, <2>1, <2>2, <2>3, Moved DEF UserOK
  <1>3. CASE /\ pc = SyscallAt - 6 /\ regs = C /\ ustack = Called
             /\ call.nr = NR_WRITE
    <2>1. Instr = push("ebp") BY <1>3, UserCode
    <2>2. /\ ustack' = Framed /\ pc' = pc + 1 /\ regs' = C
          /\ errno' = errno /\ Quiet
      BY <1>1, <1>3, <2>1, UserData DEF Framed
    <2> QED BY <1>1, <1>3, <2>2, Places DEF InPrologue
  <1>4. CASE /\ pc = SyscallAt - 5 /\ regs = C /\ ustack = Framed
             /\ call.nr = NR_WRITE
    <2>1. Instr = mov("esp", "ebp") BY <1>4, UserCode
    <2>2. /\ ustack' = Framed /\ pc' = pc + 1 /\ regs' = WithFrame
          /\ errno' = errno /\ Quiet
      BY <1>1, <1>4, <2>1, UserData, CallStack DEF WithFrame
    <2> QED BY <1>1, <1>4, <2>2, Places DEF InPrologue
  <1>5. CASE /\ pc = SyscallAt - 4 /\ regs = WithFrame /\ ustack = Framed
             /\ call.nr = NR_WRITE
    <2>1. Instr = push("ebx") BY <1>5, UserCode
    <2>2. WithFrame["ebx"] = C["ebx"]
      BY CallRegisters
    <2>3. /\ ustack' = Below /\ pc' = pc + 1 /\ regs' = WithFrame
          /\ errno' = errno /\ Quiet
      BY <1>1, <1>5, <2>1, <2>2, UserData DEF Below
    <2> QED BY <1>1, <1>5, <2>3, Places DEF InPrologue
  <1>6. CASE /\ pc = SyscallAt - 3 /\ regs = WithFrame /\ ustack = Below
             /\ call.nr = NR_WRITE
    <2>1. Instr = ldbp(2, "edx") BY <1>6, UserCode
    <2>2. Below[WithFrame["ebp"] - 2] = Args[1]
      BY <1>6, CallRegisters, WriteArguments
    <2>3. /\ ustack' = Below /\ pc' = pc + 1 /\ regs' = WithEdx
          /\ errno' = errno /\ Quiet
      BY <1>1, <1>6, <2>1, <2>2, UserData DEF WithEdx
    <2> QED BY <1>1, <1>6, <2>3, Places DEF InPrologue
  <1>7. CASE /\ pc = SyscallAt - 2 /\ regs = WithEdx /\ ustack = Below
             /\ call.nr = NR_WRITE
    <2>1. Instr = ldbp(3, "ecx") BY <1>7, UserCode
    <2>2. Below[WithEdx["ebp"] - 3] = Args[2]
      BY <1>7, CallRegisters, WriteArguments
    <2>3. /\ ustack' = Below /\ pc' = pc + 1 /\ regs' = WithEcx
          /\ errno' = errno /\ Quiet
      BY <1>1, <1>7, <2>1, <2>2, UserData DEF WithEcx
    <2> QED BY <1>1, <1>7, <2>3, Places DEF InPrologue
  <1>8. CASE /\ pc = SyscallAt - 1 /\ regs = WithEcx /\ ustack = Below
             /\ call.nr = NR_WRITE
    <2>1. Instr = ldbp(4, "ebx") BY <1>8, UserCode
    <2>2. Below[WithEcx["ebp"] - 4] = Args[3]
      BY <1>8, CallRegisters, WriteArguments
    <2>3. /\ ustack' = Below /\ pc' = pc + 1 /\ regs' = Loaded
          /\ errno' = errno /\ Quiet
      BY <1>1, <1>8, <2>1, <2>2, UserData DEF Loaded
    <2> QED BY <1>1, <1>8, <2>3, Places DEF InRequest
  <1>9. CASE /\ pc = SyscallAt - 2 /\ regs = C /\ ustack = Called
             /\ call.nr # NR_WRITE
    <2>1. Instr = push("ebp") BY <1>9, UserCode
    <2>2. /\ ustack' = Framed /\ pc' = pc + 1 /\ regs' = C
          /\ errno' = errno /\ Quiet
      BY <1>1, <1>9, <2>1, UserData DEF Framed
    <2> QED BY <1>1, <1>9, <2>2, Places DEF InPrologue
  <1>10. CASE /\ pc = SyscallAt - 1 /\ regs = C /\ ustack = Framed
              /\ call.nr # NR_WRITE
    <2>1. Instr = mov("esp", "ebp") BY <1>10, UserCode
    <2>2. /\ ustack' = Below /\ pc' = pc + 1 /\ regs' = Loaded
          /\ errno' = errno /\ Quiet
      BY <1>1, <1>10, <2>1, UserData, CallStack DEF WithFrame, Loaded, Below
    <2> QED BY <1>1, <1>10, <2>2, Places DEF InRequest
  <1> QED
    BY <1>3, <1>4, <1>5, <1>6, <1>7, <1>8, <1>9, <1>10 DEF InPrologue

(* SYSCALL up to sysenter, which enters syscall_handler.                   *)
LEMMA RequestStep ==
  ASSUME EntryTypeOK, UserMode, Execute, call.nr \in Numbers,
         InRequest(regs, pc, ustack)
  PROVE  \/ Quiet /\ errno' = errno /\ pc' \in 100 .. 400 /\ UserOK(regs, pc, ustack)'
         \/ /\ UNCHANGED <<regs, ustack, errno, call, snap>> /\ kstack' = <<>>
            /\ pc' \in 100 .. 400 /\ halted' \in BOOLEAN /\ SysMode'
  <1>1. cs = USER_CS /\ errno = call.errno BY DEF UserMode, InRequest
  <1>2. CASE \/ pc = SyscallAt /\ regs = Loaded /\ ustack = Below
             \/ pc = SyscallAt + 1 /\ regs = Numbered /\ ustack = Below
             \/ pc = SyscallAt + 2 /\ regs = Numbered /\ ustack = Linked
             \/ pc = SyscallAt + 3 /\ regs = Numbered /\ ustack = Entered
    <2>1. SUFFICES /\ Quiet /\ errno' = errno /\ pc' = pc + 1
                   /\ InRequest(regs', pc', ustack')
      <3>1. pc' \in 100 .. 400 BY <2>1, Places DEF InRequest
      <3>2. call' = call BY <2>1 DEF Quiet
      <3>3. regs' \in [Registers -> Int] /\ ustack' \in Seq(Int)
        BY <2>1, CallStack, CallRegisters DEF InRequest
      <3> QED BY <2>1, <3>1, <3>2, <3>3, Moved DEF UserOK
    <2>2. CASE pc = SyscallAt /\ regs = Loaded /\ ustack = Below
      <3>1. Instr = movi(call.nr, "eax") BY <2>2, WrapperSyscall
      <3>2. /\ ustack' = Below /\ pc' = pc + 1 /\ regs' = Numbered
            /\ errno' = errno /\ Quiet
        BY <1>1, <2>2, <3>1, UserData DEF Numbered
      <3> QED BY <1>1, <2>2, <3>2, Places DEF InRequest
    <2>3. CASE pc = SyscallAt + 1 /\ regs = Numbered /\ ustack = Below
      <3>1. Instr = pushrel(4) BY <2>3, WrapperSyscall
      <3>2. pc + 4 = SyscallAt + 5 BY <2>3, Places
      <3>3. /\ ustack' = Linked /\ pc' = pc + 1 /\ regs' = Numbered
            /\ errno' = errno /\ Quiet
        BY <1>1, <2>3, <3>1, <3>2, UserData DEF Linked
      <3> QED BY <1>1, <2>3, <3>3, Places DEF InRequest
    <2>4. CASE pc = SyscallAt + 2 /\ regs = Numbered /\ ustack = Linked
      <3>1. Instr = push("ebp") BY <2>4, WrapperSyscall
      <3>2. Numbered["ebp"] = FrameAt BY CallRegisters
      <3>3. /\ ustack' = Entered /\ pc' = pc + 1 /\ regs' = Numbered
            /\ errno' = errno /\ Quiet
        BY <1>1, <2>4, <3>1, <3>2, UserData DEF Entered
      <3> QED BY <1>1, <2>4, <3>3, Places DEF InRequest
    <2>5. CASE pc = SyscallAt + 3 /\ regs = Numbered /\ ustack = Entered
      <3>1. Instr = mov("esp", "ebp") BY <2>5, WrapperSyscall
      <3>2. Len(Entered) = Depth + 2 BY CallStack
      <3>3. /\ ustack' = Entered /\ pc' = pc + 1 /\ regs' = SysRegs
            /\ errno' = errno /\ Quiet
        BY <1>1, <2>5, <3>1, <3>2, UserData DEF SysRegs
      <3> QED BY <1>1, <2>5, <3>3, Places DEF InRequest
    <2> QED BY <1>2, <2>2, <2>3, <2>4, <2>5
  <1>3. CASE pc = SyscallAt + 4 /\ regs = SysRegs /\ ustack = Entered
    <2>1. Instr = plain("sysenter") BY <1>3, WrapperSyscall
    <2>2. /\ pc' = 400 /\ cs' = KERNEL_CS /\ flags' = 0 /\ kstack' = <<>>
          /\ UNCHANGED <<regs, ustack, errno, halted, call, snap>>
      BY <2>1, Transfers DEF Sysenter, syscall_handler_at, History
    <2>3. SysPushing'
      <3>1. /\ pc' = 400 + 0 /\ regs' = SysRegs' /\ Len(kstack') = 0
            /\ \A i \in 1 .. 0 : kstack'[i] = SysFrame'[i]
        BY <1>3, <2>2, Fixed
      <3> QED BY <3>1 DEF SysPushing
    <2>4. SysMode'
      BY <1>1, <1>3, <2>2, <2>3, Fixed DEF SysMode, UserMode
    <2> QED BY <2>2, <2>4 DEF EntryTypeOK
  <1> QED BY <1>2, <1>3 DEF InRequest

LEMMA Clobbered ==
  ASSUME NEW r \in [Registers -> Int]
  PROVE  /\ Clobber(r) \in [Registers -> Int]
         /\ \A x \in CalleeSaved : Clobber(r)[x] = r[x]
  BY DEF Clobber, Registers, CalleeSaved, Junk

LEMMA CalledC ==
  ASSUME Execute, NEW f, Instr = callc(f), f # "page_fault_routine",
         halted \in BOOLEAN
  PROVE  halted' = halted
  <1>1. halted = FALSE BY DEF Execute
  <1>2. CallC /\ Instr[2] = f BY Transfers DEF callc
  <1>3. halted' = FALSE BY <1>2, Zenon DEF CallC
  <1> QED BY <1>1, <1>3

LEMMA ResultInt == ASSUME EntryTypeOK PROVE Result \in Int
  BY DEF EntryTypeOK, Result, ENOSYS

(* After sysexit: the error, if any, goes to errno.                        *)
LEMMA ReplyStep ==
  ASSUME EntryTypeOK, UserMode, Execute, call.nr \in Numbers,
         InReply(regs, pc, ustack)
  PROVE  Quiet /\ errno' \in Int /\ pc' \in 100 .. 400 /\ UserOK(regs, pc, ustack)'
  <1>1. /\ cs = USER_CS /\ errno = call.errno /\ ~halted /\ errno \in Int
        /\ regs["eax"] = Result /\ regs \in [Registers -> Int] /\ Result \in Int
    BY ResultInt DEF UserMode, InReply, EntryTypeOK
  <1>2. CASE pc = SyscallAt + 5 /\ ustack = Entered /\ Kept(regs, Depth + 2)
    <2>1. Instr = pop("ebp") BY <1>2, WrapperSyscall
    <2>2. /\ ustack' = Linked /\ pc' = pc + 1 /\ errno' = errno /\ Quiet
          /\ regs' = [regs EXCEPT !["ebp"] = FrameAt]
      <3>1. /\ Truncate(Entered, Len(Entered) - 1) = Linked
            /\ Entered[Len(Entered) - 0] = FrameAt
        BY CallPops, CallStack
      <3> QED BY <1>1, <1>2, <2>1, <3>1, UserData
    <2>3. /\ regs' \in [Registers -> Int] /\ Kept(regs', FrameAt)
          /\ regs'["eax"] = Result
      BY <1>1, <1>2, <2>2, Places DEF Kept, Registers
    <2>4. InReply(regs', pc', ustack')
      BY <1>1, <1>2, <2>2, <2>3, Places DEF InReply
    <2>5. ustack' \in Seq(Int) /\ pc' \in 100 .. 400
      BY <1>2, <2>2, StackTypes, Places
    <2> QED BY <1>1, <2>2, <2>3, <2>4, <2>5, Moved DEF UserOK, Quiet
  <1>3. CASE pc = SyscallAt + 6 /\ ustack = Linked /\ Kept(regs, FrameAt)
    <2>1. Instr = drop(1) BY <1>3, WrapperSyscall
    <2>2. /\ ustack' = Below /\ pc' = pc + 1 /\ errno' = errno /\ Quiet
          /\ regs' = regs
      BY <1>1, <1>3, <2>1, UserData, CallPops
    <2>3. InReply(regs', pc', ustack')
      BY <1>1, <1>3, <2>2, Places DEF InReply
    <2>4. ustack' \in Seq(Int) /\ pc' \in 100 .. 400
      BY <1>3, <2>2, StackTypes, Places
    <2> QED BY <1>1, <2>2, <2>3, <2>4, Moved DEF UserOK, Quiet
  <1>4. CASE pc = SyscallAt + 7 /\ ustack = Below /\ Kept(regs, FrameAt)
    <2>1. Instr = jge(5) BY <1>4, WrapperSyscall
    <2>2. JumpTo(pc + IF regs["eax"] >= 0 THEN 5 ELSE 1)
      BY <2>1, Jumps
    <2>3. InReply(regs', pc', ustack') \/ InEpilogue(regs', pc', ustack')
      BY <1>1, <1>4, <2>2, Places DEF InReply, InEpilogue, JumpTo
    <2>4. ustack' \in Seq(Int) /\ pc' \in 100 .. 400
      <3>1. pc' \in {SyscallAt + 12, SyscallAt + 8}
        BY <1>4, <2>2, Places DEF JumpTo
      <3> QED BY <1>4, <2>2, <3>1, StackTypes, Places DEF JumpTo
    <2> QED BY <1>1, <2>2, <2>3, <2>4, Moved DEF UserOK, Quiet, JumpTo
  <1>5. CASE /\ pc = SyscallAt + 8 /\ ustack = Below /\ Kept(regs, FrameAt)
             /\ Result < 0
    <2>1. Instr = push("eax") BY <1>5, WrapperSyscall
    <2>2. /\ ustack' = Append(Below, Result) /\ pc' = pc + 1 /\ errno' = errno
          /\ Quiet /\ regs' = regs
      BY <1>1, <1>5, <2>1, UserData
    <2>3. InReply(regs', pc', ustack')
      BY <1>1, <1>5, <2>2, Places DEF InReply
    <2>4. ustack' \in Seq(Int) /\ pc' \in 100 .. 400
      <3>1. pc' \in 100 .. 400 BY <1>5, <2>2, Places
      <3> QED BY <1>1, <2>2, <3>1, StackTypes, PushPop
    <2> QED BY <1>1, <2>2, <2>3, <2>4, Moved DEF UserOK, Quiet
  <1>6. CASE /\ pc = SyscallAt + 9 /\ ustack = Append(Below, Result)
             /\ Kept(regs, FrameAt) /\ Result < 0
    <2>1. Instr = callc("set_errno") BY <1>6, WrapperSyscall
    <2>2. CallC /\ Instr[2] = "set_errno"
      BY <2>1, Transfers DEF callc
    <2>3. Append(Below, Result)[Len(Append(Below, Result)) - 0] = Result
      <3>1. Len(Append(Below, Result)) \in Int
        BY <1>1, CallStack, PushPop
      <3> QED BY <1>1, <3>1, CallPops
    <2>4. /\ errno' = -Result /\ regs' = Clobber(regs) /\ pc' = pc + 1
          /\ ustack' = ustack /\ Quiet
      <3>1. errno' = -Result
        BY <1>1, <1>6, <2>2, <2>3 DEF CallC, Word, stack
      <3>2. halted' = halted
        BY <2>1, CalledC DEF EntryTypeOK
      <3> QED BY <2>2, <3>1, <3>2 DEF CallC, Quiet, Cpu, History
    <2>5. regs' \in [Registers -> Int] /\ Kept(regs', FrameAt)
      BY <1>1, <1>6, <2>4, Clobbered DEF Kept, CalleeSaved
    <2>6. InError(regs, pc, ustack)'
      BY <1>1, <1>6, <2>4, <2>5, Fixed, Places DEF InError, Kept, Quiet
    <2>7. errno' \in Int /\ pc' \in 100 .. 400 /\ ustack' \in Seq(Int)
      <3>1. pc' \in 100 .. 400 BY <1>6, <2>4, Places
      <3> QED BY <1>1, <2>4, <3>1 DEF EntryTypeOK
    <2> QED BY <2>4, <2>5, <2>6, <2>7 DEF UserOK, Quiet
  <1> QED BY <1>1, <1>2, <1>3, <1>4, <1>5, <1>6 DEF InReply

LEMMA ErrorStep ==
  ASSUME EntryTypeOK, UserMode, Execute, call.nr \in Numbers,
         InError(regs, pc, ustack)
  PROVE  Quiet /\ errno' \in Int /\ pc' \in 100 .. 400 /\ UserOK(regs, pc, ustack)'
  <1>1. /\ cs = USER_CS /\ errno = -Result /\ Result < 0 /\ Result \in Int
        /\ Kept(regs, FrameAt) /\ regs \in [Registers -> Int] /\ errno \in Int
    BY ResultInt DEF UserMode, InError, EntryTypeOK
  <1>2. CASE pc = SyscallAt + 10 /\ ustack = Append(Below, Result)
    <2>1. Instr = drop(1) BY <1>2, WrapperSyscall
    <2>2. /\ ustack' = Below /\ pc' = pc + 1 /\ errno' = errno /\ Quiet
          /\ regs' = regs
      BY <1>1, <1>2, <2>1, UserData, CallPops
    <2>3. InError(regs', pc', ustack')
      BY <1>1, <1>2, <2>2, Places DEF InError
    <2>4. ustack' \in Seq(Int) /\ pc' \in 100 .. 400
      BY <1>2, <2>2, StackTypes, Places
    <2> QED BY <1>1, <2>2, <2>3, <2>4, Moved DEF UserOK, Quiet
  <1>3. CASE pc = SyscallAt + 11 /\ ustack = Below
    <2>1. Instr = movi(-1, "eax") BY <1>3, WrapperSyscall
    <2>2. /\ ustack' = Below /\ pc' = pc + 1 /\ errno' = errno /\ Quiet
          /\ regs' = [regs EXCEPT !["eax"] = -1]
      BY <1>1, <1>3, <2>1, UserData
    <2>3. /\ regs' \in [Registers -> Int] /\ Kept(regs', FrameAt)
          /\ regs'["eax"] = -1
      BY <1>1, <2>2 DEF Kept, Registers
    <2>4. InEpilogue(regs', pc', ustack')
      BY <1>1, <1>3, <2>2, <2>3, Places DEF InEpilogue
    <2>5. ustack' \in Seq(Int) /\ pc' \in 100 .. 400
      BY <1>3, <2>2, StackTypes, Places
    <2> QED BY <1>1, <2>2, <2>3, <2>4, <2>5, Moved DEF UserOK, Quiet
  <1> QED BY <1>2, <1>3 DEF InError

(* The end of a wrapper, and ret, which is what WrapperContract is about.  *)
LEMMA EpilogueStep ==
  ASSUME EntryTypeOK, UserMode, Execute, call.nr \in Numbers,
         InEpilogue(regs, pc, ustack)
  PROVE  /\ Quiet /\ errno' \in Int /\ pc' \in Int /\ UserOK(regs, pc, ustack)'
         /\ \/ pc' \in 100 .. 400
            \/ /\ pc' = APP /\ ustack' = <<>>
               /\ \A r \in CalleeSaved : regs'[r] = C[r]
               /\ regs'["eax"] = IF Result < 0 THEN -1 ELSE Result
               /\ errno' = IF Result < 0 THEN -Result ELSE call.errno
  <1>1. /\ cs = USER_CS /\ errno \in Int /\ regs \in [Registers -> Int]
        /\ regs["eax"] = (IF Result < 0 THEN -1 ELSE Result)
        /\ errno = (IF Result < 0 THEN -Result ELSE call.errno)
        /\ C["ebx"] \in Int /\ C["ebp"] \in Int
    BY DEF UserMode, InEpilogue, EntryTypeOK, States, C, Registers
  <1>2. CASE pc = SyscallAt + 12 /\ ustack = Below /\ Kept(regs, FrameAt)
    <2>1. CASE call.nr = NR_WRITE
      <3>1. Instr = pop("ebx") BY <1>2, <2>1, UserCode
      <3>2. /\ ustack' = Framed /\ pc' = pc + 1 /\ errno' = errno /\ Quiet
            /\ regs' = [regs EXCEPT !["ebx"] = C["ebx"]]
        <4>1. /\ Truncate(Below, Len(Below) - 1) = Framed
              /\ Below[Len(Below) - 0] = C["ebx"]
          BY <2>1, CallPops, CallStack
        <4> QED BY <1>1, <1>2, <3>1, <4>1, UserData
      <3>3. /\ regs' \in [Registers -> Int] /\ Kept(regs', FrameAt)
            /\ regs'["ebx"] = C["ebx"] /\ regs'["eax"] = regs["eax"]
        BY <1>1, <1>2, <2>1, <3>2 DEF Kept, Registers
      <3>4. InEpilogue(regs', pc', ustack')
        BY <1>1, <1>2, <2>1, <3>2, <3>3, Places DEF InEpilogue
      <3>5. ustack' \in Seq(Int) /\ pc' \in 100 .. 400
        BY <1>2, <3>2, StackTypes, Places
      <3> QED BY <1>1, <3>2, <3>3, <3>4, <3>5, Moved DEF UserOK, Quiet
    <2>2. CASE call.nr # NR_WRITE
      <3>1. Instr = pop("ebp") BY <1>2, <2>2, UserCode
      <3>2. /\ ustack' = Called /\ pc' = pc + 1 /\ errno' = errno /\ Quiet
            /\ regs' = [regs EXCEPT !["ebp"] = C["ebp"]]
        <4>1. /\ Truncate(Below, Len(Below) - 1) = Called
              /\ Below[Len(Below) - 0] = C["ebp"]
          BY <2>2, CallPops, CallStack DEF Below
        <4> QED BY <1>1, <1>2, <3>1, <4>1, UserData
      <3>3. /\ regs' \in [Registers -> Int] /\ Kept(regs', C["ebp"])
            /\ regs'["ebx"] = C["ebx"] /\ regs'["eax"] = regs["eax"]
        BY <1>1, <1>2, <2>2, <3>2 DEF Kept, Registers
      <3>4. InEpilogue(regs', pc', ustack')
        BY <1>1, <1>2, <2>2, <3>2, <3>3, Places DEF InEpilogue
      <3>5. ustack' \in Seq(Int) /\ pc' \in 100 .. 400
        BY <1>2, <3>2, StackTypes, Places
      <3> QED BY <1>1, <3>2, <3>3, <3>4, <3>5, Moved DEF UserOK, Quiet
    <2> QED BY <2>1, <2>2
  <1>3. CASE /\ pc = SyscallAt + 13 /\ ustack = Framed /\ Kept(regs, FrameAt)
             /\ call.nr = NR_WRITE /\ regs["ebx"] = C["ebx"]
    <2>1. Instr = pop("ebp") BY <1>3, UserCode
    <2>2. /\ ustack' = Called /\ pc' = pc + 1 /\ errno' = errno /\ Quiet
          /\ regs' = [regs EXCEPT !["ebp"] = C["ebp"]]
      <3>1. /\ Truncate(Framed, Len(Framed) - 1) = Called
            /\ Framed[Len(Framed) - 0] = C["ebp"]
        BY CallPops, CallStack
      <3> QED BY <1>1, <1>3, <2>1, <3>1, UserData
    <2>3. /\ regs' \in [Registers -> Int] /\ Kept(regs', C["ebp"])
          /\ regs'["ebx"] = C["ebx"] /\ regs'["eax"] = regs["eax"]
      BY <1>1, <1>3, <2>2 DEF Kept, Registers
    <2>4. InEpilogue(regs', pc', ustack')
      BY <1>1, <1>3, <2>2, <2>3, Places DEF InEpilogue
    <2>5. ustack' \in Seq(Int) /\ pc' \in 100 .. 400
      BY <1>3, <2>2, StackTypes, Places
    <2> QED BY <1>1, <2>2, <2>3, <2>4, <2>5, Moved DEF UserOK, Quiet
  <1>4. CASE /\ pc = (IF call.nr = NR_WRITE THEN 120 ELSE SyscallAt + 13)
             /\ ustack = Called /\ Kept(regs, C["ebp"]) /\ regs["ebx"] = C["ebx"]
    <2>1. pc = IF call.nr = NR_WRITE THEN SyscallAt + 14 ELSE SyscallAt + 13
      BY <1>4, Places
    <2>2. Instr = plain("ret") BY <2>1, UserCode
    <2>3. ret BY <2>2, Transfers
    <2>4. Len(Called) = (IF call.nr = NR_WRITE THEN 4 ELSE 1)
          /\ Called[Len(Called) - 0] = APP
      BY DEF Called
    <2>5. Len(ustack) - 1 - CallArgs = 0
      BY <1>4, <2>4 DEF CallArgs
    <2>6. /\ pc' = APP /\ ustack' = Truncate(ustack, 0)
          /\ UNCHANGED <<regs, errno>> /\ Quiet
      BY <1>1, <1>4, <2>3, <2>4, <2>5 DEF ret, Word, stack, Quiet, Cpu, History
    <2>7. ustack' = <<>>
      <3>1. ustack \in Seq(Int) /\ 0 \in Nat /\ 0 <= Len(ustack)
        BY DEF EntryTypeOK
      <3>2. ustack' \in Seq(Int) /\ Len(ustack') = 0
        BY <2>6, <3>1, Truncated
      <3> QED BY <3>2
    <2>8. \A r \in CalleeSaved : regs'[r] = C[r]
      BY <1>4, <2>6 DEF Kept, CalleeSaved
    <2>9. UserOK(regs, pc, ustack)' /\ pc' \in Int /\ errno' \in Int
      <3>1. <<>> \in Seq(Int) /\ APP \in Int BY DEF APP
      <3>2. /\ regs' \in [Registers -> Int] /\ ustack' \in Seq(Int)
            /\ pc' = APP' /\ ustack' = <<>>
        BY <1>1, <2>6, <2>7, <3>1 DEF APP
      <3> QED BY <1>1, <2>6, <3>1, <3>2 DEF UserOK
    <2> QED BY <1>1, <2>6, <2>7, <2>8, <2>9
  <1> QED BY <1>2, <1>3, <1>4 DEF InEpilogue

(* The program itself executes nothing that the model follows.             *)
LEMMA AppCode ==
  ASSUME pc = APP
  PROVE  op = "app" /\ ~Execute
  <1>1. Routine(0) = <<plain("app")>> /\ ((0 % ALIGN) + 1) = 1
    BY DEF Routine, ALIGN, write_at, gettime_at, no_such_call_at,
           syscall_handler_at, clock_handler_at, keyboard_handler_at,
           page_fault_handler2_at
  <1>2. op = "app" BY <1>1 DEF Instr, op, APP, plain
  <1> QED BY <1>2, Mnemonics DEF Execute

LEMMA UserStep ==
  ASSUME EntryTypeOK, UserMode, Execute
  PROVE  EntryTypeOK' /\ (UserMode' \/ SysMode')
  <1>1. pc # APP /\ call.nr \in Numbers
    BY AppCode DEF UserMode, UserOK
  <1> DEFINE Stays == Quiet /\ errno' \in Int /\ pc' \in Int /\ UserOK(regs, pc, ustack)'
             Enters == /\ UNCHANGED <<regs, ustack, errno, call, snap>>
                       /\ kstack' = <<>> /\ pc' \in Int /\ halted' \in BOOLEAN
                       /\ SysMode'
  <1>2. Stays \/ Enters
    <2>1. errno \in Int /\ \A n \in 100 .. 400 : n \in Int BY DEF EntryTypeOK
    <2>2. CASE InPrologue(regs, pc, ustack)
      BY <1>1, <2>1, <2>2, PrologueStep
    <2>3. CASE InRequest(regs, pc, ustack)
      <3>1. \/ /\ Quiet /\ errno' = errno /\ pc' \in 100 .. 400
               /\ UserOK(regs, pc, ustack)'
            \/ Enters
        BY <1>1, <2>1, <2>3, RequestStep, Zenon
      <3> QED BY <2>1, <3>1
    <2>4. CASE InReply(regs, pc, ustack)
      BY <1>1, <2>1, <2>4, ReplyStep
    <2>5. CASE InError(regs, pc, ustack)
      BY <1>1, <2>1, <2>5, ErrorStep
    <2>6. CASE InEpilogue(regs, pc, ustack)
      BY <1>1, <2>6, EpilogueStep
    <2> QED BY <1>1, <2>2, <2>3, <2>4, <2>5, <2>6 DEF UserMode, UserOK
  <1>3. CASE Stays
    <2>1. regs' \in [Registers -> Int] /\ ustack' \in Seq(Int)
      BY <1>3 DEF UserOK
    <2>2. EntryTypeOK'
      BY <1>3, <2>1 DEF EntryTypeOK, Quiet
    <2>3. UserMode'
      BY <1>3 DEF UserMode, Quiet
    <2> QED BY <2>2, <2>3
  <1>4. CASE Enters
    <2>1. <<>> \in Seq(Int) OBVIOUS
    <2>2. EntryTypeOK' BY <1>4, <2>1 DEF EntryTypeOK
    <2> QED BY <1>4, <2>2
  <1> QED BY <1>2, <1>3, <1>4
---------------------------------------------------------------------------
(* The kernel: SAVE_ALL and RESTORE_ALL.                                   *)
LEMMA SaveRegisters ==
  /\ \A i \in 1 .. 11 : SaveOrder[i] \in Registers
  /\ \A x \in Registers : \E i \in 1 .. 11 : SaveOrder[i] = x
  /\ \A i, j \in 1 .. 11 : SaveOrder[i] = SaveOrder[j] => i = j
  BY DEF SaveOrder, Registers

LEMMA SavedOne ==
  ASSUME NEW s, NEW f, NEW r \in [Registers -> Int], NEW k \in 0 .. 10,
         Holds(s, f, r, k)
  PROVE  Holds(Append(s, r[SaveOrder[k + 1]]), f, r, k + 1)
  <1> DEFINE x == r[SaveOrder[k + 1]]
             t == Append(s, x)
  <1>1. x \in Int
    <2>1. SaveOrder[k + 1] \in Registers
      <3>1. k + 1 \in 1 .. 11 OBVIOUS
      <3> QED BY <3>1, SaveRegisters
    <2> QED BY <2>1
  <1>2. s \in Seq(Int) /\ Len(s) = 5 + k
    BY DEF Holds
  <1>3. /\ t \in Seq(Int) /\ Len(t) = 5 + (k + 1) /\ t[5 + (k + 1)] = x
        /\ \A i \in 1 .. 5 + k : t[i] = s[i]
    <2>1. Len(s) + 1 = 5 + (k + 1) BY <1>2
    <2> QED BY <1>1, <1>2, <2>1, PushPop
  <1> HIDE DEF t
  <1>4. ASSUME NEW i \in 1 .. 5 PROVE t[i] = f[i]
    <2>1. i \in 1 .. 5 + k OBVIOUS
    <2> QED BY <1>3, <2>1 DEF Holds
  <1>5. ASSUME NEW i \in 1 .. k + 1 PROVE t[5 + i] = r[SaveOrder[i]]
    <2>1. CASE i = k + 1 BY <1>3, <2>1
    <2>2. CASE i \in 1 .. k
      <3>1. 5 + i \in 1 .. 5 + k BY <2>2
      <3> QED BY <1>3, <2>2, <3>1 DEF Holds
    <2> QED BY <2>1, <2>2
  <1>6. Holds(t, f, r, k + 1)
    BY <1>3, <1>4, <1>5 DEF Holds
  <1> QED BY <1>6 DEF t

LEMMA RestoredOne ==
  ASSUME NEW s, NEW f, NEW r \in [Registers -> Int], NEW now \in [Registers -> Int],
         NEW k \in 0 .. 10, Restoring(s, f, r, now, k)
  PROVE  /\ s[Len(s)] = r[SaveOrder[11 - k]]
         /\ Restoring(Truncate(s, Len(s) - 1), f, r,
                      [now EXCEPT ![SaveOrder[11 - k]] = s[Len(s)]], k + 1)
  <1> DEFINE t == Truncate(s, Len(s) - 1)
             reg == SaveOrder[11 - k]
             n == [now EXCEPT ![reg] = s[Len(s)]]
  <1>1. /\ s \in Seq(Int) /\ Len(s) = 16 - k
        /\ \A i \in 1 .. 5 : s[i] = f[i]
        /\ \A i \in 1 .. 11 - k : s[5 + i] = r[SaveOrder[i]]
        /\ \A i \in 12 - k .. 11 : now[SaveOrder[i]] = r[SaveOrder[i]]
    BY DEF Restoring, Holds
  <1>2. s[Len(s)] = r[reg]
    <2>1. 5 + (11 - k) = Len(s) /\ 11 - k \in 1 .. 11 - k BY <1>1
    <2> QED BY <1>1, <2>1
  <1>3. /\ t \in Seq(Int) /\ Len(t) = 5 + (11 - (k + 1))
        /\ \A i \in 1 .. 15 - k : t[i] = s[i]
    <2>1. Len(s) > 0 /\ Len(s) - 1 = 15 - k /\ 15 - k = 5 + (11 - (k + 1))
      BY <1>1
    <2>2. /\ t \in Seq(Int) /\ Len(t) = Len(s) - 1
          /\ \A i \in 1 .. Len(s) - 1 : t[i] = s[i]
      BY <1>1, <2>1, Popped
    <2> HIDE DEF t
    <2> QED BY <2>1, <2>2
  <1> HIDE DEF t
  <1>4. Holds(t, f, r, 11 - (k + 1))
    <2>1. ASSUME NEW i \in 1 .. 5 PROVE t[i] = f[i]
      <3>1. i \in 1 .. 15 - k OBVIOUS
      <3> QED BY <1>1, <1>3, <3>1
    <2>2. ASSUME NEW i \in 1 .. 11 - (k + 1) PROVE t[5 + i] = r[SaveOrder[i]]
      <3>1. 5 + i \in 1 .. 15 - k /\ i \in 1 .. 11 - k OBVIOUS
      <3> QED BY <1>1, <1>3, <3>1
    <2> QED BY <1>3, <2>1, <2>2 DEF Holds
  <1>5. ASSUME NEW i \in 12 - (k + 1) .. 11
        PROVE  n[SaveOrder[i]] = r[SaveOrder[i]]
    <2>1. /\ i \in 1 .. 11 /\ 11 - k \in 1 .. 11
          /\ i = 11 - k \/ i \in 12 - k .. 11
      OBVIOUS
    <2>2. SaveOrder[i] \in Registers /\ reg \in Registers
      BY <2>1, SaveRegisters
    <2>3. CASE i = 11 - k BY <1>2, <2>2, <2>3
    <2>4. CASE i \in 12 - k .. 11
      <3>1. SaveOrder[i] # reg
        <4>1. i # 11 - k BY <2>4
        <4> QED BY <2>1, <4>1, SaveRegisters
      <3> QED BY <1>1, <2>2, <2>4, <3>1
    <2> QED BY <2>1, <2>3, <2>4
  <1>6. Restoring(t, f, r, n, k + 1)
    BY <1>4, <1>5 DEF Restoring
  <1> QED BY <1>2, <1>6 DEF t

LEMMA AllRestored ==
  ASSUME NEW s, NEW f, NEW r \in [Registers -> Int], NEW now \in [Registers -> Int],
         Restoring(s, f, r, now, 11)
  PROVE  now = r /\ Holds(s, f, r, 0)
  <1>1. Holds(s, f, r, 11 - 11) /\ \A i \in 12 - 11 .. 11 : now[SaveOrder[i]] = r[SaveOrder[i]]
    BY DEF Restoring
  <1>2. \A x \in Registers : now[x] = r[x]
    BY <1>1, SaveRegisters
  <1>3. 11 - 11 = 0 OBVIOUS
  <1> QED BY <1>1, <1>2, <1>3

(* An instruction of the kernel leaves the program's part alone.           *)
Private == UNCHANGED <<flags, cs, halted, call, snap, ustack, errno>>

LEMMA KernelData ==
  ASSUME Execute, cs = KERNEL_CS
  PROVE  /\ \A r : Instr = push(r) =>
              /\ kstack' = Append(kstack, regs[r])
              /\ pc' = pc + 1 /\ regs' = regs /\ Private
         /\ \A v : Instr = pushi(v) =>
              /\ kstack' = Append(kstack, v)
              /\ pc' = pc + 1 /\ regs' = regs /\ Private
         /\ \A k : Instr = pushbp(k) =>
              /\ kstack' = Append(kstack, ustack[regs["ebp"] - k])
              /\ pc' = pc + 1 /\ regs' = regs /\ Private
         /\ \A k : Instr = pushsp(k) =>
              /\ kstack' = Append(kstack, kstack[Len(kstack) - k])
              /\ pc' = pc + 1 /\ regs' = regs /\ Private
         /\ Instr = plain("pushfl") =>
              /\ kstack' = Append(kstack, flags)
              /\ pc' = pc + 1 /\ regs' = regs /\ Private
         /\ \A r : Instr = pop(r) =>
              /\ kstack' = Truncate(kstack, Len(kstack) - 1)
              /\ regs' = [regs EXCEPT ![r] = kstack[Len(kstack) - 0]]
              /\ pc' = pc + 1 /\ Private
         /\ \A k, r : Instr = stsp(k, r) =>
              /\ kstack' = [kstack EXCEPT ![Len(kstack) - k] = regs[r]]
              /\ pc' = pc + 1 /\ regs' = regs /\ Private
         /\ \A r : Instr = mov("edx", r) =>
              /\ regs' = [regs EXCEPT ![r] = regs["edx"]]
              /\ pc' = pc + 1 /\ kstack' = kstack /\ Private
         /\ \A v, r : Instr = movi(v, r) =>
              /\ regs' = [regs EXCEPT ![r] = v]
              /\ pc' = pc + 1 /\ kstack' = kstack /\ Private
         /\ \A k, r : Instr = ldsp(k, r) =>
              /\ regs' = [regs EXCEPT ![r] = kstack[Len(kstack) - k]]
              /\ pc' = pc + 1 /\ kstack' = kstack /\ Private
         /\ Instr = plain("outb") =>
              pc' = pc + 1 /\ UNCHANGED <<regs, kstack>> /\ Private
  <1>1. KERNEL_CS # USER_CS BY DEF KERNEL_CS, USER_CS
  <1>2. stack = kstack /\ \A s : SetStack(s) => kstack' = s /\ ustack' = ustack
    BY <1>1 DEF stack, SetStack
  <1> QED BY <1>2, PushData, PopData, MoveData, Zenon
          DEF SetReg, Word, Advance, Private

(* syscall_handler builds the context that the processor would have        *)
(* pushed, then saves the registers.                                       *)
LEMMA SysFramePush ==
  ASSUME EntryTypeOK, SysMode, Execute, NEW j \in 0 .. 4,
         pc = 400 + j, regs = SysRegs
  PROVE  /\ kstack' = Append(kstack, SysFrame[j + 1])
         /\ pc' = pc + 1 /\ regs' = regs /\ Private
  <1>1. cs = KERNEL_CS /\ flags = 0 /\ ustack = Entered BY DEF SysMode
  <1>2. Instr = syscall_handler[j + 1] BY InstrAt
  <1>3. /\ SysFrame[1] = USER_DS /\ SysFrame[2] = Depth + 2 /\ SysFrame[3] = 0
        /\ SysFrame[4] = USER_CS /\ SysFrame[5] = SyscallAt + 5
    BY DEF SysFrame
  <1>4. regs["ebp"] = Depth + 2
    BY CallRegisters DEF Kept
  <1>5. ustack[regs["ebp"] - 1] = SyscallAt + 5
    <2>1. regs["ebp"] - 1 = Depth + 1 BY <1>4, Places
    <2>2. Entered[Depth + 1] = SyscallAt + 5 BY CallStack
    <2> QED BY <1>1, <2>1, <2>2
  <1>6. CASE j = 0
    <2>1. Instr = pushi(USER_DS) BY <1>2, <1>6, SyscallHandlerCode
    <2> QED BY <1>1, <1>3, <1>6, <2>1, KernelData
  <1>7. CASE j = 1
    <2>1. Instr = push("ebp") BY <1>2, <1>7, SyscallHandlerCode
    <2> QED BY <1>1, <1>3, <1>4, <1>7, <2>1, KernelData
  <1>8. CASE j = 2
    <2>1. Instr = plain("pushfl") BY <1>2, <1>8, SyscallHandlerCode
    <2> QED BY <1>1, <1>3, <1>8, <2>1, KernelData
  <1>9. CASE j = 3
    <2>1. Instr = pushi(USER_CS) BY <1>2, <1>9, SyscallHandlerCode
    <2> QED BY <1>1, <1>3, <1>9, <2>1, KernelData
  <1>10. CASE j = 4
    <2>1. Instr = pushbp(1) BY <1>2, <1>10, SyscallHandlerCode
    <2> QED BY <1>1, <1>3, <1>5, <1>10, <2>1, KernelData
  <1> QED BY <1>6, <1>7, <1>8, <1>9, <1>10

LEMMA SysKeeps ==
  ASSUME EntryTypeOK, SysMode, Private, pc' \in Int,
         regs' \in [Registers -> Int], kstack' \in Seq(Int),
         SysPushing' \/ SysChecking' \/ SysReplying' \/ SysRestoring'
  PROVE  EntryTypeOK' /\ SysMode'
  <1>1. EntryTypeOK' BY DEF EntryTypeOK, Private
  <1>2. Entered' = Entered BY Fixed DEF Private
  <1> QED BY <1>1, <1>2 DEF SysMode, Private

LEMMA SysFrameInt ==
  /\ \A i \in 1 .. 5 : SysFrame[i] \in Int
  BY Places DEF SysFrame, USER_DS, USER_CS

LEMMA SysPushingStep ==
  ASSUME EntryTypeOK, SysMode, Execute, SysPushing
  PROVE  EntryTypeOK' /\ SysMode'
  <1>1. cs = KERNEL_CS /\ kstack \in Seq(Int) BY DEF SysMode, EntryTypeOK
  <1>2. SysRegs \in [Registers -> Int] BY CallRegisters
  <1>3. ASSUME NEW j \in 0 .. 4, pc = 400 + j, regs = SysRegs, Len(kstack) = j,
               \A i \in 1 .. j : kstack[i] = SysFrame[i]
        PROVE  EntryTypeOK' /\ SysMode'
    <2>1. /\ kstack' = Append(kstack, SysFrame[j + 1])
          /\ pc' = pc + 1 /\ regs' = regs /\ Private
      BY <1>3, SysFramePush
    <2>2. SysFrame' = SysFrame /\ SysRegs' = SysRegs BY <2>1, Fixed DEF Private
    <2>3. /\ kstack' \in Seq(Int) /\ Len(kstack') = j + 1
          /\ kstack'[j + 1] = SysFrame[j + 1]
          /\ \A i \in 1 .. j : kstack'[i] = kstack[i]
      <3>1. j + 1 \in 1 .. 5 OBVIOUS
      <3>2. SysFrame[j + 1] \in Int BY <3>1, SysFrameInt
      <3> QED BY <1>1, <1>3, <2>1, <3>2, PushPop
    <2>4. ASSUME NEW i \in 1 .. j + 1 PROVE kstack'[i] = SysFrame[i]
      <3>1. i \in 1 .. j \/ i = j + 1 OBVIOUS
      <3> QED BY <1>3, <2>3, <3>1
    <2>5. SysPushing'
      <3>1. CASE j < 4
        <4>1. /\ j + 1 \in 0 .. 4 /\ pc' = 400 + (j + 1) BY <1>3, <2>1, <3>1
        <4> QED BY <1>3, <2>1, <2>2, <2>3, <2>4, <4>1 DEF SysPushing
      <3>2. CASE j = 4
        <4>1. Holds(kstack', SysFrame, SysRegs, 0)
          BY <2>3, <2>4, <3>2 DEF Holds
        <4>2. pc' = 405 + 0 BY <1>3, <2>1, <3>2
        <4> QED BY <1>3, <2>1, <2>2, <4>1, <4>2 DEF SysPushing, Holds
      <3> QED BY <3>1, <3>2
    <2>6. pc' \in Int /\ regs' \in [Registers -> Int]
      BY <1>3, <2>1 DEF EntryTypeOK
    <2> QED BY <2>1, <2>3, <2>5, <2>6, SysKeeps
  <1>4. ASSUME NEW k \in 0 .. 11, pc = 405 + k, regs = SysRegs,
               Holds(kstack, SysFrame, SysRegs, k)
        PROVE  EntryTypeOK' /\ SysMode'
    <2>1. CASE k \in 0 .. 10
      <3>1. Instr = push(SaveOrder[k + 1])
        <4>1. Instr = syscall_handler[k + 6]
          <5>1. pc \in 400 .. 499 /\ pc - 399 = k + 6 BY <1>4
          <5> QED BY <5>1, InstrAt
        <4> QED BY <2>1, <4>1, SaveCode
      <3>2. /\ kstack' = Append(kstack, SysRegs[SaveOrder[k + 1]])
            /\ pc' = pc + 1 /\ regs' = regs /\ Private
        BY <1>1, <1>4, <3>1, KernelData
      <3>3. Holds(kstack', SysFrame, SysRegs, k + 1)
        BY <1>2, <1>4, <2>1, <3>2, SavedOne
      <3>4. SysFrame' = SysFrame /\ SysRegs' = SysRegs BY <3>2, Fixed DEF Private
      <3>5. k + 1 \in 0 .. 11 /\ pc' = 405 + (k + 1) BY <1>4, <2>1, <3>2
      <3>6. SysPushing'
        BY <1>4, <3>2, <3>3, <3>4, <3>5 DEF SysPushing, Holds
      <3>7. pc' \in Int /\ regs' \in [Registers -> Int] /\ kstack' \in Seq(Int)
        BY <3>2, <3>3, <3>5 DEF EntryTypeOK, Holds
      <3> QED BY <3>2, <3>6, <3>7, SysKeeps
    <2>2. CASE k = 11
      <3>1. Instr = movi(KERNEL_DS, "edx")
        <4>1. pc \in 400 .. 499 /\ pc - 399 = 17 BY <1>4, <2>2
        <4> QED BY <4>1, InstrAt, SyscallHandlerCode
      <3>2. /\ regs' = [regs EXCEPT !["edx"] = KERNEL_DS]
            /\ pc' = pc + 1 /\ kstack' = kstack /\ Private
        BY <1>1, <3>1, KernelData
      <3>3. /\ regs' \in [Registers -> Int] /\ regs'["edx"] = KERNEL_DS
            /\ regs'["eax"] = call.nr
        BY <1>2, <1>4, <3>2, CallRegisters DEF Registers, KERNEL_DS
      <3>4. /\ SysFrame' = SysFrame /\ SysRegs' = SysRegs /\ call' = call
        BY <3>2, Fixed DEF Private
      <3>5. /\ pc' = 400 + 17 /\ 17 \in 17 .. 21 /\ Segments(17 - 16)'
            /\ Holds(kstack, SysFrame, SysRegs, 11)'
            /\ regs'["eax"] = call'.nr
        BY <1>4, <2>2, <3>2, <3>3, <3>4 DEF Segments, Holds
      <3>6. SysChecking' BY <3>5 DEF SysChecking
      <3>7. pc' \in Int /\ kstack' \in Seq(Int) BY <1>1, <3>2, <3>5
      <3> QED BY <3>2, <3>3, <3>6, <3>7, SysKeeps
    <2> QED BY <2>1, <2>2
  <1> QED BY <1>3, <1>4 DEF SysPushing

(* The number is checked; with an unknown one sys_call_table is not read.  *)
LEMMA SysCheckingStep ==
  ASSUME EntryTypeOK, SysMode, Execute, SysChecking, pc # 421
  PROVE  EntryTypeOK' /\ SysMode'
  <1>1. /\ cs = KERNEL_CS /\ kstack \in Seq(Int) /\ regs \in [Registers -> Int]
        /\ call.nr \in Numbers
    BY DEF SysMode, EntryTypeOK
  <1>2. PICK j \in 17 .. 21 :
          /\ pc = 400 + j /\ Segments(j - 16)
          /\ Holds(kstack, SysFrame, SysRegs, 11)
          /\ regs["eax"] = call.nr
          /\ j = 20 => call.nr >= 0
          /\ j = 21 => call.nr # NR_NONE
    BY DEF SysChecking
  <1>3. Instr = syscall_handler[j + 1]
    <2>1. pc \in 400 .. 499 /\ pc - 399 = j + 1 BY <1>2
    <2> QED BY <2>1, InstrAt
  <1>4. ASSUME NEW seg \in {"ds", "es"}, NEW n \in 18 .. 19,
               regs' = [regs EXCEPT ![seg] = regs["edx"]], pc' = 400 + n,
               kstack' = kstack, Private, regs["edx"] = KERNEL_DS,
               n = 18 => seg = "ds",
               n = 19 => seg = "es" /\ regs["ds"] = KERNEL_DS
        PROVE  EntryTypeOK' /\ SysMode'
    <2>1. /\ regs' \in [Registers -> Int] /\ regs'["edx"] = KERNEL_DS
          /\ regs'["eax"] = call.nr
          /\ regs'["ds"] = KERNEL_DS /\ n = 19 => regs'["es"] = KERNEL_DS
      BY <1>1, <1>2, <1>4 DEF Registers, KERNEL_DS
    <2>2. SysFrame' = SysFrame /\ SysRegs' = SysRegs /\ call' = call
      BY <1>4, Fixed DEF Private
    <2>3. /\ n \in 17 .. 21 /\ pc' = 400 + n /\ Segments(n - 16)'
          /\ Holds(kstack, SysFrame, SysRegs, 11)'
          /\ regs'["eax"] = call'.nr /\ n # 20 /\ n # 21
      BY <1>2, <1>4, <2>1, <2>2 DEF Segments, Holds
    <2>4. SysChecking' BY <2>3 DEF SysChecking
    <2> QED BY <1>1, <1>4, <2>1, <2>3, <2>4, SysKeeps
  <1>5. CASE j = 17
    <2>1. Instr = mov("edx", "ds") BY <1>3, <1>5, SyscallHandlerCode
    <2>2. /\ regs' = [regs EXCEPT !["ds"] = regs["edx"]]
          /\ pc' = pc + 1 /\ kstack' = kstack /\ Private
      BY <1>1, <2>1, KernelData
    <2>3. regs["edx"] = KERNEL_DS /\ pc' = 400 + 18
      BY <1>2, <1>5, <2>2 DEF Segments
    <2> QED BY <1>4, <2>2, <2>3
  <1>6. CASE j = 18
    <2>1. Instr = mov("edx", "es") BY <1>3, <1>6, SyscallHandlerCode
    <2>2. /\ regs' = [regs EXCEPT !["es"] = regs["edx"]]
          /\ pc' = pc + 1 /\ kstack' = kstack /\ Private
      BY <1>1, <2>1, KernelData
    <2>3. regs["edx"] = KERNEL_DS /\ regs["ds"] = KERNEL_DS /\ pc' = 400 + 19
      BY <1>2, <1>6, <2>2 DEF Segments
    <2> QED BY <1>4, <2>2, <2>3
  <1>7. ASSUME JumpTo(423), call.nr = NR_NONE PROVE EntryTypeOK' /\ SysMode'
    <2>1. pc' = 423 /\ regs' = regs /\ kstack' = kstack /\ Private
      BY <1>7 DEF JumpTo, Private
    <2>2. SysFrame' = SysFrame /\ SysRegs' = SysRegs /\ call' = call
      BY <2>1, Fixed DEF Private
    <2>3. SysReplying'
      BY <1>2, <1>7, <2>1, <2>2 DEF SysReplying, Holds
    <2> QED BY <1>1, <2>1, <2>3, SysKeeps
  <1>8. ASSUME NEW n \in 20 .. 21, JumpTo(400 + n), j >= 19,
               n = 20 => call.nr >= 0, n = 21 => call.nr # NR_NONE
        PROVE  EntryTypeOK' /\ SysMode'
    <2>1. pc' = 400 + n /\ regs' = regs /\ kstack' = kstack /\ Private
      BY <1>8 DEF JumpTo, Private
    <2>2. SysFrame' = SysFrame /\ SysRegs' = SysRegs /\ call' = call
      BY <2>1, Fixed DEF Private
    <2>3. /\ n \in 17 .. 21 /\ Segments(n - 16)'
          /\ Holds(kstack, SysFrame, SysRegs, 11)' /\ regs'["eax"] = call'.nr
      BY <1>2, <1>8, <2>1, <2>2 DEF Segments, Holds
    <2>4. SysChecking' BY <1>8, <2>1, <2>2, <2>3 DEF SysChecking
    <2> QED BY <1>1, <2>1, <2>3, <2>4, SysKeeps
  <1>9. CASE j = 19
    <2>1. Instr = jl(4) BY <1>3, <1>9, SyscallHandlerCode
    <2>2. JumpTo(pc + IF regs["eax"] < 0 THEN 4 ELSE 1)
      BY <2>1, Jumps
    <2>3. CASE call.nr < 0
      <3>1. JumpTo(423) /\ call.nr = NR_NONE
        BY <1>1, <1>2, <1>9, <2>2, <2>3, EntryAssumption DEF Numbers
      <3> QED BY <1>7, <3>1
    <2>4. CASE ~(call.nr < 0)
      <3>1. JumpTo(400 + 20) /\ call.nr >= 0
        BY <1>1, <1>2, <1>9, <2>2, <2>4, EntryAssumption DEF Numbers
      <3> QED BY <1>8, <1>9, <3>1
    <2> QED BY <2>3, <2>4
  <1>10. CASE j = 20
    <2>1. Instr = jg(MAX_SYSCALL, 3) BY <1>3, <1>10, SyscallHandlerCode
    <2>2. JumpTo(pc + IF regs["eax"] > MAX_SYSCALL THEN 3 ELSE 1)
      BY <2>1, Jumps
    <2>3. CASE call.nr > MAX_SYSCALL
      <3>1. JumpTo(423) /\ call.nr = NR_NONE
        BY <1>1, <1>2, <1>10, <2>2, <2>3, EntryAssumption DEF Numbers
      <3> QED BY <1>7, <3>1
    <2>4. CASE ~(call.nr > MAX_SYSCALL)
      <3>1. JumpTo(400 + 21) /\ call.nr # NR_NONE
        BY <1>1, <1>2, <1>10, <2>2, <2>4, EntryAssumption DEF Numbers
      <3> QED BY <1>8, <1>10, <3>1
    <2> QED BY <2>3, <2>4
  <1> QED BY <1>2, <1>5, <1>6, <1>9, <1>10

(* The service routine: its arguments may change, but nothing that the     *)
(* program relies on.                                                      *)
LEMMA Overwritten ==
  ASSUME NEW s, NEW f, NEW r \in [Registers -> Int], Holds(s, f, r, 11)
  PROVE  Holds(Truncate(s, Len(s) - 3) \o <<Junk, Junk, Junk>>, f,
               [r EXCEPT !["ebx"] = Junk, !["ecx"] = Junk, !["edx"] = Junk], 11)
  <1> DEFINE u == Truncate(s, Len(s) - 3)
             t == u \o <<Junk, Junk, Junk>>
             q == [r EXCEPT !["ebx"] = Junk, !["ecx"] = Junk, !["edx"] = Junk]
  <1>1. /\ s \in Seq(Int) /\ Len(s) = 16
        /\ \A i \in 1 .. 5 : s[i] = f[i]
        /\ \A i \in 1 .. 11 : s[5 + i] = r[SaveOrder[i]]
    BY DEF Holds
  <1>2. u \in Seq(Int) /\ Len(u) = 13 /\ \A i \in 1 .. 13 : u[i] = s[i]
    <2>1. Len(s) - 3 = 13 /\ 13 \in Nat /\ 13 <= Len(s) BY <1>1
    <2>2. /\ Truncate(s, 13) \in Seq(Int) /\ Len(Truncate(s, 13)) = 13
          /\ \A i \in 1 .. 13 : Truncate(s, 13)[i] = s[i]
      BY <1>1, <2>1, Truncated
    <2> QED BY <2>1, <2>2
  <1>3. Junk \in Int BY DEF Junk
  <1> HIDE DEF u
  <1>4. /\ t \in Seq(Int) /\ Len(t) = 16 /\ \A i \in 1 .. 13 : t[i] = u[i]
        /\ t[14] = Junk /\ t[15] = Junk /\ t[16] = Junk
    <2> DEFINE v == <<Junk, Junk, Junk>>
    <2>1. /\ v \in Seq(Int) /\ Len(v) = 3
          /\ v[1] = Junk /\ v[2] = Junk /\ v[3] = Junk
      BY <1>3
    <2>a. t = u \o v OBVIOUS
    <2> HIDE DEF v, t
    <2>2. /\ t \in Seq(Int) /\ Len(t) = Len(u) + Len(v)
          /\ \A i \in 1 .. Len(u) + Len(v) :
               t[i] = IF i <= Len(u) THEN u[i] ELSE v[i - Len(u)]
      BY <1>2, <2>a, <2>1, ConcatProperties
    <2>3. Len(u) = 13 /\ Len(u) + Len(v) = 16
      BY <1>2, <2>1
    <2>4. \A i \in 1 .. 16 : t[i] = IF i <= 13 THEN u[i] ELSE v[i - 13]
      BY <2>2, <2>3
    <2>5. t \in Seq(Int) /\ Len(t) = 16
      BY <2>2, <2>3
    <2>6. \A i \in 1 .. 13 : t[i] = u[i]
      BY <2>4
    <2>7. t[14] = v[1] /\ t[15] = v[2] /\ t[16] = v[3]
      <3>1. t[14] = v[14 - 13] /\ t[15] = v[15 - 13] /\ t[16] = v[16 - 13]
        BY <2>4
      <3> QED BY <3>1
    <2> QED BY <2>1, <2>5, <2>6, <2>7
  <1> HIDE DEF t
  <1>5. /\ q["ebx"] = Junk /\ q["ecx"] = Junk /\ q["edx"] = Junk
        /\ \A x \in Registers \ {"ebx", "ecx", "edx"} : q[x] = r[x]
    BY DEF Registers
  <1>6. \A i \in 1 .. 8 : SaveOrder[i] \in Registers \ {"ebx", "ecx", "edx"}
    BY DEF SaveOrder, Registers
  <1>7. SaveOrder[9] = "ebx" /\ SaveOrder[10] = "ecx" /\ SaveOrder[11] = "edx"
    BY DEF SaveOrder
  <1> HIDE DEF q
  <1>8. ASSUME NEW i \in 1 .. 11 PROVE t[5 + i] = q[SaveOrder[i]]
    <2>1. CASE i \in 1 .. 8
      <3>1. 5 + i \in 1 .. 13 BY <2>1
      <3>2. t[5 + i] = s[5 + i] BY <1>2, <1>4, <3>1
      <3> QED BY <1>1, <1>5, <1>6, <2>1, <3>2
    <2>2. CASE i = 9 BY <1>4, <1>5, <1>7, <2>2
    <2>3. CASE i = 10 BY <1>4, <1>5, <1>7, <2>3
    <2>4. CASE i = 11 BY <1>4, <1>5, <1>7, <2>4
    <2> QED BY <2>1, <2>2, <2>3, <2>4
  <1>9. ASSUME NEW i \in 1 .. 5 PROVE t[i] = f[i]
    <2>1. i \in 1 .. 13 OBVIOUS
    <2> QED BY <1>1, <1>2, <1>4, <2>1
  <1>10. Holds(t, f, q, 11) BY <1>4, <1>8, <1>9 DEF Holds
  <1> QED BY <1>10 DEF t, u, q

LEMMA CallTableStep ==
  ASSUME EntryTypeOK, SysMode, Execute, SysChecking, pc = 421
  PROVE  EntryTypeOK' /\ SysMode'
  <1>1. /\ cs = KERNEL_CS /\ kstack \in Seq(Int) /\ regs \in [Registers -> Int]
        /\ call.nr \in Numbers /\ SysRegs \in [Registers -> Int]
    BY CallRegisters DEF SysMode, EntryTypeOK
  <1>2. /\ Holds(kstack, SysFrame, SysRegs, 11)
        /\ regs["eax"] = call.nr /\ call.nr # NR_NONE
    <2>1. ASSUME NEW j \in 17 .. 21, pc = 400 + j PROVE j = 21
      BY <2>1
    <2> QED BY <2>1 DEF SysChecking
  <1>3. Instr = plain("calltable")
    <2>1. pc \in 400 .. 499 /\ pc - 399 = 22 OBVIOUS
    <2> QED BY <2>1, InstrAt, SyscallHandlerCode
  <1>4. CallTable BY <1>3, Transfers
  <1>5. PICK result \in Results, overwrites \in BOOLEAN :
          /\ overwrites => regs["eax"] = NR_WRITE
          /\ regs' = [Clobber(regs) EXCEPT !["eax"] = result]
          /\ kstack' = IF overwrites
                         THEN Truncate(kstack, Len(kstack) - 3) \o <<Junk, Junk, Junk>>
                         ELSE kstack
          /\ call' = [call EXCEPT !.result = result]
    BY <1>4, Zenon DEF CallTable
  <1>6. result \in Int BY EntryAssumption
  <1>7. /\ pc' = 422
        /\ UNCHANGED <<flags, cs, ustack, errno, halted, snap>>
    BY <1>4 DEF CallTable, Cpu
  <1>8. /\ call' \in [at : States, nr : Int, result : Int, errno : Int]
        /\ call'.at = call.at /\ call'.nr = call.nr /\ call'.errno = call.errno
        /\ call'.result = result
    BY <1>5, <1>6 DEF EntryTypeOK
  <1>9. SysFrame' = SysFrame /\ Entered' = Entered /\ C' = C /\ Depth' = Depth
    BY <1>8, FixedAt
  <1>10. regs' \in [Registers -> Int] /\ regs'["eax"] = result
    <2>1. Clobber(regs) \in [Registers -> Int] BY <1>1, Clobbered
    <2> QED BY <1>5, <1>6, <2>1 DEF Registers
  <1>11. Result' = result
    BY <1>2, <1>8 DEF Result
  <1>12. \E r : Returns(r) /\ Holds(kstack', SysFrame, r, 11)
    <2>1. Returns(SysRegs) BY <1>1, CallRegisters DEF Returns
    <2>2. CASE ~overwrites BY <1>2, <1>5, <2>1, <2>2
    <2>3. CASE overwrites
      <3> DEFINE q == [SysRegs EXCEPT !["ebx"] = Junk, !["ecx"] = Junk, !["edx"] = Junk]
      <3>1. Holds(kstack', SysFrame, q, 11)
        BY <1>1, <1>2, <1>5, <2>3, Overwritten
      <3>2. call.nr = NR_WRITE BY <1>2, <1>5, <2>3
      <3>3. Returns(q)
        <4>1. q \in [Registers -> Int]
          <5>1. Junk \in Int BY DEF Junk
          <5> QED BY <1>1, <5>1
        <4>2. \A x \in Registers \ {"ebx", "ecx", "edx"} : q[x] = SysRegs[x]
          BY <1>1 DEF Registers
        <4> HIDE DEF q
        <4> QED BY <2>1, <3>2, <4>1, <4>2 DEF Returns, Kept, Registers
      <3> QED BY <3>1, <3>3
    <2> QED BY <2>2, <2>3
  <1>13. kstack' \in Seq(Int) BY <1>12 DEF Holds
  <1>14. SysReplying'
    <2>1. PICK r : Returns(r) /\ Holds(kstack', SysFrame, r, 11) BY <1>12
    <2>2. Returns(r)' BY <1>8, <1>9, <2>1 DEF Returns, Kept
    <2>3. Holds(kstack, SysFrame, r, 11)' BY <1>9, <2>1 DEF Holds
    <2> QED BY <1>7, <1>10, <1>11, <2>2, <2>3 DEF SysReplying
  <1>15. EntryTypeOK'
    BY <1>7, <1>8, <1>10, <1>13 DEF EntryTypeOK
  <1>16. SysMode'
    BY <1>7, <1>8, <1>9, <1>14 DEF SysMode, Numbers
  <1> QED BY <1>15, <1>16

LEMMA StackStore ==
  ASSUME NEW s \in Seq(Int), NEW n \in 1 .. Len(s), NEW v \in Int
  PROVE  /\ [s EXCEPT ![n] = v] \in Seq(Int)
         /\ Len([s EXCEPT ![n] = v]) = Len(s)
         /\ \A j \in 1 .. Len(s) :
              [s EXCEPT ![n] = v][j] = IF j = n THEN v ELSE s[j]
  BY ExceptSeq

(* The result takes the place of the saved eax.                            *)
LEMMA ResultStored ==
  ASSUME NEW s, NEW f, NEW r \in [Registers -> Int], NEW v \in Int,
         Holds(s, f, r, 11)
  PROVE  Holds([s EXCEPT ![Len(s) - 6] = v], f, [r EXCEPT !["eax"] = v], 11)
  <1> DEFINE t == [s EXCEPT ![Len(s) - 6] = v]
             q == [r EXCEPT !["eax"] = v]
  <1>1. /\ s \in Seq(Int) /\ Len(s) = 16 /\ Len(s) - 6 = 10
        /\ \A i \in 1 .. 5 : s[i] = f[i]
        /\ \A i \in 1 .. 11 : s[5 + i] = r[SaveOrder[i]]
    BY DEF Holds
  <1>2. /\ t \in Seq(Int) /\ Len(t) = 16 /\ t[10] = v
        /\ \A i \in 1 .. 16 : i # 10 => t[i] = s[i]
    <2> DEFINE n == Len(s) - 6
    <2>1. n \in 1 .. Len(s) /\ n = 10 /\ t = [s EXCEPT ![n] = v] BY <1>1
    <2> HIDE DEF n, t
    <2>2. /\ t \in Seq(Int) /\ Len(t) = Len(s)
          /\ \A j \in 1 .. Len(s) : t[j] = IF j = n THEN v ELSE s[j]
      <3>1. s \in Seq(Int) /\ n \in 1 .. Len(s) BY <1>1, <2>1
      <3> QED BY <2>1, <3>1, StackStore
    <2> QED BY <1>1, <2>1, <2>2
  <1>3. q["eax"] = v /\ \A x \in Registers \ {"eax"} : q[x] = r[x]
    BY DEF Registers
  <1>4. SaveOrder[5] = "eax" /\ \A i \in 1 .. 11 : i # 5 => SaveOrder[i] \in Registers \ {"eax"}
    BY DEF SaveOrder, Registers
  <1> HIDE DEF t, q
  <1>5. ASSUME NEW i \in 1 .. 11 PROVE t[5 + i] = q[SaveOrder[i]]
    <2>1. CASE i = 5
      <3>1. 5 + i = 10 BY <2>1
      <3> QED BY <1>2, <1>3, <1>4, <2>1, <3>1
    <2>2. CASE i # 5
      <3>1. 5 + i \in 1 .. 16 /\ 5 + i # 10 BY <2>2
      <3> QED BY <1>1, <1>2, <1>3, <1>4, <2>2, <3>1
    <2> QED BY <2>1, <2>2
  <1>6. ASSUME NEW i \in 1 .. 5 PROVE t[i] = f[i]
    <2>1. i \in 1 .. 16 /\ i # 10 OBVIOUS
    <2> QED BY <1>1, <1>2, <2>1
  <1>7. Holds(t, f, q, 11) BY <1>2, <1>5, <1>6 DEF Holds
  <1> QED BY <1>7 DEF t, q

LEMMA SysReplyingStep ==
  ASSUME EntryTypeOK, SysMode, Execute, SysReplying
  PROVE  EntryTypeOK' /\ SysMode'
  <1>1. /\ cs = KERNEL_CS /\ kstack \in Seq(Int) /\ regs \in [Registers -> Int]
        /\ Result \in Int
    BY ResultInt DEF SysMode, EntryTypeOK
  <1>2. ASSUME pc' = 424, kstack' = kstack, Private, regs' \in [Registers -> Int],
               regs'["eax"] = Result,
               \E r : Returns(r) /\ Holds(kstack, SysFrame, r, 11)
        PROVE  EntryTypeOK' /\ SysMode'
    <2>1. PICK r : Returns(r) /\ Holds(kstack, SysFrame, r, 11) BY <1>2
    <2>2. /\ SysFrame' = SysFrame /\ Result' = Result /\ C' = C /\ Depth' = Depth
          /\ call' = call
      BY <1>2, Fixed DEF Private
    <2>3. Returns(r)' BY <2>1, <2>2 DEF Returns, Kept
    <2>4. Holds(kstack, SysFrame, r, 11)' BY <1>2, <2>1, <2>2 DEF Holds
    <2>5. SysReplying' BY <1>2, <2>2, <2>3, <2>4 DEF SysReplying
    <2> QED BY <1>1, <1>2, <2>5, SysKeeps
  <1>3. CASE /\ pc = 423 /\ call.nr = NR_NONE
             /\ Holds(kstack, SysFrame, SysRegs, 11)
    <2>1. Instr = movi(-ENOSYS, "eax")
      <3>1. pc \in 400 .. 499 /\ pc - 399 = 24 BY <1>3
      <3> QED BY <3>1, InstrAt, SyscallHandlerCode
    <2>2. /\ regs' = [regs EXCEPT !["eax"] = -ENOSYS]
          /\ pc' = pc + 1 /\ kstack' = kstack /\ Private
      BY <1>1, <2>1, KernelData
    <2>3. Result = -ENOSYS BY <1>3 DEF Result
    <2>4. regs' \in [Registers -> Int] /\ regs'["eax"] = Result
      BY <1>1, <2>2, <2>3 DEF Registers
    <2>5. Returns(SysRegs) BY CallRegisters DEF Returns
    <2> QED BY <1>2, <1>3, <2>2, <2>4, <2>5
  <1>4. CASE /\ pc = 422 /\ regs["eax"] = Result
             /\ \E r : Returns(r) /\ Holds(kstack, SysFrame, r, 11)
    <2>1. Instr = jmp(2)
      <3>1. pc \in 400 .. 499 /\ pc - 399 = 23 BY <1>4
      <3> QED BY <3>1, InstrAt, SyscallHandlerCode
    <2>2. JumpTo(pc + 2) BY <2>1, Jumps
    <2>3. pc' = 424 /\ kstack' = kstack /\ regs' = regs /\ Private
      BY <1>4, <2>2 DEF JumpTo, Private
    <2> QED BY <1>1, <1>2, <1>4, <2>3
  <1>5. CASE /\ pc = 424 /\ regs["eax"] = Result
             /\ \E r : Returns(r) /\ Holds(kstack, SysFrame, r, 11)
    <2>1. Instr = stsp(6, "eax")
      <3>1. pc \in 400 .. 499 /\ pc - 399 = 25 BY <1>5
      <3> QED BY <3>1, InstrAt, SyscallHandlerCode
    <2>2. /\ kstack' = [kstack EXCEPT ![Len(kstack) - 6] = Result]
          /\ pc' = pc + 1 /\ regs' = regs /\ Private
      BY <1>1, <1>5, <2>1, KernelData
    <2>3. PICK r : Returns(r) /\ Holds(kstack, SysFrame, r, 11) BY <1>5
    <2>4. r \in [Registers -> Int] BY <2>3 DEF Returns
    <2>5. \E q : Holds(kstack', SysFrame, q, 11) /\ Replies(q)
      <3> DEFINE p == [r EXCEPT !["eax"] = Result]
      <3>1. Holds(kstack', SysFrame, p, 11)
        BY <1>1, <2>2, <2>3, <2>4, ResultStored
      <3>2. p \in [Registers -> Int] /\ p["eax"] = Result
        BY <1>1, <2>4 DEF Registers
      <3>3. \A x \in Registers \ {"eax"} : p[x] = r[x]
        BY <2>4
      <3> HIDE DEF p
      <3>4. Replies(p)
        BY <2>3, <3>2, <3>3 DEF Replies, Returns, Kept, Registers
      <3> QED BY <3>1, <3>4
    <2>6. PICK q : Holds(kstack', SysFrame, q, 11) /\ Replies(q) BY <2>5
    <2>7. /\ SysFrame' = SysFrame /\ Result' = Result /\ C' = C /\ Depth' = Depth
          /\ call' = call
      BY <2>2, Fixed DEF Private
    <2>8. Replies(q)' BY <2>6, <2>7 DEF Replies, Returns, Kept
    <2>9. Restoring(kstack', SysFrame', q, regs', 0)
      BY <2>6, <2>7 DEF Restoring
    <2>10. SysRestoring'
      <3>1. pc' = 425 + 0 /\ 0 \in 0 .. 11 BY <1>5, <2>2
      <3>2. Restoring(kstack, SysFrame, q, regs, 0)'
        BY <2>9 DEF Restoring, Holds
      <3> QED BY <2>8, <3>1, <3>2 DEF SysRestoring
    <2>11. pc' \in Int /\ kstack' \in Seq(Int)
      BY <1>5, <2>2, <2>6 DEF Holds
    <2> QED BY <1>1, <2>2, <2>10, <2>11, SysKeeps
  <1> QED BY <1>3, <1>4, <1>5 DEF SysReplying

(* RESTORE_ALL, then sysexit back to the wrapper.                          *)
LEMMA TruncateAll ==
  ASSUME NEW s \in Seq(Int)
  PROVE  Truncate(s, Len(s)) = s
  <1>1. Len(s) \in Nat /\ Len(s) <= Len(s) OBVIOUS
  <1>2. /\ Truncate(s, Len(s)) \in Seq(Int) /\ Len(Truncate(s, Len(s))) = Len(s)
        /\ \A i \in 1 .. Len(s) : Truncate(s, Len(s))[i] = s[i]
    BY <1>1, Truncated
  <1> QED BY <1>2, SeqEqual

LEMMA PoppedRegister ==
  ASSUME NEW s, NEW f, NEW r \in [Registers -> Int], NEW now \in [Registers -> Int],
         NEW k \in 0 .. 10, Restoring(s, f, r, now, k)
  PROVE  /\ s[Len(s) - 0] = s[Len(s)]
         /\ [now EXCEPT ![SaveOrder[11 - k]] = s[Len(s)]] \in [Registers -> Int]
         /\ Truncate(s, Len(s) - 1) \in Seq(Int)
  <1>1. s \in Seq(Int) BY DEF Restoring, Holds
  <1>2. s[Len(s) - 0] = s[Len(s)] BY <1>1
  <1>3. 11 - k \in 1 .. 11 OBVIOUS
  <1>4. SaveOrder[11 - k] \in Registers BY <1>3, SaveRegisters
  <1>5. s[Len(s)] \in Int
    <2>1. Len(s) = 16 - k /\ \A i \in 1 .. 11 - k : s[5 + i] = r[SaveOrder[i]]
      BY DEF Restoring, Holds
    <2>2. 5 + (11 - k) = Len(s) /\ 11 - k \in 1 .. 11 - k BY <2>1
    <2> QED BY <1>4, <2>1, <2>2
  <1>6. Truncate(s, Len(s) - 1) \in Seq(Int)
    BY RestoredOne DEF Restoring, Holds
  <1> QED BY <1>2, <1>4, <1>5, <1>6

LEMMA FrameHeld ==
  ASSUME NEW s, NEW f, NEW r, Holds(s, f, r, 0)
  PROVE  /\ s[Len(s) - 0] = f[5] /\ s[Len(s) - 1] = f[4]
         /\ s[Len(s) - 2] = f[3] /\ s[Len(s) - 3] = f[2]
         /\ Len(s) = 5
  <1>1. Len(s) = 5 /\ \A i \in 1 .. 5 : s[i] = f[i] BY DEF Holds
  <1>2. Len(s) - 0 = 5 /\ Len(s) - 1 = 4 /\ Len(s) - 2 = 3 /\ Len(s) - 3 = 2
    BY <1>1
  <1> QED BY <1>1, <1>2

LEMMA SysRestoringStep ==
  ASSUME EntryTypeOK, SysMode, Execute, SysRestoring
  PROVE  EntryTypeOK' /\ (SysMode' \/ UserMode')
  <1>1. /\ cs = KERNEL_CS /\ kstack \in Seq(Int) /\ regs \in [Registers -> Int]
        /\ SysFrame[2] = Depth + 2 /\ SysFrame[5] = SyscallAt + 5
        /\ Depth + 2 \in Int /\ SyscallAt + 5 \in Int
    BY Places DEF SysMode, EntryTypeOK, SysFrame
  <1>2. ASSUME Private
        PROVE  /\ SysFrame' = SysFrame /\ Result' = Result /\ C' = C
               /\ Depth' = Depth /\ SyscallAt' = SyscallAt /\ call' = call
    BY <1>2, Fixed DEF Private
  <1>3. ASSUME NEW r, Replies(r), NEW k \in 0 .. 10, pc = 425 + k,
               Restoring(kstack, SysFrame, r, regs, k)
        PROVE  EntryTypeOK' /\ SysMode'
    <2>1. Instr = pop(SaveOrder[11 - k])
      <3>1. pc \in 400 .. 499 /\ pc - 399 = k + 26 BY <1>3
      <3> QED BY <1>3, <3>1, InstrAt, RestoreCode
    <2>2. r \in [Registers -> Int] BY <1>3 DEF Replies, Returns
    <2>3. /\ kstack[Len(kstack) - 0] = kstack[Len(kstack)]
          /\ [regs EXCEPT ![SaveOrder[11 - k]] = kstack[Len(kstack)]] \in [Registers -> Int]
          /\ Truncate(kstack, Len(kstack) - 1) \in Seq(Int)
      BY <1>1, <1>3, <2>2, PoppedRegister
    <2>4. /\ kstack' = Truncate(kstack, Len(kstack) - 1)
          /\ regs' = [regs EXCEPT ![SaveOrder[11 - k]] = kstack[Len(kstack)]]
          /\ pc' = pc + 1 /\ Private
      BY <1>1, <2>1, <2>3, KernelData
    <2>5. Restoring(kstack', SysFrame, r, regs', k + 1)
      BY <1>1, <1>3, <2>2, <2>4, RestoredOne
    <2>6. Restoring(kstack, SysFrame, r, regs, k + 1)'
      BY <1>2, <2>4, <2>5 DEF Restoring, Holds
    <2>7. Replies(r)' BY <1>2, <1>3, <2>4 DEF Replies, Returns, Kept
    <2>8. k + 1 \in 0 .. 11 /\ pc' = 425 + (k + 1) BY <1>3, <2>4
    <2>9. SysRestoring' BY <2>6, <2>7, <2>8 DEF SysRestoring
    <2>10. pc' \in Int BY <2>8
    <2> QED BY <2>3, <2>4, <2>9, <2>10, SysKeeps
  <1>4. ASSUME NEW r, Replies(r), pc = 436, Restoring(kstack, SysFrame, r, regs, 11)
        PROVE  EntryTypeOK' /\ SysMode'
    <2>1. Instr = ldsp(0, "edx")
      <3>1. pc \in 400 .. 499 /\ pc - 399 = 37 BY <1>4
      <3> QED BY <3>1, InstrAt, SyscallHandlerCode
    <2>2. r \in [Registers -> Int] BY <1>4 DEF Replies, Returns
    <2>3. regs = r /\ Holds(kstack, SysFrame, r, 0)
      BY <1>1, <1>4, <2>2, AllRestored
    <2>4. kstack[Len(kstack) - 0] = SyscallAt + 5
      BY <1>1, <2>3, FrameHeld
    <2>5. /\ regs' = [regs EXCEPT !["edx"] = SyscallAt + 5]
          /\ pc' = pc + 1 /\ kstack' = kstack /\ Private
      BY <1>1, <2>1, <2>4, KernelData
    <2>6. /\ regs' \in [Registers -> Int] /\ regs'["edx"] = SyscallAt + 5
          /\ \A x \in Registers \ {"edx"} : regs'[x] = regs[x]
      BY <1>1, <2>5 DEF Registers
    <2>7. Replies(regs)'
      BY <1>2, <1>4, <2>3, <2>5, <2>6 DEF Replies, Returns, Kept, Registers
    <2>8. Holds(kstack, SysFrame, regs, 0)'
      BY <1>2, <2>3, <2>5 DEF Holds
    <2>9. SysRestoring' BY <1>2, <1>4, <2>5, <2>6, <2>7, <2>8 DEF SysRestoring
    <2>10. pc' \in Int BY <1>4, <2>5
    <2> QED BY <1>1, <2>5, <2>6, <2>9, <2>10, SysKeeps
  <1>5. ASSUME pc = 437, Replies(regs), regs["edx"] = SyscallAt + 5,
               Holds(kstack, SysFrame, regs, 0)
        PROVE  EntryTypeOK' /\ SysMode'
    <2>1. Instr = ldsp(3, "ecx")
      <3>1. pc \in 400 .. 499 /\ pc - 399 = 38 BY <1>5
      <3> QED BY <3>1, InstrAt, SyscallHandlerCode
    <2>2. kstack[Len(kstack) - 3] = Depth + 2
      BY <1>1, <1>5, FrameHeld
    <2>3. /\ regs' = [regs EXCEPT !["ecx"] = Depth + 2]
          /\ pc' = pc + 1 /\ kstack' = kstack /\ Private
      BY <1>1, <2>1, <2>2, KernelData
    <2>4. /\ regs' \in [Registers -> Int] /\ regs'["ecx"] = Depth + 2
          /\ \A x \in Registers \ {"ecx"} : regs'[x] = regs[x]
      BY <1>1, <2>3 DEF Registers
    <2>5. Replies(regs)'
      BY <1>2, <1>5, <2>3, <2>4 DEF Replies, Returns, Kept, Registers
    <2>6. Holds(kstack, SysFrame, regs, 0)'
      BY <1>2, <1>5, <2>3 DEF Holds
    <2>7. regs'["edx"] = SyscallAt' + 5
      BY <1>2, <1>5, <2>3, <2>4 DEF Registers
    <2>8. SysRestoring' BY <1>2, <1>5, <2>3, <2>4, <2>5, <2>6, <2>7 DEF SysRestoring
    <2>9. pc' \in Int BY <1>5, <2>3
    <2> QED BY <1>1, <2>3, <2>4, <2>8, <2>9, SysKeeps
  <1>6. ASSUME pc = 438, Replies(regs), regs["edx"] = SyscallAt + 5,
               regs["ecx"] = Depth + 2
        PROVE  EntryTypeOK' /\ UserMode'
    <2>1. Instr = plain("sti_sysexit")
      <3>1. pc \in 400 .. 499 /\ pc - 399 = 39 BY <1>6
      <3> QED BY <3>1, InstrAt, SyscallHandlerCode
    <2>2. Sysexit BY <2>1, Transfers
    <2>3. /\ ustack = Entered /\ errno = call.errno /\ call.nr \in Numbers /\ ~halted
      BY DEF SysMode
    <2>4. Truncate(ustack, regs["ecx"]) = Entered
      BY <1>6, <2>3, CallStack, TruncateAll
    <2>5. /\ pc' = SyscallAt + 5 /\ cs' = USER_CS /\ flags' = FLAGS_IF
          /\ ustack' = Entered
          /\ UNCHANGED <<regs, kstack, errno, halted, call, snap>>
      BY <1>6, <2>2, <2>4 DEF Sysexit, History
    <2>6. InReply(regs', pc', ustack')
      BY <1>6, <2>3, <2>5 DEF InReply, Replies, Returns
    <2>7. InReply(regs, pc, ustack)' BY <2>5, <2>6, Moved
    <2>8. ustack' \in Seq(Int) /\ pc' \in Int
      BY <1>1, <2>5, StackTypes
    <2>9. EntryTypeOK' BY <2>5, <2>8 DEF EntryTypeOK
    <2>10. UserOK(regs, pc, ustack)'
      BY <1>1, <2>3, <2>5, <2>7, <2>8 DEF UserOK, Numbers
    <2> QED BY <2>3, <2>5, <2>9, <2>10 DEF UserMode
  <1>7. ASSUME NEW k \in 0 .. 11 PROVE k \in 0 .. 10 \/ (k = 11 /\ 425 + k = 436)
    OBVIOUS
  <1>8. CASE \E r : /\ Replies(r)
                    /\ \E k \in 0 .. 11 : /\ pc = 425 + k
                                          /\ Restoring(kstack, SysFrame, r, regs, k)
    <2>1. PICK r : /\ Replies(r)
                   /\ \E k \in 0 .. 11 : /\ pc = 425 + k
                                         /\ Restoring(kstack, SysFrame, r, regs, k)
      BY <1>8
    <2>2. PICK k \in 0 .. 11 : pc = 425 + k /\ Restoring(kstack, SysFrame, r, regs, k)
      BY <2>1
    <2>3. CASE k \in 0 .. 10 BY <1>3, <2>1, <2>2, <2>3
    <2>4. CASE k = 11 /\ 425 + k = 436 BY <1>4, <2>1, <2>2, <2>4
    <2> QED BY <1>7, <2>3, <2>4
  <1> QED BY <1>5, <1>6, <1>8 DEF SysRestoring

LEMMA SysStep ==
  ASSUME EntryTypeOK, SysMode, Execute
  PROVE  EntryTypeOK' /\ (SysMode' \/ UserMode')
  BY SysPushingStep, SysCheckingStep, CallTableStep, SysReplyingStep,
     SysRestoringStep DEF SysMode
---------------------------------------------------------------------------
(* The clock and keyboard handlers.                                        *)
LEMMA IrqCode ==
  ASSUME NEW start \in {500, 600}
  PROVE  /\ \A k \in 0 .. 10 : pc = start + k => Instr = push(SaveOrder[k + 1])
         /\ pc = start + 11 => Instr = movi(KERNEL_DS, "edx")
         /\ pc = start + 12 => Instr = mov("edx", "ds")
         /\ pc = start + 13 => Instr = mov("edx", "es")
         /\ \A k \in 0 .. 10 : pc = start + 17 + k => Instr = pop(SaveOrder[11 - k])
         /\ pc = start + 28 => Instr = plain("iret")
  <1>1. CASE start = 500
    <2>1. ASSUME NEW k \in 0 .. 10, pc = start + k PROVE Instr = push(SaveOrder[k + 1])
      <3>1. pc \in 500 .. 599 /\ pc - 499 = k + 1 BY <1>1, <2>1
      <3> QED BY <3>1, InstrAt, SaveCode
    <2>2. ASSUME NEW k \in 0 .. 10, pc = start + 17 + k PROVE Instr = pop(SaveOrder[11 - k])
      <3>1. pc \in 500 .. 599 /\ pc - 499 = k + 18 BY <1>1, <2>2
      <3> QED BY <3>1, InstrAt, RestoreCode
    <2> QED BY <1>1, <2>1, <2>2, InstrAt, HandlerCode
  <1>2. CASE start = 600
    <2>1. ASSUME NEW k \in 0 .. 10, pc = start + k PROVE Instr = push(SaveOrder[k + 1])
      <3>1. pc \in 600 .. 699 /\ pc - 599 = k + 1 BY <1>2, <2>1
      <3> QED BY <3>1, InstrAt, SaveCode
    <2>2. ASSUME NEW k \in 0 .. 10, pc = start + 17 + k PROVE Instr = pop(SaveOrder[11 - k])
      <3>1. pc \in 600 .. 699 /\ pc - 599 = k + 18 BY <1>2, <2>2
      <3> QED BY <3>1, InstrAt, RestoreCode
    <2> QED BY <1>2, <2>1, <2>2, InstrAt, HandlerCode
  <1> QED BY <1>1, <1>2

LEMMA IrqBodyCode ==
  /\ pc = 514 => Instr = movi(32, "eax")
  /\ pc = 515 => Instr = plain("outb")
  /\ pc = 516 => Instr = callc("clock_routine")
  /\ pc = 614 => Instr = callc("keyboard_routine")
  /\ pc = 615 => Instr = movi(32, "eax")
  /\ pc = 616 => Instr = plain("outb")
  BY InstrAt, HandlerCode

LEMMA UserOKPrimed ==
  ASSUME call' = call, errno' = errno
  PROVE  /\ UserOK(SnapRegs, snap.at.pc, snap.at.ustack)' <=>
              UserOK(SnapRegs', snap'.at.pc, snap'.at.ustack)
         /\ UserOK(regs, pc, ustack)' <=> UserOK(regs', pc', ustack')
  BY Fixed DEF UserOK, InPrologue, InRequest, InReply, InError, InEpilogue, Kept

LEMMA IrqKeeps ==
  ASSUME EntryTypeOK, IrqMode, Private, pc' \in Int,
         regs' \in [Registers -> Int], kstack' \in Seq(Int),
         IrqAt(clock_handler_at)' \/ IrqAt(keyboard_handler_at)'
  PROVE  EntryTypeOK' /\ IrqMode'
  <1>1. EntryTypeOK' BY DEF EntryTypeOK, Private
  <1>2. UserOK(SnapRegs, snap.at.pc, snap.at.ustack)'
    BY UserOKPrimed DEF IrqMode, Private, SnapRegs
  <1> QED BY <1>1, <1>2 DEF IrqMode, Private

LEMMA IrqSaving ==
  ASSUME EntryTypeOK, IrqMode, Execute, NEW start \in {500, 600},
         NEW k \in 0 .. 11, pc = start + k, regs = SnapRegs,
         Holds(kstack, IrqFrame, SnapRegs, k)
  PROVE  /\ Private /\ pc' \in Int /\ regs' \in [Registers -> Int]
         /\ kstack' \in Seq(Int) /\ IrqAt(start)'
  <1>1. cs = KERNEL_CS /\ kstack \in Seq(Int) /\ regs \in [Registers -> Int]
    BY DEF IrqMode, EntryTypeOK
  <1>2. ASSUME Private PROVE IrqFrame' = IrqFrame /\ SnapRegs' = SnapRegs
    BY <1>2 DEF IrqFrame, SnapRegs, Private
  <1>3. CASE k \in 0 .. 10
    <2>1. Instr = push(SaveOrder[k + 1]) BY <1>3, IrqCode
    <2>2. /\ kstack' = Append(kstack, SnapRegs[SaveOrder[k + 1]])
          /\ pc' = pc + 1 /\ regs' = regs /\ Private
      BY <1>1, <2>1, KernelData
    <2>3. Holds(kstack', IrqFrame, SnapRegs, k + 1)
      BY <1>1, <1>3, <2>2, SavedOne
    <2>4. k + 1 \in 0 .. 11 /\ pc' = start + (k + 1) BY <1>3, <2>2
    <2>5. IrqAt(start)'
      <3>1. Holds(kstack, IrqFrame, SnapRegs, k + 1)'
        <4>1. IrqFrame' = IrqFrame /\ SnapRegs' = SnapRegs BY <1>2, <2>2
        <4>2. Holds(kstack', IrqFrame', SnapRegs', k + 1) BY <2>3, <4>1
        <4> QED BY <4>2 DEF Holds
      <3>2. regs' = SnapRegs' BY <1>2, <2>2
      <3> QED BY <2>4, <3>1, <3>2 DEF IrqAt
    <2> QED BY <1>1, <2>2, <2>3, <2>4, <2>5 DEF Holds
  <1>4. CASE k = 11
    <2>1. Instr = movi(KERNEL_DS, "edx") BY <1>4, IrqCode
    <2>2. /\ regs' = [regs EXCEPT !["edx"] = KERNEL_DS]
          /\ pc' = pc + 1 /\ kstack' = kstack /\ Private
      BY <1>1, <2>1, KernelData
    <2>3. regs' \in [Registers -> Int] /\ regs'["edx"] = KERNEL_DS
      BY <1>1, <2>2 DEF Registers, KERNEL_DS
    <2>4. /\ 12 \in 12 .. 16 /\ pc' = start + 12 /\ Segments(12 - 11)'
          /\ Holds(kstack, IrqFrame, SnapRegs, 11)'
      BY <1>2, <1>4, <2>2, <2>3 DEF Segments, Holds
    <2>5. IrqAt(start)' BY <2>4 DEF IrqAt
    <2> QED BY <1>1, <2>2, <2>3, <2>4, <2>5
  <1> QED BY <1>3, <1>4

LEMMA IrqSegments ==
  ASSUME EntryTypeOK, IrqMode, Execute, NEW start \in {500, 600},
         NEW j \in 12 .. 13, pc = start + j, Segments(j - 11),
         Holds(kstack, IrqFrame, SnapRegs, 11)
  PROVE  /\ Private /\ pc' \in Int /\ regs' \in [Registers -> Int]
         /\ kstack' \in Seq(Int) /\ IrqAt(start)'
  <1>1. cs = KERNEL_CS /\ kstack \in Seq(Int) /\ regs \in [Registers -> Int]
    BY DEF IrqMode, EntryTypeOK
  <1>2. ASSUME Private PROVE IrqFrame' = IrqFrame /\ SnapRegs' = SnapRegs
    BY <1>2 DEF IrqFrame, SnapRegs, Private
  <1>3. CASE j = 12
    <2>1. Instr = mov("edx", "ds") BY <1>3, IrqCode
    <2>2. /\ regs' = [regs EXCEPT !["ds"] = regs["edx"]]
          /\ pc' = pc + 1 /\ kstack' = kstack /\ Private
      BY <1>1, <2>1, KernelData
    <2>3. regs["edx"] = KERNEL_DS BY <1>3 DEF Segments
    <2>4. /\ regs' \in [Registers -> Int] /\ regs'["edx"] = KERNEL_DS
          /\ regs'["ds"] = KERNEL_DS
      BY <1>1, <2>2, <2>3 DEF Registers, KERNEL_DS
    <2>5. /\ 13 \in 12 .. 16 /\ pc' = start + 13 /\ Segments(13 - 11)'
          /\ Holds(kstack, IrqFrame, SnapRegs, 11)'
      BY <1>2, <1>3, <2>2, <2>4 DEF Segments, Holds
    <2>6. IrqAt(start)' BY <2>5 DEF IrqAt
    <2> QED BY <1>1, <2>2, <2>4, <2>5, <2>6
  <1>4. CASE j = 13
    <2>1. Instr = mov("edx", "es") BY <1>4, IrqCode
    <2>2. /\ regs' = [regs EXCEPT !["es"] = regs["edx"]]
          /\ pc' = pc + 1 /\ kstack' = kstack /\ Private
      BY <1>1, <2>1, KernelData
    <2>3. regs["edx"] = KERNEL_DS /\ regs["ds"] = KERNEL_DS BY <1>4 DEF Segments
    <2>4. /\ regs' \in [Registers -> Int] /\ regs'["edx"] = KERNEL_DS
          /\ regs'["ds"] = KERNEL_DS /\ regs'["es"] = KERNEL_DS
      BY <1>1, <2>2, <2>3 DEF Registers, KERNEL_DS
    <2>5. /\ 14 \in 12 .. 16 /\ pc' = start + 14 /\ Segments(14 - 11)'
          /\ Holds(kstack, IrqFrame, SnapRegs, 11)'
      BY <1>2, <1>4, <2>2, <2>4 DEF Segments, Holds
    <2>6. IrqAt(start)' BY <2>5 DEF IrqAt
    <2> QED BY <1>1, <2>2, <2>4, <2>5, <2>6
  <1> QED BY <1>3, <1>4

(* The EOI and the C routine, which keeps the segments.                    *)
LEMMA HandlerCallsC ==
  ASSUME EntryTypeOK, Execute, cs = KERNEL_CS, NEW f, Instr = callc(f),
         f # "page_fault_routine", f # "set_errno"
  PROVE  Private /\ regs' = Clobber(regs) /\ pc' = pc + 1 /\ kstack' = kstack
  <1>1. CallC /\ Instr[2] = f BY Transfers DEF callc
  <1>2. halted' = halted BY CalledC DEF EntryTypeOK
  <1>3. errno' = errno BY <1>1 DEF CallC
  <1> QED BY <1>1, <1>2, <1>3 DEF CallC, Private, Cpu, History

LEMMA IrqBody ==
  ASSUME EntryTypeOK, IrqMode, Execute, NEW start \in {500, 600},
         NEW j \in 14 .. 16, pc = start + j, Segments(j - 11),
         Holds(kstack, IrqFrame, SnapRegs, 11)
  PROVE  /\ Private /\ pc' \in Int /\ regs' \in [Registers -> Int]
         /\ kstack' \in Seq(Int) /\ IrqAt(start)'
  <1>1. cs = KERNEL_CS /\ kstack \in Seq(Int) /\ regs \in [Registers -> Int]
    BY DEF IrqMode, EntryTypeOK
  <1>2. regs["ds"] = KERNEL_DS /\ regs["es"] = KERNEL_DS
    <2>1. j - 11 >= 2 /\ j - 11 >= 3 OBVIOUS
    <2> QED BY <2>1 DEF Segments
  <1>3. SUFFICES /\ Private /\ pc' = pc + 1 /\ kstack' = kstack
                 /\ regs' \in [Registers -> Int]
                 /\ regs'["ds"] = KERNEL_DS /\ regs'["es"] = KERNEL_DS
    <2>1. IrqFrame' = IrqFrame /\ SnapRegs' = SnapRegs
      BY <1>3 DEF IrqFrame, SnapRegs, Private
    <2>2. Holds(kstack, IrqFrame, SnapRegs, 11)' BY <1>3, <2>1 DEF Holds
    <2>3. CASE j \in 14 .. 15
      <3>1. /\ j + 1 \in 12 .. 16 /\ pc' = start + (j + 1) /\ (j + 1) - 11 \notin 1 .. 3
        BY <1>3, <2>3
      <3>2. Segments((j + 1) - 11)' BY <1>3, <3>1 DEF Segments
      <3>3. IrqAt(start)' BY <2>2, <3>1, <3>2 DEF IrqAt
      <3> QED BY <1>1, <1>3, <3>1, <3>3
    <2>4. CASE j = 16
      <3>1. 0 \in 0 .. 11 /\ pc' = start + 17 + 0 BY <1>3, <2>4
      <3>2. Restoring(kstack, IrqFrame, SnapRegs, regs, 0)'
        BY <2>2 DEF Restoring
      <3>3. IrqAt(start)' BY <3>1, <3>2 DEF IrqAt
      <3> QED BY <1>1, <1>3, <3>1, <3>3
    <2> QED BY <2>3, <2>4
  <1>4. ASSUME Instr = movi(32, "eax")
        PROVE  /\ Private /\ pc' = pc + 1 /\ kstack' = kstack
               /\ regs' \in [Registers -> Int]
               /\ regs'["ds"] = KERNEL_DS /\ regs'["es"] = KERNEL_DS
    <2>1. /\ regs' = [regs EXCEPT !["eax"] = 32]
          /\ pc' = pc + 1 /\ kstack' = kstack /\ Private
      BY <1>1, <1>4, KernelData
    <2> QED BY <1>1, <1>2, <2>1 DEF Registers
  <1>5. ASSUME Instr = plain("outb")
        PROVE  /\ Private /\ pc' = pc + 1 /\ kstack' = kstack
               /\ regs' \in [Registers -> Int]
               /\ regs'["ds"] = KERNEL_DS /\ regs'["es"] = KERNEL_DS
    BY <1>1, <1>2, <1>5, KernelData
  <1>6. ASSUME NEW f \in {"clock_routine", "keyboard_routine"}, Instr = callc(f)
        PROVE  /\ Private /\ pc' = pc + 1 /\ kstack' = kstack
               /\ regs' \in [Registers -> Int]
               /\ regs'["ds"] = KERNEL_DS /\ regs'["es"] = KERNEL_DS
    <2>1. Private /\ regs' = Clobber(regs) /\ pc' = pc + 1 /\ kstack' = kstack
      BY <1>1, <1>6, HandlerCallsC
    <2> QED BY <1>1, <1>2, <2>1, Clobbered DEF CalleeSaved
  <1>7. pc \in {514, 515, 516, 614, 615, 616} OBVIOUS
  <1> QED BY <1>4, <1>5, <1>6, <1>7, IrqBodyCode

LEMMA IrqRestoring ==
  ASSUME EntryTypeOK, IrqMode, Execute, NEW start \in {500, 600},
         NEW k \in 0 .. 10, pc = start + 17 + k,
         Restoring(kstack, IrqFrame, SnapRegs, regs, k)
  PROVE  /\ Private /\ pc' \in Int /\ regs' \in [Registers -> Int]
         /\ kstack' \in Seq(Int) /\ IrqAt(start)'
  <1>1. /\ cs = KERNEL_CS /\ kstack \in Seq(Int) /\ regs \in [Registers -> Int]
        /\ SnapRegs \in [Registers -> Int]
    BY DEF IrqMode, EntryTypeOK, UserOK
  <1>2. Instr = pop(SaveOrder[11 - k]) BY IrqCode
  <1>3. /\ kstack[Len(kstack) - 0] = kstack[Len(kstack)]
        /\ [regs EXCEPT ![SaveOrder[11 - k]] = kstack[Len(kstack)]] \in [Registers -> Int]
        /\ Truncate(kstack, Len(kstack) - 1) \in Seq(Int)
    BY <1>1, PoppedRegister
  <1>4. /\ kstack' = Truncate(kstack, Len(kstack) - 1)
        /\ regs' = [regs EXCEPT ![SaveOrder[11 - k]] = kstack[Len(kstack)]]
        /\ pc' = pc + 1 /\ Private
    BY <1>1, <1>2, <1>3, KernelData
  <1>5. IrqFrame' = IrqFrame /\ SnapRegs' = SnapRegs
    BY <1>4 DEF IrqFrame, SnapRegs, Private
  <1>6. Restoring(kstack', IrqFrame, SnapRegs, regs', k + 1)
    BY <1>1, <1>4, RestoredOne
  <1>7. Restoring(kstack, IrqFrame, SnapRegs, regs, k + 1)'
    BY <1>5, <1>6 DEF Restoring, Holds
  <1>8. k + 1 \in 0 .. 11 /\ pc' = start + 17 + (k + 1) BY <1>4
  <1>9. IrqAt(start)' BY <1>7, <1>8 DEF IrqAt
  <1> QED BY <1>3, <1>4, <1>8, <1>9

(* iret, which is what InterruptTransparent is about.                      *)
LEMMA IretStep ==
  ASSUME EntryTypeOK, IrqMode, Execute, NEW start \in {500, 600},
         pc = start + 28, Restoring(kstack, IrqFrame, SnapRegs, regs, 11)
  PROVE  /\ regs' = SnapRegs /\ ustack' = snap.at.ustack
         /\ pc' = snap.at.pc /\ flags' = FLAGS_IF /\ cs' = USER_CS
         /\ kstack' = <<>> /\ UNCHANGED <<errno, halted, call>>
         /\ EntryTypeOK' /\ UserMode'
  <1>1. /\ cs = KERNEL_CS /\ kstack \in Seq(Int) /\ regs \in [Registers -> Int]
        /\ SnapRegs \in [Registers -> Int] /\ ~halted
        /\ ustack = snap.at.ustack /\ ustack \in Seq(Int)
        /\ UserOK(SnapRegs, snap.at.pc, snap.at.ustack)
    BY DEF IrqMode, EntryTypeOK, UserOK
  <1>2. iret
    <2>1. Instr = plain("iret") BY IrqCode
    <2> QED BY <2>1, Transfers
  <1>3. regs = SnapRegs /\ Holds(kstack, IrqFrame, SnapRegs, 0)
    BY <1>1, AllRestored
  <1>4. /\ IrqFrame[2] = Len(ustack) /\ IrqFrame[3] = FLAGS_IF
        /\ IrqFrame[4] = USER_CS /\ IrqFrame[5] = snap.at.pc
    BY <1>1 DEF IrqFrame
  <1>5. /\ kstack[Len(kstack) - 0] = snap.at.pc /\ kstack[Len(kstack) - 1] = USER_CS
        /\ kstack[Len(kstack) - 2] = FLAGS_IF /\ kstack[Len(kstack) - 3] = Len(ustack)
        /\ Len(kstack) - 5 = 0
    BY <1>3, <1>4, FrameHeld
  <1>6. stack = kstack
    BY <1>1 DEF stack, KERNEL_CS, USER_CS
  <1>7. /\ pc' = snap.at.pc /\ cs' = USER_CS /\ flags' = FLAGS_IF
        /\ ustack' = Truncate(ustack, Len(ustack)) /\ kstack' = Truncate(kstack, 0)
        /\ snap' = [snap EXCEPT !.irq = FALSE, !.at = call.at]
        /\ UNCHANGED <<regs, errno, halted, call>>
    BY <1>2, <1>5, <1>6 DEF iret, Word
  <1>8. ustack' = ustack BY <1>1, <1>7, TruncateAll
  <1>9. kstack' = <<>>
    <2>1. 0 \in Nat /\ 0 <= Len(kstack) BY <1>1
    <2>2. kstack' \in Seq(Int) /\ Len(kstack') = 0 BY <1>1, <1>7, <2>1, Truncated
    <2> QED BY <2>2
  <1>10. snap' \in [at : States, irq : BOOLEAN]
    BY <1>7 DEF EntryTypeOK
  <1>11. snap.at.pc \in Int BY DEF EntryTypeOK, States
  <1>12. EntryTypeOK'
    <2>1. <<>> \in Seq(Int) OBVIOUS
    <2>2. /\ pc' \in Int /\ kstack' \in Seq(Int)
          /\ UNCHANGED <<regs, ustack, errno, halted, call>>
      BY <1>7, <1>8, <1>9, <1>11, <2>1
    <2> QED BY <1>10, <2>2 DEF EntryTypeOK
  <1>13. UserOK(regs', pc', ustack')
    BY <1>1, <1>3, <1>7, <1>8
  <1>14. UserMode'
    BY <1>1, <1>7, <1>13, UserOKPrimed DEF UserMode
  <1> QED BY <1>1, <1>3, <1>7, <1>8, <1>9, <1>12, <1>14

LEMMA IrqStep ==
  ASSUME EntryTypeOK, IrqMode, Execute
  PROVE  EntryTypeOK' /\ (IrqMode' \/ UserMode')
  <1>1. PICK start \in {500, 600} : IrqAt(start)
    BY DEF IrqMode, clock_handler_at, keyboard_handler_at
  <1>2. ASSUME Private, pc' \in Int, regs' \in [Registers -> Int],
               kstack' \in Seq(Int), IrqAt(start)'
        PROVE  EntryTypeOK' /\ IrqMode'
    <2>1. IrqAt(clock_handler_at)' \/ IrqAt(keyboard_handler_at)'
      BY <1>2 DEF clock_handler_at, keyboard_handler_at
    <2> QED BY <1>2, <2>1, IrqKeeps
  <1>3. CASE \E k \in 0 .. 11 : /\ pc = start + k /\ regs = SnapRegs
                                /\ Holds(kstack, IrqFrame, SnapRegs, k)
    BY <1>2, <1>3, IrqSaving
  <1>4. CASE \E j \in 12 .. 16 : /\ pc = start + j /\ Segments(j - 11)
                                 /\ Holds(kstack, IrqFrame, SnapRegs, 11)
    <2>1. PICK j \in 12 .. 16 : /\ pc = start + j /\ Segments(j - 11)
                                /\ Holds(kstack, IrqFrame, SnapRegs, 11)
      BY <1>4
    <2>2. CASE j \in 12 .. 13 BY <1>2, <2>1, <2>2, IrqSegments
    <2>3. CASE j \in 14 .. 16 BY <1>2, <2>1, <2>3, IrqBody
    <2> QED BY <2>2, <2>3
  <1>5. CASE \E k \in 0 .. 11 : /\ pc = start + 17 + k
                                /\ Restoring(kstack, IrqFrame, SnapRegs, regs, k)
    <2>1. PICK k \in 0 .. 11 : /\ pc = start + 17 + k
                               /\ Restoring(kstack, IrqFrame, SnapRegs, regs, k)
      BY <1>5
    <2>2. CASE k \in 0 .. 10 BY <1>2, <2>1, <2>2, IrqRestoring
    <2>3. CASE k = 11
      <3>1. pc = start + 28 BY <2>1, <2>3
      <3> QED BY <2>1, <2>3, <3>1, IretStep
    <2> QED BY <2>2, <2>3
  <1> QED BY <1>1, <1>3, <1>4, <1>5 DEF IrqAt

(* An interrupt at any instruction of the program or a wrapper.            *)
LEMMA UserInt ==
  ASSUME UserMode
  PROVE  /\ cs = USER_CS /\ flags = FLAGS_IF /\ flags \in Int /\ cs \in Int /\ ~halted
         /\ cs # KERNEL_CS
  BY DEF UserMode, FLAGS_IF, USER_CS, KERNEL_CS

LEMMA SnapTaken ==
  ASSUME EntryTypeOK, flags \in Int, NEW eip \in Int, NEW irq \in BOOLEAN,
         snap' = [at |-> [Now EXCEPT !.pc = eip], irq |-> irq]
  PROVE  /\ snap' \in [at : States, irq : BOOLEAN]
         /\ snap'.at.regs = regs /\ snap'.at.pc = eip
         /\ snap'.at.flags = flags /\ snap'.at.ustack = ustack
  <1>1. /\ [Now EXCEPT !.pc = eip] \in States
        /\ [Now EXCEPT !.pc = eip].regs = regs /\ [Now EXCEPT !.pc = eip].pc = eip
        /\ [Now EXCEPT !.pc = eip].flags = flags
        /\ [Now EXCEPT !.pc = eip].ustack = ustack
    BY DEF EntryTypeOK, States, Now
  <1> QED BY <1>1

(* What the processor pushes: EFLAGS, %cs and %eip, and for a fault an     *)
(* error code.                                                             *)
LEMMA GateFrame ==
  ASSUME NEW t \in Seq(Int), NEW c \in Int, NEW d \in Int, NEW e \in Int
  PROVE  /\ t \o <<c, d, e>> \in Seq(Int) /\ Len(t \o <<c, d, e>>) = Len(t) + 3
         /\ \A i \in 1 .. Len(t) : (t \o <<c, d, e>>)[i] = t[i]
         /\ (t \o <<c, d, e>>)[Len(t) + 1] = c
         /\ (t \o <<c, d, e>>)[Len(t) + 2] = d
         /\ (t \o <<c, d, e>>)[Len(t) + 3] = e
         /\ t \o <<c, d, e>> \o <<>> = t \o <<c, d, e>>
         /\ \A x \in Int : t \o <<c, d, e>> \o <<x>> = Append(t \o <<c, d, e>>, x)
  <1> DEFINE v == <<c, d, e>>
             q == t \o v
  <1>1. /\ v \in Seq(Int) /\ Len(v) = 3
        /\ v[1] = c /\ v[2] = d /\ v[3] = e /\ Len(t) \in Nat
    OBVIOUS
  <1>a. q = t \o v OBVIOUS
  <1> HIDE DEF v, q
  <1>2. /\ q \in Seq(Int) /\ Len(q) = Len(t) + Len(v)
        /\ \A i \in 1 .. Len(t) + Len(v) :
             q[i] = IF i <= Len(t) THEN t[i] ELSE v[i - Len(t)]
    BY <1>a, <1>1, ConcatProperties
  <1>3. Len(q) = Len(t) + 3
    BY <1>1, <1>2
  <1>4. ASSUME NEW i \in 1 .. Len(t) PROVE q[i] = t[i]
    <2>1. i \in 1 .. Len(t) + Len(v) /\ i <= Len(t) BY <1>1
    <2> QED BY <1>2, <2>1
  <1>5. q[Len(t) + 1] = c /\ q[Len(t) + 2] = d /\ q[Len(t) + 3] = e
    <2>1. /\ Len(t) + 1 - Len(t) = 1 /\ Len(t) + 2 - Len(t) = 2
          /\ Len(t) + 3 - Len(t) = 3
          /\ Len(t) + 1 \in 1 .. Len(t) + Len(v)
          /\ Len(t) + 2 \in 1 .. Len(t) + Len(v)
          /\ Len(t) + 3 \in 1 .. Len(t) + Len(v)
          /\ ~(Len(t) + 1 <= Len(t)) /\ ~(Len(t) + 2 <= Len(t))
          /\ ~(Len(t) + 3 <= Len(t))
      BY <1>1
    <2> QED BY <1>1, <1>2, <2>1
  <1>6. q \o <<>> = q BY <1>2, ConcatEmptySeq
  <1>7. \A x \in Int : q \o <<x>> = Append(q, x) BY <1>2, AppendIsConcat
  <1> QED BY <1>2, <1>3, <1>4, <1>5, <1>6, <1>7 DEF q, v

LEMMA UserContext ==
  ASSUME NEW a \in Int, NEW b \in Int, NEW c \in Int, NEW d \in Int, NEW e \in Int,
         NEW q, q = <<a, b>> \o <<c, d, e>> \o <<>>
  PROVE  /\ q \in Seq(Int) /\ Len(q) = 5
         /\ q[1] = a /\ q[2] = b /\ q[3] = c /\ q[4] = d /\ q[5] = e
  <1>1. /\ Len(q) = 5
        /\ q[1] = a /\ q[2] = b /\ q[3] = c /\ q[4] = d /\ q[5] = e
    OBVIOUS
  <1>2. <<a, b>> \o <<c, d, e>> \o <<>> \in Seq(Int)
    OBVIOUS
  <1> QED BY <1>1, <1>2

LEMMA InterruptStep ==
  ASSUME EntryTypeOK, UserMode, Interrupt
  PROVE  EntryTypeOK' /\ IrqMode' /\ pc' \in {500, 600}
  <1>1. PICK handler \in {500, 600} : Enter(handler, pc, <<>>, TRUE)
    BY Zenon DEF Interrupt, clock_handler_at, keyboard_handler_at
  <1>2. /\ kstack' = <<USER_DS, Len(ustack)>> \o <<FLAGS_IF, USER_CS, pc>> \o <<>>
        /\ pc' = handler /\ cs' = KERNEL_CS /\ flags' = 0
        /\ snap' = [at |-> [Now EXCEPT !.pc = pc], irq |-> TRUE]
        /\ UNCHANGED <<regs, ustack, errno, halted, call>>
    BY <1>1, UserInt DEF Enter
  <1>3. /\ snap' \in [at : States, irq : BOOLEAN]
        /\ snap'.at.regs = regs /\ snap'.at.pc = pc
        /\ snap'.at.flags = flags /\ snap'.at.ustack = ustack
    <2>1. pc \in Int BY DEF EntryTypeOK
    <2>2. flags \in Int /\ TRUE \in BOOLEAN BY UserInt
    <2>3. snap' = [at |-> [Now EXCEPT !.pc = pc], irq |-> TRUE] BY <1>2, Zenon
    <2> QED BY <2>1, <2>2, <2>3, SnapTaken, Zenon
  <1>4. /\ kstack' \in Seq(Int) /\ Len(kstack') = 5
        /\ kstack'[1] = USER_DS /\ kstack'[2] = Len(ustack)
        /\ kstack'[3] = FLAGS_IF /\ kstack'[4] = USER_CS /\ kstack'[5] = pc
    <2>1. /\ USER_DS \in Int /\ Len(ustack) \in Int /\ FLAGS_IF \in Int
          /\ USER_CS \in Int /\ pc \in Int
      BY DEF EntryTypeOK, USER_DS, FLAGS_IF, USER_CS
    <2> QED BY <1>2, <2>1, UserContext
  <1>5. Holds(kstack, IrqFrame, SnapRegs, 0)'
    BY <1>3, <1>4 DEF Holds, IrqFrame
  <1>6. IrqAt(handler)'
    <2>1. pc' = handler + 0 /\ regs' = SnapRegs' /\ 0 \in 0 .. 11
      BY <1>2, <1>3 DEF SnapRegs
    <2> QED BY <1>5, <2>1 DEF IrqAt
  <1>7. UserOK(SnapRegs, snap.at.pc, snap.at.ustack)'
    <2>1. UserOK(SnapRegs', snap'.at.pc, snap'.at.ustack)
      BY <1>3 DEF UserMode, SnapRegs
    <2> QED BY <1>2, <2>1, UserOKPrimed
  <1>8. EntryTypeOK'
    BY <1>2, <1>3, <1>4 DEF EntryTypeOK
  <1>9. IrqMode'
    BY <1>2, <1>3, <1>6, <1>7, UserInt DEF IrqMode, clock_handler_at, keyboard_handler_at
  <1> QED BY <1>2, <1>8, <1>9
---------------------------------------------------------------------------
(* The page fault.                                                         *)
LEMMA PageFaultCode ==
  /\ \A k \in 0 .. 10 : pc = 700 + k => Instr = push(SaveOrder[k + 1])
  /\ pc = 711 => Instr = movi(KERNEL_DS, "edx")
  /\ pc = 712 => Instr = mov("edx", "ds")
  /\ pc = 713 => Instr = mov("edx", "es")
  /\ pc = 714 => Instr = pushsp(12)
  /\ pc = 715 => Instr = callc("print_page_fault")
  /\ pc = 716 => Instr = callc("page_fault_routine")
  /\ pc = 717 => Instr = movi(32, "eax")
  <1>1. ASSUME NEW k \in 0 .. 10, pc = 700 + k PROVE Instr = push(SaveOrder[k + 1])
    <2>1. pc \in 700 .. 799 /\ pc - 699 = k + 1 BY <1>1
    <2> QED BY <2>1, InstrAt, SaveCode
  <1> QED BY <1>1, InstrAt, HandlerCode

LEMMA FaultPushed ==
  ASSUME NEW s \in Seq(Int), NEW x \in Int, NEW k \in 0 .. 11, NEW p,
         Len(s) >= k + 2, s[Len(s) - k - 1] = p
  PROVE  /\ Append(s, x) \in Seq(Int) /\ Len(Append(s, x)) >= k + 1 + 2
         /\ Append(s, x)[Len(Append(s, x)) - (k + 1) - 1] = p
  <1>1. /\ Append(s, x) \in Seq(Int) /\ Len(Append(s, x)) = Len(s) + 1
        /\ \A i \in 1 .. Len(s) : Append(s, x)[i] = s[i] /\ Len(s) \in Nat
    BY PushPop
  <1>2. /\ Len(s) - k - 1 \in 1 .. Len(s) /\ Len(s) \in Nat
        /\ Len(s) + 1 - (k + 1) - 1 = Len(s) - k - 1
    OBVIOUS
  <1> QED BY <1>1, <1>2

LEMMA FaultKeeps ==
  ASSUME EntryTypeOK, Private, pc' \in Int, regs' \in [Registers -> Int],
         kstack' \in Seq(Int)
  PROVE  EntryTypeOK'
  BY DEF EntryTypeOK, Private

LEMMA FaultSaving ==
  ASSUME EntryTypeOK, FaultMode, Execute, NEW k \in 0 .. 11, pc = 700 + k, Faulted(k)
  PROVE  EntryTypeOK' /\ FaultMode'
  <1>1. /\ cs = KERNEL_CS /\ flags = 0 /\ ~halted /\ kstack \in Seq(Int)
        /\ regs \in [Registers -> Int]
    BY DEF FaultMode, EntryTypeOK, Execute
  <1>2. CASE k \in 0 .. 10
    <2>1. Instr = push(SaveOrder[k + 1]) BY <1>2, PageFaultCode
    <2>2. regs[SaveOrder[k + 1]] \in Int
      <3>1. k + 1 \in 1 .. 11 BY <1>2
      <3>2. SaveOrder[k + 1] \in Registers BY <3>1, SaveRegisters
      <3> QED BY <1>1, <3>2
    <2>3. /\ kstack' = Append(kstack, regs[SaveOrder[k + 1]])
          /\ pc' = pc + 1 /\ regs' = regs /\ Private
      BY <1>1, <2>1, KernelData
    <2>4. /\ kstack' \in Seq(Int) /\ Len(kstack') >= k + 1 + 2
          /\ kstack'[Len(kstack') - (k + 1) - 1] = snap.at.pc
      BY <1>1, <2>2, <2>3, FaultPushed DEF Faulted
    <2>5. Faulted(k + 1)' BY <2>3, <2>4 DEF Faulted, Private
    <2>6. k + 1 \in 0 .. 11 /\ pc' = 700 + (k + 1) BY <1>2, <2>3
    <2>7. FaultMode'
      <3>1. \E m \in 0 .. 11 : pc' = 700 + m /\ Faulted(m)' BY <2>5, <2>6
      <3>2. cs' = KERNEL_CS /\ flags' = 0 /\ ~halted' BY <1>1, <2>3 DEF Private
      <3> QED BY <3>1, <3>2 DEF FaultMode
    <2> QED BY <1>1, <2>3, <2>4, <2>6, <2>7, FaultKeeps
  <1>3. CASE k = 11
    <2>1. Instr = movi(KERNEL_DS, "edx") BY <1>3, PageFaultCode
    <2>2. /\ regs' = [regs EXCEPT !["edx"] = KERNEL_DS]
          /\ pc' = pc + 1 /\ kstack' = kstack /\ Private
      BY <1>1, <2>1, KernelData
    <2>3. regs' \in [Registers -> Int] /\ regs'["edx"] = KERNEL_DS
      BY <1>1, <2>2 DEF Registers, KERNEL_DS
    <2>4. 12 \in 12 .. 14 /\ pc' = 700 + 12 /\ Segments(12 - 11)' /\ Faulted(11)'
      BY <1>3, <2>2, <2>3 DEF Segments, Faulted, Private
    <2>5. FaultMode' BY <1>1, <2>2, <2>4 DEF FaultMode, Private
    <2> QED BY <1>1, <2>2, <2>3, <2>4, <2>5, FaultKeeps
  <1> QED BY <1>2, <1>3

LEMMA FaultSegments ==
  ASSUME EntryTypeOK, FaultMode, Execute, NEW j \in 12 .. 14, pc = 700 + j,
         Faulted(11), Segments(j - 11)
  PROVE  EntryTypeOK' /\ FaultMode'
  <1>1. /\ cs = KERNEL_CS /\ flags = 0 /\ ~halted /\ kstack \in Seq(Int)
        /\ regs \in [Registers -> Int]
    BY DEF FaultMode, EntryTypeOK, Execute
  <1>2. CASE j = 12
    <2>1. Instr = mov("edx", "ds") BY <1>2, PageFaultCode
    <2>2. /\ regs' = [regs EXCEPT !["ds"] = regs["edx"]]
          /\ pc' = pc + 1 /\ kstack' = kstack /\ Private
      BY <1>1, <2>1, KernelData
    <2>3. regs["edx"] = KERNEL_DS BY <1>2 DEF Segments
    <2>4. /\ regs' \in [Registers -> Int] /\ regs'["edx"] = KERNEL_DS
          /\ regs'["ds"] = KERNEL_DS
      BY <1>1, <2>2, <2>3 DEF Registers, KERNEL_DS
    <2>5. 13 \in 12 .. 14 /\ pc' = 700 + 13 /\ Segments(13 - 11)' /\ Faulted(11)'
      BY <1>2, <2>2, <2>4 DEF Segments, Faulted, Private
    <2>6. FaultMode' BY <1>1, <2>2, <2>5 DEF FaultMode, Private
    <2> QED BY <1>1, <2>2, <2>4, <2>5, <2>6, FaultKeeps
  <1>3. CASE j = 13
    <2>1. Instr = mov("edx", "es") BY <1>3, PageFaultCode
    <2>2. /\ regs' = [regs EXCEPT !["es"] = regs["edx"]]
          /\ pc' = pc + 1 /\ kstack' = kstack /\ Private
      BY <1>1, <2>1, KernelData
    <2>3. regs["edx"] = KERNEL_DS /\ regs["ds"] = KERNEL_DS BY <1>3 DEF Segments
    <2>4. /\ regs' \in [Registers -> Int] /\ regs'["edx"] = KERNEL_DS
          /\ regs'["ds"] = KERNEL_DS /\ regs'["es"] = KERNEL_DS
      BY <1>1, <2>2, <2>3 DEF Registers, KERNEL_DS
    <2>5. 14 \in 12 .. 14 /\ pc' = 700 + 14 /\ Segments(14 - 11)' /\ Faulted(11)'
      BY <1>3, <2>2, <2>4 DEF Segments, Faulted, Private
    <2>6. FaultMode' BY <1>1, <2>2, <2>5 DEF FaultMode, Private
    <2> QED BY <1>1, <2>2, <2>4, <2>5, <2>6, FaultKeeps
  <1>4. CASE j = 14
    <2>1. Instr = pushsp(12) BY <1>4, PageFaultCode
    <2>2. /\ kstack' = Append(kstack, kstack[Len(kstack) - 12])
          /\ pc' = pc + 1 /\ regs' = regs /\ Private
      BY <1>1, <2>1, KernelData
    <2>3. kstack[Len(kstack) - 12] = snap.at.pc /\ snap.at.pc \in Int
      <3>1. Len(kstack) - 11 - 1 = Len(kstack) - 12 BY <1>1
      <3>2. kstack[Len(kstack) - 11 - 1] = snap.at.pc BY DEF Faulted
      <3> QED BY <3>1, <3>2 DEF EntryTypeOK, States
    <2>4. /\ kstack' \in Seq(Int) /\ kstack' # <<>>
          /\ kstack'[Len(kstack')] = snap.at.pc
      <3>1. /\ kstack' \in Seq(Int) /\ Len(kstack') = Len(kstack) + 1
            /\ kstack'[Len(kstack) + 1] = snap.at.pc /\ Len(kstack) \in Nat
        BY <1>1, <2>2, <2>3, PushPop
      <3> QED BY <3>1
    <2>5. Segments(4)'
      <3>1. regs["ds"] = KERNEL_DS /\ regs["es"] = KERNEL_DS BY <1>4 DEF Segments
      <3> QED BY <2>2, <3>1 DEF Segments
    <2>6. pc' = 715 BY <1>4, <2>2
    <2>7. FaultMode' BY <1>1, <2>2, <2>4, <2>5, <2>6 DEF FaultMode, Private
    <2> QED BY <1>1, <2>2, <2>4, <2>6, <2>7, FaultKeeps
  <1> QED BY <1>2, <1>3, <1>4

LEMMA FaultReports ==
  ASSUME EntryTypeOK, FaultMode, Execute, pc \in {715, 716}, Segments(4)
  PROVE  EntryTypeOK' /\ FaultMode'
  <1>1. /\ cs = KERNEL_CS /\ flags = 0 /\ ~halted /\ kstack \in Seq(Int)
        /\ regs \in [Registers -> Int]
    BY DEF FaultMode, EntryTypeOK, Execute
  <1>2. /\ Clobber(regs) \in [Registers -> Int]
        /\ Clobber(regs)["ds"] = KERNEL_DS /\ Clobber(regs)["es"] = KERNEL_DS
    BY <1>1, Clobbered DEF Segments, CalleeSaved
  <1>3. CASE pc = 715
    <2>1. Instr = callc("print_page_fault") BY <1>3, PageFaultCode
    <2>2. Private /\ regs' = Clobber(regs) /\ pc' = pc + 1 /\ kstack' = kstack
      BY <1>1, <2>1, HandlerCallsC
    <2>3. pc' = 716 /\ Segments(4)' BY <1>2, <1>3, <2>2 DEF Segments
    <2>4. FaultMode' BY <1>1, <2>2, <2>3 DEF FaultMode, Private
    <2> QED BY <1>1, <1>2, <2>2, <2>3, <2>4, FaultKeeps
  <1>4. CASE pc = 716
    <2>1. Instr = callc("page_fault_routine") BY <1>4, PageFaultCode
    <2>2. CallC /\ Instr[2] = "page_fault_routine"
      BY <2>1, Transfers DEF callc
    <2>3. /\ halted' = TRUE /\ errno' = errno /\ regs' = Clobber(regs) /\ pc' = 717
          /\ UNCHANGED <<flags, cs, ustack, kstack, call, snap>>
      <3>1. halted' = TRUE BY <2>2, Zenon DEF CallC
      <3>2. errno' = errno BY <2>2 DEF CallC
      <3> QED BY <1>4, <2>2, <3>1, <3>2 DEF CallC, Cpu, History
    <2>4. FaultMode' BY <1>1, <2>3 DEF FaultMode
    <2>5. EntryTypeOK' BY <1>1, <1>2, <2>3 DEF EntryTypeOK
    <2> QED BY <2>4, <2>5
  <1> QED BY <1>3, <1>4

LEMMA FaultStep ==
  ASSUME EntryTypeOK, FaultMode, Execute
  PROVE  EntryTypeOK' /\ FaultMode'
  <1>1. ~halted BY DEF Execute
  <1> QED BY <1>1, FaultSaving, FaultSegments, FaultReports DEF FaultMode

(* Both kinds of fault build a frame that ends in %eip and an error code.  *)
LEMMA FaultEntered ==
  ASSUME EntryTypeOK, flags \in Int, cs \in Int, ~halted, NEW eip \in Int,
         Enter(page_fault_handler2_at, eip, <<ErrorCode>>, FALSE)
  PROVE  EntryTypeOK' /\ FaultMode' /\ pc' = 700
  <1> DEFINE t == IF cs = USER_CS THEN <<USER_DS, Len(ustack)>> ELSE kstack
             q == t \o <<flags, cs, eip>>
  <1>1. /\ kstack' = t \o <<flags, cs, eip>> \o <<ErrorCode>>
        /\ pc' = 700 /\ cs' = KERNEL_CS /\ flags' = 0
        /\ snap' = [at |-> [Now EXCEPT !.pc = eip], irq |-> FALSE]
        /\ UNCHANGED <<regs, ustack, errno, halted, call>>
    BY Zenon DEF Enter, page_fault_handler2_at
  <1>2. t \in Seq(Int)
    <2>1. USER_DS \in Int /\ Len(ustack) \in Int /\ kstack \in Seq(Int)
      BY DEF EntryTypeOK, USER_DS
    <2>2. <<USER_DS, Len(ustack)>> \in Seq(Int) BY <2>1
    <2> QED BY <2>1, <2>2
  <1> HIDE DEF t
  <1>3. ErrorCode \in Int BY DEF ErrorCode
  <1>4. /\ q \in Seq(Int) /\ Len(q) = Len(t) + 3 /\ q[Len(t) + 3] = eip
        /\ kstack' = Append(q, ErrorCode) /\ Len(t) \in Nat
    BY <1>1, <1>2, <1>3, GateFrame
  <1> HIDE DEF q
  <1>5. /\ kstack' \in Seq(Int) /\ Len(kstack') = Len(q) + 1
        /\ \A i \in 1 .. Len(q) : kstack'[i] = q[i]
    BY <1>3, <1>4, PushPop
  <1>6. snap' \in [at : States, irq : BOOLEAN] /\ snap'.at.pc = eip
    <2>1. snap' = [at |-> [Now EXCEPT !.pc = eip], irq |-> FALSE] BY <1>1, Zenon
    <2>2. FALSE \in BOOLEAN OBVIOUS
    <2> QED BY <2>1, <2>2, SnapTaken, Zenon
  <1>7. Faulted(0)'
    <2>1. /\ Len(kstack') - 0 - 1 = Len(t) + 3 /\ Len(t) + 3 \in 1 .. Len(q)
          /\ Len(kstack') >= 0 + 2
      BY <1>4, <1>5
    <2> QED BY <1>4, <1>5, <1>6, <2>1 DEF Faulted
  <1>8. EntryTypeOK' BY <1>1, <1>5, <1>6 DEF EntryTypeOK
  <1>9. FaultMode'
    <2>1. pc' = 700 + 0 /\ 0 \in 0 .. 11 BY <1>1
    <2> QED BY <1>1, <1>7, <2>1 DEF FaultMode
  <1> QED BY <1>1, <1>8, <1>9
---------------------------------------------------------------------------
(* Which instructions are executed in which mode.                          *)
LEMMA Ops ==
  /\ \A r : Instr = push(r) => op = "push"
  /\ \A v : Instr = pushi(v) => op = "pushi"
  /\ \A n : Instr = pushrel(n) => op = "pushrel"
  /\ \A k : Instr = pushbp(k) => op = "pushbp"
  /\ \A k : Instr = pushsp(k) => op = "pushsp"
  /\ \A r : Instr = pop(r) => op = "pop"
  /\ \A n : Instr = drop(n) => op = "drop"
  /\ \A q, r : Instr = mov(q, r) => op = "mov"
  /\ \A v, r : Instr = movi(v, r) => op = "movi"
  /\ \A k, r : Instr = ldbp(k, r) => op = "ldbp"
  /\ \A k, r : Instr = ldsp(k, r) => op = "ldsp"
  /\ \A k, r : Instr = stsp(k, r) => op = "stsp"
  /\ \A n : Instr = jl(n) => op = "jl"
  /\ \A n : Instr = jge(n) => op = "jge"
  /\ \A v, n : Instr = jg(v, n) => op = "jg"
  /\ \A n : Instr = jmp(n) => op = "jmp"
  /\ \A f : Instr = callc(f) => op = "callc" /\ Instr[2] = f
  /\ \A m : Instr = plain(m) => op = m
  BY DEF op, push, pushi, pushrel, pushbp, pushsp, pop, drop, mov, movi, ldbp,
         ldsp, stsp, jl, jge, jg, jmp, callc, plain

LEMMA UserOps ==
  ASSUME EntryTypeOK, UserMode
  PROVE  /\ op \notin {"iret", "calltable"}
         /\ op = "callc" => Instr[2] = "set_errno"
  <1>1. CASE pc = APP BY <1>1, AppCode
  <1>2. CASE call.nr \in Numbers /\ InPrologue(regs, pc, ustack)
    <2>1. \/ Instr = push("ebp") \/ Instr = mov("esp", "ebp") \/ Instr = push("ebx")
          \/ Instr = ldbp(2, "edx") \/ Instr = ldbp(3, "ecx") \/ Instr = ldbp(4, "ebx")
      BY <1>2, UserCode DEF InPrologue
    <2> QED BY <2>1, Ops
  <1>3. CASE call.nr \in Numbers /\ InRequest(regs, pc, ustack)
    <2>1. \/ Instr = movi(call.nr, "eax") \/ Instr = pushrel(4) \/ Instr = push("ebp")
          \/ Instr = mov("esp", "ebp") \/ Instr = plain("sysenter")
      BY <1>3, WrapperSyscall DEF InRequest
    <2> QED BY <2>1, Ops
  <1>4. CASE call.nr \in Numbers /\ InReply(regs, pc, ustack)
    <2>1. \/ Instr = pop("ebp") \/ Instr = drop(1) \/ Instr = jge(5)
          \/ Instr = push("eax") \/ Instr = callc("set_errno")
      BY <1>4, WrapperSyscall DEF InReply
    <2> QED BY <2>1, Ops
  <1>5. CASE call.nr \in Numbers /\ InError(regs, pc, ustack)
    <2>1. Instr = drop(1) \/ Instr = movi(-1, "eax")
      BY <1>5, WrapperSyscall DEF InError
    <2> QED BY <2>1, Ops
  <1>6. CASE call.nr \in Numbers /\ InEpilogue(regs, pc, ustack)
    <2>1. \/ pc = SyscallAt + 12
          \/ pc = SyscallAt + 13
          \/ pc = SyscallAt + 14 /\ call.nr = NR_WRITE
      BY <1>6, Places DEF InEpilogue
    <2>2. Instr = pop("ebx") \/ Instr = pop("ebp") \/ Instr = plain("ret")
      BY <1>6, <2>1, UserCode
    <2> QED BY <2>2, Ops
  <1> QED BY <1>1, <1>2, <1>3, <1>4, <1>5, <1>6 DEF UserMode, UserOK

LEMMA SysOps ==
  ASSUME EntryTypeOK, SysMode
  PROVE  /\ op \notin {"iret", "callc"} /\ pc # APP
         /\ op = "calltable" => pc = 421 /\ SysChecking
  <1>1. pc \in 400 .. 438
    <2>1. SysPushing => pc \in 400 .. 416 BY DEF SysPushing
    <2>2. SysChecking => pc \in 417 .. 421 BY DEF SysChecking
    <2>3. SysReplying => pc \in 422 .. 424 BY DEF SysReplying
    <2>4. SysRestoring => pc \in 425 .. 438 BY DEF SysRestoring
    <2> QED BY <2>1, <2>2, <2>3, <2>4 DEF SysMode
  <1>2. pc = 421 => SysChecking
    <2>1. ~(SysPushing /\ pc = 421) BY DEF SysPushing
    <2>2. ~(SysReplying /\ pc = 421) BY DEF SysReplying
    <2>3. ~(SysRestoring /\ pc = 421) BY DEF SysRestoring
    <2> QED BY <2>1, <2>2, <2>3 DEF SysMode
  <1>3. pc # APP BY <1>1 DEF APP
  <1>4. Instr = syscall_handler[pc - 399] BY <1>1, InstrAt
  <1>5. CASE pc \in 405 .. 415
    <2>1. pc - 405 \in 0 .. 10 /\ (pc - 405) + 6 = pc - 399 BY <1>5
    <2>2. Instr = push(SaveOrder[(pc - 405) + 1])
      BY <1>4, <2>1, SaveCode
    <2>3. op = "push" BY <2>2, Ops
    <2> QED BY <1>3, <2>3
  <1>6. CASE pc \in 425 .. 435
    <2>1. pc - 425 \in 0 .. 10 /\ (pc - 425) + 26 = pc - 399 BY <1>6
    <2>2. Instr = pop(SaveOrder[11 - (pc - 425)])
      BY <1>4, <2>1, RestoreCode
    <2>3. op = "pop" BY <2>2, Ops
    <2> QED BY <1>3, <2>3
  <1>7. CASE pc \in 400 .. 404
    <2>1. \/ Instr = pushi(USER_DS) \/ Instr = push("ebp") \/ Instr = plain("pushfl")
          \/ Instr = pushi(USER_CS) \/ Instr = pushbp(1)
      BY <1>4, <1>7, SyscallHandlerCode
    <2> QED BY <1>3, <2>1, Ops
  <1>8. CASE pc \in 416 .. 420
    <2>1. \/ Instr = movi(KERNEL_DS, "edx") \/ Instr = mov("edx", "ds")
          \/ Instr = mov("edx", "es") \/ Instr = jl(4) \/ Instr = jg(MAX_SYSCALL, 3)
      BY <1>4, <1>8, SyscallHandlerCode
    <2> QED BY <1>3, <2>1, Ops
  <1>9. CASE pc = 421
    <2>1. Instr = plain("calltable") BY <1>4, <1>9, SyscallHandlerCode
    <2> QED BY <1>2, <1>3, <1>9, <2>1, Ops
  <1>10. CASE pc \in 422 .. 424
    <2>1. Instr = jmp(2) \/ Instr = movi(-ENOSYS, "eax") \/ Instr = stsp(6, "eax")
      BY <1>4, <1>10, SyscallHandlerCode
    <2> QED BY <1>3, <2>1, Ops
  <1>11. CASE pc \in 436 .. 438
    <2>1. \/ Instr = ldsp(0, "edx") \/ Instr = ldsp(3, "ecx")
          \/ Instr = plain("sti_sysexit")
      BY <1>4, <1>11, SyscallHandlerCode
    <2> QED BY <1>3, <2>1, Ops
  <1> QED BY <1>1, <1>5, <1>6, <1>7, <1>8, <1>9, <1>10, <1>11

LEMMA IrqOps ==
  ASSUME EntryTypeOK, IrqMode
  PROVE  /\ op # "calltable" /\ pc # APP
         /\ op = "callc" => /\ regs["ds"] = KERNEL_DS /\ regs["es"] = KERNEL_DS
                            /\ Instr[2] # "print_page_fault"
         /\ op = "iret" => \E start \in {500, 600} :
                             /\ pc = start + 28
                             /\ Restoring(kstack, IrqFrame, SnapRegs, regs, 11)
  <1>1. PICK start \in {500, 600} : IrqAt(start)
    BY DEF IrqMode, clock_handler_at, keyboard_handler_at
  <1>2. ASSUME NEW k \in 0 .. 11, pc = start + k
        PROVE  op \in {"push", "movi"} /\ pc # APP
    <2>1. pc # APP BY <1>2 DEF APP
    <2>2. CASE k \in 0 .. 10
      <3>1. Instr = push(SaveOrder[k + 1]) BY <1>2, <2>2, IrqCode
      <3> QED BY <2>1, <3>1, Ops
    <2>3. CASE k = 11
      <3>1. Instr = movi(KERNEL_DS, "edx") BY <1>2, <2>3, IrqCode
      <3> QED BY <2>1, <3>1, Ops
    <2> QED BY <2>2, <2>3
  <1>3. ASSUME NEW j \in 12 .. 16, pc = start + j, Segments(j - 11)
        PROVE  /\ op \in {"mov", "movi", "outb", "callc"} /\ pc # APP
               /\ op = "callc" => /\ regs["ds"] = KERNEL_DS /\ regs["es"] = KERNEL_DS
                                  /\ Instr[2] # "print_page_fault"
    <2>1. pc # APP BY <1>3 DEF APP
    <2>2. CASE j \in 12 .. 13
      <3>1. Instr = mov("edx", "ds") \/ Instr = mov("edx", "es")
        BY <1>3, <2>2, IrqCode
      <3>2. op = "mov" BY <3>1, Ops
      <3> QED BY <2>1, <3>2
    <2>3. CASE j \in 14 .. 16
      <3>1. j - 11 >= 2 /\ j - 11 >= 3 /\ pc \in {514, 515, 516, 614, 615, 616}
        BY <1>3, <2>3
      <3>2. regs["ds"] = KERNEL_DS /\ regs["es"] = KERNEL_DS
        BY <1>3, <3>1 DEF Segments
      <3>3. \/ Instr = movi(32, "eax") \/ Instr = plain("outb")
            \/ Instr = callc("clock_routine") \/ Instr = callc("keyboard_routine")
        BY <3>1, IrqBodyCode
      <3> QED BY <2>1, <3>2, <3>3, Ops
    <2> QED BY <2>2, <2>3
  <1>4. ASSUME NEW k \in 0 .. 11, pc = start + 17 + k,
               Restoring(kstack, IrqFrame, SnapRegs, regs, k)
        PROVE  /\ op \in {"pop", "iret"} /\ pc # APP
               /\ op = "iret" => /\ pc = start + 28
                                 /\ Restoring(kstack, IrqFrame, SnapRegs, regs, 11)
    <2>1. pc # APP BY <1>4 DEF APP
    <2>2. CASE k \in 0 .. 10
      <3>1. Instr = pop(SaveOrder[11 - k]) BY <1>4, <2>2, IrqCode
      <3>2. op = "pop" BY <3>1, Ops
      <3> QED BY <2>1, <3>2
    <2>3. CASE k = 11
      <3>1. pc = start + 28 BY <1>4, <2>3
      <3>2. Instr = plain("iret") BY <3>1, IrqCode
      <3> QED BY <1>4, <2>1, <2>3, <3>1, <3>2, Ops
    <2> QED BY <2>2, <2>3
  <1> QED BY <1>1, <1>2, <1>3, <1>4 DEF IrqAt

LEMMA FaultOps ==
  ASSUME EntryTypeOK, FaultMode
  PROVE  /\ op \notin {"iret", "calltable"} /\ pc # APP
         /\ op = "callc" => regs["ds"] = KERNEL_DS /\ regs["es"] = KERNEL_DS
         /\ op = "callc" /\ Instr[2] = "print_page_fault" =>
              kstack[Len(kstack)] = snap.at.pc
  <1>1. ASSUME NEW k \in 0 .. 11, pc = 700 + k
        PROVE  op \in {"push", "movi"} /\ pc # APP
    <2>1. pc # APP BY <1>1 DEF APP
    <2>2. CASE k \in 0 .. 10
      <3>1. Instr = push(SaveOrder[k + 1]) BY <1>1, <2>2, PageFaultCode
      <3> QED BY <2>1, <3>1, Ops
    <2>3. CASE k = 11
      <3>1. Instr = movi(KERNEL_DS, "edx") BY <1>1, <2>3, PageFaultCode
      <3> QED BY <2>1, <3>1, Ops
    <2> QED BY <2>2, <2>3
  <1>2. ASSUME NEW j \in 12 .. 14, pc = 700 + j
        PROVE  op \in {"mov", "pushsp"} /\ pc # APP
    <2>1. \/ Instr = mov("edx", "ds") \/ Instr = mov("edx", "es")
          \/ Instr = pushsp(12)
      BY <1>2, PageFaultCode
    <2>2. pc # APP BY <1>2 DEF APP
    <2> QED BY <2>1, <2>2, Ops
  <1>3. ASSUME pc = 715
        PROVE  op = "callc" /\ pc # APP
    <2>1. Instr = callc("print_page_fault") BY <1>3, PageFaultCode
    <2> QED BY <1>3, <2>1, Ops DEF APP
  <1>4. ASSUME pc = 716
        PROVE  op = "callc" /\ pc # APP /\ Instr[2] # "print_page_fault"
    <2>1. Instr = callc("page_fault_routine") BY <1>4, PageFaultCode
    <2> QED BY <1>4, <2>1, Ops DEF APP
  <1>5. ASSUME pc = 717
        PROVE  op = "movi" /\ pc # APP
    <2>1. Instr = movi(32, "eax") BY <1>5, PageFaultCode
    <2> QED BY <1>5, <2>1, Ops DEF APP
  <1>6. Segments(4) => regs["ds"] = KERNEL_DS /\ regs["es"] = KERNEL_DS
    BY DEF Segments
  <1>7. CASE \E k \in 0 .. 11 : pc = 700 + k BY <1>1, <1>7
  <1>8. CASE \E j \in 12 .. 14 : pc = 700 + j BY <1>2, <1>8
  <1>9. CASE pc = 715 /\ Segments(4) /\ kstack[Len(kstack)] = snap.at.pc
    BY <1>3, <1>6, <1>9
  <1>10. CASE pc = 716 /\ Segments(4) BY <1>4, <1>6, <1>10
  <1>11. CASE pc = 717 BY <1>5, <1>11
  <1>12. \/ \E k \in 0 .. 11 : pc = 700 + k
         \/ \E j \in 12 .. 14 : pc = 700 + j
         \/ pc = 715 /\ Segments(4) /\ kstack[Len(kstack)] = snap.at.pc
         \/ pc = 716 /\ Segments(4)
         \/ pc = 717
    BY DEF FaultMode
  <1> QED BY <1>7, <1>8, <1>9, <1>10, <1>11, <1>12
---------------------------------------------------------------------------
(* The program, which calls the wrappers.                                  *)
LEMMA AtApp ==
  ASSUME EntryInv, pc = APP
  PROVE  UserMode /\ ustack = <<>>
  <1>1. UserMode BY SysOps, IrqOps, FaultOps DEF EntryInv
  <1>2. pc = 0 /\ SyscallAt \in 106 .. 302 BY Places DEF APP
  <1>3. /\ ~InPrologue(regs, pc, ustack) /\ ~InRequest(regs, pc, ustack)
        /\ ~InReply(regs, pc, ustack) /\ ~InError(regs, pc, ustack)
        /\ ~InEpilogue(regs, pc, ustack)
    BY <1>2 DEF InPrologue, InRequest, InReply, InError, InEpilogue
  <1> QED BY <1>1, <1>3 DEF UserMode, UserOK

LEMMA CallPushes ==
  ASSUME NEW a \in Int, NEW b \in Int, NEW c \in Int, NEW d \in Int
  PROVE  /\ <<>> \o <<a, b, c>> \o <<d>> = <<a, b, c, d>>
         /\ <<>> \o <<>> \o <<d>> = <<d>>
  <1>1. /\ <<a, b, c>> \in Seq(Int) /\ <<>> \in Seq(Int)
    OBVIOUS
  <1>2. <<>> \o <<a, b, c>> = <<a, b, c>> /\ <<>> \o <<>> = <<>>
    BY <1>1, ConcatEmptySeq
  <1>3. /\ <<a, b, c>> \o <<d>> = Append(<<a, b, c>>, d)
        /\ <<>> \o <<d>> = Append(<<>>, d)
    BY <1>1, AppendIsConcat
  <1>4. Append(<<a, b, c>>, d) = <<a, b, c, d>>
    <2> DEFINE s == Append(<<a, b, c>>, d)
               t == <<a, b, c, d>>
    <2>1. s \in Seq(Int) /\ t \in Seq(Int) /\ Len(s) = 4 /\ Len(t) = 4
      OBVIOUS
    <2>2. s[1] = t[1] /\ s[2] = t[2] /\ s[3] = t[3] /\ s[4] = t[4]
      OBVIOUS
    <2> HIDE DEF s, t
    <2>3. ASSUME NEW i \in 1 .. Len(s) PROVE s[i] = t[i]
      <3>1. i \in {1, 2, 3, 4} BY <2>1
      <3> QED BY <2>2, <3>1
    <2>4. s = t BY <2>1, <2>3, SeqEqual
    <2> QED BY <2>4 DEF s, t
  <1>5. Append(<<>>, d) = <<d>>
    OBVIOUS
  <1> QED BY <1>2, <1>3, <1>4, <1>5

LEMMA NumbersInt ==
  /\ Numbers \subseteq Int
  /\ NR_WRITE # NR_GETTIME /\ NR_WRITE # NR_NONE /\ NR_GETTIME # NR_NONE
  BY EntryAssumption DEF Numbers

LEMMA CallStep ==
  ASSUME EntryInv, NEW nr \in Numbers, CallWrapper(nr)
  PROVE  EntryInv'
  <1>1. /\ pc = APP /\ ~halted
        /\ call' = [at |-> Now, nr |-> nr, result |-> 0, errno |-> errno]
        /\ UNCHANGED <<regs, flags, cs, kstack, errno, halted, snap>>
    BY DEF CallWrapper
  <1>2. UserMode /\ ustack = <<>> /\ EntryTypeOK
    BY <1>1, AtApp DEF EntryInv
  <1>3. cs = USER_CS /\ flags = FLAGS_IF /\ flags \in Int
    BY <1>2, UserInt
  <1>4. nr \in Int /\ errno \in Int BY <1>2, NumbersInt DEF EntryTypeOK
  <1>5. Now \in States /\ Now.regs = regs /\ Now.ustack = ustack
    BY <1>2, <1>3 DEF Now, States, EntryTypeOK
  <1>6. /\ call' \in [at : States, nr : Int, result : Int, errno : Int]
        /\ call'.at = Now /\ call'.nr = nr /\ call'.errno = errno
    BY <1>1, <1>4, <1>5
  <1>7. call'.at.ustack = <<>> /\ C' = regs
    BY <1>2, <1>5, <1>6 DEF C
  <1>8. Args[1] \in Int /\ Args[2] \in Int /\ Args[3] \in Int /\ APP \in Int
    BY EntryAssumption DEF APP
  <1>9. ustack' = Called' /\ ustack' \in Seq(Int)
    <2>1. CASE nr = NR_WRITE
      <3>1. ustack' = <<>> \o <<Args[3], Args[2], Args[1]>> \o <<APP>>
        BY <1>2, <2>1 DEF CallWrapper
      <3>2. ustack' = <<Args[3], Args[2], Args[1], APP>>
        BY <1>8, <3>1, CallPushes
      <3>3. <<Args[3], Args[2], Args[1], APP>> \in Seq(Int) BY <1>8
      <3> QED BY <1>6, <2>1, <3>2, <3>3 DEF Called, APP
    <2>2. CASE nr # NR_WRITE
      <3>1. ustack' = <<>> \o <<>> \o <<APP>>
        BY <1>2, <2>2 DEF CallWrapper
      <3>2. ustack' = <<APP>> BY <1>8, <3>1, CallPushes
      <3>3. <<APP>> \in Seq(Int) BY <1>8
      <3> QED BY <1>6, <2>2, <3>2, <3>3 DEF Called, APP
    <2> QED BY <2>1, <2>2
  <1>10. /\ pc' \in Int
         /\ nr = NR_WRITE => pc' = SyscallAt' - 6
         /\ nr # NR_WRITE => pc' = SyscallAt' - 2
    <2>1. CASE nr = NR_WRITE
      <3>1. pc' = 100 BY <2>1, NumbersInt DEF CallWrapper, write_at
      <3>2. SyscallAt' = 106 BY <1>6, <2>1 DEF SyscallAt
      <3> QED BY <2>1, <3>1, <3>2
    <2>2. CASE nr = NR_GETTIME
      <3>1. pc' = 200 BY <2>2, NumbersInt DEF CallWrapper, gettime_at
      <3>2. SyscallAt' = 202 BY <1>6, <2>2, NumbersInt DEF SyscallAt
      <3> QED BY <2>2, <3>1, <3>2, NumbersInt
    <2>3. CASE nr = NR_NONE
      <3>1. pc' = 300 BY <2>3, NumbersInt DEF CallWrapper, no_such_call_at
      <3>2. SyscallAt' = 302 BY <1>6, <2>3, NumbersInt DEF SyscallAt
      <3> QED BY <2>3, <3>1, <3>2, NumbersInt
    <2> QED BY <2>1, <2>2, <2>3 DEF Numbers
  <1>11. regs \in [Registers -> Int] BY <1>2 DEF EntryTypeOK
  <1>12. InPrologue(regs, pc, ustack)'
    BY <1>1, <1>6, <1>7, <1>9, <1>10 DEF InPrologue
  <1>13. UserOK(regs, pc, ustack)'
    BY <1>1, <1>6, <1>9, <1>11, <1>12 DEF UserOK, Numbers
  <1>14. UserMode' BY <1>1, <1>3, <1>13 DEF UserMode
  <1>15. EntryTypeOK'
    BY <1>1, <1>2, <1>6, <1>7, <1>9, <1>10 DEF EntryTypeOK
  <1> QED BY <1>14, <1>15 DEF EntryInv

(* The invariant.                                                          *)
LEMMA EntryInit ==
  ASSUME Init
  PROVE  EntryInv
  <1>1. AppRegs \in [Registers -> Int]
    BY DEF AppRegs, Registers, USER_DS
  <1>2. /\ regs \in [Registers -> Int] /\ pc = APP /\ flags = FLAGS_IF
        /\ cs = USER_CS /\ ustack = <<>> /\ kstack = <<>> /\ errno = 0
        /\ halted = FALSE
        /\ call = [at |-> Now, nr |-> -1, result |-> 0, errno |-> 0]
        /\ snap = [at |-> Now, irq |-> FALSE]
    BY <1>1 DEF Init
  <1>3. <<>> \in Seq(Int) /\ APP \in Int /\ FLAGS_IF \in Int
    BY DEF APP, FLAGS_IF
  <1>4. Now \in States /\ Now.ustack = ustack
    BY <1>2, <1>3 DEF Now, States
  <1>5. call \in [at : States, nr : Int, result : Int, errno : Int]
        /\ call.at.ustack = <<>> /\ snap \in [at : States, irq : BOOLEAN]
    BY <1>2, <1>4
  <1>6. EntryTypeOK BY <1>2, <1>3, <1>5 DEF EntryTypeOK
  <1>7. UserMode BY <1>2, <1>3 DEF UserMode, UserOK
  <1> QED BY <1>6, <1>7 DEF EntryInv

LEMMA EntryStutter ==
  ASSUME EntryInv, UNCHANGED vars
  PROVE  EntryInv'
  <1>1. /\ regs' = regs /\ pc' = pc /\ flags' = flags /\ cs' = cs
        /\ ustack' = ustack /\ kstack' = kstack /\ errno' = errno
        /\ halted' = halted /\ call' = call /\ snap' = snap
    BY DEF vars
  <1>2. EntryTypeOK /\ EntryTypeOK'
    BY <1>1 DEF EntryInv, EntryTypeOK
  <1>3. UserMode => UserMode'
    BY <1>1, UserOKPrimed DEF UserMode
  <1>4. SysMode => SysMode'
    <2>1. /\ SysFrame' = SysFrame /\ SysRegs' = SysRegs /\ Entered' = Entered
          /\ Result' = Result /\ C' = C /\ Depth' = Depth /\ SyscallAt' = SyscallAt
      BY <1>1, Fixed
    <2>2. SysPushing => SysPushing' BY <1>1, <2>1 DEF SysPushing, Holds
    <2>3. SysChecking => SysChecking' BY <1>1, <2>1 DEF SysChecking, Segments, Holds
    <2>4. ASSUME NEW r, NEW k
          PROVE  /\ Returns(r)' <=> Returns(r)
                 /\ Replies(r)' <=> Replies(r)
                 /\ Holds(kstack, SysFrame, r, k)' <=> Holds(kstack, SysFrame, r, k)
                 /\ Restoring(kstack, SysFrame, r, regs, k)' <=>
                      Restoring(kstack, SysFrame, r, regs, k)
      BY <1>1, <2>1 DEF Returns, Replies, Kept, Holds, Restoring
    <2>5. /\ Replies(regs)' <=> Replies(regs)
          /\ Holds(kstack, SysFrame, regs, 0)' <=> Holds(kstack, SysFrame, regs, 0)
          /\ Holds(kstack, SysFrame, SysRegs, 11)' <=>
               Holds(kstack, SysFrame, SysRegs, 11)
      BY <1>1, <2>1 DEF Returns, Replies, Kept, Holds
    <2>6. SysReplying => SysReplying'
      BY <1>1, <2>1, <2>4, <2>5 DEF SysReplying
    <2>7. SysRestoring => SysRestoring'
      BY <1>1, <2>1, <2>4, <2>5 DEF SysRestoring
    <2> QED BY <1>1, <2>1, <2>2, <2>3, <2>6, <2>7 DEF SysMode, Numbers
  <1>5. IrqMode => IrqMode'
    <2>1. SUFFICES ASSUME IrqMode PROVE IrqMode'
      OBVIOUS
    <2>2. IrqFrame' = IrqFrame /\ SnapRegs' = SnapRegs
      BY <1>1 DEF IrqFrame, SnapRegs
    <2>3. /\ IrqAt(clock_handler_at) => IrqAt(clock_handler_at)'
          /\ IrqAt(keyboard_handler_at) => IrqAt(keyboard_handler_at)'
      BY <1>1, <2>2 DEF IrqAt, Segments, Restoring, Holds,
                        clock_handler_at, keyboard_handler_at
    <2>4. Private BY <1>1 DEF Private
    <2>5. /\ pc' \in Int /\ regs' \in [Registers -> Int] /\ kstack' \in Seq(Int)
      BY <1>2 DEF EntryTypeOK
    <2>6. IrqAt(clock_handler_at)' \/ IrqAt(keyboard_handler_at)'
      BY <2>1, <2>3 DEF IrqMode
    <2> QED BY <1>2, <2>1, <2>4, <2>5, <2>6, IrqKeeps
  <1>6. FaultMode => FaultMode'
    BY <1>1 DEF FaultMode, Faulted, Segments
  <1> QED BY <1>2, <1>3, <1>4, <1>5, <1>6 DEF EntryInv

LEMMA PageFaultStep ==
  ASSUME EntryInv, PageFault
  PROVE  EntryInv' /\ (pc = APP \/ op = "calltable") /\ pc' = 700
  <1>1. EntryTypeOK /\ flags \in Int /\ cs \in Int /\ ~halted
    BY UserInt DEF EntryInv, UserMode, SysMode, IrqMode, FaultMode, KERNEL_CS, PageFault
  <1>2. PICK eip \in Int : Enter(page_fault_handler2_at, eip, <<ErrorCode>>, FALSE)
    <2>1. pc \in Int /\ CODE_OF_C \in Int BY <1>1 DEF EntryTypeOK, CODE_OF_C
    <2> QED BY <2>1, Zenon DEF PageFault
  <1>3. pc = APP \/ op = "calltable" BY Zenon DEF PageFault
  <1>4. EntryTypeOK' /\ FaultMode' /\ pc' = 700
    BY <1>1, <1>2, FaultEntered
  <1> QED BY <1>3, <1>4 DEF EntryInv

LEMMA InterruptFrom ==
  ASSUME EntryInv, Interrupt
  PROVE  UserMode /\ EntryTypeOK
  <1>1. flags = FLAGS_IF BY DEF Interrupt
  <1> QED BY <1>1 DEF EntryInv, SysMode, IrqMode, FaultMode, FLAGS_IF

LEMMA EntryNext ==
  ASSUME EntryInv, [Next]_vars
  PROVE  EntryInv'
  <1>1. CASE Execute
    <2>1. EntryTypeOK BY DEF EntryInv
    <2>2. CASE UserMode BY <1>1, <2>1, <2>2, UserStep DEF EntryInv
    <2>3. CASE SysMode BY <1>1, <2>1, <2>3, SysStep DEF EntryInv
    <2>4. CASE IrqMode BY <1>1, <2>1, <2>4, IrqStep DEF EntryInv
    <2>5. CASE FaultMode BY <1>1, <2>1, <2>5, FaultStep DEF EntryInv
    <2> QED BY <2>2, <2>3, <2>4, <2>5 DEF EntryInv
  <1>2. CASE \E nr \in {NR_WRITE, NR_GETTIME, NR_NONE} : CallWrapper(nr)
    BY <1>2, CallStep DEF Numbers
  <1>3. CASE Interrupt
    BY <1>3, InterruptFrom, InterruptStep DEF EntryInv
  <1>4. CASE PageFault
    BY <1>4, PageFaultStep
  <1>5. CASE page_fault_routine
    BY <1>5, EntryStutter DEF page_fault_routine
  <1>6. CASE UNCHANGED vars
    BY <1>6, EntryStutter
  <1> QED BY <1>1, <1>2, <1>3, <1>4, <1>5, <1>6 DEF Next

(* In every state of entry.S and libc_sys.S the program counter tells what *)
(* the stacks and the registers hold, whatever interrupts came before.     *)
THEOREM EntryInvariant == Spec => []EntryInv
  <1>1. Init => EntryInv BY EntryInit
  <1>2. EntryInv /\ [Next]_vars => EntryInv' BY EntryNext
  <1> QED BY <1>1, <1>2, PTL DEF Spec
---------------------------------------------------------------------------
(* What the invariant is for.                                              *)
LEMMA TableArguments ==
  ASSUME EntryTypeOK, SysMode, op = "calltable"
  PROVE  /\ regs["ds"] = KERNEL_DS /\ regs["es"] = KERNEL_DS
         /\ call.nr = NR_WRITE => regs["eax"] = NR_WRITE /\ Top(3) = Args
  <1>1. pc = 421 /\ SysChecking BY SysOps
  <1>2. PICK j \in 17 .. 21 :
          /\ pc = 400 + j /\ Segments(j - 16)
          /\ Holds(kstack, SysFrame, SysRegs, 11) /\ regs["eax"] = call.nr
    BY <1>1 DEF SysChecking
  <1>3. j - 16 = 5 BY <1>1, <1>2
  <1>4. regs["ds"] = KERNEL_DS /\ regs["es"] = KERNEL_DS
    BY <1>2, <1>3 DEF Segments
  <1>5. ASSUME call.nr = NR_WRITE PROVE Top(3) = Args
    <2>1. stack = kstack BY DEF SysMode, stack, KERNEL_CS, USER_CS
    <2>2. /\ Len(kstack) = 16 /\ \A i \in 1 .. 11 : kstack[5 + i] = SysRegs[SaveOrder[i]]
      BY <1>2 DEF Holds
    <2>3. SaveOrder[9] = "ebx" /\ SaveOrder[10] = "ecx" /\ SaveOrder[11] = "edx"
      BY DEF SaveOrder
    <2>4. kstack[16] = SysRegs["edx"] /\ kstack[15] = SysRegs["ecx"]
          /\ kstack[14] = SysRegs["ebx"]
      <3>1. 5 + 11 = 16 /\ 5 + 10 = 15 /\ 5 + 9 = 14 OBVIOUS
      <3>2. /\ kstack[5 + 11] = SysRegs[SaveOrder[11]]
            /\ kstack[5 + 10] = SysRegs[SaveOrder[10]]
            /\ kstack[5 + 9] = SysRegs[SaveOrder[9]]
        BY <2>2
      <3> QED BY <2>3, <3>1, <3>2
    <2>5. kstack[16] = Args[1] /\ kstack[15] = Args[2] /\ kstack[14] = Args[3]
      BY <1>5, <2>4, CallRegisters
    <2>6. Word(0) = Args[1] /\ Word(1) = Args[2] /\ Word(2) = Args[3]
      <3>1. Len(kstack) - 0 = 16 /\ Len(kstack) - 1 = 15 /\ Len(kstack) - 2 = 14
        BY <2>2
      <3> QED BY <2>1, <2>5, <3>1 DEF Word
    <2>7. \A k \in 1 .. 3 : Word(k - 1) = Args[k]
      <3>1. ASSUME NEW k \in 1 .. 3 PROVE Word(k - 1) = Args[k]
        <4>1. CASE k = 1
          <5>1. k - 1 = 0 BY <4>1
          <5> QED BY <2>6, <4>1, <5>1
        <4>2. CASE k = 2
          <5>1. k - 1 = 1 BY <4>2
          <5> QED BY <2>6, <4>2, <5>1
        <4>3. CASE k = 3
          <5>1. k - 1 = 2 BY <4>3
          <5> QED BY <2>6, <4>3, <5>1
        <4> QED BY <4>1, <4>2, <4>3
      <3> QED BY <3>1
    <2>8. Args = [k \in 1 .. 3 |-> Args[k]]
      BY EntryAssumption
    <2>9. Top(3) = [k \in 1 .. 3 |-> Args[k]]
      BY <2>7 DEF Top
    <2> QED BY <2>8, <2>9
  <1> QED BY <1>2, <1>4, <1>5

(* sys_write finds on the kernel stack the arguments that the program gave *)
(* to write, and print_page_fault the %eip that faulted, for every value   *)
(* of the arguments and after any interleaving with interrupts.            *)
THEOREM EntryArguments == Spec => []ArgumentsArrive
  <1>1. EntryInv => ArgumentsArrive
    <2>1. SUFFICES ASSUME EntryInv PROVE ArgumentsArrive
      OBVIOUS
    <2>2. EntryTypeOK BY <2>1 DEF EntryInv
    <2>3. CASE UserMode
      BY <2>2, <2>3, UserOps DEF ArgumentsArrive
    <2>4. CASE SysMode
      BY <2>2, <2>4, SysOps, TableArguments DEF ArgumentsArrive
    <2>5. CASE IrqMode
      BY <2>2, <2>5, IrqOps DEF ArgumentsArrive
    <2>6. CASE FaultMode
      <3>1. Word(0) = kstack[Len(kstack)]
        <4>1. stack = kstack /\ Len(kstack) - 0 = Len(kstack)
          BY <2>2, <2>6 DEF FaultMode, EntryTypeOK, stack, KERNEL_CS, USER_CS
        <4> QED BY <4>1 DEF Word
      <3> QED BY <2>2, <2>6, <3>1, FaultOps DEF ArgumentsArrive
    <2> QED BY <2>1, <2>3, <2>4, <2>5, <2>6 DEF EntryInv
  <1> QED BY <1>1, EntryInvariant, PTL

(* Every C routine of the kernel runs with the kernel's data segments,     *)
(* whichever of the four handlers called it.                               *)
THEOREM EntrySegments == Spec => []KernelSegments
  <1>1. EntryInv => KernelSegments
    <2>1. SUFFICES ASSUME EntryInv PROVE KernelSegments
      OBVIOUS
    <2>2. EntryTypeOK BY <2>1 DEF EntryInv
    <2>3. CASE UserMode BY <2>3, UserInt DEF KernelSegments
    <2>4. CASE SysMode
      BY <2>2, <2>4, SysOps, TableArguments DEF KernelSegments
    <2>5. CASE IrqMode BY <2>2, <2>5, IrqOps DEF KernelSegments
    <2>6. CASE FaultMode BY <2>2, <2>6, FaultOps DEF KernelSegments
    <2> QED BY <2>1, <2>3, <2>4, <2>5, <2>6 DEF EntryInv
  <1> QED BY <1>1, EntryInvariant, PTL

(* An interrupt at any instruction of the program or of a wrapper leaves   *)
(* no trace once its handler has executed iret.                            *)
THEOREM EntryTransparent == Spec => InterruptTransparent
  <1>1. ASSUME EntryInv, [Next]_vars, op = "iret", ~UNCHANGED vars
        PROVE  /\ regs' = snap.at.regs /\ ustack' = snap.at.ustack
               /\ pc' = snap.at.pc /\ flags' = snap.at.flags
               /\ cs' = USER_CS /\ kstack' = <<>>
    <2>1. EntryTypeOK BY <1>1 DEF EntryInv
    <2>2. IrqMode BY <1>1, <2>1, UserOps, SysOps, FaultOps DEF EntryInv
    <2>3. PICK start \in {500, 600} :
            /\ pc = start + 28
            /\ Restoring(kstack, IrqFrame, SnapRegs, regs, 11)
      BY <1>1, <2>1, <2>2, IrqOps
    <2>4. Execute
      <3>1. pc # APP BY <2>1, <2>2, IrqOps
      <3>2. ~Interrupt
        <4>1. flags # FLAGS_IF BY <2>2 DEF IrqMode, FLAGS_IF
        <4> QED BY <4>1 DEF Interrupt
      <3>3. ~PageFault BY <1>1, <3>1, PageFaultStep
      <3>4. ~page_fault_routine BY <1>1 DEF page_fault_routine
      <3>5. \A nr : ~CallWrapper(nr) BY <3>1 DEF CallWrapper
      <3> QED BY <1>1, <3>2, <3>3, <3>4, <3>5 DEF Next
    <2>5. snap.at.flags = FLAGS_IF BY <2>2 DEF IrqMode
    <2> QED BY <2>1, <2>2, <2>3, <2>4, <2>5, IretStep DEF SnapRegs
  <1>2. EntryInv /\ [Next]_vars =>
          [op = "iret" => /\ regs' = snap.at.regs /\ ustack' = snap.at.ustack
                          /\ pc' = snap.at.pc /\ flags' = snap.at.flags
                          /\ cs' = USER_CS /\ kstack' = <<>>]_vars
    BY <1>1
  <1> QED BY <1>2, EntryInvariant, PTL DEF Spec, InterruptTransparent

LEMMA UserReturns ==
  ASSUME EntryTypeOK, UserMode, Execute, pc' = APP
  PROVE  /\ ustack' = <<>> /\ flags' = FLAGS_IF
         /\ \A r \in CalleeSaved : regs'[r] = C[r]
         /\ regs'["eax"] = IF Result < 0 THEN -1 ELSE Result
         /\ errno' = IF Result < 0 THEN -Result ELSE call.errno
  <1>1. pc # APP /\ call.nr \in Numbers BY AppCode DEF UserMode, UserOK
  <1>2. pc' \notin 100 .. 400 BY DEF APP
  <1>3. ~InPrologue(regs, pc, ustack) BY <1>1, <1>2, PrologueStep
  <1>4. ~InRequest(regs, pc, ustack) BY <1>1, <1>2, RequestStep
  <1>5. ~InReply(regs, pc, ustack) BY <1>1, <1>2, ReplyStep
  <1>6. ~InError(regs, pc, ustack) BY <1>1, <1>2, ErrorStep
  <1>7. InEpilogue(regs, pc, ustack)
    BY <1>1, <1>3, <1>4, <1>5, <1>6 DEF UserMode, UserOK
  <1>8. flags' = FLAGS_IF
    BY <1>1, <1>7, EpilogueStep DEF Quiet, UserMode
  <1> QED BY <1>1, <1>2, <1>7, <1>8, EpilogueStep

(* A wrapper returns with the stack and the reserved registers of its      *)
(* caller, and with the result or -1 and errno, for every result, every    *)
(* number and every overwriting of the arguments by the service routine.   *)
THEOREM EntryContract == Spec => WrapperContract
  <1>1. ASSUME EntryInv, [Next]_vars, ~UNCHANGED vars,
               pc # APP, cs = USER_CS, pc' = APP
        PROVE  /\ ustack' = call.at.ustack /\ flags' = FLAGS_IF
               /\ \A r \in CalleeSaved : regs'[r] = call.at.regs[r]
               /\ regs'["eax"] = IF Result < 0 THEN -1 ELSE Result
               /\ errno' = IF Result < 0 THEN -Result ELSE call.errno
    <2>1. EntryTypeOK BY <1>1 DEF EntryInv
    <2>2. UserMode
      BY <1>1 DEF EntryInv, SysMode, IrqMode, FaultMode, USER_CS, KERNEL_CS
    <2>3. Execute
      <3>1. ~Interrupt
        <4>1. APP \notin {500, 600} BY DEF APP
        <4> QED BY <1>1, <2>1, <2>2, <4>1, InterruptStep
      <3>2. ~PageFault
        <4>1. APP # 700 BY DEF APP
        <4> QED BY <1>1, <4>1, PageFaultStep
      <3>3. ~page_fault_routine BY <1>1 DEF page_fault_routine
      <3>4. \A nr : ~CallWrapper(nr) BY <1>1 DEF CallWrapper
      <3> QED BY <1>1, <3>1, <3>2, <3>3, <3>4 DEF Next
    <2>4. call.at.ustack = <<>> BY <2>1 DEF EntryTypeOK
    <2> QED BY <1>1, <2>1, <2>2, <2>3, <2>4, UserReturns DEF C
  <1>2. EntryInv /\ [Next]_vars =>
          [pc # APP /\ cs = USER_CS /\ pc' = APP =>
             /\ ustack' = call.at.ustack /\ flags' = FLAGS_IF
             /\ \A r \in CalleeSaved : regs'[r] = call.at.regs[r]
             /\ regs'["eax"] = IF Result < 0 THEN -1 ELSE Result
             /\ errno' = IF Result < 0 THEN -Result ELSE call.errno]_vars
    BY <1>1
  <1> QED BY <1>2, EntryInvariant, PTL DEF Spec, WrapperContract
===========================================================================
