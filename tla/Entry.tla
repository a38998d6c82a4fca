------------------------------- MODULE Entry ------------------------------
(***************************************************************************)
(* The assembly of entry.S and libc_sys.S, instruction by instruction:     *)
(* the wrappers write and gettime, sysenter and syscall_handler, and the   *)
(* handlers of the clock, the keyboard and the page fault, over a register *)
(* file and the words of the user and kernel stacks.                       *)
(*                                                                         *)
(* A stack is a sequence whose last element is 0(%esp); a stack address is *)
(* a depth, so that with %ebp = d the word at 4*k(%ebp) is stack[d - k].   *)
(* C functions are called by the ABI gcc follows: they preserve ebx, esi,  *)
(* edi, ebp and the segment registers, may leave anything in eax, ecx and  *)
(* edx, and may overwrite their own arguments.                             *)
(***************************************************************************)
EXTENDS Integers, Sequences

CONSTANTS MAX_SYSCALL, NR_WRITE, NR_GETTIME,
          NR_NONE,        \* a number outside sys_call_table
          Results,        \* values a service routine may return
          Args            \* values write's caller passes, all distinct

ASSUME EntryAssumption ==
  /\ Results \subseteq Int /\ Args \in Seq(Int) /\ Len(Args) = 3
  /\ MAX_SYSCALL \in Nat
  /\ NR_WRITE \in 0 .. MAX_SYSCALL - 1 /\ NR_GETTIME \in 0 .. MAX_SYSCALL - 1
  /\ NR_WRITE # NR_GETTIME
  /\ NR_NONE \in Int \ (0 .. MAX_SYSCALL)

ENOSYS == 38
USER_DS == 43
USER_CS == 35
KERNEL_DS == 24
KERNEL_CS == 16
FLAGS_IF == 512        \* IF is bit 9 of EFLAGS

Registers == {"eax", "ebx", "ecx", "edx", "esi", "edi", "ebp",
              "ds", "es", "fs", "gs"}
CalleeSaved == {"ebx", "esi", "edi", "ebp", "ds", "es", "fs", "gs"}
Junk == -999           \* what a C function leaves in a scratch register
CODE_OF_C == 7777      \* an address inside a C function
---------------------------------------------------------------------------
(* Instructions: <<mnemonic, operands>>.  pushrel and the jumps take a     *)
(* distance in instructions; ldbp and pushbp read off k words above %ebp,  *)
(* ldsp, stsp and pushsp k words above %esp; drop is addl to %esp.         *)
plain(m) == <<m>>
push(r) == <<"push", r>>
pushi(v) == <<"pushi", v>>
pushrel(n) == <<"pushrel", n>>
pushbp(k) == <<"pushbp", k>>
pushsp(k) == <<"pushsp", k>>
pop(r) == <<"pop", r>>
drop(n) == <<"drop", n>>
mov(q, r) == <<"mov", q, r>>
movi(v, r) == <<"movi", v, r>>
ldbp(k, r) == <<"ldbp", k, r>>
ldsp(k, r) == <<"ldsp", k, r>>
stsp(k, r) == <<"stsp", k, r>>
jl(n) == <<"jl", n>>
jge(n) == <<"jge", n>>
jg(v, n) == <<"jg", v, n>>
jmp(n) == <<"jmp", n>>
callc(f) == <<"callc", f>>

SAVE_ALL_user_segments ==
  <<push("gs"), push("fs"), push("es"), push("ds"), push("eax"), push("ebp"),
    push("edi"), push("esi"), push("ebx"), push("ecx"), push("edx"),
    movi(KERNEL_DS, "edx"), mov("edx", "ds")>>
SAVE_ALL ==
  <<push("gs"), push("fs"), push("es"), push("ds"), push("eax"), push("ebp"),
    push("edi"), push("esi"), push("ebx"), push("ecx"), push("edx"),
    movi(KERNEL_DS, "edx"), mov("edx", "ds"), mov("edx", "es")>>

RESTORE_ALL ==
  <<pop("edx"), pop("ecx"), pop("ebx"), pop("esi"), pop("edi"), pop("ebp"),
    pop("eax"), pop("ds"), pop("es"), pop("fs"), pop("gs")>>

EOI == <<movi(32, "eax"), plain("outb")>>

clock_handler ==
  SAVE_ALL \o EOI \o <<callc("clock_routine")>> \o RESTORE_ALL
    \o <<plain("iret")>>

keyboard_handler_late_eoi ==
  SAVE_ALL \o <<callc("keyboard_routine")>> \o RESTORE_ALL \o EOI
    \o <<plain("iret")>>
keyboard_handler ==
  SAVE_ALL \o <<callc("keyboard_routine")>> \o EOI \o RESTORE_ALL
    \o <<plain("iret")>>

page_fault_handler2_offset_2C ==
  SAVE_ALL \o <<pushsp(11), callc("print_page_fault"),
                callc("page_fault_routine")>>
    \o EOI \o RESTORE_ALL \o <<plain("iret")>>
page_fault_handler2 ==
  SAVE_ALL \o <<pushsp(12), callc("print_page_fault"),
                callc("page_fault_routine")>>
    \o EOI \o RESTORE_ALL \o <<plain("iret")>>

syscall_handler ==
  <<pushi(USER_DS), push("ebp"), plain("pushfl"), pushi(USER_CS),
    pushbp(1)>>
  \o SAVE_ALL
  \o <<jl(4), jg(MAX_SYSCALL, 3), plain("calltable"), jmp(2),
       movi(-ENOSYS, "eax"),
       stsp(6, "eax")>>
  \o RESTORE_ALL
  \o <<ldsp(0, "edx"), ldsp(3, "ecx"), plain("sti_sysexit")>>

CHECK_ERROR ==
  <<jge(5), push("eax"), callc("set_errno"), drop(1),
    movi(-1, "eax")>>

SYSCALL(nr) ==
  <<movi(nr, "eax"), pushrel(4), push("ebp"),
    mov("esp", "ebp"), plain("sysenter"),
    pop("ebp"), drop(1)>> \o CHECK_ERROR

write_ebx_not_saved ==
  <<push("ebp"), mov("esp", "ebp"),
    ldbp(2, "edx"), ldbp(3, "ecx"), ldbp(4, "ebx")>>
  \o SYSCALL(NR_WRITE) \o <<pop("ebp"), plain("ret")>>
write ==
  <<push("ebp"), mov("esp", "ebp"), push("ebx"),
    ldbp(2, "edx"), ldbp(3, "ecx"), ldbp(4, "ebx")>>
  \o SYSCALL(NR_WRITE) \o <<pop("ebx"), pop("ebp"), plain("ret")>>

gettime ==
  <<push("ebp"), mov("esp", "ebp")>>
  \o SYSCALL(NR_GETTIME) \o <<pop("ebp"), plain("ret")>>

(* A program's own wrapper, built with SYSCALL for a number that is not    *)
(* in the table.                                                           *)
no_such_call ==
  <<push("ebp"), mov("esp", "ebp")>>
  \o SYSCALL(NR_NONE) \o <<pop("ebp"), plain("ret")>>

(* Memory: each routine from an address of its own; the rest is the        *)
(* program that calls the wrappers.                                        *)
ALIGN == 100
write_at == 100
gettime_at == 200
no_such_call_at == 300
syscall_handler_at == 400
clock_handler_at == 500
keyboard_handler_at == 600
page_fault_handler2_at == 700
APP == 0

Routine(address) ==
  LET start == address - (address % ALIGN)
  IN CASE start = write_at               -> write
       [] start = gettime_at             -> gettime
       [] start = no_such_call_at        -> no_such_call
       [] start = syscall_handler_at     -> syscall_handler
       [] start = clock_handler_at       -> clock_handler
       [] start = keyboard_handler_at    -> keyboard_handler
       [] start = page_fault_handler2_at -> page_fault_handler2
       [] OTHER                          -> <<plain("app")>>
---------------------------------------------------------------------------
VARIABLES
  regs, pc, flags,   \* registers, %eip, IF of EFLAGS (FLAGS_IF or 0)
  cs,                \* USER_CS or KERNEL_CS
  ustack, kstack,
  errno,
  halted,            \* page_fault_routine spins
  \* History:
  call,              \* state when the program called a wrapper, and result
  snap               \* state when the last interrupt or fault was taken

vars == <<regs, pc, flags, cs, ustack, kstack, errno, halted, call, snap>>

stack == IF cs = USER_CS THEN ustack ELSE kstack
SetStack(s) == IF cs = USER_CS THEN ustack' = s /\ UNCHANGED kstack
                               ELSE kstack' = s /\ UNCHANGED ustack
Word(k) == stack[Len(stack) - k]
Top(n) == [k \in 1 .. n |-> Word(k - 1)]
Truncate(s, n) == SubSeq(s, 1, n)
Now == [regs |-> regs, pc |-> pc, flags |-> flags, ustack |-> ustack]

AppRegs == [r \in Registers |->
  CASE r \in {"ds", "es"} -> USER_DS [] r \in {"fs", "gs"} -> 0
    [] r = "eax" -> 101 [] r = "ebx" -> 102 [] r = "ecx" -> 103
    [] r = "edx" -> 104 [] r = "esi" -> 105 [] r = "edi" -> 106
    [] r = "ebp" -> 107]

Init ==
  /\ regs = AppRegs /\ pc = APP /\ flags = FLAGS_IF /\ cs = USER_CS
  /\ ustack = <<>> /\ kstack = <<>>
  /\ errno = 0 /\ halted = FALSE
  /\ call = [at |-> Now, nr |-> -1, result |-> 0, errno |-> 0]
  /\ snap = [at |-> Now, irq |-> FALSE]

(* The program calls write(fd, buffer, size), gettime() or no_such_call(). *)
CallWrapper(nr) ==
  /\ pc = APP /\ ~halted
  /\ call' = [at |-> Now, nr |-> nr, result |-> 0, errno |-> errno]
  /\ ustack' = ustack \o (IF nr = NR_WRITE THEN <<Args[3], Args[2], Args[1]>> ELSE <<>>)
                      \o <<APP>>
  /\ pc' = CASE nr = NR_WRITE   -> write_at
             [] nr = NR_GETTIME -> gettime_at
             [] nr = NR_NONE    -> no_such_call_at
  /\ UNCHANGED <<regs, flags, cs, kstack, errno, halted, snap>>
---------------------------------------------------------------------------
(* One instruction.  op is its mnemonic, i its operands. *)
Instr == Routine(pc)[(pc % ALIGN) + 1]
op == Instr[1]
SetReg(r, v) == regs' = [regs EXCEPT ![r] = v]
Cpu == <<flags, cs>>
History == <<call, snap>>

Data ==
  /\ op \in {"push", "pop", "pushi", "pushrel", "pushbp", "pushsp", "pushfl",
             "mov", "movi", "ldbp", "ldsp", "stsp", "drop", "outb"}
  /\ CASE op = "push"    -> SetStack(Append(stack, regs[Instr[2]]))
       [] op = "pop"     -> SetStack(Truncate(stack, Len(stack) - 1))
       [] op = "pushi"   -> SetStack(Append(stack, Instr[2]))
       [] op = "pushrel" -> SetStack(Append(stack, pc + Instr[2]))
       [] op = "pushbp"  -> SetStack(Append(stack, ustack[regs["ebp"] - Instr[2]]))
       [] op = "pushsp"  -> SetStack(Append(stack, Word(Instr[2])))
       [] op = "pushfl"  -> SetStack(Append(stack, flags))
       [] op = "stsp"    -> SetStack([stack EXCEPT ![Len(stack) - Instr[2]] =
                                        regs[Instr[3]]])
       [] op = "drop"    -> SetStack(Truncate(stack, Len(stack) - Instr[2]))
       [] OTHER          -> UNCHANGED <<ustack, kstack>>
  /\ CASE op = "pop"     -> SetReg(Instr[2], Word(0))
       [] op = "mov"     -> SetReg(Instr[3], IF Instr[2] = "esp" THEN Len(stack)
                                                           ELSE regs[Instr[2]])
       [] op = "movi"    -> SetReg(Instr[3], Instr[2])
       [] op = "ldbp"    -> SetReg(Instr[3], stack[regs["ebp"] - Instr[2]])
       [] op = "ldsp"    -> SetReg(Instr[3], Word(Instr[2]))
       [] OTHER          -> UNCHANGED regs
  /\ pc' = pc + 1
  /\ UNCHANGED <<Cpu, errno, halted, History>>

Taken == \/ op = "jl" /\ regs["eax"] < 0
         \/ op = "jge" /\ regs["eax"] >= 0
         \/ op = "jg" /\ regs["eax"] > Instr[2]
         \/ op = "jmp"
Jump ==
  /\ op \in {"jl", "jge", "jg", "jmp"}
  /\ pc' = pc + (IF ~Taken THEN 1 ELSE IF op = "jg" THEN Instr[3] ELSE Instr[2])
  /\ UNCHANGED <<regs, Cpu, ustack, kstack, errno, halted, History>>

Clobber(r) == [r EXCEPT !["eax"] = Junk, !["ecx"] = Junk, !["edx"] = Junk]

(* call f: the C routines without result.  set_errno negates its argument. *)
CallC ==
  /\ op = "callc"
  /\ halted' = (Instr[2] = "page_fault_routine")
  /\ errno' = IF Instr[2] = "set_errno" THEN -Word(0) ELSE errno
  /\ regs' = Clobber(regs)
  /\ pc' = pc + 1
  /\ UNCHANGED <<Cpu, ustack, kstack, History>>

(* call *sys_call_table(, %eax, 4): the saved edx, ecx and ebx are         *)
(* sys_write's arguments, and its to overwrite; sys_gettime has none.      *)
CallTable ==
  /\ op = "calltable"
  /\ \E result \in Results, overwrites \in BOOLEAN :
       /\ overwrites => regs["eax"] = NR_WRITE
       /\ regs' = [Clobber(regs) EXCEPT !["eax"] = result]
       /\ kstack' = IF overwrites
                      THEN Truncate(kstack, Len(kstack) - 3) \o <<Junk, Junk, Junk>>
                      ELSE kstack
       /\ call' = [call EXCEPT !.result = result]
  /\ pc' = pc + 1
  /\ UNCHANGED <<Cpu, ustack, errno, halted, snap>>

(* sysenter: %esp from MSR 0x175, %eip from MSR 0x176, IF cleared. *)
Sysenter ==
  /\ op = "sysenter"
  /\ pc' = syscall_handler_at /\ cs' = KERNEL_CS /\ flags' = 0
  /\ kstack' = <<>>
  /\ UNCHANGED <<regs, ustack, errno, halted, History>>

(* sti; sysexit: %eip from %edx, %esp from %ecx; no interrupt in between. *)
Sysexit ==
  /\ op = "sti_sysexit"
  /\ pc' = regs["edx"] /\ cs' = USER_CS /\ flags' = FLAGS_IF
  /\ ustack' = Truncate(ustack, regs["ecx"])
  /\ UNCHANGED <<regs, kstack, errno, halted, History>>

(* The processor enters a handler through its gate: from user mode on the  *)
(* stack of the TSS, from the kernel on the current one.                   *)
Enter(handler, eip, code, irq) ==
  /\ kstack' = (IF cs = USER_CS THEN <<USER_DS, Len(ustack)>> ELSE kstack)
                 \o <<flags, cs, eip>> \o code
  /\ pc' = handler /\ cs' = KERNEL_CS /\ flags' = 0
  /\ snap' = [at |-> [Now EXCEPT !.pc = eip], irq |-> irq]
  /\ UNCHANGED <<regs, ustack, errno, halted, call>>

Interrupt ==
  /\ ~halted /\ flags = FLAGS_IF
  /\ \E handler \in {clock_handler_at, keyboard_handler_at} :
       Enter(handler, pc, <<>>, TRUE)

(* A page fault of the program, or of a copy inside sys_write; the         *)
(* processor pushes an error code too.                                     *)
ErrorCode == 4
PageFault ==
  /\ ~halted
  /\ \/ pc = APP /\ Enter(page_fault_handler2_at, pc, <<ErrorCode>>, FALSE)
     \/ /\ op = "calltable" /\ regs["eax"] = NR_WRITE
        /\ Enter(page_fault_handler2_at, CODE_OF_C, <<ErrorCode>>, FALSE)

(* libzeos: jmp to itself, with IF clear. *)
page_fault_routine == halted /\ UNCHANGED vars

iret ==
  /\ op = "iret"
  /\ pc' = Word(0) /\ cs' = Word(1) /\ flags' = Word(2)
  /\ ustack' = Truncate(ustack, Word(3))
  /\ kstack' = Truncate(kstack, Len(kstack) - 5)
  /\ snap' = [snap EXCEPT !.irq = FALSE, !.at = call.at]
  /\ UNCHANGED <<regs, errno, halted, call>>

(* ret, after which the caller takes its arguments off the stack. *)
CallArgs == IF call.nr = NR_WRITE THEN 3 ELSE 0
ret ==
  /\ op = "ret"
  /\ pc' = Word(0)
  /\ ustack' = Truncate(ustack, Len(ustack) - 1 - CallArgs)
  /\ UNCHANGED <<regs, Cpu, kstack, errno, halted, History>>

Execute ==
  /\ ~halted
  /\ Data \/ Jump \/ CallC \/ CallTable \/ Sysenter \/ Sysexit \/ iret \/ ret

Next ==
  \/ Execute
  \/ \E nr \in {NR_WRITE, NR_GETTIME, NR_NONE} : CallWrapper(nr)
  \/ Interrupt
  \/ PageFault
  \/ page_fault_routine

Spec == Init /\ [][Next]_vars
---------------------------------------------------------------------------
(* An interrupt at any instruction of the program or of a wrapper leaves   *)
(* no trace: every register, the stack, EFLAGS and %eip come back as they  *)
(* were, and the kernel stack is empty again.                              *)
InterruptTransparent ==
  [][op = "iret" => /\ regs' = snap.at.regs /\ ustack' = snap.at.ustack
                    /\ pc' = snap.at.pc /\ flags' = snap.at.flags
                    /\ cs' = USER_CS /\ kstack' = <<>>]_vars

(* A wrapper returns to its caller with the stack and the registers the    *)
(* ABI reserves as they were at the call, whatever interrupts came and     *)
(* whatever the service routine did to its arguments, and with the         *)
(* routine's result, or -1 and errno.                                      *)
Result == IF call.nr = NR_NONE THEN -ENOSYS ELSE call.result
WrapperContract ==
  [][pc # APP /\ cs = USER_CS /\ pc' = APP =>
       /\ ustack' = call.at.ustack /\ flags' = FLAGS_IF
       /\ \A r \in CalleeSaved : regs'[r] = call.at.regs[r]
       /\ regs'["eax"] = IF Result < 0 THEN -1 ELSE Result
       /\ errno' = IF Result < 0 THEN -Result ELSE call.errno]_vars

(* A C routine finds its arguments on the stack where it looks for them:   *)
(* sys_write what the program gave to write, through three registers, and  *)
(* print_page_fault the %eip that faulted, in the program or inside        *)
(* sys_write, although the two frames differ.                              *)
ArgumentsArrive ==
  /\ op = "calltable" /\ call.nr = NR_WRITE =>
       regs["eax"] = NR_WRITE /\ Top(3) = Args
  /\ op = "callc" /\ Instr[2] = "print_page_fault" => Word(0) = snap.at.pc

(* The kernel runs with its own data segments, so that C code reaches its  *)
(* data whatever the program had in ds and es.                             *)
KernelSegments ==
  op \in {"callc", "calltable"} /\ cs = KERNEL_CS =>
    regs["ds"] = KERNEL_DS /\ regs["es"] = KERNEL_DS
===========================================================================
