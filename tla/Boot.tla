-------------------------------- MODULE Boot ------------------------------
(***************************************************************************)
(* From the loaded image to the first user instruction: the end of         *)
(* bootsect.S, which goes to protected mode, and main of system.c with     *)
(* setGdt, setIdt, setTSS, writeMsr, init_mm, copy_data, enable_int and    *)
(* return_gate.                                                            *)
(*                                                                         *)
(* The timer and the keyboard raise their IRQs from the start.  The        *)
(* processor takes one as soon as IF and the 8259's mask allow it, through *)
(* whatever the tables say at that moment; without a usable gate, stack or *)
(* mapping it is lost (pc = Dead).  Interrupts are on before return_gate,  *)
(* so handlers also run in the middle of it, on main's own stack.          *)
(***************************************************************************)
EXTENDS Descriptors, Sequences

CONSTANTS MAX_PULSES,      \* bound on the pulses of the timer
          address          \* where the linker has put the handlers and tss

Handlers == {"page_fault_handler2", "keyboard_handler", "clock_handler",
             "system_call_handler"}
ASSUME BootAssumption ==
  /\ MAX_PULSES \in Nat
  /\ address \in [Handlers \cup {"tss"} -> 1 .. DWORD - 1]
  /\ \A f, g \in Handlers : address[f] = address[g] => f = g

CLOCK == 0
KEYBOARD == 1
PAGE_FAULT == 14

KERNEL_DS == 24
USER_CS == 35
USER_DS == 43
INITIAL_ESP == "end_of_task_1"
USER_ESP == "end_of_data_pages"
usr_main == "first_code_page"

VARIABLES
  pc,        \* index of the next step in Text
  cpu,       \* IF, CPL, mode, data segment and system registers; tr is the
             \* base of the TSS that ltr loaded
  pic,       \* 8259: vector of IRQ 0, masked IRQs, requests
  mem,       \* tables and pages in memory
  stack,     \* the stack of main, the top last
  handler,   \* the handler running, or "none"
  user,      \* what lret loaded: [ss, esp, cs, eip]
  zeos_ticks,
  pulses,    \* pulses of the timer
  clocks     \* History: clock interrupts taken in protected mode

vars == <<pc, cpu, pic, mem, stack, handler, user, zeos_ticks, pulses, clocks>>

NoUser == [ss |-> 0, esp |-> "", cs |-> 0, eip |-> ""]
NoMsr == [cs |-> 0, esp |-> "", eip |-> ""]
Vectors == {PAGE_FAULT, 32 + CLOCK, 32 + KEYBOARD}

(* The BIOS left interrupts on, the 8259 at vector 8 and its own table. *)
Init ==
  /\ pc = 1
  /\ cpu = [iflag |-> 1, cpl |-> 0, protected |-> FALSE, ds |-> 0, idtr |-> "BIOS",
            gdtr |-> "none", tr |-> 0, msr |-> NoMsr, paging |-> FALSE]
  /\ pic = [base |-> 8, mask |-> {}, irr |-> {}]
  /\ mem = [a20 |-> FALSE, gdt_tss |-> NoDescriptor, esp0 |-> "", ss0 |-> 0,
            idt |-> [v \in Vectors |-> NoGate],
            kernel_pages |-> FALSE, user_pages |-> FALSE, user_code |-> FALSE]
  /\ stack = <<>> /\ handler = "none" /\ user = NoUser
  /\ zeos_ticks = 0 /\ pulses = 0 /\ clocks = 0
---------------------------------------------------------------------------
(* The code, in order. *)
enter_protected_mode == <<"cli", "A20_on", "init_8259", "lidt_lgdt", "PE">>

enable_int == <<"out_0x21", "sti">>

return_gate == <<"mov_ds", "store_p_rdtr", "push_ss", "push_esp", "push_cs",
                 "push_eip", "lret">>

tables == <<"setGdt", "setIdt", "setTSS">>

start_interrupts_late_reset == <<"printk">> \o enable_int \o <<"reset_clock_ticks">>
start_interrupts == <<"reset_clock_ticks", "printk">> \o enable_int

(* init_sched, init_idle and init_task1 have empty bodies. *)
main ==
  <<"set_eflags", "set_seg_regs", "printk">> \o tables \o
  <<"msr_0x174", "msr_0x175", "msr_0x176", "init_mm",
    "monoprocess_init_addr_space", "copy_data">>
  \o start_interrupts \o return_gate

Text == enter_protected_mode \o main
User == Len(Text) + 1
Dead == 0
---------------------------------------------------------------------------
(* Interrupts. *)
TimerPulse ==
  /\ pulses < MAX_PULSES
  /\ pulses' = pulses + 1
  /\ pic' = [pic EXCEPT !.irr = @ \cup {CLOCK}]
  /\ UNCHANGED <<pc, cpu, mem, stack, handler, user, zeos_ticks, clocks>>

KeyEvent ==
  /\ KEYBOARD \notin pic.irr
  /\ pic' = [pic EXCEPT !.irr = @ \cup {KEYBOARD}]
  /\ UNCHANGED <<pc, cpu, mem, stack, handler, user, zeos_ticks, pulses, clocks>>

Pending == {irq \in pic.irr \ pic.mask : cpu.iflag = 1 /\ pc # Dead}

(* A gate leads to its handler, in user mode also to the stack in the TSS. *)
Target(vector) == {f \in Handlers : address[f] = Offset(mem.idt[vector])}
CanEnter(vector) ==
  /\ cpu.idtr = "idt" /\ vector \in Vectors /\ cpu.gdtr = "gdt"
  /\ Present(mem.idt[vector]) /\ mem.idt[vector].segmentSelector = KERNEL_CS
  /\ Target(vector) # {}
  /\ cpu.cpl = 3 => /\ cpu.tr = address["tss"]
                    /\ mem.esp0 = INITIAL_ESP /\ mem.ss0 = KERNEL_DS

Entered(vector) ==
  /\ IF CanEnter(vector)
       THEN handler' \in Target(vector) /\ UNCHANGED pc
       ELSE handler' = "none" /\ pc' = Dead
  /\ cpu' = [cpu EXCEPT !.ds = KERNEL_DS,
                        !.iflag = IF ClearsIF(mem.idt[vector]) THEN 0 ELSE @]

(* In the kernel the processor's frame and SAVE_ALL go on main's stack; in *)
(* user mode they go on the other one.                                     *)
Frame == <<"eflags", "cs", "eip", cpu.ds>>
Interrupt(irq) ==
  /\ irq \in Pending /\ \A j \in Pending : irq <= j
  /\ pic' = [pic EXCEPT !.irr = @ \ {irq}]
  /\ \/ /\ cpu.idtr = "BIOS"
        /\ UNCHANGED <<pc, cpu, stack, handler, clocks>>
     \/ /\ cpu.idtr # "BIOS"
        /\ Entered(pic.base + irq)
        /\ stack' = IF cpu.cpl = 3 THEN stack ELSE stack \o Frame
        /\ clocks' = IF irq = CLOCK THEN clocks + 1 ELSE clocks
  /\ UNCHANGED <<mem, user, zeos_ticks, pulses>>

HandlerReturns_no_restore ==
  /\ handler \in {"clock_handler", "keyboard_handler"}
  /\ zeos_ticks' = IF handler = "clock_handler" THEN zeos_ticks + 1 ELSE zeos_ticks
  /\ handler' = "none"
  /\ cpu' = [cpu EXCEPT !.iflag = 1, !.ds = IF cpu.cpl = 3 THEN USER_DS ELSE KERNEL_DS]
  /\ stack' = IF cpu.cpl = 3 THEN stack ELSE SubSeq(stack, 1, Len(stack) - 3)
  /\ UNCHANGED <<pc, pic, mem, user, pulses, clocks>>

(* clock_handler or keyboard_handler, RESTORE_ALL and iret. *)
HandlerReturns ==
  /\ handler \in {"clock_handler", "keyboard_handler"}
  /\ zeos_ticks' = IF handler = "clock_handler" THEN zeos_ticks + 1 ELSE zeos_ticks
  /\ handler' = "none"
  /\ cpu' = [cpu EXCEPT !.iflag = 1,
                        !.ds = IF cpu.cpl = 3 THEN USER_DS ELSE stack[Len(stack)]]
  /\ stack' = IF cpu.cpl = 3 THEN stack ELSE SubSeq(stack, 1, Len(stack) - 4)
  /\ UNCHANGED <<pc, pic, mem, user, pulses, clocks>>
---------------------------------------------------------------------------
(* One step of the code, taken when no interrupt is.  Steps change the     *)
(* processor, the memory, the 8259 or the stack; effects are grouped by    *)
(* what they change.                                                       *)
Run(step) ==
  /\ handler = "none" /\ Pending = {}
  /\ pc \in 1 .. Len(Text) /\ Text[pc] = step
Advance == pc' = pc + 1
Rest == <<handler, zeos_ticks, pulses, clocks>>

Processor ==
  \E step \in {"cli", "lidt_lgdt", "PE", "set_eflags", "set_seg_regs",
               "msr_0x174", "msr_0x175", "msr_0x176", "sti", "mov_ds"} :
    /\ Run(step) /\ Advance
    /\ cpu' = CASE step \in {"cli", "set_eflags"} -> [cpu EXCEPT !.iflag = 0]
                [] step = "lidt_lgdt" -> [cpu EXCEPT !.idtr = "empty", !.gdtr = "gdt"]
                [] step = "PE" -> [cpu EXCEPT !.protected = TRUE]
                [] step = "set_seg_regs" -> [cpu EXCEPT !.ds = KERNEL_DS]
                [] step = "msr_0x174" -> [cpu EXCEPT !.msr.cs = KERNEL_CS]
                [] step = "msr_0x175" -> [cpu EXCEPT !.msr.esp = INITIAL_ESP]
                [] step = "msr_0x176" -> [cpu EXCEPT !.msr.eip = "syscall_handler"]
                [] step = "sti" -> [cpu EXCEPT !.iflag = 1]
                [] step = "mov_ds" -> [cpu EXCEPT !.ds = USER_DS]
    /\ UNCHANGED <<pic, mem, stack, user, Rest>>

(* The 8259 raises IRQ 0 at vector 0x20; bits of port 0x21 mask IRQs. *)
Controller ==
  \E step \in {"init_8259", "out_0x21"} :
    /\ Run(step) /\ Advance
    /\ pic' = IF step = "init_8259"
                THEN [base |-> 32, mask |-> {CLOCK, KEYBOARD}, irr |-> pic.irr]
                ELSE [pic EXCEPT !.mask = {}]
    /\ UNCHANGED <<cpu, mem, stack, user, Rest>>

gates ==
  [v \in Vectors |-> CASE v = PAGE_FAULT -> "page_fault_handler2"
                       [] v = 32 -> "clock_handler"
                       [] v = 33 -> "keyboard_handler"]

setIdt ==
  /\ Run("setIdt") /\ Advance
  /\ mem' = [mem EXCEPT !.idt = [v \in Vectors |-> setInterruptHandler(address[gates[v]], 0)]]
  /\ cpu' = [cpu EXCEPT !.idtr = "idt"]
  /\ UNCHANGED <<pic, stack, user, Rest>>

setGdt ==
  /\ Run("setGdt") /\ Advance
  /\ mem' = [mem EXCEPT !.gdt_tss = Descriptor(address["tss"])]
  /\ cpu' = [cpu EXCEPT !.gdtr = "gdt"]
  /\ UNCHANGED <<pic, stack, user, Rest>>

(* Of the TSS only esp0 and ss0 are ever read: there is no task switch.    *)
(* ltr keeps the base it finds in the GDT; a later change goes unnoticed.  *)
setTSS ==
  /\ Run("setTSS") /\ Advance
  /\ mem' = [mem EXCEPT !.esp0 = INITIAL_ESP, !.ss0 = KERNEL_DS]
  /\ cpu' = [cpu EXCEPT !.tr = Base(mem.gdt_tss)]
  /\ UNCHANGED <<pic, stack, user, Rest>>

(* The page tables of module Mm; the user's pages lie above 1 MB, where no *)
(* memory answers unless A20 is on.                                        *)
Memory ==
  \E step \in {"A20_on", "init_mm", "monoprocess_init_addr_space"} :
    /\ Run(step) /\ Advance
    /\ mem' = CASE step = "A20_on" -> [mem EXCEPT !.a20 = TRUE]
                [] step = "init_mm" -> [mem EXCEPT !.kernel_pages = TRUE,
                                                   !.user_pages = FALSE]
                [] OTHER -> [mem EXCEPT !.user_pages = TRUE]
    /\ cpu' = IF step = "init_mm" THEN [cpu EXCEPT !.paging = TRUE] ELSE cpu
    /\ UNCHANGED <<pic, stack, user, Rest>>

(* Stores to the user's pages, through the page table once paging is on. *)
UserReached == mem.a20 /\ (cpu.paging => mem.user_pages)
UserStore ==
  \E step \in {"copy_data", "store_p_rdtr"} :
    /\ Run(step)
    /\ IF UserReached THEN Advance ELSE pc' = Dead
    /\ mem' = IF step = "copy_data" /\ UserReached
                THEN [mem EXCEPT !.user_code = cpu.paging] ELSE mem
    /\ UNCHANGED <<cpu, pic, stack, user, Rest>>

reset_clock_ticks ==
  /\ Run("reset_clock_ticks") /\ Advance
  /\ zeos_ticks' = 0
  /\ UNCHANGED <<cpu, pic, mem, stack, handler, user, pulses, clocks>>

printk ==
  /\ Run("printk") /\ Advance
  /\ UNCHANGED <<cpu, pic, mem, stack, user, Rest>>

(* return_gate builds the frame of a far call from user mode ... *)
Push ==
  \E step \in {"push_ss", "push_esp", "push_cs", "push_eip"} :
    /\ Run(step) /\ Advance
    /\ stack' = Append(stack, CASE step = "push_ss"  -> USER_DS
                                [] step = "push_esp" -> USER_ESP
                                [] step = "push_cs"  -> USER_CS
                                [] step = "push_eip" -> usr_main)
    /\ UNCHANGED <<cpu, pic, mem, user, Rest>>

(* ... and returns through it. *)
lret ==
  LET word(k) == stack[Len(stack) - k]
  IN /\ Run("lret") /\ Advance
     /\ user' = [ss |-> word(3), esp |-> word(2), cs |-> word(1), eip |-> word(0)]
     /\ stack' = SubSeq(stack, 1, Len(stack) - 4)
     /\ cpu' = [cpu EXCEPT !.cpl = 3]
     /\ UNCHANGED <<pic, mem, Rest>>

(* The process makes a system call, which comes back, or faults for good. *)
InUserMode == pc = User /\ handler = "none" /\ Pending = {}
CanSysenter == /\ cpu.msr.cs = KERNEL_CS /\ cpu.msr.esp = INITIAL_ESP
               /\ cpu.msr.eip = "syscall_handler"
UserEvent ==
  /\ InUserMode
  /\ \/ pc' = (IF CanSysenter THEN pc ELSE Dead) /\ UNCHANGED <<handler, cpu>>
     \/ Entered(PAGE_FAULT)
  /\ UNCHANGED <<pic, mem, stack, user, zeos_ticks, pulses, clocks>>

(* page_fault_routine spins. *)
Spin == handler = "page_fault_handler2" /\ UNCHANGED vars

Next ==
  \/ TimerPulse \/ KeyEvent \/ HandlerReturns \/ Spin
  \/ \E irq \in {CLOCK, KEYBOARD} : Interrupt(irq)
  \/ Processor \/ Controller \/ setIdt \/ setGdt \/ setTSS \/ Memory
  \/ UserStore \/ reset_clock_ticks \/ printk \/ Push \/ lret \/ UserEvent

Spec == Init /\ [][Next]_vars
---------------------------------------------------------------------------
(* However early the devices interrupt, none finds the kernel without a    *)
(* gate or a stack for it, no store of main is to a page that is not       *)
(* there, and a system call or a fault of the first user instruction finds *)
(* its entry.                                                              *)
NeverLost == pc # Dead

(* User mode begins at usr_main on the user stack, with the user's         *)
(* segments, paging on, interrupts on and the image in place, although     *)
(* handlers push on the stack return_gate is building its frame on.        *)
UserStartsRight ==
  pc = User =>
    /\ user = [ss |-> USER_DS, esp |-> USER_ESP, cs |-> USER_CS, eip |-> usr_main]
    /\ handler = "none" => cpu.ds = USER_DS /\ cpu.iflag = 1
    /\ cpu.paging /\ mem.user_pages /\ mem.user_code
    /\ stack = <<>>

(* zeos_ticks counts every clock interrupt since they were enabled:        *)
(* reset_clock_ticks discards none, and IRQ 0 runs clock_handler.          *)
TicksCounted ==
  clocks = zeos_ticks + (IF handler = "clock_handler" THEN 1 ELSE 0)
===========================================================================
