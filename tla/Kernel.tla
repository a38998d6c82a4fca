------------------------------ MODULE Kernel ------------------------------
(***************************************************************************)
(* The running ZeOS: one processor that alternates between the user        *)
(* process, the system calls it makes through sysenter (entry.S,           *)
(* libc_sys.S, sys.c), and the handlers of the clock, the keyboard and the *)
(* page fault (interrupt.c, clock.c, keyboard.c).                          *)
(*                                                                         *)
(* at names the code the processor is in, stack the contexts suspended     *)
(* below it on the kernel stack.  Nothing here forbids an interrupt inside *)
(* the kernel: one is taken whenever IF is 1, and the handlers run         *)
(* undisturbed only because of how they are entered.  The timer, the       *)
(* keyboard, the 8259 controller and the processor are modelled from what  *)
(* the code asks of them.  A byte of user memory is named by its address.  *)
(***************************************************************************)
EXTENDS Integers, Sequences

CONSTANTS TICK_RANGE,       \* values of the int zeos_ticks (2^32)
          CHUNK,            \* sys_write's char buff[128]
          PAGE_SIZE, USER_FIRST_PAGE, NUM_PAG_DATA, NUM_PAG_CODE,
          ADDR_RANGE,       \* addresses (2^32)
          MAX_SYSCALL,      \* (. - sys_call_table)/4
          NR_WRITE, NR_GETTIME,
          BREAK,            \* scan codes of releases start here (0x80)
          char_map,         \* keyboard.c: scan code -> character
          NUL,              \* '\0'
          KeyChars,         \* what a byte read beyond char_map may hold
          Sysnos, Fds, Buffers, Sizes, Scancodes,  \* inputs
          KBC_MAX           \* bytes the keyboard controller keeps

ASSUME KernelAssumption ==
  /\ TICK_RANGE \in Nat \ {0} /\ CHUNK \in Nat \ {0}
  /\ PAGE_SIZE \in Nat \ {0} /\ ADDR_RANGE \in Nat
  /\ USER_FIRST_PAGE \in Nat \ {0}
  /\ NUM_PAG_DATA \in Nat /\ NUM_PAG_CODE \in Nat
  /\ (USER_FIRST_PAGE + NUM_PAG_DATA + NUM_PAG_CODE + 1) * PAGE_SIZE <= ADDR_RANGE
  /\ MAX_SYSCALL \in Nat /\ BREAK \in Nat \ {0}
  /\ NR_WRITE \in 0 .. MAX_SYSCALL - 1 /\ NR_GETTIME \in 0 .. MAX_SYSCALL - 1
  /\ NR_WRITE # NR_GETTIME
  /\ Sysnos \subseteq Int /\ Fds \subseteq Int /\ Sizes \subseteq Int
  /\ Buffers \subseteq 0 .. ADDR_RANGE - 1
  /\ Scancodes \subseteq 0 .. 2 * BREAK - 1
  /\ KBC_MAX \in Nat \ {0}

VARIABLES
  at,          \* the code being executed
  iflag,         \* interrupt flag of EFLAGS
  stack,       \* suspended contexts: <<[at, iflag]>>, the innermost first
  irr, isr,    \* 8259: IRQs requested, IRQs in service
  kbc,         \* scan codes in the keyboard controller, the oldest first
  zeos_ticks,
  eax, req,    \* system call number or result, and its arguments
  w,           \* locals of sys_write
  errno,
  c,           \* local of keyboard_routine: what printc_xy will show
  \* History, read by no action's guard:
  printed,     \* addresses of the bytes the current call has printed
  sysret,      \* value the current call's service routine returned
  errno0,      \* errno when the current call started
  pulses, lost \* timer pulses so far, and those that found IRQ 0 latched

cpu     == <<at, iflag, stack>>
pic     == <<irr, isr>>
syscall == <<eax, req, w, errno>>
history == <<printed, sysret, errno0>>
timer   == <<pulses, lost>>
vars == <<cpu, pic, kbc, zeos_ticks, syscall, c, history, timer>>

CLOCK == 0
KEYBOARD == 1
EBADF == 9
EACCES == 13
EFAULT == 14
EINVAL == 22
ENOSYS == 38
LECTURA == 0
ESCRIPTURA == 1
NULL == 0

UserCode  == {"user", "check_error", "returned"}
ClockCode == {"clock_handler", "clock_routine", "clock_iret"}
KeyCode   == {"keyboard_routine", "printc_xy", "keyboard_eoi", "keyboard_iret"}
CallCode  == {"syscall_handler", "sys_write", "copy_from_user",
              "sys_write_console", "sys_gettime", "sys_ni_syscall",
              "sysenter_fin"}
FaultCode == {"print_page_fault", "page_fault_routine"}
Code == UserCode \cup ClockCode \cup KeyCode \cup CallCode \cup FaultCode \cup
          {"wild"}

NoCall == [nr |-> 0, fd |-> 0, buffer |-> 0, size |-> 0]
NoWrite == [left |-> 0, current |-> 0, i |-> 0, written |-> 0, buff |-> <<>>]

Init ==
  /\ at = "user" /\ iflag = 1 /\ stack = <<>>
  /\ irr = {} /\ isr = {} /\ kbc = <<>>
  /\ zeos_ticks = 0
  /\ eax = 0 /\ req = NoCall /\ w = NoWrite /\ errno = 0
  /\ c = NUL
  /\ printed = <<>> /\ sysret = 0 /\ errno0 = 0
  /\ pulses = 0 /\ lost = 0
---------------------------------------------------------------------------
(* Devices and the interrupt controller. *)

(* The timer raises IRQ 0; a pulse that finds it latched leaves no trace. *)
TimerPulse ==
  /\ pulses' = (pulses + 1) % TICK_RANGE
  /\ lost' = IF CLOCK \in irr THEN (lost + 1) % TICK_RANGE ELSE lost
  /\ irr' = irr \cup {CLOCK}
  /\ UNCHANGED <<cpu, isr, kbc, zeos_ticks, syscall, c, history>>

(* The controller raises IRQ 1 for a byte that reaches its output. *)
KeyEvent(event) ==
  /\ Len(kbc) < KBC_MAX
  /\ kbc' = Append(kbc, event)
  /\ irr' = IF kbc = <<>> THEN irr \cup {KEYBOARD} ELSE irr
  /\ UNCHANGED <<cpu, isr, zeos_ticks, syscall, c, history, timer>>

(* Fixed priorities: IRQ 0 before IRQ 1, and neither below one in service. *)
Deliverable(irq) ==
  /\ iflag = 1 /\ irq \in irr
  /\ \A j \in irr : irq <= j
  /\ \A j \in isr : irq < j
InterruptPending == \E irq \in {CLOCK, KEYBOARD} : Deliverable(irq)

(* setInterruptHandler writes 0x8E00: an interrupt gate, which clears IF.  *)
(* A trap gate, 0x8F00, would leave it.                                    *)
trap_gate == iflag
gate_IF == 0

Enter(handler) ==
  /\ stack' = <<[at |-> at, iflag |-> iflag]>> \o stack
  /\ iflag' = gate_IF
  /\ at' = handler

Deliver(irq) ==
  /\ Deliverable(irq)
  /\ irr' = irr \ {irq} /\ isr' = isr \cup {irq}
  /\ Enter(IF irq = CLOCK THEN "clock_handler" ELSE "keyboard_routine")
  /\ UNCHANGED <<kbc, zeos_ticks, syscall, c, history, timer>>

(* Non-specific end of interrupt: the highest priority in service ends. *)
EOI == isr' = {j \in isr : \E k \in isr : k < j}

iret ==
  /\ at' = Head(stack).at /\ iflag' = Head(stack).iflag /\ stack' = Tail(stack)

Goto(label) == at' = label /\ UNCHANGED <<iflag, stack>>
---------------------------------------------------------------------------
(* clock_handler: SAVE_ALL, EOI, clock_routine, RESTORE_ALL, iret. *)
clock_handler ==
  /\ at = "clock_handler"
  /\ EOI
  /\ Goto("clock_routine")
  /\ UNCHANGED <<irr, kbc, zeos_ticks, syscall, c, history, timer>>

clock_routine_wide ==
  /\ at = "clock_routine" /\ Goto("clock_iret")
  /\ zeos_ticks' = zeos_ticks + 1
  /\ UNCHANGED <<pic, kbc, syscall, c, history, timer>>

clock_routine_show_only ==
  /\ at = "clock_routine" /\ Goto("clock_iret")
  /\ UNCHANGED <<pic, kbc, zeos_ticks, syscall, c, history, timer>>

(* zeos_show_clock, which follows, only writes screen cells of its own. *)
clock_routine ==
  /\ at = "clock_routine"
  /\ zeos_ticks' = (zeos_ticks + 1) % TICK_RANGE
  /\ Goto("clock_iret")
  /\ UNCHANGED <<pic, kbc, syscall, c, history, timer>>

clock_iret ==
  /\ at = "clock_iret" /\ iret
  /\ UNCHANGED <<pic, kbc, zeos_ticks, syscall, c, history, timer>>

(* get_clock_ticks as a C int of TICK_RANGE values. *)
get_clock_ticks ==
  IF 2 * zeos_ticks < TICK_RANGE THEN zeos_ticks ELSE zeos_ticks - TICK_RANGE
---------------------------------------------------------------------------
(* keyboard_handler: SAVE_ALL, keyboard_routine, EOI, RESTORE_ALL, iret. *)

(* inb(0x60) takes a byte; if one is behind it, IRQ 1 is raised again. *)
inb ==
  /\ kbc' = Tail(kbc)
  /\ irr' = IF Tail(kbc) # <<>> THEN irr \cup {KEYBOARD} ELSE irr

(* A code past the end of char_map reads whatever byte lies there. *)
MappedChars(code) == IF code \in DOMAIN char_map THEN {char_map[code]}
                                                 ELSE KeyChars \cup {NUL}

keyboard_routine_no_read ==
  /\ at = "keyboard_routine" /\ Goto("keyboard_eoi")
  /\ UNCHANGED <<pic, kbc, zeos_ticks, syscall, c, history, timer>>

keyboard_routine ==
  /\ at = "keyboard_routine"
  /\ inb
  /\ LET event == Head(kbc)
         make == event \div BREAK = 0
         code == event % BREAK
     IN \/ /\ make
           /\ \E m \in MappedChars(code) : c' = IF m = NUL THEN "C" ELSE m
           /\ Goto("printc_xy")
        \/ /\ ~make
           /\ Goto("keyboard_eoi") /\ UNCHANGED c
  /\ UNCHANGED <<isr, zeos_ticks, syscall, history, timer>>

(* printc_xy(79, 24, c): module Console. *)
keyboard_printc_xy ==
  /\ at = "printc_xy"
  /\ c' = NUL
  /\ Goto("keyboard_eoi")
  /\ UNCHANGED <<pic, kbc, zeos_ticks, syscall, history, timer>>

keyboard_eoi_missing ==
  /\ at = "keyboard_eoi" /\ Goto("keyboard_iret")
  /\ UNCHANGED <<pic, kbc, zeos_ticks, syscall, c, history, timer>>

keyboard_eoi ==
  /\ at = "keyboard_eoi"
  /\ EOI
  /\ Goto("keyboard_iret")
  /\ UNCHANGED <<irr, kbc, zeos_ticks, syscall, c, history, timer>>

keyboard_iret ==
  /\ at = "keyboard_iret" /\ iret
  /\ UNCHANGED <<pic, kbc, zeos_ticks, syscall, c, history, timer>>
---------------------------------------------------------------------------
(* page_fault_handler2: print_page_fault, then libzeos' page_fault_routine *)
(* prints and spins; its EOI, RESTORE_ALL and iret are never reached.      *)
PageFault == Enter("print_page_fault")

print_page_fault ==
  /\ at = "print_page_fault"
  /\ Goto("page_fault_routine")
  /\ UNCHANGED <<pic, kbc, zeos_ticks, syscall, c, history, timer>>
---------------------------------------------------------------------------
(* The user process. *)
UserRuns(label) == at = label /\ ~InterruptPending

(* SYSCALL: sysenter loads the kernel context and clears IF. *)
sysenter_IF == 0
SYSCALL(nr, fd, buffer, size) ==
  /\ UserRuns("user")
  /\ eax' = nr
  /\ req' = [nr |-> nr, fd |-> fd, buffer |-> buffer, size |-> size]
  /\ at' = "syscall_handler" /\ iflag' = sysenter_IF
  /\ printed' = <<>> /\ errno0' = errno
  /\ UNCHANGED <<stack, pic, kbc, zeos_ticks, w, errno, c, sysret, timer>>

write(fd, buffer, size) == SYSCALL(NR_WRITE, fd, buffer, size)
gettime == SYSCALL(NR_GETTIME, 0, 0, 0)
other_call(nr) == SYSCALL(nr, 0, 0, 0)

set_errno_sign_kept ==
  /\ UserRuns("check_error")
  /\ errno' = IF eax < 0 THEN eax ELSE errno
  /\ eax' = IF eax < 0 THEN -1 ELSE eax
  /\ Goto("returned")
  /\ UNCHANGED <<pic, kbc, zeos_ticks, req, w, c, history, timer>>

(* CHECK_ERROR: a negative result goes to errno and becomes -1. *)
CHECK_ERROR ==
  /\ UserRuns("check_error")
  /\ errno' = IF eax < 0 THEN -eax ELSE errno
  /\ eax' = IF eax < 0 THEN -1 ELSE eax
  /\ Goto("returned")
  /\ UNCHANGED <<pic, kbc, zeos_ticks, req, w, c, history, timer>>

(* The caller takes the result; what the call left behind is dead. *)
UserResumes ==
  /\ UserRuns("returned")
  /\ eax' = 0 /\ req' = NoCall
  /\ printed' = <<>> /\ sysret' = 0 /\ errno0' = 0
  /\ Goto("user")
  /\ UNCHANGED <<pic, kbc, zeos_ticks, w, errno, c, timer>>

(* The process touches a page it has not, as user.c's p = 0 test does. *)
UserFault ==
  /\ UserRuns("user")
  /\ PageFault
  /\ UNCHANGED <<pic, kbc, zeos_ticks, syscall, c, history, timer>>
---------------------------------------------------------------------------
(* System calls. *)
sys_call_table(nr) == CASE nr = NR_WRITE   -> "sys_write"
                        [] nr = NR_GETTIME -> "sys_gettime"
                        [] OTHER           -> "sys_ni_syscall"

(* cmpl/jl and cmpl/jg; the word after the table is no service routine. *)
syscall_handler ==
  /\ at = "syscall_handler"
  /\ IF eax < 0 \/ eax > MAX_SYSCALL
       THEN eax' = -ENOSYS /\ sysret' = -ENOSYS /\ Goto("sysenter_fin")
       ELSE /\ Goto(IF eax < MAX_SYSCALL THEN sys_call_table(eax) ELSE "wild")
            /\ UNCHANGED <<eax, sysret>>
  /\ UNCHANGED <<pic, kbc, zeos_ticks, req, w, errno, c, printed, errno0, timer>>

(* A service routine ends: its result goes to the saved eax, 0x18(%esp). *)
Return(value) ==
  /\ eax' = value /\ sysret' = value
  /\ Goto("sysenter_fin")

sys_ni_syscall ==
  /\ at = "sys_ni_syscall"
  /\ Return(-ENOSYS)
  /\ UNCHANGED <<pic, kbc, zeos_ticks, req, w, errno, c, printed, errno0, timer>>

sys_gettime ==
  /\ at = "sys_gettime"
  /\ Return(get_clock_ticks)
  /\ UNCHANGED <<pic, kbc, zeos_ticks, req, w, errno, c, printed, errno0, timer>>

check_fd(fd, permissions) ==
  IF fd # 1 THEN -EBADF
  ELSE IF permissions # ESCRIPTURA THEN -EACCES ELSE 0

access_ok_end_refused(addr, size) ==
  LET addr_ini == addr \div PAGE_SIZE
      addr_fin == ((addr + size) % ADDR_RANGE) \div PAGE_SIZE
  IN /\ addr_fin >= addr_ini
     /\ addr_ini >= USER_FIRST_PAGE
     /\ addr_fin < USER_FIRST_PAGE + NUM_PAG_CODE + NUM_PAG_DATA

(* access_ok(LECTURA, addr, size): the default case of its switch. *)
access_ok(addr, size) ==
  LET addr_ini == addr \div PAGE_SIZE
      addr_fin == ((addr + size) % ADDR_RANGE) \div PAGE_SIZE
  IN /\ addr_fin >= addr_ini
     /\ addr_ini >= USER_FIRST_PAGE
     /\ addr_fin <= USER_FIRST_PAGE + NUM_PAG_CODE + NUM_PAG_DATA

write_checks ==
  IF check_fd(req.fd, ESCRIPTURA) < 0 THEN check_fd(req.fd, ESCRIPTURA)
  ELSE IF req.buffer = NULL \/ req.size < 0 THEN -EINVAL
  ELSE IF ~access_ok(req.buffer, req.size) THEN -EFAULT ELSE 0

sys_write ==
  /\ at = "sys_write"
  /\ \/ /\ write_checks < 0
        /\ Return(write_checks) /\ UNCHANGED w
     \/ /\ write_checks = 0
        /\ w' = [NoWrite EXCEPT !.left = req.size]
        /\ Goto("copy_from_user") /\ UNCHANGED <<eax, sysret>>
  /\ UNCHANGED <<pic, kbc, zeos_ticks, req, errno, c, printed, errno0, timer>>

(* Bytes of this round of the loop: while (left > 128), then the rest. *)
chunk == IF w.left > CHUNK THEN CHUNK ELSE w.left

UserMapped(addr) ==
  addr \div PAGE_SIZE \in
    USER_FIRST_PAGE .. USER_FIRST_PAGE + NUM_PAG_DATA + NUM_PAG_CODE - 1

source_not_advanced(k) == req.buffer + k
source(k) == req.buffer + w.current + k

copy_from_user_nonempty ==
  /\ at = "copy_from_user" /\ chunk > 0
  /\ w' = [w EXCEPT !.buff = [k \in 1 .. chunk |-> source(k - 1)], !.i = 0]
  /\ Goto("sys_write_console")
  /\ UNCHANGED <<pic, kbc, zeos_ticks, eax, req, errno, c, history, timer>>

(* copy_from_user(&buffer[current], buff, n), or the fault it takes. *)
copy_from_user ==
  /\ at = "copy_from_user"
  /\ \/ /\ \A k \in 0 .. chunk - 1 : UserMapped(source(k))
        /\ w' = [w EXCEPT !.buff = [k \in 1 .. chunk |-> source(k - 1)], !.i = 0]
        /\ Goto("sys_write_console")
     \/ /\ \E k \in 0 .. chunk - 1 : ~UserMapped(source(k))
        /\ PageFault /\ UNCHANGED w
  /\ UNCHANGED <<pic, kbc, zeos_ticks, eax, req, errno, c, history, timer>>

written_chars_last_chunk == chunk
written_chars == w.written + chunk

(* sys_write_console(buff, n), one printc at a time, then the loop's tail. *)
sys_write_console ==
  /\ at = "sys_write_console"
  /\ \/ /\ w.i < chunk
        /\ printed' = Append(printed, w.buff[w.i + 1])
        /\ w' = [w EXCEPT !.i = @ + 1]
        /\ UNCHANGED <<cpu, eax, sysret>>
     \/ /\ w.i = chunk /\ w.left > CHUNK
        /\ w' = [w EXCEPT !.written = written_chars, !.current = @ + CHUNK,
                          !.left = @ - CHUNK, !.i = 0, !.buff = <<>>]
        /\ Goto("copy_from_user")
        /\ UNCHANGED <<printed, eax, sysret>>
     \/ /\ w.i = chunk /\ w.left <= CHUNK
        /\ Return(written_chars)
        /\ w' = NoWrite
        /\ UNCHANGED printed
  /\ UNCHANGED <<pic, kbc, zeos_ticks, req, errno, c, errno0, timer>>

(* RESTORE_ALL; sti; sysexit: sti takes effect after sysexit. *)
sysenter_fin ==
  /\ at = "sysenter_fin"
  /\ at' = "check_error" /\ iflag' = 1 /\ UNCHANGED stack
  /\ UNCHANGED <<pic, kbc, zeos_ticks, syscall, c, history, timer>>
---------------------------------------------------------------------------
KernelStep ==
  \/ clock_handler \/ clock_routine \/ clock_iret
  \/ keyboard_routine \/ keyboard_printc_xy \/ keyboard_eoi \/ keyboard_iret
  \/ print_page_fault
  \/ syscall_handler \/ sys_ni_syscall \/ sys_gettime \/ sys_write
  \/ copy_from_user \/ sys_write_console \/ sysenter_fin

UserCall ==
  \/ \E fd \in Fds, buffer \in Buffers, size \in Sizes : write(fd, buffer, size)
  \/ gettime
  \/ \E nr \in Sysnos : other_call(nr)

Next ==
  \/ TimerPulse
  \/ \E event \in Scancodes : KeyEvent(event)
  \/ \E irq \in {CLOCK, KEYBOARD} : Deliver(irq)
  \/ KernelStep
  \/ UserCall \/ CHECK_ERROR \/ UserResumes \/ UserFault

Spec == Init /\ [][Next]_vars
---------------------------------------------------------------------------
Running == {at} \cup {stack[k].at : k \in 1 .. Len(stack)}
One(b) == IF b THEN 1 ELSE 0
InWrite == req.nr = NR_WRITE

(* Type correctness of the registers, the devices and the kernel's data. *)
TypeOK ==
  /\ at \in Code /\ iflag \in 0..1
  /\ stack \in Seq([at : Code, iflag : 0..1])
  /\ irr \subseteq {CLOCK, KEYBOARD} /\ isr \subseteq {CLOCK, KEYBOARD}
  /\ kbc \in Seq(Scancodes)
  /\ zeos_ticks \in 0 .. TICK_RANGE - 1
  /\ eax \in Int /\ errno \in Int /\ sysret \in Int /\ errno0 \in Int
  /\ req \in [nr : Int, fd : Int, buffer : Int, size : Int]
  /\ w \in [left : Nat, current : Nat, i : Nat, written : Nat, buff : Seq(Int)]
  /\ printed \in Seq(Int)
  /\ pulses \in 0 .. TICK_RANGE - 1 /\ lost \in 0 .. TICK_RANGE - 1

(* No interrupt is taken inside the kernel: system calls and handlers run  *)
(* with IF clear, only user code (or a faulting copy_from_user) is ever    *)
(* suspended, and the kernel stack holds one interrupt context at most.    *)
(* sys_write's static cursor and the single tss.esp0 stack depend on it.   *)
NoNesting ==
  /\ iflag = One(at \in UserCode)
  /\ at \in UserCode \cup CallCode \cup {"wild"} => stack = <<>>
  /\ at \in ClockCode \cup KeyCode \cup FaultCode =>
       /\ Len(stack) = 1
       /\ \/ stack[1].at \in UserCode /\ stack[1].iflag = 1
          \/ /\ at \in FaultCode
             /\ stack[1].at = "copy_from_user" /\ stack[1].iflag = 0

(* An IRQ is in service exactly while its own handler has not sent EOI,    *)
(* although EOI names no IRQ and the two handlers send it at different     *)
(* points; a bit left behind would mask its line, and all below, for ever. *)
InServiceMatches ==
  isr = (IF "clock_handler" \in Running THEN {CLOCK} ELSE {}) \cup
        (IF Running \cap {"keyboard_routine", "printc_xy", "keyboard_eoi"} # {}
           THEN {KEYBOARD} ELSE {})

(* A scan code waits in the controller if and only if IRQ 1 is requested   *)
(* or its handler is about to read: no code is stranded behind an edge     *)
(* that was already consumed, and inb never reads an empty controller.     *)
NoStrandedKey ==
  /\ kbc # <<>> <=> KEYBOARD \in irr \/ "keyboard_routine" \in Running
  /\ ~(KEYBOARD \in irr /\ "keyboard_routine" \in Running)

(* Every timer pulse is counted by zeos_ticks, or latched, or being        *)
(* handled, or was merged with a latched one, also across the wrap of the  *)
(* int.                                                                    *)
TickConservation ==
  (zeos_ticks + lost + One(CLOCK \in irr)
     + One(Running \cap {"clock_handler", "clock_routine"} # {})) % TICK_RANGE
  = pulses

(* sys_write prints the bytes of the buffer in order, none twice and none  *)
(* skipped, across the 128-byte chunks and whatever interrupts precede or  *)
(* follow.                                                                 *)
WriteInOrder ==
  printed = [k \in 1 .. Len(printed) |-> req.buffer + k - 1]

(* write returns the size it was given after printing exactly that many    *)
(* bytes, or an error after printing none.                                 *)
WriteAllOrNothing ==
  at \in {"sysenter_fin", "check_error", "returned"} /\ InWrite =>
    \/ sysret = req.size /\ Len(printed) = req.size
    \/ sysret < 0 /\ printed = <<>>

(* What CHECK_ERROR gives the caller, with interrupts in between: a        *)
(* failed call is -1 with the kernel's code in errno, a successful one its *)
(* value with errno as it was before the call.                             *)
ErrnoContract ==
  at = "returned" => IF sysret < 0 THEN eax = -1 /\ errno = -sysret
                                   ELSE eax = sysret /\ errno = errno0

Halted == at = "page_fault_routine"

(* The timer is slow: its period (55 ms) is far longer than the handlers,  *)
(* so user code runs with no tick pending again and again.                 *)
TimerSlow == []<>(at \in UserCode /\ CLOCK \notin irr)

(* A clock interrupt requested while the kernel runs, or while another is  *)
(* handled, is served later, unless a fault has stopped the machine; with  *)
(* a slow timer every waiting scan code is read by its handler too.        *)
InterruptsServed ==
  /\ CLOCK \in irr ~> at = "clock_handler" \/ Halted
  /\ TimerSlow => (kbc # <<>> ~> at = "keyboard_routine")

(* entry.S: numbers outside the table are answered with ENOSYS. *)
DispatchInTable == at # "wild"

(* access_ok's contract: no call it lets through touches an unmapped page. *)
WriteNeverFaults ==
  at \in FaultCode => stack[1].at # "copy_from_user"
---------------------------------------------------------------------------
(* Where the program stands, also while a handler runs. *)
Base == IF stack = <<>> THEN at ELSE stack[Len(stack)].at

PhaseOf(code) == CASE code = "user" -> "user"
                   [] code \in {"sysenter_fin", "check_error"} -> "served"
                   [] code = "returned" -> "back"
                   [] OTHER -> "kernel"
CallPhase == IF at \in FaultCode THEN "halted" ELSE PhaseOf(Base)
CallResult == IF Base = "returned" THEN eax ELSE 0

Abstract == INSTANCE Syscalls
  WITH WRITE <- NR_WRITE, GETTIME <- NR_GETTIME,
       UserSpace <- <<USER_FIRST_PAGE * PAGE_SIZE,
                      (USER_FIRST_PAGE + NUM_PAG_DATA + NUM_PAG_CODE) * PAGE_SIZE - 1>>,
       phase <- CallPhase, call <- req, shown <- printed, served <- sysret,
       result <- CallResult, ticks <- zeos_ticks

(* The system calls as the program sees them: the kernel's chunks, checks, *)
(* stack and interrupts implement the abstract calls of Syscalls.  In      *)
(* particular access_ok refuses no buffer the program owns, no byte of     *)
(* memory it does not own is shown, and a call that succeeds showed all.   *)
ImplementsSyscalls == Abstract!Spec
===========================================================================
