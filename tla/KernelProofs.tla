--------------------------- MODULE KernelProofs ---------------------------
(***************************************************************************)
(* Proofs about module Kernel, for every width of zeos_ticks, chunk size,  *)
(* page layout and set of inputs.                                          *)
(*                                                                         *)
(* Interrupts are only taken in user code, so the context of the system    *)
(* call in progress is either what the processor executes or the one       *)
(* context an interrupt suspended: Here.  What a call has computed so far  *)
(* is stated of Here (CallData), and so survives the handlers.             *)
(***************************************************************************)
EXTENDS Kernel, SequenceTheorems, TLAPS

HandlerCode == ClockCode \cup KeyCode \cup FaultCode

(* What the processor was in before the handler it runs, if it runs one. *)
Here == IF at \in HandlerCode THEN stack[1].at ELSE at

(* The in-service bits, the keyboard and the clock in terms of at alone. *)
InService ==
  isr = CASE at = "clock_handler" -> {CLOCK}
          [] at \in {"keyboard_routine", "printc_xy", "keyboard_eoi"} -> {KEYBOARD}
          [] OTHER -> {}

KeyWaits ==
  /\ kbc # <<>> <=> KEYBOARD \in irr \/ at = "keyboard_routine"
  /\ ~(KEYBOARD \in irr /\ at = "keyboard_routine")

(* TickConservation without %: the sum exceeds pulses by the wraps of the *)
(* two counters it adds, of which there are at most two.                   *)
Accounted == zeos_ticks + lost + One(CLOCK \in irr)
               + One(at \in {"clock_handler", "clock_routine"})
TicksAdd ==
  \/ Accounted = pulses
  \/ Accounted = pulses + TICK_RANGE
  \/ Accounted = pulses + TICK_RANGE + TICK_RANGE

InOrder == \A k \in 1 .. Len(printed) : printed[k] = req.buffer + k - 1

(* How far sys_write is: what it printed, and what is left of size. *)
WriteProgress ==
  /\ InWrite
  /\ w.current + w.left = req.size /\ w.written = w.current
  /\ Len(printed) = w.current + w.i

CallData ==
  /\ InOrder
  /\ Here \in {"user", "syscall_handler", "sys_write", "sys_gettime",
               "sys_ni_syscall"} => printed = <<>>
  /\ Here = "syscall_handler" => eax = req.nr
  /\ Here = "sys_write" => InWrite
  /\ Here \in {"sys_gettime", "sys_ni_syscall"} => ~InWrite
  /\ Here = "copy_from_user" => WriteProgress /\ w.i = 0
  /\ Here = "sys_write_console" =>
       /\ WriteProgress /\ w.i <= chunk
       /\ Len(w.buff) = chunk
       /\ \A k \in 1 .. chunk : w.buff[k] = source(k - 1)
  /\ Here \in {"sysenter_fin", "check_error"} => eax = sysret
  /\ Here \in CallCode \cup {"check_error"} => errno = errno0
  /\ Here \in {"sysenter_fin", "check_error", "returned"} /\ InWrite =>
       \/ sysret = req.size /\ Len(printed) = req.size
       \/ sysret < 0 /\ printed = <<>>
  /\ Here = "returned" =>
       IF sysret < 0 THEN eax = -1 /\ errno = -sysret
                     ELSE eax = sysret /\ errno = errno0

KernelInv ==
  /\ TypeOK /\ NoNesting /\ InService /\ KeyWaits /\ TicksAdd /\ CallData
---------------------------------------------------------------------------
(* Arithmetic and sequences. *)

(* ++ on a counter of TICK_RANGE values. *)
LEMMA Increment ==
  ASSUME NEW n \in 0 .. TICK_RANGE - 1
  PROVE  (n + 1) % TICK_RANGE = IF n + 1 = TICK_RANGE THEN 0 ELSE n + 1
BY KernelAssumption

LEMMA Wraps ==
  ASSUME NEW n \in 0 .. TICK_RANGE - 1
  PROVE  /\ n % TICK_RANGE = n
         /\ (n + TICK_RANGE) % TICK_RANGE = n
         /\ (n + TICK_RANGE + TICK_RANGE) % TICK_RANGE = n
BY KernelAssumption

LEMMA LastOfOne ==
  ASSUME NEW S, NEW s \in Seq(S), Len(s) = 1
  PROVE  Tail(s) = <<>> /\ Head(s) = s[1] /\ s[1] \in S
<1>1. s # <<>>
  OBVIOUS
<1>2. Tail(s) \in Seq(S) /\ Len(Tail(s)) = 0
  BY <1>1
<1>3. Tail(s) = <<>>
  BY <1>2, EmptySeq
<1>4. Head(s) = s[1] /\ s[1] \in S
  BY <1>1
<1> QED
  BY <1>3, <1>4

LEMMA OneContext ==
  ASSUME NEW a
  PROVE  <<a>> \o <<>> = <<a>> /\ Len(<<a>>) = 1 /\ <<a>>[1] = a
OBVIOUS
---------------------------------------------------------------------------
(* The state of the call depends on nothing else. *)
LEMMA CallDataKept ==
  ASSUME CallData, Here' = Here, UNCHANGED <<syscall, history>>
  PROVE  CallData'
<1>1. UNCHANGED <<eax, req, w, errno, printed, sysret, errno0>>
  BY DEF syscall, history
<1>2. InOrder' = InOrder
  BY <1>1 DEF InOrder
<1>3. WriteProgress' = WriteProgress
  BY <1>1 DEF WriteProgress, InWrite
<1>4. chunk' = chunk /\ InWrite' = InWrite
  BY <1>1 DEF chunk, InWrite
<1>5. \A k : source(k)' = source(k)
  BY <1>1 DEF source
<1> QED
  BY <1>1, <1>2, <1>3, <1>4, <1>5 DEF CallData

LEMMA InitInv == Init => KernelInv
<1> SUFFICES ASSUME Init PROVE KernelInv
  OBVIOUS
<1> USE DEF Init
<1>1. TypeOK
  BY KernelAssumption
     DEF TypeOK, Code, UserCode, NoCall, NoWrite
<1>2. NoNesting /\ InService /\ KeyWaits
  BY DEF NoNesting, InService, KeyWaits, One, UserCode, ClockCode, KeyCode, FaultCode
<1>3. TicksAdd
  BY DEF TicksAdd, Accounted, One
<1>4. CallData
  BY DEF CallData, InOrder, Here, HandlerCode, ClockCode, KeyCode, FaultCode, CallCode
<1> QED
  BY <1>1, <1>2, <1>3, <1>4 DEF KernelInv
---------------------------------------------------------------------------
(* Devices. *)
LEMMA TimerPulseInv == ASSUME KernelInv, TimerPulse PROVE KernelInv'
<1> USE DEF TimerPulse, cpu
<1>1. TypeOK'
  BY KernelAssumption, SMTT(30) DEF KernelInv, TypeOK, syscall, history
<1>2. NoNesting' /\ InService' /\ KeyWaits'
  BY DEF KernelInv, NoNesting, InService, KeyWaits, CLOCK, KEYBOARD
<1>3. TicksAdd'
  <2>1. pulses \in 0 .. TICK_RANGE - 1 /\ lost \in 0 .. TICK_RANGE - 1
        /\ zeos_ticks \in 0 .. TICK_RANGE - 1
    BY DEF KernelInv, TypeOK
  <2>2. /\ pulses' = IF pulses + 1 = TICK_RANGE THEN 0 ELSE pulses + 1
        /\ lost' = IF CLOCK \in irr
                     THEN IF lost + 1 = TICK_RANGE THEN 0 ELSE lost + 1 ELSE lost
    BY <2>1, Increment
  <2> DEFINE handled == One(at \in {"clock_handler", "clock_routine"})
  <2>3. handled \in 0..1 /\ One(CLOCK \in irr') = 1
    BY DEF One
  <2>4. CASE CLOCK \in irr
    <3>1. Accounted = zeos_ticks + lost + 1 + handled
      BY <2>4 DEF Accounted, One
    <3>2. Accounted' = zeos_ticks + lost' + 1 + handled
      BY <2>3 DEF Accounted
    <3> HIDE DEF handled
    <3> QED
      BY <2>1, <2>2, <2>3, <2>4, <3>1, <3>2, KernelAssumption DEF KernelInv, TicksAdd
  <2>5. CASE CLOCK \notin irr
    <3>1. Accounted = zeos_ticks + lost + 0 + handled
      BY <2>5 DEF Accounted, One
    <3>2. Accounted' = zeos_ticks + lost' + 1 + handled
      BY <2>3 DEF Accounted
    <3> HIDE DEF handled
    <3> QED
      BY <2>1, <2>2, <2>3, <2>5, <3>1, <3>2, KernelAssumption DEF KernelInv, TicksAdd
  <2> QED
    BY <2>4, <2>5
<1>4. CallData'
  BY CallDataKept DEF KernelInv, Here
<1> QED
  BY <1>1, <1>2, <1>3, <1>4 DEF KernelInv

LEMMA KeyEventInv ==
  ASSUME KernelInv, NEW event \in Scancodes, KeyEvent(event) PROVE KernelInv'
<1> USE DEF KeyEvent, cpu
<1>1. TypeOK'
  BY KernelAssumption, SMTT(30) DEF KernelInv, TypeOK, syscall, history, timer
<1>2. NoNesting' /\ InService'
  BY DEF KernelInv, NoNesting, InService
<1>3. KeyWaits'
  <2>1. kbc' # <<>>
    <3>1. Len(kbc') = Len(kbc) + 1 /\ Len(kbc) \in Nat
      BY DEF KernelInv, TypeOK
    <3> QED
      BY <3>1
  <2> QED
    BY <2>1 DEF KernelInv, KeyWaits, KEYBOARD
<1>4. TicksAdd'
  BY DEF KernelInv, TicksAdd, Accounted, timer, CLOCK, KEYBOARD
<1>5. CallData'
  BY CallDataKept DEF KernelInv, Here
<1> QED
  BY <1>1, <1>2, <1>3, <1>4, <1>5 DEF KernelInv

(* An interrupt finds the processor in user code, with an empty stack. *)
LEMMA DeliverInv ==
  ASSUME KernelInv, NEW irq \in {CLOCK, KEYBOARD}, Deliver(irq) PROVE KernelInv'
<1> DEFINE handler == IF irq = CLOCK THEN "clock_handler" ELSE "keyboard_routine"
           context == [at |-> at, iflag |-> iflag]
<1>1. /\ iflag = 1 /\ irq \in irr
      /\ irr' = irr \ {irq} /\ isr' = isr \cup {irq}
      /\ stack' = <<context>> \o stack /\ iflag' = 0 /\ at' = handler
      /\ UNCHANGED <<kbc, zeos_ticks, syscall, c, history, timer>>
  BY DEF Deliver, Deliverable, Enter, gate_IF
<1>2. at \in UserCode /\ stack = <<>>
  BY <1>1 DEF KernelInv, NoNesting, One
<1>3. stack' = <<context>> /\ Len(stack') = 1 /\ stack'[1] = context
  BY <1>1, <1>2, OneContext
<1>4. handler \in HandlerCode /\ handler \in Code /\ at \notin HandlerCode /\ at \in Code
      /\ handler \notin UserCode \cup CallCode \cup {"wild"}
      /\ at \notin {"clock_handler", "clock_routine", "keyboard_routine",
                    "printc_xy", "keyboard_eoi"}
  BY <1>2 DEF HandlerCode, Code, ClockCode, KeyCode, UserCode, FaultCode, CallCode
<1>5. TypeOK'
  <2>1. context \in [at : Code, iflag : 0..1]
    BY <1>1, <1>4
  <2>2. <<context>> \in Seq([at : Code, iflag : 0..1])
    BY <2>1
  <2> HIDE DEF context, handler
  <2> QED
    BY <1>1, <1>3, <1>4, <2>2, SMTT(30) DEF KernelInv, TypeOK, syscall, history, timer
<1>6. NoNesting'
  BY <1>1, <1>2, <1>3, <1>4 DEF NoNesting, One
<1>7. isr = {}
  BY <1>4 DEF KernelInv, InService
<1>8. InService' /\ KeyWaits'
  BY <1>1, <1>4, <1>7 DEF KernelInv, InService, KeyWaits, CLOCK, KEYBOARD
<1>9. TicksAdd'
  <2>1. Accounted' = Accounted
    <3>1. CASE irq = CLOCK
      BY <1>1, <1>4, <3>1 DEF Accounted, One, timer, KernelInv, TypeOK
    <3>2. CASE irq = KEYBOARD
      BY <1>1, <1>4, <3>2 DEF Accounted, One, timer, KernelInv, TypeOK, CLOCK, KEYBOARD
    <3> QED
      BY <3>1, <3>2
  <2> QED
    BY <1>1, <2>1 DEF KernelInv, TicksAdd, timer
<1>10. CallData'
  <2>1. Here' = Here
    BY <1>1, <1>3, <1>4 DEF Here
  <2> QED
    BY <1>1, <2>1, CallDataKept DEF KernelInv
<1> QED
  BY <1>5, <1>6, <1>8, <1>9, <1>10 DEF KernelInv
---------------------------------------------------------------------------
(* Handlers. *)
LEMMA HandlerKept ==
  ASSUME KernelInv, UNCHANGED <<iflag, stack, syscall, history>>,
         \/ at \in ClockCode \cup KeyCode /\ at' \in ClockCode \cup KeyCode
         \/ at \in FaultCode /\ at' \in FaultCode
  PROVE  NoNesting' /\ CallData'
<1>1. NoNesting'
  BY DEF KernelInv, NoNesting, One, UserCode, CallCode, ClockCode, KeyCode, FaultCode
<1>2. Here' = Here
  BY DEF Here, HandlerCode
<1> QED
  BY <1>1, <1>2, CallDataKept DEF KernelInv

LEMMA EndOfInterrupt ==
  ASSUME NEW irq \in {CLOCK, KEYBOARD}, isr = {irq}, EOI
  PROVE  isr' = {}
BY DEF EOI, CLOCK, KEYBOARD

LEMMA clock_handlerInv == ASSUME KernelInv, clock_handler PROVE KernelInv'
<1> USE DEF clock_handler, Goto
<1>1. isr' = {}
  BY EndOfInterrupt DEF KernelInv, InService
<1>2. NoNesting' /\ CallData'
  BY HandlerKept DEF ClockCode
<1>3. TypeOK'
  BY <1>1 DEF KernelInv, TypeOK, Code, ClockCode, syscall, history, timer
<1>4. InService' /\ KeyWaits'
  BY <1>1 DEF KernelInv, InService, KeyWaits
<1>5. TicksAdd'
  BY DEF KernelInv, TicksAdd, Accounted, timer
<1> QED
  BY <1>2, <1>3, <1>4, <1>5 DEF KernelInv

LEMMA clock_routineInv == ASSUME KernelInv, clock_routine PROVE KernelInv'
<1> USE DEF clock_routine, Goto
<1>1. NoNesting' /\ CallData'
  BY HandlerKept DEF ClockCode
<1>2. zeos_ticks' = IF zeos_ticks + 1 = TICK_RANGE THEN 0 ELSE zeos_ticks + 1
  BY Increment DEF KernelInv, TypeOK
<1>3. TypeOK'
  BY <1>2, KernelAssumption, SMTT(30)
     DEF KernelInv, TypeOK, Code, ClockCode, pic, syscall, history, timer
<1>4. InService' /\ KeyWaits'
  BY DEF KernelInv, InService, KeyWaits, pic
<1>5. TicksAdd'
  <2> DEFINE pending == One(CLOCK \in irr)
  <2>1. pending \in 0..1
    BY DEF One
  <2>2. Accounted = zeos_ticks + lost + pending + 1
    BY DEF Accounted, One
  <2>3. Accounted' = zeos_ticks' + lost + pending + 0
    <3>1. UNCHANGED <<irr, lost>> /\ at' = "clock_iret"
      BY DEF pic, timer
    <3> QED
      BY <3>1 DEF Accounted, One
  <2>4. /\ pulses \in 0 .. TICK_RANGE - 1 /\ lost \in 0 .. TICK_RANGE - 1
        /\ zeos_ticks \in 0 .. TICK_RANGE - 1 /\ pulses' = pulses
    BY DEF KernelInv, TypeOK, timer
  <2> HIDE DEF pending
  <2> QED
    BY <1>2, <2>1, <2>2, <2>3, <2>4, KernelAssumption DEF KernelInv, TicksAdd
<1> QED
  BY <1>1, <1>3, <1>4, <1>5 DEF KernelInv

(* The context below a handler is user code, with interrupts enabled. *)
LEMMA iretInv ==
  ASSUME KernelInv, clock_iret \/ keyboard_iret PROVE KernelInv'
<1>1. /\ at \in {"clock_iret", "keyboard_iret"} /\ at \in HandlerCode
      /\ at \in ClockCode \cup KeyCode
      /\ at' = Head(stack).at /\ iflag' = Head(stack).iflag /\ stack' = Tail(stack)
      /\ UNCHANGED <<pic, kbc, zeos_ticks, syscall, c, history, timer>>
  BY DEF clock_iret, keyboard_iret, iret, HandlerCode, ClockCode, KeyCode
<1>2. /\ Len(stack) = 1 /\ stack[1].at \in UserCode /\ stack[1].iflag = 1
      /\ stack \in Seq([at : Code, iflag : 0..1])
  BY <1>1 DEF KernelInv, TypeOK, NoNesting, ClockCode, KeyCode, FaultCode
<1>3. stack' = <<>> /\ at' = stack[1].at /\ at' \in UserCode /\ iflag' = 1
  BY <1>1, <1>2, LastOfOne
<1>4. at' \notin HandlerCode /\ at' \notin {"clock_handler", "clock_routine",
        "keyboard_routine", "printc_xy", "keyboard_eoi"} /\ at' \in Code
  BY <1>3 DEF HandlerCode, UserCode, ClockCode, KeyCode, FaultCode, Code
<1>5. TypeOK'
  <2>1. stack' \in Seq([at : Code, iflag : 0..1]) /\ iflag' \in 0..1
    BY <1>3, EmptySeq
  <2> QED
    BY <1>1, <1>4, <2>1 DEF KernelInv, TypeOK, pic, syscall, history, timer
<1>6. NoNesting'
  BY <1>3, <1>4 DEF NoNesting, One, HandlerCode
<1>7. InService' /\ KeyWaits'
  BY <1>1, <1>4 DEF KernelInv, InService, KeyWaits, pic
<1>8. TicksAdd'
  BY <1>1, <1>4 DEF KernelInv, TicksAdd, Accounted, pic, timer
<1>9. CallData'
  <2>1. Here' = Here
    BY <1>1, <1>3, <1>4 DEF Here
  <2> QED
    BY <1>1, <2>1, CallDataKept DEF KernelInv
<1> QED
  BY <1>5, <1>6, <1>7, <1>8, <1>9 DEF KernelInv

LEMMA keyboard_routineInv == ASSUME KernelInv, keyboard_routine PROVE KernelInv'
<1>1. /\ at = "keyboard_routine" /\ at' \in {"printc_xy", "keyboard_eoi"}
      /\ kbc' = Tail(kbc)
      /\ irr' = IF Tail(kbc) # <<>> THEN irr \cup {KEYBOARD} ELSE irr
      /\ UNCHANGED <<iflag, stack, isr, zeos_ticks, syscall, history, timer>>
  BY DEF keyboard_routine, Goto, inb
<1>2. NoNesting' /\ CallData'
  BY <1>1, HandlerKept DEF KeyCode
<1>3. kbc # <<>> /\ KEYBOARD \notin irr
  BY <1>1 DEF KernelInv, KeyWaits
<1>4. TypeOK'
  BY <1>1, <1>3, SMTT(30) DEF KernelInv, TypeOK, Code, KeyCode, syscall, history, timer
<1>5. InService' /\ KeyWaits'
  BY <1>1, <1>3 DEF KernelInv, InService, KeyWaits
<1>6. TicksAdd'
  BY <1>1 DEF KernelInv, TicksAdd, Accounted, timer, CLOCK, KEYBOARD
<1> QED
  BY <1>2, <1>4, <1>5, <1>6 DEF KernelInv

LEMMA keyboard_handlerInv ==
  ASSUME KernelInv, keyboard_printc_xy \/ keyboard_eoi PROVE KernelInv'
<1>1. /\ at \in {"printc_xy", "keyboard_eoi"}
      /\ at' = IF at = "printc_xy" THEN "keyboard_eoi" ELSE "keyboard_iret"
      /\ isr' = IF at = "printc_xy" THEN isr ELSE {}
      /\ UNCHANGED <<iflag, stack, irr, kbc, zeos_ticks, syscall, history, timer>>
  <2>1. CASE keyboard_printc_xy
    BY <2>1 DEF keyboard_printc_xy, Goto, pic
  <2>2. CASE keyboard_eoi
    BY <2>2, EndOfInterrupt DEF keyboard_eoi, Goto, KernelInv, InService
  <2> QED
    BY <2>1, <2>2
<1>2. NoNesting' /\ CallData'
  BY <1>1, HandlerKept DEF KeyCode
<1>3. TypeOK'
  BY <1>1 DEF KernelInv, TypeOK, Code, KeyCode, syscall, history, timer
<1>4. InService' /\ KeyWaits'
  BY <1>1 DEF KernelInv, InService, KeyWaits
<1>5. TicksAdd'
  BY <1>1 DEF KernelInv, TicksAdd, Accounted, timer
<1> QED
  BY <1>2, <1>3, <1>4, <1>5 DEF KernelInv

LEMMA print_page_faultInv == ASSUME KernelInv, print_page_fault PROVE KernelInv'
<1> USE DEF print_page_fault, Goto, pic
<1>1. NoNesting' /\ CallData'
  BY HandlerKept DEF FaultCode
<1>2. TypeOK'
  BY DEF KernelInv, TypeOK, Code, FaultCode, syscall, history, timer
<1>3. InService' /\ KeyWaits'
  BY DEF KernelInv, InService, KeyWaits
<1>4. TicksAdd'
  BY DEF KernelInv, TicksAdd, Accounted, timer
<1> QED
  BY <1>1, <1>2, <1>3, <1>4 DEF KernelInv
---------------------------------------------------------------------------
(* User code and system calls: the devices are left alone, no handler is   *)
(* running, and none is entered except by a fault.                         *)
PlainCode == UserCode \cup CallCode \cup {"wild"}

LEMMA PlainKept ==
  ASSUME KernelInv, at \in PlainCode, at' \in PlainCode \cup {"print_page_fault"},
         UNCHANGED <<pic, kbc, zeos_ticks, timer>>
  PROVE  InService' /\ KeyWaits' /\ TicksAdd'
<1>1. /\ at \notin {"clock_handler", "clock_routine", "keyboard_routine",
                    "printc_xy", "keyboard_eoi"}
      /\ at' \notin {"clock_handler", "clock_routine", "keyboard_routine",
                     "printc_xy", "keyboard_eoi"}
  BY DEF PlainCode, UserCode, CallCode
<1>2. InService' /\ KeyWaits'
  BY <1>1 DEF KernelInv, InService, KeyWaits, pic
<1>3. TicksAdd'
  BY <1>1 DEF KernelInv, TicksAdd, Accounted, pic, timer
<1> QED
  BY <1>2, <1>3

LEMMA PlainHere ==
  ASSUME at \in PlainCode PROVE Here = at /\ at \in Code
BY DEF PlainCode, Here, HandlerCode, UserCode, CallCode, ClockCode, KeyCode,
       FaultCode, Code

LEMMA PlainHerePrimed ==
  ASSUME at' \in PlainCode PROVE Here' = at' /\ at' \in Code
BY DEF PlainCode, Here, HandlerCode, UserCode, CallCode, ClockCode, KeyCode,
       FaultCode, Code

LEMMA PlainNesting ==
  ASSUME KernelInv, at \in PlainCode, at' \in PlainCode, stack' = stack,
         iflag' = One(at' \in UserCode)
  PROVE  NoNesting'
<1>1. stack = <<>>
  BY DEF KernelInv, NoNesting, PlainCode
<1> QED
  BY <1>1 DEF NoNesting, PlainCode, UserCode, CallCode, ClockCode, KeyCode, FaultCode, One

(* A fault in user code or in sys_write's copy. *)
LEMMA PageFaultInv ==
  ASSUME KernelInv, at \in UserCode \cup {"copy_from_user"}, PageFault,
         UNCHANGED <<pic, kbc, zeos_ticks, syscall, c, history, timer>>
  PROVE  KernelInv'
<1> DEFINE context == [at |-> at, iflag |-> iflag]
<1>1. /\ stack = <<>> /\ at \in PlainCode
      /\ iflag = IF at \in UserCode THEN 1 ELSE 0
  BY DEF KernelInv, NoNesting, One, PlainCode, CallCode
<1>2. stack' = <<context>> \o stack /\ iflag' = 0 /\ at' = "print_page_fault"
  BY DEF PageFault, Enter, gate_IF
<1>3. stack' = <<context>> /\ Len(stack') = 1 /\ stack'[1] = context
  BY <1>1, <1>2, OneContext
<1>4. TypeOK'
  <2>1. context \in [at : Code, iflag : 0..1]
    BY <1>1, PlainHere
  <2>2. <<context>> \in Seq([at : Code, iflag : 0..1])
    BY <2>1
  <2>3. at' \in Code
    BY <1>2 DEF Code, FaultCode
  <2> HIDE DEF context
  <2> QED
    BY <1>2, <1>3, <2>2, <2>3, SMTT(30) DEF KernelInv, TypeOK, pic, syscall, history, timer
<1>5. NoNesting'
  BY <1>1, <1>2, <1>3
     DEF NoNesting, One, UserCode, CallCode, ClockCode, KeyCode, FaultCode
<1>6. InService' /\ KeyWaits' /\ TicksAdd'
  BY <1>1, <1>2, PlainKept
<1>7. CallData'
  <2>1. Here' = Here
    BY <1>1, <1>2, <1>3, PlainHere DEF Here, HandlerCode, FaultCode
  <2> QED
    BY <2>1, CallDataKept DEF KernelInv
<1> QED
  BY <1>4, <1>5, <1>6, <1>7 DEF KernelInv

LEMMA SYSCALLInv ==
  ASSUME KernelInv, NEW nr \in Int, NEW fd \in Int, NEW buffer \in Int,
         NEW size \in Int, SYSCALL(nr, fd, buffer, size)
  PROVE  KernelInv'
<1> USE DEF SYSCALL, UserRuns, sysenter_IF
<1>1. at \in PlainCode /\ at' \in PlainCode /\ at' \notin UserCode
  BY DEF PlainCode, UserCode, CallCode
<1>2. TypeOK'
  <2>1. req' \in [nr : Int, fd : Int, buffer : Int, size : Int]
    OBVIOUS
  <2>2. printed' \in Seq(Int)
    BY EmptySeq
  <2>3. /\ eax' \in Int /\ errno0' = errno /\ iflag' \in 0..1
        /\ UNCHANGED <<stack, irr, isr, kbc, zeos_ticks, w, errno, sysret, pulses, lost>>
    BY DEF pic, timer
  <2> HIDE DEF SYSCALL
  <2> QED
    BY <1>1, <2>1, <2>2, <2>3, PlainHerePrimed DEF KernelInv, TypeOK
<1>3. NoNesting' /\ InService' /\ KeyWaits' /\ TicksAdd'
  BY <1>1, PlainKept, PlainNesting DEF One
<1>4. CallData'
  <2>1. Here' = "syscall_handler"
    BY <1>1, PlainHerePrimed
  <2>2. InOrder'
    BY DEF InOrder
  <2>3. eax' = req'.nr /\ errno' = errno0' /\ printed' = <<>>
    OBVIOUS
  <2> HIDE DEF SYSCALL
  <2> QED
    BY <2>1, <2>2, <2>3 DEF CallData
<1> QED
  BY <1>2, <1>3, <1>4 DEF KernelInv

LEMMA CHECK_ERRORInv == ASSUME KernelInv, CHECK_ERROR PROVE KernelInv'
<1> USE DEF CHECK_ERROR, UserRuns, Goto
<1>1. at \in PlainCode /\ at' \in PlainCode /\ at \in UserCode /\ at' \in UserCode
  BY DEF PlainCode, UserCode
<1>2. TypeOK'
  BY <1>1, PlainHerePrimed DEF KernelInv, TypeOK, pic, history, timer
<1>3. NoNesting' /\ InService' /\ KeyWaits' /\ TicksAdd'
  BY <1>1, PlainKept, PlainNesting DEF One, KernelInv, NoNesting
<1>4. CallData'
  <2>1. Here = "check_error" /\ Here' = "returned"
    BY <1>1, PlainHere, PlainHerePrimed
  <2>2. UNCHANGED <<printed, sysret, errno0, req>>
    BY DEF history
  <2>3. InOrder'
    BY <2>2 DEF KernelInv, CallData, InOrder
  <2>4. eax = sysret /\ errno = errno0
    BY <2>1 DEF KernelInv, CallData
  <2>5. InWrite => \/ sysret = req.size /\ Len(printed) = req.size
                   \/ sysret < 0 /\ printed = <<>>
    BY <2>1 DEF KernelInv, CallData
  <2>6. Here' \notin CallCode
    BY <2>1 DEF CallCode
  <2> QED
    BY <2>1, <2>2, <2>3, <2>4, <2>5, <2>6 DEF CallData, InWrite
<1> QED
  BY <1>2, <1>3, <1>4 DEF KernelInv

LEMMA UserResumesInv == ASSUME KernelInv, UserResumes PROVE KernelInv'
<1> USE DEF UserResumes, UserRuns, Goto
<1>1. at \in PlainCode /\ at' \in PlainCode /\ at \in UserCode /\ at' \in UserCode
  BY DEF PlainCode, UserCode
<1>2. TypeOK'
  BY <1>1, PlainHerePrimed, EmptySeq DEF KernelInv, TypeOK, pic, timer, NoCall
<1>3. NoNesting' /\ InService' /\ KeyWaits' /\ TicksAdd'
  BY <1>1, PlainKept, PlainNesting DEF One, KernelInv, NoNesting
<1>4. CallData'
  <2>1. Here' = "user"
    BY <1>1, PlainHerePrimed
  <2>2. InOrder'
    BY DEF InOrder
  <2>3. Here' \notin CallCode
    BY <2>1 DEF CallCode
  <2> QED
    BY <2>1, <2>2, <2>3 DEF CallData
<1> QED
  BY <1>2, <1>3, <1>4 DEF KernelInv

LEMMA UserFaultInv == ASSUME KernelInv, UserFault PROVE KernelInv'
BY PageFaultInv DEF UserFault, UserRuns, UserCode

LEMMA sysenter_finInv == ASSUME KernelInv, sysenter_fin PROVE KernelInv'
<1> USE DEF sysenter_fin
<1>1. at \in PlainCode /\ at' \in PlainCode /\ at' \in UserCode
  BY DEF PlainCode, UserCode, CallCode
<1>2. TypeOK'
  BY <1>1, PlainHerePrimed DEF KernelInv, TypeOK, pic, syscall, history, timer
<1>3. NoNesting' /\ InService' /\ KeyWaits' /\ TicksAdd'
  BY <1>1, PlainKept, PlainNesting DEF One
<1>4. CallData'
  <2>1. Here = "sysenter_fin" /\ Here' = "check_error"
    BY <1>1, PlainHere, PlainHerePrimed
  <2>2. UNCHANGED <<printed, sysret, errno0, req, eax, errno>>
    BY DEF history, syscall
  <2>3. InOrder'
    BY <2>2 DEF KernelInv, CallData, InOrder
  <2>4. eax = sysret /\ errno = errno0
    BY <2>1 DEF KernelInv, CallData, CallCode
  <2>5. InWrite => \/ sysret = req.size /\ Len(printed) = req.size
                   \/ sysret < 0 /\ printed = <<>>
    BY <2>1 DEF KernelInv, CallData
  <2> QED
    BY <2>1, <2>2, <2>3, <2>4, <2>5 DEF CallData, InWrite
<1> QED
  BY <1>2, <1>3, <1>4 DEF KernelInv
---------------------------------------------------------------------------
(* System calls. *)

(* A routine that returns an error, or a call that is not write, has       *)
(* printed nothing.                                                        *)
LEMMA ReturnInv ==
  ASSUME KernelInv, NEW value \in Int, Return(value),
         at \in CallCode, InWrite => value < 0, printed = <<>>,
         UNCHANGED <<pic, kbc, zeos_ticks, req, w, errno, c, printed, errno0, timer>>
  PROVE  KernelInv'
<1> USE DEF Return, Goto
<1>1. /\ at \in PlainCode /\ at' \in PlainCode
      /\ at \notin UserCode /\ at' \notin UserCode
  BY DEF PlainCode, UserCode, CallCode
<1>2. TypeOK'
  BY <1>1, PlainHerePrimed DEF KernelInv, TypeOK, pic, timer
<1>3. NoNesting' /\ InService' /\ KeyWaits' /\ TicksAdd'
  BY <1>1, PlainKept, PlainNesting DEF One, KernelInv, NoNesting
<1>4. CallData'
  <2>1. Here = at /\ Here' = "sysenter_fin"
    BY <1>1, PlainHere, PlainHerePrimed
  <2>2. InOrder'
    BY DEF KernelInv, CallData, InOrder
  <2>3. errno' = errno0'
    BY <2>1 DEF KernelInv, CallData
  <2> QED
    BY <2>1, <2>2, <2>3 DEF CallData, InWrite
<1> QED
  BY <1>2, <1>3, <1>4 DEF KernelInv

LEMMA NotWriteInv ==
  ASSUME KernelInv, sys_ni_syscall \/ sys_gettime PROVE KernelInv'
<1>1. PICK value \in Int : Return(value)
  <2>1. -ENOSYS \in Int
    BY DEF ENOSYS
  <2>2. get_clock_ticks \in Int
    BY KernelAssumption DEF get_clock_ticks, KernelInv, TypeOK
  <2> QED
    BY <2>1, <2>2 DEF sys_ni_syscall, sys_gettime
<1>2. /\ at \in {"sys_ni_syscall", "sys_gettime"}
      /\ UNCHANGED <<pic, kbc, zeos_ticks, req, w, errno, c, printed, errno0, timer>>
  BY DEF sys_ni_syscall, sys_gettime
<1>3. at \in CallCode /\ at \in PlainCode
  BY <1>2 DEF CallCode, PlainCode
<1>4. printed = <<>> /\ ~InWrite
  BY <1>2, <1>3, PlainHere DEF KernelInv, CallData
<1> QED
  BY <1>1, <1>2, <1>3, <1>4, ReturnInv

LEMMA syscall_handlerInv == ASSUME KernelInv, syscall_handler PROVE KernelInv'
<1>1. /\ at = "syscall_handler" /\ at \in CallCode /\ at \in PlainCode
      /\ at \notin UserCode
      /\ UNCHANGED <<pic, kbc, zeos_ticks, req, w, errno, c, printed, errno0, timer>>
  BY DEF syscall_handler, CallCode, PlainCode, UserCode
<1>2. printed = <<>> /\ eax = req.nr /\ errno = errno0 /\ eax \in Int /\ InOrder
  BY <1>1, PlainHere DEF KernelInv, CallData, TypeOK
<1>3. CASE eax < 0 \/ eax > MAX_SYSCALL
  <2>1. ~InWrite
    BY <1>2, <1>3, KernelAssumption DEF InWrite
  <2>2. Return(-ENOSYS) /\ -ENOSYS \in Int
    BY <1>3 DEF syscall_handler, Return, ENOSYS
  <2> QED
    BY <1>1, <1>2, <2>1, <2>2, ReturnInv
<1>4. CASE ~(eax < 0 \/ eax > MAX_SYSCALL)
  <2>1. /\ at' \in {"sys_write", "sys_gettime", "sys_ni_syscall", "wild"}
        /\ at' = "sys_write" => eax = NR_WRITE
        /\ at' \in {"sys_gettime", "sys_ni_syscall"} => eax # NR_WRITE
        /\ UNCHANGED <<iflag, stack, eax, sysret>>
    BY <1>4, KernelAssumption DEF syscall_handler, Goto, sys_call_table
  <2>2. at' \in PlainCode /\ at' \notin UserCode
    BY <2>1 DEF PlainCode, CallCode, UserCode
  <2>3. TypeOK'
    BY <1>1, <2>1, <2>2, PlainHerePrimed DEF KernelInv, TypeOK, pic, timer
  <2>4. NoNesting' /\ InService' /\ KeyWaits' /\ TicksAdd'
    BY <1>1, <2>1, <2>2, PlainKept, PlainNesting DEF One, KernelInv, NoNesting
  <2>5. CallData'
    <3>1. Here' = at'
      BY <2>2, PlainHerePrimed
    <3>2. InOrder'
      BY <1>1, <1>2 DEF InOrder
    <3> QED
      BY <1>1, <1>2, <2>1, <3>1, <3>2 DEF CallData, InWrite
  <2> QED
    BY <2>3, <2>4, <2>5 DEF KernelInv
<1> QED
  BY <1>3, <1>4

(* The checks come before the first byte is printed. *)
LEMMA sys_writeInv == ASSUME KernelInv, sys_write PROVE KernelInv'
<1>1. /\ at = "sys_write" /\ at \in CallCode /\ at \in PlainCode
      /\ at \notin UserCode
      /\ UNCHANGED <<pic, kbc, zeos_ticks, req, errno, c, printed, errno0, timer>>
  BY DEF sys_write, CallCode, PlainCode, UserCode
<1>2. printed = <<>> /\ InWrite /\ errno = errno0 /\ InOrder
  BY <1>1, PlainHere DEF KernelInv, CallData
<1>3. req.size \in Int /\ write_checks \in Int
  BY DEF KernelInv, TypeOK, write_checks, check_fd, EBADF, EACCES, EINVAL, EFAULT
<1>4. CASE write_checks < 0
  <2>1. Return(write_checks) /\ UNCHANGED w
    BY <1>4 DEF sys_write
  <2> QED
    BY <1>1, <1>2, <1>3, <1>4, <2>1, ReturnInv
<1>5. CASE write_checks >= 0
  <2>1. /\ w' = [NoWrite EXCEPT !.left = req.size] /\ at' = "copy_from_user"
        /\ UNCHANGED <<iflag, stack, eax, sysret>>
    BY <1>3, <1>5 DEF sys_write, Goto
  <2>2. req.size >= 0
    BY <1>3, <1>5 DEF write_checks, check_fd, EBADF, EACCES, EINVAL, EFAULT
  <2>3. w' = [left |-> req.size, current |-> 0, i |-> 0, written |-> 0, buff |-> <<>>]
    BY <2>1 DEF NoWrite
  <2>4. at' \in PlainCode /\ at' \notin UserCode
    BY <2>1 DEF PlainCode, CallCode, UserCode
  <2>5. TypeOK'
    <3>1. <<>> \in Seq(Int)
      BY EmptySeq
    <3>2. w' \in [left : Nat, current : Nat, i : Nat, written : Nat, buff : Seq(Int)]
      BY <1>3, <2>2, <2>3, <3>1
    <3> QED
      BY <1>1, <2>1, <2>4, <3>2, PlainHerePrimed DEF KernelInv, TypeOK, pic, timer
  <2>6. NoNesting' /\ InService' /\ KeyWaits' /\ TicksAdd'
    BY <1>1, <2>1, <2>4, PlainKept, PlainNesting DEF One, KernelInv, NoNesting
  <2>7. CallData'
    <3>1. Here' = "copy_from_user"
      BY <2>1, <2>4, PlainHerePrimed
    <3>2. InOrder'
      BY <1>1, <1>2 DEF InOrder
    <3>3. WriteProgress' /\ w'.i = 0
      BY <1>1, <1>2, <1>3, <2>3 DEF WriteProgress, InWrite
    <3> QED
      BY <1>1, <1>2, <2>1, <3>1, <3>2, <3>3 DEF CallData, InWrite
  <2> QED
    BY <2>5, <2>6, <2>7 DEF KernelInv
<1> QED
  BY <1>3, <1>4, <1>5

LEMMA ChunkType ==
  ASSUME KernelInv
  PROVE  /\ chunk \in Nat /\ chunk <= w.left /\ w.left \in Nat /\ w.current \in Nat
         /\ w.i \in Nat /\ w.written \in Nat /\ req.buffer \in Int /\ req.size \in Int
         /\ w.left > CHUNK => chunk = CHUNK
         /\ w.left <= CHUNK => chunk = w.left
         /\ CHUNK \in Nat
<1>1. /\ w.left \in Nat /\ w.current \in Nat /\ w.i \in Nat /\ w.written \in Nat
      /\ req.buffer \in Int /\ req.size \in Int
  BY DEF KernelInv, TypeOK
<1> QED
  BY <1>1, KernelAssumption DEF chunk

LEMMA copy_from_userInv == ASSUME KernelInv, copy_from_user PROVE KernelInv'
<1>1. /\ at = "copy_from_user" /\ at \in CallCode /\ at \in PlainCode
      /\ at \notin UserCode
      /\ UNCHANGED <<pic, kbc, zeos_ticks, eax, req, errno, c, history, timer>>
  BY DEF copy_from_user, CallCode, PlainCode, UserCode
<1>2. CASE PageFault /\ UNCHANGED w
  BY <1>1, <1>2, PageFaultInv DEF syscall
<1>3. CASE /\ w' = [w EXCEPT !.buff = [k \in 1 .. chunk |-> source(k - 1)], !.i = 0]
           /\ Goto("sys_write_console")
  <2> DEFINE b == [k \in 1 .. chunk |-> source(k - 1)]
  <2>1. b \in Seq(Int) /\ Len(b) = chunk /\ \A k \in 1 .. chunk : b[k] = source(k - 1)
    BY ChunkType, SMTT(30) DEF source
  <2> HIDE DEF b
  <2>2. /\ w'.buff = b /\ w'.i = 0
        /\ w'.left = w.left /\ w'.current = w.current /\ w'.written = w.written
        /\ w' \in [left : Nat, current : Nat, i : Nat, written : Nat, buff : Seq(Int)]
    BY <1>3, <2>1 DEF KernelInv, TypeOK, b
  <2>3. at' = "sys_write_console" /\ at' \in PlainCode /\ at' \notin UserCode
        /\ UNCHANGED <<iflag, stack>>
    BY <1>3 DEF Goto, PlainCode, CallCode, UserCode
  <2>4. TypeOK'
    BY <1>1, <2>2, <2>3, PlainHerePrimed
       DEF KernelInv, TypeOK, pic, timer, history
  <2>5. NoNesting' /\ InService' /\ KeyWaits' /\ TicksAdd'
    BY <1>1, <2>3, PlainKept, PlainNesting DEF One, KernelInv, NoNesting
  <2>6. CallData'
    <3>1. Here = "copy_from_user" /\ Here' = "sys_write_console"
      BY <1>1, <2>3, PlainHere, PlainHerePrimed
    <3>2. InOrder /\ WriteProgress /\ w.i = 0 /\ errno = errno0
      BY <1>1, <3>1 DEF KernelInv, CallData
    <3>3. UNCHANGED <<printed, sysret, errno0>>
      BY <1>1 DEF history
    <3>4. InOrder'
      BY <1>1, <3>2, <3>3 DEF InOrder
    <3>5. WriteProgress'
      BY <1>1, <2>2, <3>2, <3>3 DEF WriteProgress, InWrite
    <3>6. chunk' = chunk /\ \A k : source(k)' = source(k)
      BY <1>1, <2>2 DEF chunk, source
    <3>7. /\ w'.i <= chunk' /\ Len(w'.buff) = chunk'
          /\ \A k \in 1 .. chunk' : w'.buff[k] = source(k - 1)'
      BY <2>1, <2>2, <3>6, ChunkType
    <3> QED
      BY <1>1, <3>1, <3>2, <3>3, <3>4, <3>5, <3>7 DEF CallData
  <2> QED
    BY <2>4, <2>5, <2>6 DEF KernelInv
<1> QED
  BY <1>2, <1>3 DEF copy_from_user

(* One more byte printed: the next of the buffer. *)
LEMMA PrintcInv ==
  ASSUME KernelInv, at = "sys_write_console", w.i < chunk,
         printed' = Append(printed, w.buff[w.i + 1]), w' = [w EXCEPT !.i = @ + 1],
         UNCHANGED <<cpu, pic, kbc, zeos_ticks, eax, req, errno, c, sysret, errno0, timer>>
  PROVE  KernelInv'
<1>1. /\ at' = at /\ stack' = stack /\ iflag' = iflag
      /\ at \in PlainCode /\ at' \in PlainCode /\ at \notin UserCode
  BY DEF cpu, PlainCode, CallCode, UserCode
<1>2. /\ Here = "sys_write_console" /\ Here' = "sys_write_console"
      /\ Here \in CallCode
  BY <1>1, PlainHere, PlainHerePrimed DEF CallCode
<1>3. /\ InOrder /\ WriteProgress /\ Len(w.buff) = chunk /\ errno = errno0
      /\ \A k \in 1 .. chunk : w.buff[k] = source(k - 1)
  BY <1>2 DEF KernelInv, CallData
<1>4. /\ w'.i = w.i + 1 /\ w'.left = w.left /\ w'.current = w.current
      /\ w'.written = w.written /\ w'.buff = w.buff
      /\ w' \in [left : Nat, current : Nat, i : Nat, written : Nat, buff : Seq(Int)]
  <2>1. w \in [left : Nat, current : Nat, i : Nat, written : Nat, buff : Seq(Int)]
    BY DEF KernelInv, TypeOK
  <2>2. w.i + 1 \in Nat
    BY ChunkType
  <2>3. w' = [left |-> w.left, current |-> w.current, i |-> w.i + 1,
              written |-> w.written, buff |-> w.buff]
    BY <2>1
  <2> QED
    BY <2>1, <2>2, <2>3
<1>5. /\ w.buff[w.i + 1] = req.buffer + w.current + w.i
      /\ w.buff[w.i + 1] \in Int
  <2>1. w.i + 1 \in 1 .. chunk
    BY ChunkType
  <2>2. w.buff[w.i + 1] = source((w.i + 1) - 1)
    BY <1>3, <2>1
  <2> QED
    BY <2>2, ChunkType DEF source
<1>6. printed \in Seq(Int)
  BY DEF KernelInv, TypeOK
<1>7. /\ printed' \in Seq(Int) /\ Len(printed') = Len(printed) + 1
      /\ \A k \in 1 .. Len(printed) : printed'[k] = printed[k]
      /\ printed'[Len(printed) + 1] = req.buffer + w.current + w.i
  BY <1>5, <1>6
<1>8. TypeOK'
  BY <1>1, <1>4, <1>7, PlainHerePrimed DEF KernelInv, TypeOK, pic, timer
<1>9. NoNesting' /\ InService' /\ KeyWaits' /\ TicksAdd'
  BY <1>1, PlainKept, PlainNesting DEF One, KernelInv, NoNesting
<1>10. CallData'
  <2>1. Len(printed) = w.current + w.i /\ Len(printed) \in Nat
    BY <1>3, <1>6 DEF WriteProgress
  <2>2. InOrder'
    <3> SUFFICES ASSUME NEW k \in 1 .. Len(printed')
                 PROVE  printed'[k] = req.buffer + k - 1
      BY DEF InOrder
    <3>1. CASE k \in 1 .. Len(printed)
      BY <1>3, <1>7, <3>1 DEF InOrder
    <3>2. CASE k = Len(printed) + 1
      BY <1>7, <2>1, <3>2, ChunkType
    <3> QED
      BY <1>7, <2>1, <3>1, <3>2
  <2>3. WriteProgress'
    BY <1>3, <1>4, <1>7, <2>1, ChunkType, SMTT(30) DEF WriteProgress, InWrite
  <2>4. chunk' = chunk /\ \A k : source(k)' = source(k)
    BY <1>4 DEF chunk, source
  <2>5. /\ w'.i <= chunk' /\ Len(w'.buff) = chunk'
        /\ \A k \in 1 .. chunk' : w'.buff[k] = source(k - 1)'
    BY <1>3, <1>4, <2>4, ChunkType, SMTT(30)
  <2>6. errno' = errno0'
    BY <1>3
  <2> QED
    BY <1>2, <2>2, <2>3, <2>5, <2>6 DEF CallData
<1> QED
  BY <1>8, <1>9, <1>10 DEF KernelInv

LEMMA sys_write_consoleInv == ASSUME KernelInv, sys_write_console PROVE KernelInv'
<1>1. /\ at = "sys_write_console" /\ at \in CallCode /\ at \in PlainCode
      /\ at \notin UserCode
      /\ UNCHANGED <<pic, kbc, zeos_ticks, req, errno, c, errno0, timer>>
  BY DEF sys_write_console, CallCode, PlainCode, UserCode
<1>2. /\ InOrder /\ WriteProgress /\ errno = errno0 /\ Here = "sys_write_console"
  BY <1>1, PlainHere DEF KernelInv, CallData
<1>3. CASE /\ w.i < chunk
           /\ printed' = Append(printed, w.buff[w.i + 1])
           /\ w' = [w EXCEPT !.i = @ + 1]
           /\ UNCHANGED <<cpu, eax, sysret>>
  BY <1>1, <1>3, PrintcInv
<1>4. CASE /\ w.i = chunk /\ w.left > CHUNK
           /\ w' = [w EXCEPT !.written = written_chars, !.current = @ + CHUNK,
                             !.left = @ - CHUNK, !.i = 0, !.buff = <<>>]
           /\ Goto("copy_from_user")
           /\ UNCHANGED <<printed, eax, sysret>>
  <2>1. <<>> \in Seq(Int) /\ w.left - CHUNK \in Nat /\ chunk = CHUNK
    BY <1>4, ChunkType, EmptySeq
  <2>2. written_chars = w.written + CHUNK
    BY <2>1 DEF written_chars
  <2>3. /\ w'.i = 0 /\ w'.left = w.left - CHUNK /\ w'.current = w.current + CHUNK
        /\ w'.written = w.written + CHUNK
        /\ w' \in [left : Nat, current : Nat, i : Nat, written : Nat, buff : Seq(Int)]
    <3>1. w \in [left : Nat, current : Nat, i : Nat, written : Nat, buff : Seq(Int)]
      BY DEF KernelInv, TypeOK
    <3>2. w.written + CHUNK \in Nat /\ w.current + CHUNK \in Nat
      BY ChunkType
    <3> QED
      BY <1>4, <2>1, <2>2, <3>1, <3>2
  <2>4. at' = "copy_from_user" /\ at' \in PlainCode /\ at' \notin UserCode
        /\ UNCHANGED <<iflag, stack>>
    BY <1>4 DEF Goto, PlainCode, CallCode, UserCode
  <2>5. TypeOK'
    BY <1>1, <1>4, <2>3, <2>4, PlainHerePrimed DEF KernelInv, TypeOK, pic, timer
  <2>6. NoNesting' /\ InService' /\ KeyWaits' /\ TicksAdd'
    BY <1>1, <2>4, PlainKept, PlainNesting DEF One, KernelInv, NoNesting
  <2>7. CallData'
    <3>1. Here' = "copy_from_user"
      BY <2>4, PlainHerePrimed
    <3>2. InOrder'
      BY <1>1, <1>2, <1>4 DEF InOrder
    <3>3. w.i = CHUNK
      BY <1>4, <2>1
    <3>4. WriteProgress'
      BY <1>1, <1>2, <1>4, <2>3, <3>3, ChunkType DEF WriteProgress, InWrite
    <3>5. errno' = errno0'
      BY <1>1, <1>2
    <3> QED
      BY <2>3, <3>1, <3>2, <3>4, <3>5 DEF CallData
  <2> QED
    BY <2>5, <2>6, <2>7 DEF KernelInv
<1>5. CASE /\ w.i = chunk /\ w.left <= CHUNK
           /\ Return(written_chars)
           /\ w' = NoWrite
           /\ UNCHANGED printed
  <2>1. /\ chunk = w.left /\ written_chars = req.size /\ Len(printed) = req.size
        /\ req.size \in Int
    BY <1>2, <1>5, ChunkType DEF WriteProgress, written_chars
  <2>2. /\ eax' = req.size /\ sysret' = req.size /\ at' = "sysenter_fin"
        /\ UNCHANGED <<iflag, stack>>
    BY <1>5, <2>1 DEF Return, Goto
  <2>3. at' \in PlainCode /\ at' \notin UserCode
    BY <2>2 DEF PlainCode, CallCode, UserCode
  <2>4. TypeOK'
    <3>1. <<>> \in Seq(Int)
      BY EmptySeq
    <3>2. w' \in [left : Nat, current : Nat, i : Nat, written : Nat, buff : Seq(Int)]
      BY <1>5, <3>1 DEF NoWrite
    <3> QED
      BY <1>1, <1>5, <2>1, <2>2, <2>3, <3>2, PlainHerePrimed
         DEF KernelInv, TypeOK, pic, timer
  <2>5. NoNesting' /\ InService' /\ KeyWaits' /\ TicksAdd'
    BY <1>1, <2>2, <2>3, PlainKept, PlainNesting DEF One, KernelInv, NoNesting
  <2>6. CallData'
    <3>1. Here' = "sysenter_fin"
      BY <2>2, <2>3, PlainHerePrimed
    <3>2. InOrder'
      BY <1>1, <1>2, <1>5 DEF InOrder
    <3>3. errno' = errno0' /\ eax' = sysret'
          /\ sysret' = req'.size /\ Len(printed') = req'.size
      BY <1>1, <1>2, <1>5, <2>1, <2>2
    <3> QED
      BY <3>1, <3>2, <3>3 DEF CallData
  <2> QED
    BY <2>4, <2>5, <2>6 DEF KernelInv
<1> QED
  BY <1>3, <1>4, <1>5 DEF sys_write_console
---------------------------------------------------------------------------
LEMMA StutterInv == ASSUME KernelInv, UNCHANGED vars PROVE KernelInv'
<1>1. UNCHANGED <<at, iflag, stack, irr, isr, kbc, zeos_ticks, eax, req, w, errno,
                  c, printed, sysret, errno0, pulses, lost>>
  BY DEF vars, cpu, pic, syscall, history, timer
<1>2. TypeOK' /\ NoNesting' /\ InService' /\ KeyWaits' /\ TicksAdd'
  BY <1>1 DEF KernelInv, TypeOK, NoNesting, InService, KeyWaits, TicksAdd, Accounted
<1>3. CallData'
  BY <1>1, CallDataKept DEF KernelInv, Here, syscall, history
<1> QED
  BY <1>2, <1>3 DEF KernelInv

LEMMA UserCallInv == ASSUME KernelInv, UserCall PROVE KernelInv'
<1>1. ASSUME NEW fd \in Fds, NEW buffer \in Buffers, NEW size \in Sizes,
             write(fd, buffer, size)
      PROVE  KernelInv'
  <2>1. fd \in Int /\ buffer \in Int /\ size \in Int /\ NR_WRITE \in Int
    BY KernelAssumption
  <2> QED
    BY <1>1, <2>1, SYSCALLInv DEF write
<1>2. CASE gettime
  <2>1. NR_GETTIME \in Int
    BY KernelAssumption
  <2> QED
    BY <1>2, <2>1, SYSCALLInv DEF gettime
<1>3. ASSUME NEW nr \in Sysnos, other_call(nr) PROVE KernelInv'
  <2>1. nr \in Int
    BY KernelAssumption
  <2> QED
    BY <1>3, <2>1, SYSCALLInv DEF other_call
<1> QED
  BY <1>1, <1>2, <1>3 DEF UserCall

LEMMA KernelStepInv == ASSUME KernelInv, KernelStep PROVE KernelInv'
BY clock_handlerInv, clock_routineInv, iretInv, keyboard_routineInv,
   keyboard_handlerInv, print_page_faultInv, syscall_handlerInv, NotWriteInv,
   sys_writeInv, copy_from_userInv, sys_write_consoleInv, sysenter_finInv
   DEF KernelStep

LEMMA NextInv == ASSUME KernelInv, [Next]_vars PROVE KernelInv'
BY TimerPulseInv, KeyEventInv, DeliverInv, KernelStepInv, UserCallInv,
   CHECK_ERRORInv, UserResumesInv, UserFaultInv, StutterInv
   DEF Next

(* The inductive invariant of the running kernel. *)
THEOREM KernelInvariant == Spec => []KernelInv
BY InitInv, NextInv, PTL DEF Spec
---------------------------------------------------------------------------
(* Kernel.TypeOK holds throughout. *)
THEOREM TypeCorrect == Spec => []TypeOK
<1>1. KernelInv => TypeOK
  BY DEF KernelInv
<1> QED
  BY <1>1, KernelInvariant, PTL

(* The system calls and the handlers are never interrupted, whatever the   *)
(* devices do: SYSENTER and the interrupt gates clear IF and only iret and *)
(* sysenter_fin set it again.                                              *)
THEOREM KernelNotInterrupted == Spec => []NoNesting
<1>1. KernelInv => NoNesting
  BY DEF KernelInv
<1> QED
  BY <1>1, KernelInvariant, PTL

(* What lies below a handler is user code or the faulting copy. *)
LEMMA RunningCode ==
  ASSUME KernelInv, NEW S, S \cap (UserCode \cup {"copy_from_user"}) = {}
  PROVE  Running \cap S = {at} \cap S
<1>1. at \in Code
  BY DEF KernelInv, TypeOK
<1>2. CASE at \in UserCode \cup CallCode \cup {"wild"}
  <2>1. stack = <<>>
    BY <1>2 DEF KernelInv, NoNesting
  <2> QED
    BY <2>1 DEF Running
<1>3. CASE at \in ClockCode \cup KeyCode \cup FaultCode
  <2>1. Len(stack) = 1 /\ stack[1].at \in UserCode \cup {"copy_from_user"}
    BY <1>3 DEF KernelInv, NoNesting
  <2> QED
    BY <2>1 DEF Running
<1> QED
  BY <1>1, <1>2, <1>3 DEF Code

(* The in-service register of the 8259 tells exactly which handler has not *)
(* yet sent its end of interrupt.                                          *)
THEOREM InServiceCorrect == Spec => []InServiceMatches
<1>1. ASSUME KernelInv PROVE InServiceMatches
  <2>1. Running \cap {"clock_handler"} = {at} \cap {"clock_handler"}
    BY <1>1, RunningCode DEF UserCode
  <2>2. Running \cap {"keyboard_routine", "printc_xy", "keyboard_eoi"}
          = {at} \cap {"keyboard_routine", "printc_xy", "keyboard_eoi"}
    BY <1>1, RunningCode DEF UserCode
  <2>3. "clock_handler" \in Running <=> at = "clock_handler"
    BY <2>1
  <2> QED
    BY <1>1, <2>2, <2>3 DEF KernelInv, InService, InServiceMatches
<1> QED
  BY <1>1, KernelInvariant, PTL

(* No scan code is left in the keyboard controller without an interrupt    *)
(* that will have it read, and keyboard_routine never reads an empty one.  *)
THEOREM KeysNotStranded == Spec => []NoStrandedKey
<1>1. ASSUME KernelInv PROVE NoStrandedKey
  <2>1. Running \cap {"keyboard_routine"} = {at} \cap {"keyboard_routine"}
    BY <1>1, RunningCode DEF UserCode
  <2>2. "keyboard_routine" \in Running <=> at = "keyboard_routine"
    BY <2>1
  <2> QED
    BY <1>1, <2>2 DEF KernelInv, KeyWaits, NoStrandedKey
<1> QED
  BY <1>1, KernelInvariant, PTL

(* zeos_ticks misses no pulse but those merged in the 8259's latch, modulo *)
(* the width of the int.                                                   *)
THEOREM TicksConserved == Spec => []TickConservation
<1>1. ASSUME KernelInv PROVE TickConservation
  <2> DEFINE codes == {"clock_handler", "clock_routine"}
  <2>1. Running \cap codes = {at} \cap codes
    BY <1>1, RunningCode DEF UserCode
  <2>2. (Running \cap codes # {}) <=> (at \in codes)
    BY <2>1
  <2>3. One(Running \cap codes # {}) = One(at \in codes)
    BY <2>2 DEF One
  <2>4. Accounted % TICK_RANGE = pulses
    <3>1. pulses \in 0 .. TICK_RANGE - 1
      BY <1>1 DEF KernelInv, TypeOK
    <3> QED
      BY <1>1, <3>1, Wraps DEF KernelInv, TicksAdd
  <2> QED
    BY <2>3, <2>4 DEF Accounted, TickConservation
<1> QED
  BY <1>1, KernelInvariant, PTL

(* sys_write's output is the caller's buffer, in order and without gaps,   *)
(* for every buffer, size, and chunk length.                               *)
THEOREM WritePrintsInOrder == Spec => []WriteInOrder
<1>1. ASSUME KernelInv PROVE WriteInOrder
  <2>1. printed \in Seq(Int) /\ InOrder
    BY <1>1 DEF KernelInv, TypeOK, CallData
  <2> QED
    BY <2>1 DEF InOrder, WriteInOrder
<1> QED
  BY <1>1, KernelInvariant, PTL

(* A write that returns either printed all it was given and says so, or    *)
(* printed nothing and returns an error.                                   *)
THEOREM WriteIsAllOrNothing == Spec => []WriteAllOrNothing
<1>1. ASSUME KernelInv PROVE WriteAllOrNothing
  <2>1. at \in {"sysenter_fin", "check_error", "returned"} => Here = at
    BY DEF Here, HandlerCode, ClockCode, KeyCode, FaultCode
  <2> QED
    BY <1>1, <2>1 DEF KernelInv, CallData, WriteAllOrNothing
<1> QED
  BY <1>1, KernelInvariant, PTL

(* The wrapper hands its caller the service routine's result, or -1 and    *)
(* the error code in errno, however many interrupts came in between.       *)
THEOREM ErrnoIsReported == Spec => []ErrnoContract
<1>1. ASSUME KernelInv PROVE ErrnoContract
  <2>1. at = "returned" => Here = at
    BY DEF Here, HandlerCode, ClockCode, KeyCode, FaultCode
  <2> QED
    BY <1>1, <2>1 DEF KernelInv, CallData, ErrnoContract
<1> QED
  BY <1>1, KernelInvariant, PTL
---------------------------------------------------------------------------
(***************************************************************************)
(* The kernel implements the system calls of module Syscalls, for every    *)
(* page layout, chunk size, tick width and set of calls.                   *)
(*                                                                         *)
(* Each step of Kernel is a step of Syscalls or changes nothing it sees.   *)
(* The argument needs, beside KernelInv, what the dispatch and the checks  *)
(* of sys_write have established before a routine answers: CallServed.     *)
(***************************************************************************)
FirstByte == USER_FIRST_PAGE * PAGE_SIZE
LastByte == (USER_FIRST_PAGE + NUM_PAG_DATA + NUM_PAG_CODE) * PAGE_SIZE - 1

WriteCode == {"copy_from_user", "sys_write_console"}

(* The bytes of the buffer that copy_from_user has been through. *)
Reached == IF Here = "sys_write_console" THEN w.current + chunk ELSE w.current

CallServed ==
  /\ Here = "sys_gettime" => req.nr = NR_GETTIME
  /\ Here = "sys_ni_syscall" => req.nr \notin {NR_WRITE, NR_GETTIME}
  /\ Here \in WriteCode =>
       /\ Abstract!Acceptable
       /\ \A k \in 0 .. Reached - 1 : UserMapped(req.buffer + k)

SyscallInv == KernelInv /\ CallServed
---------------------------------------------------------------------------
(* Pages and addresses. *)
LEMMA DivAtLeast ==
  ASSUME NEW d \in Nat \ {0}, NEW a \in Int, NEW f \in Int
  PROVE  (a \div d) \in Int /\ (f <= (a \div d) <=> f * d <= a)
OBVIOUS

LEMMA SmallMod ==
  ASSUME NEW d \in Nat, NEW a \in Nat, a < d
  PROVE  (a % d) = a
OBVIOUS

(* The bounds of the user's memory. *)
LEMMA Space ==
  /\ FirstByte \in Nat /\ LastByte \in Int /\ PAGE_SIZE \in Nat \ {0}
  /\ FirstByte > 0
  /\ LastByte + PAGE_SIZE < ADDR_RANGE
<1> DEFINE E == USER_FIRST_PAGE + NUM_PAG_DATA + NUM_PAG_CODE
<1>1. /\ E \in Nat /\ PAGE_SIZE \in Nat \ {0} /\ USER_FIRST_PAGE \in Nat \ {0}
      /\ (E + 1) * PAGE_SIZE <= ADDR_RANGE /\ ADDR_RANGE \in Nat
  BY KernelAssumption
<1> HIDE DEF E
<1>2. (E + 1) * PAGE_SIZE = E * PAGE_SIZE + PAGE_SIZE /\ E * PAGE_SIZE \in Nat
  BY <1>1
<1>3. LastByte = E * PAGE_SIZE - 1
  BY DEF LastByte, E
<1>4. USER_FIRST_PAGE * PAGE_SIZE \in Nat /\ USER_FIRST_PAGE * PAGE_SIZE > 0
  BY <1>1
<1> QED
  BY <1>1, <1>2, <1>3, <1>4 DEF FirstByte

LEMMA MappedBytes ==
  ASSUME NEW a \in Int
  PROVE  UserMapped(a) <=> FirstByte <= a /\ a <= LastByte
<1> DEFINE E == USER_FIRST_PAGE + NUM_PAG_DATA + NUM_PAG_CODE
           q == a \div PAGE_SIZE
<1>1. E \in Nat /\ USER_FIRST_PAGE \in Nat /\ PAGE_SIZE \in Nat \ {0}
  BY KernelAssumption
<1>2. UserMapped(a) <=> q \in USER_FIRST_PAGE .. E - 1
  BY KernelAssumption DEF UserMapped
<1>3. FirstByte = USER_FIRST_PAGE * PAGE_SIZE /\ LastByte = E * PAGE_SIZE - 1
  BY DEF FirstByte, LastByte
<1>4. q \in Int /\ (USER_FIRST_PAGE <= q <=> USER_FIRST_PAGE * PAGE_SIZE <= a)
                /\ (E <= q <=> E * PAGE_SIZE <= a)
  BY <1>1, DivAtLeast
<1> HIDE DEF q, E
<1>5. E * PAGE_SIZE \in Int /\ USER_FIRST_PAGE * PAGE_SIZE \in Int
  BY <1>1
<1> QED
  BY <1>1, <1>2, <1>3, <1>4, <1>5

(* access_ok lets through every block of memory the program owns. *)
LEMMA AccessGranted ==
  ASSUME NEW addr \in Int, NEW size \in Nat, FirstByte <= addr,
         addr + size - 1 <= LastByte, addr <= LastByte
  PROVE  access_ok(addr, size)
<1> DEFINE E == USER_FIRST_PAGE + NUM_PAG_DATA + NUM_PAG_CODE
           q == addr \div PAGE_SIZE
           end == addr + size
           r == end \div PAGE_SIZE
<1>1. E \in Nat /\ USER_FIRST_PAGE \in Nat /\ PAGE_SIZE \in Nat \ {0} /\ ADDR_RANGE \in Nat
      /\ E = USER_FIRST_PAGE + NUM_PAG_CODE + NUM_PAG_DATA
  BY KernelAssumption
<1>2. end \in Nat /\ end < ADDR_RANGE /\ addr \in Nat /\ end <= LastByte + 1 /\ addr <= end
  BY <1>1, Space
<1>3. access_ok(addr, size) <=> r >= q /\ q >= USER_FIRST_PAGE /\ r <= E
  <2>1. ((addr + size) % ADDR_RANGE) = end
    BY <1>1, <1>2, SmallMod
  <2> QED
    BY <1>1, <2>1 DEF access_ok
<1>4. LastByte + 1 = E * PAGE_SIZE /\ FirstByte = USER_FIRST_PAGE * PAGE_SIZE
  BY <1>1 DEF LastByte, FirstByte
<1> HIDE DEF E, end
<1>5. q \in Int /\ q * PAGE_SIZE <= addr
  BY <1>1, DivAtLeast
<1>6. q >= USER_FIRST_PAGE
  BY <1>1, <1>4, DivAtLeast
<1>7. r \in Int /\ r >= q
  <2>1. q * PAGE_SIZE \in Int
    BY <1>1, <1>5
  <2>2. q * PAGE_SIZE <= end
    BY <1>2, <1>5, <2>1
  <2> HIDE DEF q
  <2> QED
    BY <1>1, <1>2, <1>5, <2>2, DivAtLeast
<1>8. ~(E + 1 <= r)
  <2>1. (E + 1) * PAGE_SIZE = E * PAGE_SIZE + PAGE_SIZE /\ E * PAGE_SIZE \in Int
    BY <1>1
  <2>2. ~((E + 1) * PAGE_SIZE <= end)
    BY <1>1, <1>2, <1>4, <2>1
  <2>3. E + 1 \in Int /\ end \in Int
    BY <1>1, <1>2
  <2> QED
    BY <1>1, <2>2, <2>3, DivAtLeast
<1> HIDE DEF q, r
<1> QED
  BY <1>1, <1>3, <1>5, <1>6, <1>7, <1>8
---------------------------------------------------------------------------
(* What Syscalls sees of a state. *)
LEMMA BaseIsHere == ASSUME KernelInv PROVE Base = Here
<1>1. at \in Code
  BY DEF KernelInv, TypeOK
<1>2. CASE at \in HandlerCode
  <2>1. Len(stack) = 1 /\ stack # <<>>
    BY <1>2 DEF KernelInv, NoNesting, HandlerCode
  <2> QED
    BY <1>2, <2>1 DEF Base, Here
<1>3. CASE at \notin HandlerCode
  <2>1. stack = <<>>
    BY <1>1, <1>3 DEF KernelInv, NoNesting, HandlerCode, Code
  <2> QED
    BY <1>3, <2>1 DEF Base, Here
<1> QED
  BY <1>2, <1>3

LEMMA BaseIsHerePrimed == ASSUME KernelInv' PROVE Base' = Here'
<1>1. at' \in Code
  BY DEF KernelInv, TypeOK
<1>2. CASE at' \in HandlerCode
  <2>1. Len(stack') = 1 /\ stack' # <<>>
    BY <1>2 DEF KernelInv, NoNesting, HandlerCode
  <2> QED
    BY <1>2, <2>1 DEF Base, Here
<1>3. CASE at' \notin HandlerCode
  <2>1. stack' = <<>>
    BY <1>1, <1>3 DEF KernelInv, NoNesting, HandlerCode, Code
  <2> QED
    BY <1>3, <2>1 DEF Base, Here
<1> QED
  BY <1>2, <1>3

LEMMA Seen ==
  ASSUME KernelInv
  PROVE  /\ CallPhase = IF at \in FaultCode THEN "halted" ELSE PhaseOf(Here)
         /\ CallResult = IF Here = "returned" THEN eax ELSE 0
BY BaseIsHere DEF CallPhase, CallResult

LEMMA SeenPrimed ==
  ASSUME KernelInv'
  PROVE  /\ CallPhase' = IF at' \in FaultCode THEN "halted" ELSE PhaseOf(Here')
         /\ CallResult' = IF Here' = "returned" THEN eax' ELSE 0
BY BaseIsHerePrimed DEF CallPhase, CallResult

(* A step of the devices or of a handler that leaves the call alone. *)
LEMMA Unseen ==
  ASSUME SyscallInv, KernelInv', Here' = Here, at' \in FaultCode <=> at \in FaultCode,
         UNCHANGED <<syscall, history, zeos_ticks>>
  PROVE  CallServed' /\ UNCHANGED Abstract!vars
<1>1. UNCHANGED <<eax, req, w, errno, printed, sysret>>
  BY DEF syscall, history
<1>2. UNCHANGED <<CallPhase, CallResult>>
  BY <1>1, Seen, SeenPrimed DEF SyscallInv
<1>3. UNCHANGED Abstract!vars
  BY <1>1, <1>2 DEF Abstract!vars
<1>4. Reached' = Reached
  BY <1>1 DEF Reached, chunk
<1>5. CallServed'
  BY <1>1, <1>4 DEF SyscallInv, CallServed, Abstract!Acceptable, UserMapped
<1> QED
  BY <1>3, <1>5
---------------------------------------------------------------------------
(* Devices and handlers. *)
LEMMA DeviceStep ==
  ASSUME SyscallInv, KernelInv', UNCHANGED <<cpu, syscall, history, zeos_ticks>>
  PROVE  CallServed' /\ UNCHANGED Abstract!vars
<1>1. Here' = Here /\ at' = at
  BY DEF cpu, Here
<1> QED
  BY <1>1, Unseen

LEMMA DeliverStep ==
  ASSUME SyscallInv, KernelInv', NEW irq \in {CLOCK, KEYBOARD}, Deliver(irq)
  PROVE  CallServed' /\ UNCHANGED Abstract!vars
<1> DEFINE context == [at |-> at, iflag |-> iflag]
<1>1. /\ iflag = 1 /\ stack' = <<context>> \o stack
      /\ at' \in {"clock_handler", "keyboard_routine"}
      /\ UNCHANGED <<syscall, history, zeos_ticks>>
  BY DEF Deliver, Deliverable, Enter
<1>2. at \in UserCode /\ stack = <<>>
  BY <1>1 DEF SyscallInv, KernelInv, NoNesting, One
<1>3. stack'[1] = context
  BY <1>1, <1>2, OneContext
<1>4. at' \in HandlerCode /\ at \notin HandlerCode /\ at' \notin FaultCode /\ at \notin FaultCode
  BY <1>1, <1>2 DEF HandlerCode, ClockCode, KeyCode, UserCode, FaultCode
<1>5. Here' = Here
  BY <1>3, <1>4 DEF Here
<1> QED
  BY <1>1, <1>4, <1>5, Unseen

LEMMA HandlerStep ==
  ASSUME SyscallInv, KernelInv',
         \/ clock_handler \/ keyboard_routine \/ keyboard_printc_xy \/ keyboard_eoi
         \/ print_page_fault
  PROVE  CallServed' /\ UNCHANGED Abstract!vars
<1>1. /\ \/ at \in ClockCode \cup KeyCode /\ at' \in ClockCode \cup KeyCode
         \/ at \in FaultCode /\ at' \in FaultCode
      /\ stack' = stack /\ UNCHANGED <<syscall, history, zeos_ticks>>
  BY DEF clock_handler, keyboard_routine, keyboard_printc_xy, keyboard_eoi,
         print_page_fault, Goto, ClockCode, KeyCode, FaultCode
<1>2. Here' = Here /\ (at' \in FaultCode <=> at \in FaultCode)
  BY <1>1 DEF Here, HandlerCode, ClockCode, KeyCode, FaultCode
<1> QED
  BY <1>1, <1>2, Unseen

LEMMA iretStep ==
  ASSUME SyscallInv, KernelInv', clock_iret \/ keyboard_iret
  PROVE  CallServed' /\ UNCHANGED Abstract!vars
<1>1. /\ at \in {"clock_iret", "keyboard_iret"} /\ at' = Head(stack).at
      /\ UNCHANGED <<syscall, history, zeos_ticks>>
  BY DEF clock_iret, keyboard_iret, iret
<1>2. at \in ClockCode \cup KeyCode /\ at \notin FaultCode /\ at \in HandlerCode
  BY <1>1 DEF HandlerCode, ClockCode, KeyCode, FaultCode
<1>3. /\ Len(stack) = 1 /\ stack[1].at \in UserCode
      /\ stack \in Seq([at : Code, iflag : 0..1])
  BY <1>2 DEF SyscallInv, KernelInv, TypeOK, NoNesting
<1>4. at' = stack[1].at
  BY <1>1, <1>3, LastOfOne
<1>5. at' \notin HandlerCode /\ at' \notin FaultCode
  BY <1>3, <1>4 DEF HandlerCode, UserCode, ClockCode, KeyCode, FaultCode
<1>6. Here' = Here
  BY <1>2, <1>4, <1>5 DEF Here
<1> QED
  BY <1>1, <1>2, <1>5, <1>6, Unseen

(* The one step of a handler that Syscalls sees. *)
LEMMA clock_routineStep ==
  ASSUME SyscallInv, KernelInv', clock_routine
  PROVE  CallServed' /\ Abstract!Tick
<1>1. /\ at \in HandlerCode /\ at' \in HandlerCode /\ at \notin FaultCode
      /\ at' \notin FaultCode /\ stack' = stack
      /\ zeos_ticks' = (zeos_ticks + 1) % TICK_RANGE
      /\ UNCHANGED <<eax, req, w, errno, printed, sysret>>
  BY DEF clock_routine, Goto, HandlerCode, ClockCode, KeyCode, FaultCode, syscall, history
<1>2. Here' = Here
  BY <1>1 DEF Here
<1>3. UNCHANGED <<CallPhase, CallResult>>
  BY <1>1, <1>2, Seen, SeenPrimed DEF SyscallInv
<1>4. Reached' = Reached
  BY <1>1, <1>2 DEF Reached, chunk
<1>5. CallServed'
  BY <1>1, <1>2, <1>4 DEF SyscallInv, CallServed, Abstract!Acceptable, UserMapped
<1>6. Abstract!Tick
  BY <1>1, <1>3 DEF Abstract!Tick
<1> QED
  BY <1>5, <1>6
---------------------------------------------------------------------------
(* The program and its calls. *)
LEMMA PlainSeen ==
  ASSUME SyscallInv, KernelInv', at \in PlainCode, at' \in PlainCode
  PROVE  /\ Here = at /\ Here' = at'
         /\ CallPhase = PhaseOf(at) /\ CallPhase' = PhaseOf(at')
         /\ CallResult = IF at = "returned" THEN eax ELSE 0
         /\ CallResult' = IF at' = "returned" THEN eax' ELSE 0
<1>1. at \notin FaultCode /\ at' \notin FaultCode
  BY DEF PlainCode, UserCode, CallCode, FaultCode
<1> QED
  BY <1>1, PlainHere, PlainHerePrimed, Seen, SeenPrimed DEF SyscallInv

LEMMA SYSCALLStep ==
  ASSUME SyscallInv, KernelInv', NEW nr \in Int, NEW fd \in Int, NEW buffer \in Int,
         NEW size \in Int, SYSCALL(nr, fd, buffer, size)
  PROVE  CallServed' /\ Abstract!Invoke
<1>1. /\ at = "user" /\ at' = "syscall_handler"
      /\ req' = [nr |-> nr, fd |-> fd, buffer |-> buffer, size |-> size]
      /\ printed' = <<>> /\ UNCHANGED <<sysret, errno, zeos_ticks>>
  BY DEF SYSCALL, UserRuns
<1>2. at \in PlainCode /\ at' \in PlainCode
  BY <1>1 DEF PlainCode, UserCode, CallCode
<1>3. /\ CallPhase = "user" /\ CallPhase' = "kernel"
      /\ CallResult' = CallResult /\ Here' = "syscall_handler"
  BY <1>1, <1>2, PlainSeen DEF PhaseOf
<1>4. Abstract!Invoke
  BY <1>1, <1>3 DEF Abstract!Invoke
<1> QED
  BY <1>3, <1>4 DEF CallServed, WriteCode

LEMMA UserCallStep ==
  ASSUME SyscallInv, KernelInv', UserCall
  PROVE  CallServed' /\ Abstract!Invoke
<1>1. PICK nr \in Int, fd \in Int, buffer \in Int, size \in Int :
        SYSCALL(nr, fd, buffer, size)
  <2>1. ASSUME NEW fd \in Fds, NEW buffer \in Buffers, NEW size \in Sizes,
               write(fd, buffer, size)
        PROVE  \E n \in Int, f \in Int, b \in Int, z \in Int : SYSCALL(n, f, b, z)
    <3>1. fd \in Int /\ buffer \in Int /\ size \in Int /\ NR_WRITE \in Int
      BY KernelAssumption
    <3> QED
      BY <2>1, <3>1 DEF write
  <2>2. ASSUME gettime
        PROVE  \E n \in Int, f \in Int, b \in Int, z \in Int : SYSCALL(n, f, b, z)
    <3>1. NR_GETTIME \in Int /\ 0 \in Int
      BY KernelAssumption
    <3> QED
      BY <2>2, <3>1 DEF gettime
  <2>3. ASSUME NEW nr \in Sysnos, other_call(nr)
        PROVE  \E n \in Int, f \in Int, b \in Int, z \in Int : SYSCALL(n, f, b, z)
    <3>1. nr \in Int /\ 0 \in Int
      BY KernelAssumption
    <3> QED
      BY <2>3, <3>1 DEF other_call
  <2> QED
    BY <2>1, <2>2, <2>3 DEF UserCall
<1> QED
  BY <1>1, SYSCALLStep

LEMMA CHECK_ERRORStep ==
  ASSUME SyscallInv, KernelInv', CHECK_ERROR
  PROVE  CallServed' /\ Abstract!Deliver
<1>1. /\ at = "check_error" /\ at' = "returned"
      /\ errno' = IF eax < 0 THEN -eax ELSE errno
      /\ eax' = IF eax < 0 THEN -1 ELSE eax
      /\ UNCHANGED <<req, printed, sysret, zeos_ticks>>
  BY DEF CHECK_ERROR, UserRuns, Goto, history
<1>2. at \in PlainCode /\ at' \in PlainCode
  BY <1>1 DEF PlainCode, UserCode
<1>3. /\ CallPhase = "served" /\ CallPhase' = "back" /\ CallResult' = eax'
      /\ Here = "check_error" /\ Here' = "returned"
  BY <1>1, <1>2, PlainSeen DEF PhaseOf
<1>4. eax = sysret
  BY <1>3 DEF SyscallInv, KernelInv, CallData
<1>5. Abstract!Deliver
  BY <1>1, <1>3, <1>4 DEF Abstract!Deliver
<1> QED
  BY <1>3, <1>5 DEF CallServed, WriteCode

LEMMA UserResumesStep ==
  ASSUME SyscallInv, KernelInv', UserResumes
  PROVE  CallServed' /\ Abstract!Resume
<1>1. /\ at = "returned" /\ at' = "user" /\ req' = NoCall
      /\ printed' = <<>> /\ sysret' = 0 /\ UNCHANGED <<errno, zeos_ticks>>
  BY DEF UserResumes, UserRuns, Goto
<1>2. at \in PlainCode /\ at' \in PlainCode
  BY <1>1 DEF PlainCode, UserCode
<1>3. /\ CallPhase = "back" /\ CallPhase' = "user" /\ CallResult' = 0
      /\ Here' = "user"
  BY <1>1, <1>2, PlainSeen DEF PhaseOf
<1>4. Abstract!Resume
  BY <1>1, <1>3 DEF Abstract!Resume, NoCall, Abstract!NoCall
<1> QED
  BY <1>3, <1>4 DEF CallServed, WriteCode

(* A fault of the program, or of copy_from_user on its behalf, halts. *)
LEMMA PageFaultStep ==
  ASSUME SyscallInv, KernelInv', at \in {"user", "copy_from_user"}, PageFault,
         UNCHANGED <<syscall, history, zeos_ticks>>,
         at = "copy_from_user" => ~Abstract!Owned
  PROVE  CallServed' /\ Abstract!Halt
<1> DEFINE context == [at |-> at, iflag |-> iflag]
<1>1. stack' = <<context>> \o stack /\ at' = "print_page_fault"
  BY DEF PageFault, Enter
<1>2. at \in PlainCode /\ at' \in HandlerCode /\ at' \in FaultCode /\ at \notin FaultCode
  BY <1>1 DEF PlainCode, UserCode, CallCode, HandlerCode, FaultCode
<1>3. stack = <<>>
  BY <1>2 DEF SyscallInv, KernelInv, NoNesting, PlainCode
<1>4. stack'[1] = context
  BY <1>1, <1>3, OneContext
<1>5. Here = at /\ Here' = at
  BY <1>2, <1>4, PlainHere DEF Here
<1>6. UNCHANGED <<eax, req, w, errno, printed, sysret>>
  BY DEF syscall, history
<1>7. /\ CallPhase = IF at = "user" THEN "user" ELSE "kernel"
      /\ CallPhase' = "halted" /\ CallResult' = CallResult
  BY <1>2, <1>5, <1>6, Seen, SeenPrimed DEF PhaseOf, SyscallInv
<1>8. at = "copy_from_user" => Abstract!Acceptable
  BY <1>5 DEF SyscallInv, CallServed, WriteCode
<1>9. Abstract!Halt
  BY <1>6, <1>7, <1>8 DEF Abstract!Halt
<1>10. Reached' = Reached
  BY <1>5, <1>6 DEF Reached, chunk
<1>11. CallServed'
  BY <1>5, <1>6, <1>10 DEF SyscallInv, CallServed, Abstract!Acceptable, UserMapped
<1> QED
  BY <1>9, <1>11

LEMMA UserFaultStep ==
  ASSUME SyscallInv, KernelInv', UserFault
  PROVE  CallServed' /\ Abstract!Halt
BY PageFaultStep DEF UserFault, UserRuns

LEMMA sysenter_finStep ==
  ASSUME SyscallInv, KernelInv', sysenter_fin
  PROVE  CallServed' /\ UNCHANGED Abstract!vars
<1>1. /\ at = "sysenter_fin" /\ at' = "check_error"
      /\ UNCHANGED <<req, errno, printed, sysret, zeos_ticks>>
  BY DEF sysenter_fin, syscall, history
<1>2. at \in PlainCode /\ at' \in PlainCode
  BY <1>1 DEF PlainCode, UserCode, CallCode
<1>3. UNCHANGED <<CallPhase, CallResult>> /\ Here' = "check_error"
  BY <1>1, <1>2, PlainSeen DEF PhaseOf
<1> QED
  BY <1>1, <1>3 DEF CallServed, WriteCode, Abstract!vars
---------------------------------------------------------------------------
(* The answers. *)

(* A service routine that answers with value while nothing, or all, of the *)
(* buffer has been shown.                                                  *)
LEMMA AnswerStep ==
  ASSUME SyscallInv, KernelInv', NEW value, at \in CallCode \ {"sysenter_fin"},
         Return(value), value \in Abstract!Answers,
         printed = <<>> \/ Len(printed) = value,
         req.nr = NR_WRITE /\ value > 0 => Len(printed) = value,
         UNCHANGED <<zeos_ticks, req, errno, printed>>
  PROVE  CallServed' /\ Abstract!Serve
<1>1. at' = "sysenter_fin" /\ sysret' = value
  BY DEF Return, Goto
<1>2. at \in PlainCode /\ at' \in PlainCode
  BY <1>1 DEF PlainCode, UserCode, CallCode
<1>3. /\ CallPhase = "kernel" /\ CallPhase' = "served"
      /\ CallResult' = CallResult /\ Here' = "sysenter_fin"
  BY <1>1, <1>2, PlainSeen DEF PhaseOf, CallCode
<1>4. Abstract!Serve
  BY <1>1, <1>3 DEF Abstract!Serve
<1> QED
  BY <1>3, <1>4 DEF CallServed, WriteCode

(* The call stays in the kernel, and has shown nothing more. *)
LEMMA InsideStep ==
  ASSUME SyscallInv, KernelInv', at \in CallCode \ {"sysenter_fin"},
         at' \in (CallCode \cup {"wild"}) \ {"sysenter_fin"},
         UNCHANGED <<zeos_ticks, eax, req, errno, printed, sysret>>
  PROVE  UNCHANGED Abstract!vars
<1>1. at \in PlainCode /\ at' \in PlainCode
  BY DEF PlainCode
<1>2. UNCHANGED <<CallPhase, CallResult>>
  BY <1>1, PlainSeen DEF PhaseOf, CallCode
<1> QED
  BY <1>2 DEF Abstract!vars

LEMMA sys_ni_syscallStep ==
  ASSUME SyscallInv, KernelInv', sys_ni_syscall
  PROVE  CallServed' /\ Abstract!Serve
<1>1. /\ at = "sys_ni_syscall" /\ Return(-ENOSYS)
      /\ UNCHANGED <<zeos_ticks, req, errno, printed>>
  BY DEF sys_ni_syscall
<1>2. at \in CallCode \ {"sysenter_fin"} /\ at \in PlainCode
  BY <1>1 DEF CallCode, PlainCode
<1>3. printed = <<>> /\ req.nr \notin {NR_WRITE, NR_GETTIME}
  BY <1>1, <1>2, PlainHere DEF SyscallInv, KernelInv, CallData, CallServed
<1>4. -ENOSYS \in Abstract!Answers
  BY <1>3 DEF Abstract!Answers
<1> QED
  BY <1>1, <1>2, <1>3, <1>4, AnswerStep

LEMMA sys_gettimeStep ==
  ASSUME SyscallInv, KernelInv', sys_gettime
  PROVE  CallServed' /\ Abstract!Serve
<1>1. /\ at = "sys_gettime" /\ Return(get_clock_ticks)
      /\ UNCHANGED <<zeos_ticks, req, errno, printed>>
  BY DEF sys_gettime
<1>2. at \in CallCode \ {"sysenter_fin"} /\ at \in PlainCode
  BY <1>1 DEF CallCode, PlainCode
<1>3. printed = <<>> /\ req.nr = NR_GETTIME /\ NR_WRITE # NR_GETTIME
  BY <1>1, <1>2, PlainHere, KernelAssumption DEF SyscallInv, KernelInv, CallData, CallServed
<1>4. get_clock_ticks \in Abstract!Answers
  BY <1>3 DEF Abstract!Answers, Abstract!Count, get_clock_ticks
<1> QED
  BY <1>1, <1>2, <1>3, <1>4, AnswerStep

(* A number outside the table is answered at once; the others go to the    *)
(* routine that serves them.                                               *)
LEMMA syscall_handlerStep ==
  ASSUME SyscallInv, KernelInv', syscall_handler
  PROVE  CallServed' /\ [Abstract!Next]_Abstract!vars
<1>1. at = "syscall_handler" /\ UNCHANGED <<zeos_ticks, req, errno, printed>>
  BY DEF syscall_handler
<1>2. at \in CallCode \ {"sysenter_fin"} /\ at \in PlainCode
  BY <1>1 DEF CallCode, PlainCode
<1>3. printed = <<>> /\ eax = req.nr /\ eax \in Int
  BY <1>1, <1>2, PlainHere DEF SyscallInv, KernelInv, CallData, TypeOK
<1>4. CASE eax < 0 \/ eax > MAX_SYSCALL
  <2>1. Return(-ENOSYS)
    BY <1>4 DEF syscall_handler, Return
  <2>2. req.nr \notin {NR_WRITE, NR_GETTIME}
    BY <1>3, <1>4, KernelAssumption
  <2>3. -ENOSYS \in Abstract!Answers
    BY <2>2 DEF Abstract!Answers
  <2> QED
    BY <1>1, <1>2, <1>3, <2>1, <2>2, <2>3, AnswerStep DEF Abstract!Next
<1>5. CASE ~(eax < 0 \/ eax > MAX_SYSCALL)
  <2>1. /\ at' \in {"sys_write", "sys_gettime", "sys_ni_syscall", "wild"}
        /\ at' = "sys_gettime" => eax = NR_GETTIME
        /\ at' = "sys_ni_syscall" => eax \notin {NR_WRITE, NR_GETTIME}
        /\ UNCHANGED <<eax, sysret>>
    BY <1>5, KernelAssumption DEF syscall_handler, Goto, sys_call_table
  <2>2. at' \in (CallCode \cup {"wild"}) \ {"sysenter_fin"} /\ at' \in PlainCode
    BY <2>1 DEF CallCode, PlainCode
  <2>3. UNCHANGED Abstract!vars
    BY <1>1, <1>2, <2>1, <2>2, InsideStep
  <2>4. Here' = at'
    BY <2>2, PlainHerePrimed
  <2>5. CallServed'
    BY <1>1, <1>3, <2>1, <2>4 DEF CallServed, WriteCode
  <2> QED
    BY <2>3, <2>5
<1> QED
  BY <1>4, <1>5
---------------------------------------------------------------------------
(* sys_write. *)
LEMMA OwnedBytes ==
  Abstract!Owned <=> /\ FirstByte <= req.buffer /\ req.buffer <= LastByte
                     /\ req.buffer + req.size - 1 <= LastByte
BY DEF Abstract!Owned, FirstByte, LastByte

LEMMA sys_writeStep ==
  ASSUME SyscallInv, KernelInv', sys_write
  PROVE  CallServed' /\ [Abstract!Next]_Abstract!vars
<1>1. at = "sys_write" /\ UNCHANGED <<zeos_ticks, req, errno, printed>>
  BY DEF sys_write
<1>2. at \in CallCode \ {"sysenter_fin"} /\ at \in PlainCode
  BY <1>1 DEF CallCode, PlainCode
<1>3. /\ printed = <<>> /\ req.nr = NR_WRITE /\ NR_WRITE # NR_GETTIME
      /\ req.size \in Int /\ req.buffer \in Int
  BY <1>1, <1>2, PlainHere, KernelAssumption
     DEF SyscallInv, KernelInv, CallData, TypeOK, InWrite
<1>4. /\ req.fd # 1 => write_checks = -EBADF
      /\ req.fd = 1 /\ (req.buffer = 0 \/ req.size < 0) => write_checks = -EINVAL
      /\ req.fd = 1 /\ req.buffer # 0 /\ ~(req.size < 0) =>
           write_checks = IF access_ok(req.buffer, req.size) THEN 0 ELSE -EFAULT
  BY DEF write_checks, check_fd, EBADF, ESCRIPTURA, NULL
<1>5. CASE write_checks < 0
  <2>1. Return(write_checks)
    BY <1>5 DEF sys_write
  <2>2. write_checks \in Abstract!Answers
    <3>1. CASE req.fd # 1
      BY <1>3, <1>4, <3>1 DEF Abstract!Answers
    <3>2. CASE req.fd = 1 /\ (req.buffer = 0 \/ req.size < 0)
      <4>1. ~Abstract!Acceptable
        BY <1>3, <3>2 DEF Abstract!Acceptable
      <4> QED
        BY <1>3, <1>4, <3>2, <4>1 DEF Abstract!Answers
    <3>3. CASE req.fd = 1 /\ req.buffer # 0 /\ ~(req.size < 0)
      <4>1. Abstract!Acceptable /\ req.size \in Nat
        BY <1>3, <3>3 DEF Abstract!Acceptable
      <4>2. ~access_ok(req.buffer, req.size) /\ write_checks = -EFAULT
        BY <1>4, <1>5, <3>3
      <4>3. ~Abstract!Owned
        BY <1>3, <4>1, <4>2, OwnedBytes, AccessGranted
      <4> QED
        BY <1>3, <3>3, <4>1, <4>2, <4>3 DEF Abstract!Answers
    <3> QED
      BY <3>1, <3>2, <3>3
  <2>3. ~(write_checks > 0)
    BY <1>4 DEF EBADF, EINVAL, EFAULT
  <2> QED
    BY <1>1, <1>2, <1>3, <2>1, <2>2, <2>3, AnswerStep DEF Abstract!Next
<1>6. CASE write_checks = 0
  <2>1. /\ w' = [NoWrite EXCEPT !.left = req.size] /\ at' = "copy_from_user"
        /\ UNCHANGED <<eax, sysret>>
    BY <1>6 DEF sys_write, Goto
  <2>2. at' \in (CallCode \cup {"wild"}) \ {"sysenter_fin"} /\ at' \in PlainCode
    BY <2>1 DEF CallCode, PlainCode
  <2>3. UNCHANGED Abstract!vars
    BY <1>1, <1>2, <2>1, <2>2, InsideStep
  <2>4. Here' = "copy_from_user" /\ w'.current = 0
    BY <2>1, <2>2, PlainHerePrimed DEF NoWrite
  <2>5. Reached' = 0
    BY <2>4 DEF Reached
  <2>6. Abstract!Acceptable
    BY <1>3, <1>4, <1>6 DEF Abstract!Acceptable, EBADF, EINVAL, EFAULT
  <2>7. CallServed'
    BY <1>1, <2>4, <2>5, <2>6 DEF CallServed, Abstract!Acceptable
  <2> QED
    BY <2>3, <2>7
<1> QED
  BY <1>5, <1>6 DEF sys_write

(* Where the loop of sys_write stands in the buffer. *)
LEMMA InBuffer ==
  ASSUME SyscallInv, Here \in WriteCode
  PROVE  /\ req.nr = NR_WRITE /\ Abstract!Acceptable
         /\ req.size = w.current + w.left /\ req.size \in Nat
         /\ req.buffer \in Int /\ w.current \in Nat /\ chunk \in Nat
         /\ chunk <= w.left /\ w.left \in Nat /\ w.i \in Nat
         /\ Len(printed) = w.current + w.i
         /\ \A k \in 0 .. Reached - 1 : FirstByte <= req.buffer + k /\ req.buffer + k <= LastByte
<1>1. WriteProgress /\ Abstract!Acceptable
      /\ \A k \in 0 .. Reached - 1 : UserMapped(req.buffer + k)
  BY DEF SyscallInv, KernelInv, CallData, CallServed, WriteCode
<1>2. /\ chunk \in Nat /\ chunk <= w.left /\ w.left \in Nat /\ w.current \in Nat
      /\ req.buffer \in Int /\ w.i \in Nat
  BY ChunkType DEF SyscallInv
<1>3. Reached \in Nat
  BY <1>2 DEF Reached
<1>4. \A k \in 0 .. Reached - 1 : FirstByte <= req.buffer + k /\ req.buffer + k <= LastByte
  <2> SUFFICES ASSUME NEW k \in 0 .. Reached - 1
               PROVE  FirstByte <= req.buffer + k /\ req.buffer + k <= LastByte
    OBVIOUS
  <2>1. req.buffer + k \in Int
    BY <1>2, <1>3
  <2> QED
    BY <1>1, <2>1, MappedBytes
<1>5. req.size = w.current + w.left /\ Len(printed) = w.current + w.i /\ req.nr = NR_WRITE
  BY <1>1 DEF WriteProgress, InWrite
<1> QED
  BY <1>1, <1>2, <1>4, <1>5

LEMMA copy_from_userStep ==
  ASSUME SyscallInv, KernelInv', copy_from_user
  PROVE  CallServed' /\ [Abstract!Next]_Abstract!vars
<1>1. at = "copy_from_user" /\ UNCHANGED <<zeos_ticks, eax, req, errno, printed, sysret, history>>
  BY DEF copy_from_user, history
<1>2. at \in CallCode \ {"sysenter_fin"} /\ at \in PlainCode
  BY <1>1 DEF CallCode, PlainCode
<1>3. Here = "copy_from_user" /\ Here \in WriteCode /\ Reached = w.current
  BY <1>1, <1>2, PlainHere DEF WriteCode, Reached
<1>4. \A k : source(k) = req.buffer + w.current + k
  BY DEF source
<1>5. CASE (\E k \in 0 .. chunk - 1 : ~UserMapped(source(k))) /\ PageFault /\ UNCHANGED w
  <2>1. PICK k \in 0 .. chunk - 1 : ~UserMapped(req.buffer + w.current + k)
    BY <1>4, <1>5
  <2>2. /\ req.buffer + w.current + k \in Int
        /\ req.buffer <= req.buffer + w.current + k
        /\ req.buffer + w.current + k <= req.buffer + req.size - 1
    <3>1. /\ req.buffer \in Int /\ w.current \in Nat /\ chunk \in Nat
          /\ w.left \in Nat /\ chunk <= w.left /\ req.size = w.current + w.left
      BY <1>3, InBuffer
    <3> QED
      BY <3>1
  <2>3. ~(FirstByte <= req.buffer + w.current + k /\ req.buffer + w.current + k <= LastByte)
    BY <2>1, <2>2, MappedBytes
  <2>4. ~Abstract!Owned
    <3>1. req.buffer \in Int /\ req.size \in Nat /\ FirstByte \in Int /\ LastByte \in Int
      BY <1>3, InBuffer, Space
    <3> QED
      BY <2>2, <2>3, <3>1, OwnedBytes
  <2> QED
    BY <1>1, <1>5, <2>4, PageFaultStep DEF syscall, Abstract!Next
<1>6. CASE /\ \A k \in 0 .. chunk - 1 : UserMapped(source(k))
           /\ w' = [w EXCEPT !.buff = [k \in 1 .. chunk |-> source(k - 1)], !.i = 0]
           /\ Goto("sys_write_console")
  <2>1. at' = "sys_write_console"
    BY <1>6 DEF Goto
  <2>2. at' \in (CallCode \cup {"wild"}) \ {"sysenter_fin"} /\ at' \in PlainCode
    BY <2>1 DEF CallCode, PlainCode
  <2>3. UNCHANGED Abstract!vars
    BY <1>1, <1>2, <2>2, InsideStep
  <2>4. Here' = "sys_write_console"
    BY <2>1, <2>2, PlainHerePrimed
  <2>5. w'.left = w.left /\ w'.current = w.current
    <3>1. w \in [left : Nat, current : Nat, i : Nat, written : Nat, buff : Seq(Int)]
      BY DEF SyscallInv, KernelInv, TypeOK
    <3> QED
      BY <1>6, <3>1
  <2>6. Reached' = w.current + chunk
    BY <2>4, <2>5 DEF Reached, chunk
  <2>7. \A k \in 0 .. w.current + chunk - 1 : UserMapped(req.buffer + k)
    <3> SUFFICES ASSUME NEW k \in 0 .. w.current + chunk - 1
                 PROVE  UserMapped(req.buffer + k)
      OBVIOUS
    <3>1. w.current \in Nat /\ chunk \in Nat /\ req.buffer \in Int
      BY <1>3, InBuffer
    <3>2. CASE k < w.current
      <4>1. k \in 0 .. Reached - 1
        BY <1>3, <3>1, <3>2
      <4> QED
        BY <1>3, <4>1 DEF SyscallInv, CallServed
    <3>3. CASE k >= w.current
      <4>1. k - w.current \in 0 .. chunk - 1
            /\ req.buffer + w.current + (k - w.current) = req.buffer + k
        BY <3>1, <3>3
      <4>2. UserMapped(source(k - w.current))
        BY <1>6, <4>1
      <4> QED
        BY <1>4, <4>1, <4>2
    <3> QED
      BY <3>1, <3>2, <3>3
  <2>8. CallServed'
    <3>1. Abstract!Acceptable /\ req' = req
      BY <1>1, <1>3, InBuffer
    <3>2. Abstract!Acceptable'
      BY <3>1 DEF Abstract!Acceptable
    <3>3. (\A k \in 0 .. Reached - 1 : UserMapped(req.buffer + k))'
      <4>1. 0 .. Reached' - 1 = 0 .. w.current + chunk - 1
        <5>1. w.current \in Nat /\ chunk \in Nat
          BY <1>3, InBuffer
        <5>2. Reached' - 1 = w.current + chunk - 1
          BY <2>6, <5>1
        <5> QED
          BY <5>2
      <4>2. \A k : UserMapped(req.buffer + k)' = UserMapped(req.buffer + k)
        BY <3>1 DEF UserMapped
      <4> QED
        BY <2>7, <4>1, <4>2
    <3> QED
      BY <2>4, <3>2, <3>3 DEF CallServed
  <2> QED
    BY <2>3, <2>8
<1> QED
  BY <1>5, <1>6 DEF copy_from_user

LEMMA sys_write_consoleStep ==
  ASSUME SyscallInv, KernelInv', sys_write_console
  PROVE  CallServed' /\ [Abstract!Next]_Abstract!vars
<1>1. at = "sys_write_console" /\ UNCHANGED <<zeos_ticks, req, errno>>
  BY DEF sys_write_console
<1>2. at \in CallCode \ {"sysenter_fin"} /\ at \in PlainCode
  BY <1>1 DEF CallCode, PlainCode
<1>3. /\ Here = "sys_write_console" /\ Here \in WriteCode
      /\ Reached = w.current + chunk
  BY <1>1, <1>2, PlainHere DEF WriteCode, Reached
<1>4. w \in [left : Nat, current : Nat, i : Nat, written : Nat, buff : Seq(Int)]
  BY DEF SyscallInv, KernelInv, TypeOK
<1>5. \A k \in 0 .. Reached - 1 : UserMapped(req.buffer + k)
  BY <1>3 DEF SyscallInv, CallServed
<1>6. /\ req.nr = NR_WRITE /\ Abstract!Acceptable
      /\ req.size = w.current + w.left /\ req.size \in Nat
      /\ req.buffer \in Int /\ w.current \in Nat /\ chunk \in Nat
      /\ chunk <= w.left /\ w.left \in Nat /\ w.i \in Nat
      /\ Len(printed) = w.current + w.i
  BY <1>3, InBuffer
<1>7. \A k \in 0 .. w.current + chunk - 1 :
        FirstByte <= req.buffer + k /\ req.buffer + k <= LastByte
  BY <1>3, InBuffer
<1>8. CASE /\ w.i < chunk
           /\ printed' = Append(printed, w.buff[w.i + 1])
           /\ w' = [w EXCEPT !.i = @ + 1]
           /\ UNCHANGED <<cpu, eax, sysret>>
  <2>1. at' = at /\ at' \in PlainCode
    BY <1>2, <1>8 DEF cpu
  <2>2. CallPhase = "kernel" /\ CallPhase' = "kernel" /\ CallResult' = CallResult
        /\ Here' = "sys_write_console"
    BY <1>1, <1>2, <2>1, PlainSeen DEF PhaseOf
  <2>3. w.buff[w.i + 1] = req.buffer + Len(printed)
    <3>1. w.i + 1 \in 1 .. chunk
      BY <1>6, <1>8
    <3>2. w.buff[w.i + 1] = source((w.i + 1) - 1)
      BY <1>3, <3>1 DEF SyscallInv, KernelInv, CallData
    <3> QED
      BY <1>6, <3>2 DEF source
  <2>4. Len(printed) \in 0 .. w.current + chunk - 1 /\ Len(printed) < req.size
    BY <1>6, <1>8
  <2>5. req.buffer + Len(printed) \in FirstByte .. LastByte
    <3>1. FirstByte <= req.buffer + Len(printed) /\ req.buffer + Len(printed) <= LastByte
      BY <1>7, <2>4
    <3>2. req.buffer + Len(printed) \in Int /\ FirstByte \in Int /\ LastByte \in Int
      BY <1>6, Space
    <3> QED
      BY <3>1, <3>2
  <2>6. Abstract!Byte = req.buffer + Len(printed)
    BY DEF Abstract!Byte
  <2>7. Abstract!Show
    BY <1>1, <1>6, <1>8, <2>2, <2>3, <2>4, <2>5, <2>6
       DEF Abstract!Show, FirstByte, LastByte
  <2>8. w'.left = w.left /\ w'.current = w.current
    BY <1>4, <1>8
  <2>9. Reached' = Reached
    BY <1>3, <2>2, <2>8 DEF Reached, chunk
  <2>10. CallServed'
    BY <1>1, <1>5, <1>6, <2>2, <2>9 DEF CallServed, Abstract!Acceptable, UserMapped
  <2> QED
    BY <2>7, <2>10 DEF Abstract!Next
<1>9. CASE /\ w.i = chunk /\ w.left > CHUNK
           /\ w' = [w EXCEPT !.written = written_chars, !.current = @ + CHUNK,
                             !.left = @ - CHUNK, !.i = 0, !.buff = <<>>]
           /\ Goto("copy_from_user")
           /\ UNCHANGED <<printed, eax, sysret>>
  <2>1. at' = "copy_from_user"
    BY <1>9 DEF Goto
  <2>2. at' \in (CallCode \cup {"wild"}) \ {"sysenter_fin"} /\ at' \in PlainCode
    BY <2>1 DEF CallCode, PlainCode
  <2>3. UNCHANGED Abstract!vars
    BY <1>1, <1>2, <1>9, <2>2, InsideStep
  <2>4. Here' = "copy_from_user"
    BY <2>1, <2>2, PlainHerePrimed
  <2>5. w'.current = w.current + CHUNK /\ chunk = CHUNK
    BY <1>4, <1>9 DEF chunk
  <2>6. Reached' = Reached
    BY <1>3, <2>4, <2>5 DEF Reached
  <2>7. CallServed'
    BY <1>1, <1>5, <1>6, <2>4, <2>6 DEF CallServed, Abstract!Acceptable, UserMapped
  <2> QED
    BY <2>3, <2>7
<1>10. CASE /\ w.i = chunk /\ w.left <= CHUNK
            /\ Return(written_chars)
            /\ w' = NoWrite
            /\ UNCHANGED printed
  <2>1. chunk = w.left
    BY <1>6, <1>10, KernelAssumption DEF chunk
  <2>2. Len(printed) = req.size
    BY <1>6, <1>10, <2>1
  <2>3. written_chars = req.size
    <3>1. w.written = w.current
      BY <1>3 DEF SyscallInv, KernelInv, CallData, WriteProgress
    <3> QED
      BY <1>6, <2>1, <3>1 DEF written_chars
  <2>4. Abstract!Owned \/ req.size = 0
    <3> SUFFICES ASSUME req.size > 0 PROVE Abstract!Owned
      BY <1>6
    <3>1. 0 \in 0 .. w.current + chunk - 1 /\ req.size - 1 \in 0 .. w.current + chunk - 1
      BY <1>6, <2>1
    <3>2. FirstByte <= req.buffer + 0 /\ req.buffer + 0 <= LastByte
          /\ req.buffer + (req.size - 1) <= LastByte
      BY <1>7, <3>1
    <3> QED
      BY <1>6, <3>2, OwnedBytes, Space
  <2>5. req.size \in Abstract!Answers
    <3>1. req.nr # NR_GETTIME /\ req.fd = 1
      BY <1>6, KernelAssumption DEF Abstract!Acceptable
    <3> QED
      BY <1>6, <2>4, <3>1 DEF Abstract!Answers
  <2> QED
    BY <1>1, <1>2, <1>10, <2>2, <2>3, <2>5, AnswerStep DEF Abstract!Next
<1> QED
  BY <1>8, <1>9, <1>10 DEF sys_write_console
---------------------------------------------------------------------------
LEMMA SyscallInit == Init => SyscallInv /\ Abstract!Init
<1> SUFFICES ASSUME Init PROVE CallServed /\ Abstract!Init
  BY InitInv DEF SyscallInv
<1>1. Here = "user" /\ Base = "user" /\ at \notin FaultCode
  BY DEF Init, Here, Base, HandlerCode, ClockCode, KeyCode, FaultCode
<1>2. CallServed
  BY <1>1 DEF CallServed, WriteCode
<1>3. CallPhase = "user" /\ CallResult = 0
  BY <1>1 DEF CallPhase, CallResult, PhaseOf
<1>4. Abstract!Init
  BY <1>3 DEF Init, Abstract!Init, NoCall, Abstract!NoCall
<1> QED
  BY <1>2, <1>4

LEMMA SyscallKernelStep ==
  ASSUME SyscallInv, KernelInv', KernelStep
  PROVE  CallServed' /\ [Abstract!Next]_Abstract!vars
BY HandlerStep, iretStep, clock_routineStep, syscall_handlerStep, sys_ni_syscallStep,
   sys_gettimeStep, sys_writeStep, copy_from_userStep, sys_write_consoleStep,
   sysenter_finStep
   DEF KernelStep, Abstract!Next

LEMMA SyscallNext ==
  ASSUME SyscallInv, [Next]_vars
  PROVE  SyscallInv' /\ [Abstract!Next]_Abstract!vars
<1>1. KernelInv'
  BY NextInv DEF SyscallInv
<1>2. CASE UNCHANGED vars
  <2>1. UNCHANGED <<cpu, syscall, history, zeos_ticks>>
    BY <1>2 DEF vars
  <2> QED
    BY <1>1, <2>1, DeviceStep DEF SyscallInv
<1>3. CASE TimerPulse \/ \E event \in Scancodes : KeyEvent(event)
  <2>1. UNCHANGED <<cpu, syscall, history, zeos_ticks>>
    BY <1>3 DEF TimerPulse, KeyEvent
  <2> QED
    BY <1>1, <2>1, DeviceStep DEF SyscallInv
<1>4. CASE \E irq \in {CLOCK, KEYBOARD} : Deliver(irq)
  BY <1>1, <1>4, DeliverStep DEF SyscallInv
<1>5. CASE KernelStep
  BY <1>1, <1>5, SyscallKernelStep DEF SyscallInv
<1>6. CASE UserCall \/ CHECK_ERROR \/ UserResumes \/ UserFault
  BY <1>1, <1>6, UserCallStep, CHECK_ERRORStep, UserResumesStep, UserFaultStep
     DEF SyscallInv, Abstract!Next
<1> QED
  BY <1>2, <1>3, <1>4, <1>5, <1>6 DEF Next

(* What the dispatch and sys_write's checks have established when a        *)
(* routine runs holds in every reachable state, interrupts or not.         *)
THEOREM CallsAreChecked == Spec => []SyscallInv
BY SyscallInit, SyscallNext, PTL DEF Spec

(* The running kernel, with its chunks, its checks, its stack and its      *)
(* interrupts, implements the system calls of Syscalls: what is written is *)
(* the caller's own memory, byte by byte and all of it if write succeeds;  *)
(* no buffer the program owns is refused; errors arrive as -1 and errno.   *)
THEOREM SyscallsImplemented == Spec => ImplementsSyscalls
BY SyscallInit, SyscallNext, CallsAreChecked, PTL
   DEF Spec, ImplementsSyscalls, Abstract!Spec
===========================================================================
