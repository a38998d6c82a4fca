---------------------------- MODULE BootProofs ----------------------------
(***************************************************************************)
(* Proofs about module Boot, for any addresses of the handlers and of the  *)
(* TSS, any size of a byte and any number of pulses of the timer.          *)
(***************************************************************************)
EXTENDS Boot, SequenceTheorems, TLAPS

(* What each step of the code has left for those after it. *)
Cpus == [iflag : {0, 1}, cpl : {0, 3}, protected : BOOLEAN, ds : {0, KERNEL_DS, USER_DS},
         idtr : {"BIOS", "empty", "idt"}, gdtr : {"none", "gdt"}, tr : Nat,
         msr : [cs : {0, KERNEL_CS}, esp : {"", INITIAL_ESP}, eip : {"", "syscall_handler"}],
         paging : BOOLEAN]
Pics == [base : {8, 32}, mask : SUBSET {CLOCK, KEYBOARD}, irr : SUBSET {CLOCK, KEYBOARD}]
Gates == [lowOffset : Nat, segmentSelector : Nat, flags : Nat, highOffset : Nat]
Mems == [a20 : BOOLEAN, gdt_tss : [lowBase : Nat, midBase : Nat, highBase : Nat],
         esp0 : {"", INITIAL_ESP}, ss0 : {0, KERNEL_DS}, idt : [Vectors -> Gates],
         kernel_pages : BOOLEAN, user_pages : BOOLEAN, user_code : BOOLEAN]

TypeInv ==
  /\ pc \in 1 .. 29 /\ cpu \in Cpus /\ pic \in Pics /\ mem \in Mems
  /\ handler \in {"none", "clock_handler", "keyboard_handler", "page_fault_handler2"}
  /\ zeos_ticks \in Nat /\ pulses \in Nat /\ clocks \in Nat

Ds == IF pc > 22 THEN USER_DS ELSE KERNEL_DS
CpuInv ==
  /\ cpu.cpl = IF pc = 29 THEN 3 ELSE 0
  /\ cpu.iflag = IF handler = "none" /\ (pc = 1 \/ pc > 21) THEN 1 ELSE 0
  /\ pc = 1 => cpu.idtr = "BIOS"
  /\ pc > 4 => cpu.gdtr = "gdt"
  /\ pc > 7 /\ handler = "none" => cpu.ds = Ds
  /\ pc > 10 => cpu.idtr = "idt"
  /\ pc > 11 => cpu.tr = address["tss"]
  /\ pc > 12 => cpu.msr.cs = KERNEL_CS
  /\ pc > 13 => cpu.msr.esp = INITIAL_ESP
  /\ pc > 14 => cpu.msr.eip = "syscall_handler"
  /\ pc > 15 => cpu.paging = TRUE

MemInv ==
  /\ pc > 3 => pic.base = 32
  /\ pc > 2 => mem.a20 = TRUE
  /\ pc > 9 => mem.gdt_tss = Descriptor(address["tss"])
  /\ pc > 10 => mem.idt = [v \in Vectors |-> setInterruptHandler(address[gates[v]], 0)]
  /\ pc > 11 => mem.esp0 = INITIAL_ESP /\ mem.ss0 = KERNEL_DS
  /\ pc > 16 => mem.user_pages = TRUE
  /\ pc > 17 => mem.user_code = TRUE

(* The part of return_gate's frame that is on the stack, and on top of it  *)
(* the frame of the handler that has interrupted it.                       *)
Pushed ==
  IF pc = 25 THEN <<USER_DS>>
  ELSE IF pc = 26 THEN <<USER_DS, USER_ESP>>
  ELSE IF pc = 27 THEN <<USER_DS, USER_ESP, USER_CS>>
  ELSE IF pc = 28 THEN <<USER_DS, USER_ESP, USER_CS, usr_main>>
  ELSE <<>>
StackInv ==
  /\ handler = "none" \/ pc = 29 => stack = Pushed
  /\ handler # "none" /\ pc # 29 => stack = Pushed \o <<"eflags", "cs", "eip", Ds>>
  /\ pc = 29 => user = [ss |-> USER_DS, esp |-> USER_ESP, cs |-> USER_CS, eip |-> usr_main]

(* No handler runs before sti, and only a user program faults. *)
HandlerInv ==
  /\ pc < 22 => handler = "none" /\ clocks = 0 /\ zeos_ticks = 0
  /\ handler = "page_fault_handler2" => pc = 29

BootInv == TypeInv /\ CpuInv /\ MemInv /\ StackInv /\ HandlerInv /\ TicksCounted
---------------------------------------------------------------------------
(* Where the steps lie in the code. *)
LEMMA WholeText ==
  /\ Len(Text) = 28 /\ User = 29
  /\ Text[1] = "cli" /\ Text[2] = "A20_on" /\ Text[3] = "init_8259"
  /\ Text[4] = "lidt_lgdt" /\ Text[5] = "PE"
  /\ Text[6] = "set_eflags" /\ Text[7] = "set_seg_regs" /\ Text[8] = "printk"
  /\ Text[9] = "setGdt" /\ Text[10] = "setIdt" /\ Text[11] = "setTSS"
  /\ Text[12] = "msr_0x174" /\ Text[13] = "msr_0x175" /\ Text[14] = "msr_0x176"
  /\ Text[15] = "init_mm" /\ Text[16] = "monoprocess_init_addr_space"
  /\ Text[17] = "copy_data" /\ Text[18] = "reset_clock_ticks" /\ Text[19] = "printk"
  /\ Text[20] = "out_0x21" /\ Text[21] = "sti" /\ Text[22] = "mov_ds"
  /\ Text[23] = "store_p_rdtr" /\ Text[24] = "push_ss" /\ Text[25] = "push_esp"
  /\ Text[26] = "push_cs" /\ Text[27] = "push_eip" /\ Text[28] = "lret"
BY DEF Text, enter_protected_mode, main, tables, start_interrupts, enable_int, return_gate, User
---------------------------------------------------------------------------
(* The pieces of an address and what the processor makes of them. *)
LEMMA DivMod ==
  ASSUME NEW b \in Nat, b > 1, NEW n \in Nat
  PROVE  n \div b \in Nat /\ n % b \in 0 .. b - 1 /\ n = b * (n \div b) + (n % b)
OBVIOUS

LEMMA Quotient ==
  ASSUME NEW b \in Nat, b > 1, NEW c \in Nat, NEW n \in Nat, n < b * c
  PROVE  n \div b < c
OBVIOUS

LEMMA Below ==
  ASSUME NEW b \in Nat, b > 1, NEW n \in 0 .. b - 1
  PROVE  n % b = n
OBVIOUS

LEMMA ByteSizes == /\ BYTE \in Nat /\ BYTE > 1 /\ WORD \in Nat /\ WORD > 1
                   /\ WORD * BYTE \in Nat /\ WORD * BYTE > 1
                   /\ DWORD = WORD * WORD /\ DWORD = (WORD * BYTE) * BYTE /\ WORD = BYTE * BYTE
BY ByteAssumption DEF WORD, DWORD

LEMMA GateFlags == \A a \in Nat : Present(setInterruptHandler(a, 0))
                                  /\ ClearsIF(setInterruptHandler(a, 0))
BY DEF Present, ClearsIF, setInterruptHandler, Gate, flags

LEMMA GateOffset ==
  ASSUME NEW a \in 1 .. DWORD - 1
  PROVE  Offset(setInterruptHandler(a, 0)) = a
<1>1. a \in Nat /\ a < WORD * WORD
  BY ByteSizes
<1>2. a \div WORD \in Nat /\ a = WORD * (a \div WORD) + (a % WORD) /\ a % WORD \in Nat
  <2>1. WORD \in Nat /\ WORD > 1
    BY ByteSizes
  <2>2. a \div WORD \in Nat /\ a % WORD \in 0 .. WORD - 1 /\ a = WORD * (a \div WORD) + (a % WORD)
    BY <1>1, <2>1, DivMod, Zenon
  <2> QED
    BY <2>1, <2>2
<1>3. a \div WORD < WORD
  BY <1>1, ByteSizes, Quotient
<1>4. highWord(a) = a \div WORD
  BY <1>2, <1>3, ByteSizes, Below DEF highWord
<1> QED
  BY <1>2, <1>4, ByteSizes DEF Offset, setInterruptHandler, Gate, lowWord

LEMMA Bases ==
  ASSUME NEW b \in Nat, b > 1, NEW w \in Nat, w = b * b, NEW x \in Nat
  PROVE  /\ (x \div w) \div b = x \div (w * b)
         /\ x \div w \in Nat
BY SMTT(60)

LEMMA TssBase ==
  ASSUME NEW a \in 1 .. DWORD - 1
  PROVE  Base(Descriptor(a)) = a
<1>1. a \in Nat /\ a < (WORD * BYTE) * BYTE /\ a < WORD * WORD
  BY ByteSizes
<1>2. PICK q \in Nat, l \in Nat : q = a \div WORD /\ l = a % WORD /\ a = WORD * q + l
  <2>1. WORD \in Nat /\ WORD > 1
    BY ByteSizes
  <2>2. a \div WORD \in Nat /\ a % WORD \in 0 .. WORD - 1 /\ a = WORD * (a \div WORD) + (a % WORD)
    BY <1>1, <2>1, DivMod, Zenon
  <2> QED
    BY <2>1, <2>2
<1>3. PICK h \in Nat, m \in Nat : h = q \div BYTE /\ m = q % BYTE /\ q = BYTE * h + m
  <2>1. BYTE \in Nat /\ BYTE > 1
    BY ByteSizes
  <2>2. q \div BYTE \in Nat /\ q % BYTE \in 0 .. BYTE - 1 /\ q = BYTE * (q \div BYTE) + (q % BYTE)
    BY <2>1, DivMod, Zenon
  <2> QED
    BY <2>1, <2>2
<1>4. h = a \div (WORD * BYTE)
  <2>1. BYTE \in Nat /\ BYTE > 1 /\ WORD \in Nat /\ WORD = BYTE * BYTE
    BY ByteSizes
  <2>2. (a \div WORD) \div BYTE = a \div (WORD * BYTE)
    BY <1>1, <2>1, Bases, Zenon
  <2> QED
    BY <1>2, <1>3, <2>2
<1>5. h < BYTE
  BY <1>1, <1>4, ByteSizes, Quotient
<1>6. lowWord(a) = l /\ midByte(a) = m /\ highByte(a) = h
  <2>1. h % BYTE = h
    BY <1>5, ByteSizes, Below
  <2> QED
    BY <1>2, <1>3, <1>4, <2>1 DEF lowWord, midByte, highByte
<1>7. WORD * (BYTE * h + m) = WORD * BYTE * h + WORD * m
  <2>1. \A w, b, x, y \in Int : w * (b * x + y) = w * b * x + w * y
    OBVIOUS
  <2> QED
    BY <2>1, ByteSizes
<1>8. WORD * BYTE * h \in Int /\ WORD * m \in Int
  BY ByteSizes
<1> QED
  BY <1>2, <1>3, <1>6, <1>7, <1>8 DEF Base, Descriptor

LEMMA Places ==
  ASSUME NEW i \in 1 .. 28
  PROVE  /\ Text[i] = "cli" => i = 1
         /\ Text[i] = "A20_on" => i = 2
         /\ Text[i] = "init_8259" => i = 3
         /\ Text[i] = "lidt_lgdt" => i = 4
         /\ Text[i] = "PE" => i = 5
         /\ Text[i] = "set_eflags" => i = 6
         /\ Text[i] = "set_seg_regs" => i = 7
         /\ Text[i] = "printk" => i = 8 \/ i = 19
         /\ Text[i] = "setGdt" => i = 9
         /\ Text[i] = "setIdt" => i = 10
         /\ Text[i] = "setTSS" => i = 11
         /\ Text[i] = "msr_0x174" => i = 12
         /\ Text[i] = "msr_0x175" => i = 13
         /\ Text[i] = "msr_0x176" => i = 14
         /\ Text[i] = "init_mm" => i = 15
         /\ Text[i] = "monoprocess_init_addr_space" => i = 16
         /\ Text[i] = "copy_data" => i = 17
         /\ Text[i] = "reset_clock_ticks" => i = 18
         /\ Text[i] = "out_0x21" => i = 20
         /\ Text[i] = "sti" => i = 21
         /\ Text[i] = "mov_ds" => i = 22
         /\ Text[i] = "store_p_rdtr" => i = 23
         /\ Text[i] = "push_ss" => i = 24
         /\ Text[i] = "push_esp" => i = 25
         /\ Text[i] = "push_cs" => i = 26
         /\ Text[i] = "push_eip" => i = 27
         /\ Text[i] = "lret" => i = 28
BY WholeText
---------------------------------------------------------------------------
(* What a step that leaves a part of the state alone keeps of it. *)
LEMMA AtStep ==
  ASSUME BootInv, NEW step, Run(step), Advance
  PROVE  /\ pc \in 1 .. 28 /\ Text[pc] = step /\ pc' = pc + 1 /\ pc' \in 1 .. 29
         /\ handler = "none"
BY WholeText DEF Run, Advance, BootInv, TypeInv

LEMMA QuietMem ==
  ASSUME BootInv, pc \in 1 .. 28, pc' = pc + 1, pc \notin {2, 3, 9, 10, 11, 16, 17},
         UNCHANGED <<mem, pic>>
  PROVE  MemInv'
BY DEF BootInv, TypeInv, MemInv

LEMMA QuietStack ==
  ASSUME BootInv, pc \in 1 .. 23, pc' = pc + 1, handler = "none", UNCHANGED <<handler, stack>>
  PROVE  StackInv'
BY DEF BootInv, StackInv, Pushed

LEMMA QuietCounts ==
  ASSUME BootInv, pc \in 1 .. 28, pc' = pc + 1, handler = "none", UNCHANGED Rest
  PROVE  /\ HandlerInv' /\ TicksCounted' /\ handler' = "none"
         /\ handler' \in {"none", "clock_handler", "keyboard_handler", "page_fault_handler2"}
         /\ zeos_ticks' \in Nat /\ pulses' \in Nat /\ clocks' \in Nat
BY DEF BootInv, TypeInv, HandlerInv, TicksCounted, Rest

LEMMA QuietCpu ==
  ASSUME BootInv, pc \in 1 .. 28, pc' = pc + 1, handler = "none", UNCHANGED <<cpu, handler>>,
         pc \notin {1, 4, 7, 10, 11, 12, 13, 14, 15, 21, 22, 28}
  PROVE  CpuInv'
BY DEF BootInv, TypeInv, CpuInv, Ds

LEMMA DoesProcessor ==
  ASSUME BootInv, Processor
  PROVE  BootInv'
<1>1. PICK step \in {"cli", "lidt_lgdt", "PE", "set_eflags", "set_seg_regs",
                     "msr_0x174", "msr_0x175", "msr_0x176", "sti", "mov_ds"} :
        /\ Run(step) /\ Advance
        /\ cpu' = CASE step \in {"cli", "set_eflags"} -> [cpu EXCEPT !.iflag = 0]
                    [] step = "lidt_lgdt" -> [cpu EXCEPT !.idtr = "empty", !.gdtr = "gdt"]
                    [] step = "PE" -> [cpu EXCEPT !.protected = TRUE]
                    [] step = "set_seg_regs" -> [cpu EXCEPT !.ds = KERNEL_DS]
                    [] step = "msr_0x174" -> [cpu EXCEPT !.msr.cs = KERNEL_CS]
                    [] step = "msr_0x175" -> [cpu EXCEPT !.msr.esp = INITIAL_ESP]
                    [] step = "msr_0x176" -> [cpu EXCEPT !.msr.eip = "syscall_handler"]
                    [] step = "sti" -> [cpu EXCEPT !.iflag = 1]
                    [] step = "mov_ds" -> [cpu EXCEPT !.ds = USER_DS]
        /\ UNCHANGED <<pic, mem, stack, user, Rest>>
  BY DEF Processor
<1>2. /\ pc \in 1 .. 28 /\ Text[pc] = step /\ pc' = pc + 1 /\ pc' \in 1 .. 29
      /\ handler = "none"
  BY <1>1, AtStep
<1>3. pc \in {1, 4, 5, 6, 7, 12, 13, 14, 21, 22}
  BY <1>2, Places
<1>4. MemInv' /\ StackInv' /\ HandlerInv' /\ TicksCounted' /\ handler' = "none"
  BY <1>1, <1>2, <1>3, QuietMem, QuietStack, QuietCounts DEF Rest
<1>5. /\ pc' \in 1 .. 29 /\ pic' \in Pics /\ mem' \in Mems
      /\ handler' \in {"none", "clock_handler", "keyboard_handler", "page_fault_handler2"}
      /\ zeos_ticks' \in Nat /\ pulses' \in Nat /\ clocks' \in Nat
  BY <1>1, <1>2, QuietCounts DEF BootInv, TypeInv
<1>6. cpu \in Cpus /\ CpuInv
  BY DEF BootInv, TypeInv
<1>7. cpu' \in Cpus /\ CpuInv'
  <2>1. CASE step = "cli"
    <3>1. pc = 1 /\ cpu' = [cpu EXCEPT !.iflag = 0]
      BY <1>1, <1>2, <2>1, Places
    <3>2. cpu' \in Cpus
      BY <1>6, <3>1 DEF Cpus
    <3>3. /\ cpu'.iflag = 0 /\ cpu'.cpl = cpu.cpl /\ cpu'.ds = cpu.ds
          /\ cpu'.idtr = cpu.idtr /\ cpu'.gdtr = cpu.gdtr /\ cpu'.tr = cpu.tr
          /\ cpu'.msr = cpu.msr /\ cpu'.paging = cpu.paging
      BY <1>6, <3>1 DEF Cpus
    <3> QED
      BY <1>2, <1>4, <1>6, <3>1, <3>2, <3>3 DEF CpuInv, Ds
  <2>2. CASE step = "lidt_lgdt"
    <3>1. pc = 4 /\ cpu' = [cpu EXCEPT !.idtr = "empty", !.gdtr = "gdt"]
      BY <1>1, <1>2, <2>2, Places
    <3>2. cpu' \in Cpus
      BY <1>6, <3>1 DEF Cpus
    <3>3. /\ cpu'.iflag = cpu.iflag /\ cpu'.cpl = cpu.cpl /\ cpu'.ds = cpu.ds
          /\ cpu'.idtr = "empty" /\ cpu'.gdtr = "gdt" /\ cpu'.tr = cpu.tr
          /\ cpu'.msr = cpu.msr /\ cpu'.paging = cpu.paging
      BY <1>6, <3>1 DEF Cpus
    <3> QED
      BY <1>2, <1>4, <1>6, <3>1, <3>2, <3>3 DEF CpuInv, Ds
  <2>3. CASE step = "PE"
    <3>1. pc = 5 /\ cpu' = [cpu EXCEPT !.protected = TRUE]
      BY <1>1, <1>2, <2>3, Places
    <3>2. cpu' \in Cpus
      BY <1>6, <3>1 DEF Cpus
    <3>3. /\ cpu'.iflag = cpu.iflag /\ cpu'.cpl = cpu.cpl /\ cpu'.ds = cpu.ds
          /\ cpu'.idtr = cpu.idtr /\ cpu'.gdtr = cpu.gdtr /\ cpu'.tr = cpu.tr
          /\ cpu'.msr = cpu.msr /\ cpu'.paging = cpu.paging
      BY <1>6, <3>1 DEF Cpus
    <3> QED
      BY <1>2, <1>4, <1>6, <3>1, <3>2, <3>3 DEF CpuInv, Ds
  <2>4. CASE step = "set_eflags"
    <3>1. pc = 6 /\ cpu' = [cpu EXCEPT !.iflag = 0]
      BY <1>1, <1>2, <2>4, Places
    <3>2. cpu' \in Cpus
      BY <1>6, <3>1 DEF Cpus
    <3>3. /\ cpu'.iflag = 0 /\ cpu'.cpl = cpu.cpl /\ cpu'.ds = cpu.ds
          /\ cpu'.idtr = cpu.idtr /\ cpu'.gdtr = cpu.gdtr /\ cpu'.tr = cpu.tr
          /\ cpu'.msr = cpu.msr /\ cpu'.paging = cpu.paging
      BY <1>6, <3>1 DEF Cpus
    <3> QED
      BY <1>2, <1>4, <1>6, <3>1, <3>2, <3>3 DEF CpuInv, Ds
  <2>5. CASE step = "set_seg_regs"
    <3>1. pc = 7 /\ cpu' = [cpu EXCEPT !.ds = KERNEL_DS]
      BY <1>1, <1>2, <2>5, Places
    <3>2. cpu' \in Cpus
      BY <1>6, <3>1 DEF Cpus
    <3>3. /\ cpu'.iflag = cpu.iflag /\ cpu'.cpl = cpu.cpl /\ cpu'.ds = KERNEL_DS
          /\ cpu'.idtr = cpu.idtr /\ cpu'.gdtr = cpu.gdtr /\ cpu'.tr = cpu.tr
          /\ cpu'.msr = cpu.msr /\ cpu'.paging = cpu.paging
      BY <1>6, <3>1 DEF Cpus
    <3> QED
      BY <1>2, <1>4, <1>6, <3>1, <3>2, <3>3 DEF CpuInv, Ds
  <2>6. CASE step = "msr_0x174"
    <3>1. pc = 12 /\ cpu' = [cpu EXCEPT !.msr.cs = KERNEL_CS]
      BY <1>1, <1>2, <2>6, Places
    <3>2. cpu' \in Cpus
      BY <1>6, <3>1 DEF Cpus
    <3>3. /\ cpu'.iflag = cpu.iflag /\ cpu'.cpl = cpu.cpl /\ cpu'.ds = cpu.ds
          /\ cpu'.idtr = cpu.idtr /\ cpu'.gdtr = cpu.gdtr /\ cpu'.tr = cpu.tr
          /\ cpu'.msr.cs = KERNEL_CS /\ cpu'.msr.esp = cpu.msr.esp /\ cpu'.msr.eip = cpu.msr.eip
          /\ cpu'.paging = cpu.paging
      BY <1>6, <3>1 DEF Cpus
    <3> QED
      BY <1>2, <1>4, <1>6, <3>1, <3>2, <3>3 DEF CpuInv, Ds
  <2>7. CASE step = "msr_0x175"
    <3>1. pc = 13 /\ cpu' = [cpu EXCEPT !.msr.esp = INITIAL_ESP]
      BY <1>1, <1>2, <2>7, Places
    <3>2. cpu' \in Cpus
      BY <1>6, <3>1 DEF Cpus
    <3>3. /\ cpu'.iflag = cpu.iflag /\ cpu'.cpl = cpu.cpl /\ cpu'.ds = cpu.ds
          /\ cpu'.idtr = cpu.idtr /\ cpu'.gdtr = cpu.gdtr /\ cpu'.tr = cpu.tr
          /\ cpu'.msr.cs = cpu.msr.cs /\ cpu'.msr.esp = INITIAL_ESP /\ cpu'.msr.eip = cpu.msr.eip
          /\ cpu'.paging = cpu.paging
      BY <1>6, <3>1 DEF Cpus
    <3> QED
      BY <1>2, <1>4, <1>6, <3>1, <3>2, <3>3 DEF CpuInv, Ds
  <2>8. CASE step = "msr_0x176"
    <3>1. pc = 14 /\ cpu' = [cpu EXCEPT !.msr.eip = "syscall_handler"]
      BY <1>1, <1>2, <2>8, Places
    <3>2. cpu' \in Cpus
      BY <1>6, <3>1 DEF Cpus
    <3>3. /\ cpu'.iflag = cpu.iflag /\ cpu'.cpl = cpu.cpl /\ cpu'.ds = cpu.ds
          /\ cpu'.idtr = cpu.idtr /\ cpu'.gdtr = cpu.gdtr /\ cpu'.tr = cpu.tr
          /\ cpu'.msr.cs = cpu.msr.cs /\ cpu'.msr.esp = cpu.msr.esp /\ cpu'.msr.eip = "syscall_handler"
          /\ cpu'.paging = cpu.paging
      BY <1>6, <3>1 DEF Cpus
    <3> QED
      BY <1>2, <1>4, <1>6, <3>1, <3>2, <3>3 DEF CpuInv, Ds
  <2>9. CASE step = "sti"
    <3>1. pc = 21 /\ cpu' = [cpu EXCEPT !.iflag = 1]
      BY <1>1, <1>2, <2>9, Places
    <3>2. cpu' \in Cpus
      BY <1>6, <3>1 DEF Cpus
    <3>3. /\ cpu'.iflag = 1 /\ cpu'.cpl = cpu.cpl /\ cpu'.ds = cpu.ds
          /\ cpu'.idtr = cpu.idtr /\ cpu'.gdtr = cpu.gdtr /\ cpu'.tr = cpu.tr
          /\ cpu'.msr = cpu.msr /\ cpu'.paging = cpu.paging
      BY <1>6, <3>1 DEF Cpus
    <3> QED
      BY <1>2, <1>4, <1>6, <3>1, <3>2, <3>3 DEF CpuInv, Ds
  <2>10. CASE step = "mov_ds"
    <3>1. pc = 22 /\ cpu' = [cpu EXCEPT !.ds = USER_DS]
      BY <1>1, <1>2, <2>10, Places
    <3>2. cpu' \in Cpus
      BY <1>6, <3>1 DEF Cpus
    <3>3. /\ cpu'.iflag = cpu.iflag /\ cpu'.cpl = cpu.cpl /\ cpu'.ds = USER_DS
          /\ cpu'.idtr = cpu.idtr /\ cpu'.gdtr = cpu.gdtr /\ cpu'.tr = cpu.tr
          /\ cpu'.msr = cpu.msr /\ cpu'.paging = cpu.paging
      BY <1>6, <3>1 DEF Cpus
    <3> QED
      BY <1>2, <1>4, <1>6, <3>1, <3>2, <3>3 DEF CpuInv, Ds
  <2> QED
    BY <2>1, <2>2, <2>3, <2>4, <2>5, <2>6, <2>7, <2>8, <2>9, <2>10
<1> QED
  BY <1>4, <1>5, <1>7 DEF BootInv, TypeInv

(* The tables. *)
LEMMA Pieces ==
  ASSUME NEW a \in 1 .. DWORD - 1
  PROVE  /\ setInterruptHandler(a, 0) \in Gates
         /\ Descriptor(a) \in [lowBase : Nat, midBase : Nat, highBase : Nat]
<1>1. a \in Nat /\ BYTE \in Nat /\ BYTE > 1 /\ WORD \in Nat /\ WORD > 1 /\ WORD * BYTE \in Nat
      /\ WORD * BYTE > 1
  BY ByteSizes
<1>2. \A n, x, y \in Nat : x > 1 /\ y > 1 => (n \div x) % y \in Nat /\ n % x \in Nat
  OBVIOUS
<1>3. /\ lowWord(a) \in Nat /\ highWord(a) \in Nat /\ midByte(a) \in Nat /\ highByte(a) \in Nat
  BY <1>1, <1>2 DEF lowWord, highWord, midByte, highByte
<1>4. flags(0) \in Nat /\ KERNEL_CS \in Nat
  BY DEF flags, KERNEL_CS
<1> QED
  BY <1>3, <1>4 DEF setInterruptHandler, Gate, Gates, Descriptor

LEMMA Addresses ==
  /\ address["tss"] \in 1 .. DWORD - 1
  /\ \A v \in Vectors : gates[v] \in Handlers /\ address[gates[v]] \in 1 .. DWORD - 1
<1>1. \A f \in Handlers \cup {"tss"} : address[f] \in 1 .. DWORD - 1
  BY BootAssumption
<1>2. \A v \in Vectors : gates[v] \in Handlers
  BY DEF Vectors, gates, Handlers, PAGE_FAULT, CLOCK, KEYBOARD
<1> QED
  BY <1>1, <1>2

LEMMA Tables ==
  /\ Descriptor(address["tss"]) \in [lowBase : Nat, midBase : Nat, highBase : Nat]
  /\ [v \in Vectors |-> setInterruptHandler(address[gates[v]], 0)] \in [Vectors -> Gates]
BY Addresses, Pieces

LEMMA DoesSetGdt ==
  ASSUME BootInv, setGdt
  PROVE  BootInv'
<1>1. /\ pc = 9 /\ pc' = 10 /\ handler = "none"
      /\ cpu \in Cpus /\ CpuInv /\ mem \in Mems /\ MemInv /\ pic \in Pics
  <2>1. Run("setGdt") /\ Advance
    BY DEF setGdt
  <2>2. pc \in 1 .. 28 /\ Text[pc] = "setGdt" /\ pc' = pc + 1 /\ handler = "none"
    BY <2>1, AtStep
  <2> QED
    BY <2>2, Places DEF BootInv, TypeInv
<1>2. UNCHANGED <<pic, stack, user, Rest>>
  BY DEF setGdt
<1>3. StackInv' /\ HandlerInv' /\ TicksCounted' /\ handler' = "none"
  BY <1>1, <1>2, QuietStack, QuietCounts DEF Rest
<1>4. cpu' \in Cpus /\ mem' \in Mems
  BY <1>1, Tables DEF setGdt, Cpus, Mems
<1>5. /\ cpu'.iflag = cpu.iflag /\ cpu'.cpl = cpu.cpl /\ cpu'.ds = cpu.ds
      /\ cpu'.idtr = cpu.idtr /\ cpu'.gdtr = "gdt" /\ cpu'.tr = cpu.tr
      /\ cpu'.msr = cpu.msr /\ cpu'.paging = cpu.paging
  BY <1>1 DEF setGdt, Cpus
<1>6. /\ mem'.a20 = mem.a20 /\ mem'.gdt_tss = Descriptor(address["tss"]) /\ mem'.esp0 = mem.esp0
      /\ mem'.ss0 = mem.ss0 /\ mem'.idt = mem.idt /\ mem'.user_pages = mem.user_pages
      /\ mem'.user_code = mem.user_code
  BY <1>1 DEF setGdt, Mems
<1>7. CpuInv'
  BY <1>1, <1>3, <1>5 DEF CpuInv, Ds
<1>8. MemInv'
  BY <1>1, <1>2, <1>6 DEF MemInv
<1> QED
  BY <1>1, <1>2, <1>3, <1>4, <1>7, <1>8, QuietCounts DEF BootInv, TypeInv

LEMMA DoesSetIdt ==
  ASSUME BootInv, setIdt
  PROVE  BootInv'
<1>1. /\ pc = 10 /\ pc' = 11 /\ handler = "none"
      /\ cpu \in Cpus /\ CpuInv /\ mem \in Mems /\ MemInv /\ pic \in Pics
  <2>1. Run("setIdt") /\ Advance
    BY DEF setIdt
  <2>2. pc \in 1 .. 28 /\ Text[pc] = "setIdt" /\ pc' = pc + 1 /\ handler = "none"
    BY <2>1, AtStep
  <2> QED
    BY <2>2, Places DEF BootInv, TypeInv
<1>2. UNCHANGED <<pic, stack, user, Rest>>
  BY DEF setIdt
<1>3. StackInv' /\ HandlerInv' /\ TicksCounted' /\ handler' = "none"
  BY <1>1, <1>2, QuietStack, QuietCounts DEF Rest
<1>4. cpu' \in Cpus /\ mem' \in Mems
  BY <1>1, Tables DEF setIdt, Cpus, Mems
<1>5. /\ cpu'.iflag = cpu.iflag /\ cpu'.cpl = cpu.cpl /\ cpu'.ds = cpu.ds
      /\ cpu'.idtr = "idt" /\ cpu'.gdtr = cpu.gdtr /\ cpu'.tr = cpu.tr
      /\ cpu'.msr = cpu.msr /\ cpu'.paging = cpu.paging
  BY <1>1 DEF setIdt, Cpus
<1>6. /\ mem'.a20 = mem.a20 /\ mem'.gdt_tss = mem.gdt_tss /\ mem'.esp0 = mem.esp0
      /\ mem'.ss0 = mem.ss0 /\ mem'.idt = [v \in Vectors |-> setInterruptHandler(address[gates[v]], 0)] /\ mem'.user_pages = mem.user_pages
      /\ mem'.user_code = mem.user_code
  BY <1>1 DEF setIdt, Mems
<1>7. CpuInv'
  BY <1>1, <1>3, <1>5 DEF CpuInv, Ds
<1>8. MemInv'
  BY <1>1, <1>2, <1>6 DEF MemInv
<1> QED
  BY <1>1, <1>2, <1>3, <1>4, <1>7, <1>8, QuietCounts DEF BootInv, TypeInv

LEMMA DoesSetTSS ==
  ASSUME BootInv, setTSS
  PROVE  BootInv'
<1>1. /\ pc = 11 /\ pc' = 12 /\ handler = "none"
      /\ cpu \in Cpus /\ CpuInv /\ mem \in Mems /\ MemInv /\ pic \in Pics
  <2>1. Run("setTSS") /\ Advance
    BY DEF setTSS
  <2>2. pc \in 1 .. 28 /\ Text[pc] = "setTSS" /\ pc' = pc + 1 /\ handler = "none"
    BY <2>1, AtStep
  <2> QED
    BY <2>2, Places DEF BootInv, TypeInv
<1>2. UNCHANGED <<pic, stack, user, Rest>>
  BY DEF setTSS
<1>3. StackInv' /\ HandlerInv' /\ TicksCounted' /\ handler' = "none"
  BY <1>1, <1>2, QuietStack, QuietCounts DEF Rest
<1>9. Base(mem.gdt_tss) = address["tss"] /\ address["tss"] \in Nat
  <2>1. mem.gdt_tss = Descriptor(address["tss"])
    BY <1>1 DEF MemInv
  <2>2. address["tss"] \in 1 .. DWORD - 1
    BY Addresses
  <2> QED
    BY <2>1, <2>2, TssBase
<1>10. cpu' = [cpu EXCEPT !.tr = address["tss"]]
  BY <1>9 DEF setTSS
<1>4. cpu' \in Cpus /\ mem' \in Mems
  <2>1. cpu' \in Cpus
    BY <1>1, <1>9, <1>10 DEF Cpus
  <2> QED
    BY <1>1, <2>1 DEF setTSS, Mems
<1>5. /\ cpu'.iflag = cpu.iflag /\ cpu'.cpl = cpu.cpl /\ cpu'.ds = cpu.ds
      /\ cpu'.idtr = cpu.idtr /\ cpu'.gdtr = cpu.gdtr /\ cpu'.tr = address["tss"]
      /\ cpu'.msr = cpu.msr /\ cpu'.paging = cpu.paging
  BY <1>1, <1>10 DEF Cpus
<1>6. /\ mem'.a20 = mem.a20 /\ mem'.gdt_tss = mem.gdt_tss /\ mem'.esp0 = INITIAL_ESP
      /\ mem'.ss0 = KERNEL_DS /\ mem'.idt = mem.idt /\ mem'.user_pages = mem.user_pages
      /\ mem'.user_code = mem.user_code
  BY <1>1 DEF setTSS, Mems
<1>7. CpuInv'
  BY <1>1, <1>3, <1>5 DEF CpuInv, Ds
<1>8. MemInv'
  BY <1>1, <1>2, <1>6 DEF MemInv
<1> QED
  BY <1>1, <1>2, <1>3, <1>4, <1>7, <1>8, QuietCounts DEF BootInv, TypeInv

LEMMA DoesController ==
  ASSUME BootInv, Controller
  PROVE  BootInv'
<1>1. PICK step \in {"init_8259", "out_0x21"} :
        /\ Run(step) /\ Advance
        /\ pic' = IF step = "init_8259"
                    THEN [base |-> 32, mask |-> {CLOCK, KEYBOARD}, irr |-> pic.irr]
                    ELSE [pic EXCEPT !.mask = {}]
        /\ UNCHANGED <<cpu, mem, stack, user, Rest>>
  BY DEF Controller
<1>2. /\ pc \in 1 .. 28 /\ Text[pc] = step /\ pc' = pc + 1 /\ pc' \in 1 .. 29 /\ handler = "none"
      /\ cpu \in Cpus /\ mem \in Mems /\ MemInv /\ pic \in Pics
  BY <1>1, AtStep DEF BootInv, TypeInv
<1>3. (step = "init_8259" /\ pc = 3) \/ (step = "out_0x21" /\ pc = 20)
  BY <1>1, <1>2, Places
<1>4. StackInv' /\ HandlerInv' /\ TicksCounted' /\ handler' = "none" /\ CpuInv'
  BY <1>1, <1>2, <1>3, QuietStack, QuietCounts, QuietCpu DEF Rest
<1>5. pic' \in Pics /\ pic'.base = 32
  <2>1. CASE step = "init_8259"
    BY <1>1, <1>2, <2>1 DEF Pics
  <2>2. CASE step = "out_0x21"
    <3>1. pic.base = 32 /\ pic' = [pic EXCEPT !.mask = {}]
      BY <1>1, <1>2, <1>3, <2>2 DEF MemInv
    <3> QED
      BY <1>2, <3>1 DEF Pics
  <2> QED
    BY <1>3, <2>1, <2>2
<1>6. MemInv'
  BY <1>1, <1>2, <1>3, <1>5 DEF MemInv
<1> QED
  BY <1>1, <1>2, <1>4, <1>5, <1>6, QuietCounts DEF BootInv, TypeInv

LEMMA DoesMemory ==
  ASSUME BootInv, Memory
  PROVE  BootInv'
<1>1. PICK step \in {"A20_on", "init_mm", "monoprocess_init_addr_space"} :
        /\ Run(step) /\ Advance
        /\ mem' = CASE step = "A20_on" -> [mem EXCEPT !.a20 = TRUE]
                    [] step = "init_mm" -> [mem EXCEPT !.kernel_pages = TRUE,
                                                       !.user_pages = FALSE]
                    [] OTHER -> [mem EXCEPT !.user_pages = TRUE]
        /\ cpu' = IF step = "init_mm" THEN [cpu EXCEPT !.paging = TRUE] ELSE cpu
        /\ UNCHANGED <<pic, stack, user, Rest>>
  BY DEF Memory
<1>2. /\ pc \in 1 .. 28 /\ Text[pc] = step /\ pc' = pc + 1 /\ pc' \in 1 .. 29 /\ handler = "none"
      /\ cpu \in Cpus /\ CpuInv /\ mem \in Mems /\ MemInv /\ pic \in Pics
  BY <1>1, AtStep DEF BootInv, TypeInv
<1>3. /\ step = "A20_on" => pc = 2
      /\ step = "init_mm" => pc = 15
      /\ step = "monoprocess_init_addr_space" => pc = 16
  BY <1>2, Places
<1>4. StackInv' /\ HandlerInv' /\ TicksCounted' /\ handler' = "none"
  BY <1>1, <1>2, <1>3, QuietStack, QuietCounts DEF Rest
<1>5. CASE step = "A20_on"
  <2>1. mem' = [mem EXCEPT !.a20 = TRUE] /\ cpu' = cpu /\ pc = 2
    BY <1>1, <1>3, <1>5
  <2>2. mem' \in Mems /\ mem'.a20 = TRUE
    BY <1>2, <2>1 DEF Mems
  <2>3. CpuInv'
    BY <1>1, <1>2, <2>1, QuietCpu DEF Rest
  <2>4. MemInv'
    BY <1>2, <2>1, <2>2 DEF MemInv
  <2> QED
    BY <1>1, <1>2, <1>4, <2>1, <2>2, <2>3, <2>4, QuietCounts DEF BootInv, TypeInv
<1>6. CASE step = "init_mm"
  <2>1. /\ mem' = [mem EXCEPT !.kernel_pages = TRUE, !.user_pages = FALSE]
        /\ cpu' = [cpu EXCEPT !.paging = TRUE] /\ pc = 15
    BY <1>1, <1>3, <1>6
  <2>2. /\ mem' \in Mems
        /\ mem'.a20 = mem.a20 /\ mem'.gdt_tss = mem.gdt_tss /\ mem'.esp0 = mem.esp0
        /\ mem'.ss0 = mem.ss0 /\ mem'.idt = mem.idt
    BY <1>2, <2>1 DEF Mems
  <2>3. /\ cpu' \in Cpus
        /\ cpu'.iflag = cpu.iflag /\ cpu'.cpl = cpu.cpl /\ cpu'.ds = cpu.ds
        /\ cpu'.idtr = cpu.idtr /\ cpu'.gdtr = cpu.gdtr /\ cpu'.tr = cpu.tr
        /\ cpu'.msr = cpu.msr /\ cpu'.paging = TRUE
    BY <1>2, <2>1 DEF Cpus
  <2>4. CpuInv'
    BY <1>2, <1>4, <2>1, <2>3 DEF CpuInv, Ds
  <2>5. MemInv'
    BY <1>1, <1>2, <2>1, <2>2 DEF MemInv
  <2> QED
    BY <1>1, <1>2, <1>4, <2>2, <2>3, <2>4, <2>5, QuietCounts DEF BootInv, TypeInv
<1>7. CASE step = "monoprocess_init_addr_space"
  <2>1. mem' = [mem EXCEPT !.user_pages = TRUE] /\ cpu' = cpu /\ pc = 16
    BY <1>1, <1>3, <1>7
  <2>2. /\ mem' \in Mems /\ mem'.user_pages = TRUE
        /\ mem'.a20 = mem.a20 /\ mem'.gdt_tss = mem.gdt_tss /\ mem'.esp0 = mem.esp0
        /\ mem'.ss0 = mem.ss0 /\ mem'.idt = mem.idt
    BY <1>2, <2>1 DEF Mems
  <2>3. CpuInv'
    BY <1>1, <1>2, <2>1, QuietCpu DEF Rest
  <2>4. MemInv'
    BY <1>1, <1>2, <2>1, <2>2 DEF MemInv
  <2> QED
    BY <1>1, <1>2, <1>4, <2>1, <2>2, <2>3, <2>4, QuietCounts DEF BootInv, TypeInv
<1> QED
  BY <1>5, <1>6, <1>7

(* The user's pages are there before main stores to them. *)
LEMMA DoesUserStore ==
  ASSUME BootInv, UserStore
  PROVE  BootInv'
<1>1. PICK step \in {"copy_data", "store_p_rdtr"} :
        /\ Run(step)
        /\ IF UserReached THEN Advance ELSE pc' = Dead
        /\ mem' = IF step = "copy_data" /\ UserReached
                    THEN [mem EXCEPT !.user_code = cpu.paging] ELSE mem
        /\ UNCHANGED <<cpu, pic, stack, user, Rest>>
  BY DEF UserStore
<1>2. /\ cpu \in Cpus /\ CpuInv /\ mem \in Mems /\ MemInv /\ pic \in Pics
      /\ pc \in 1 .. 28 /\ Text[pc] = step
  BY <1>1, WholeText DEF BootInv, TypeInv, Run
<1>3. (step = "copy_data" /\ pc = 17) \/ (step = "store_p_rdtr" /\ pc = 23)
  BY <1>1, <1>2, Places
<1>4. cpu.paging = TRUE /\ mem.a20 = TRUE /\ mem.user_pages = TRUE
  BY <1>2, <1>3 DEF CpuInv, MemInv
<1>5. UserReached
  BY <1>4 DEF UserReached
<1>6. Advance /\ (step = "copy_data" => mem' = [mem EXCEPT !.user_code = TRUE])
      /\ (step = "store_p_rdtr" => mem' = mem)
  BY <1>1, <1>4, <1>5
<1>7. pc' = pc + 1 /\ pc' \in 1 .. 29 /\ handler = "none"
  BY <1>1, <1>6, AtStep
<1>8. StackInv' /\ HandlerInv' /\ TicksCounted' /\ handler' = "none" /\ CpuInv'
  BY <1>1, <1>2, <1>3, <1>7, QuietStack, QuietCounts, QuietCpu DEF Rest
<1>9. mem' \in Mems /\ MemInv'
  <2>1. CASE step = "copy_data"
    <3>1. mem' = [mem EXCEPT !.user_code = TRUE] /\ pc = 17
      BY <1>3, <1>6, <2>1
    <3>2. /\ mem' \in Mems /\ mem'.user_code = TRUE /\ mem'.user_pages = mem.user_pages
          /\ mem'.a20 = mem.a20 /\ mem'.gdt_tss = mem.gdt_tss /\ mem'.esp0 = mem.esp0
          /\ mem'.ss0 = mem.ss0 /\ mem'.idt = mem.idt
      BY <1>2, <3>1 DEF Mems
    <3> QED
      BY <1>1, <1>2, <1>4, <1>7, <3>1, <3>2 DEF MemInv
  <2>2. CASE step = "store_p_rdtr"
    <3>1. mem' = mem /\ pc = 23
      BY <1>3, <1>6, <2>2
    <3>2. MemInv'
      BY <1>1, <1>2, <1>7, <3>1, QuietMem
    <3> QED
      BY <1>2, <3>1, <3>2
  <2> QED
    BY <1>3, <2>1, <2>2
<1> QED
  BY <1>1, <1>2, <1>7, <1>8, <1>9, QuietCounts DEF BootInv, TypeInv

LEMMA DoesReset ==
  ASSUME BootInv, reset_clock_ticks
  PROVE  BootInv'
<1>1. Run("reset_clock_ticks") /\ Advance /\ zeos_ticks' = 0
      /\ UNCHANGED <<cpu, pic, mem, stack, handler, user, pulses, clocks>>
  BY DEF reset_clock_ticks
<1>2. pc = 18 /\ pc' = 19 /\ handler = "none"
  <2>1. /\ pc \in 1 .. 28 /\ Text[pc] = "reset_clock_ticks" /\ pc' = pc + 1 /\ handler = "none"
    BY <1>1, AtStep
  <2> QED
    BY <2>1, Places
<1>3. MemInv' /\ StackInv' /\ CpuInv'
  BY <1>1, <1>2, QuietMem, QuietStack, QuietCpu
<1>4. clocks = 0 /\ zeos_ticks = 0
  BY <1>2 DEF BootInv, HandlerInv
<1>5. HandlerInv' /\ TicksCounted'
  BY <1>1, <1>2, <1>4 DEF HandlerInv, TicksCounted
<1> QED
  BY <1>1, <1>2, <1>3, <1>5 DEF BootInv, TypeInv

LEMMA DoesPrintk ==
  ASSUME BootInv, printk
  PROVE  BootInv'
<1>1. Run("printk") /\ Advance /\ UNCHANGED <<cpu, pic, mem, stack, user, Rest>>
  BY DEF printk
<1>2. /\ pc \in 1 .. 28 /\ Text[pc] = "printk" /\ pc' = pc + 1 /\ pc' \in 1 .. 29
      /\ handler = "none"
  BY <1>1, AtStep
<1>3. pc \in {8, 19}
  BY <1>2, Places
<1>4. MemInv' /\ StackInv' /\ CpuInv' /\ HandlerInv' /\ TicksCounted'
  BY <1>1, <1>2, <1>3, QuietMem, QuietStack, QuietCpu, QuietCounts DEF Rest
<1> QED
  BY <1>1, <1>2, <1>4, QuietCounts DEF BootInv, TypeInv

LEMMA DoesPush ==
  ASSUME BootInv, Push
  PROVE  BootInv'
<1>1. PICK step \in {"push_ss", "push_esp", "push_cs", "push_eip"} :
        /\ Run(step) /\ Advance
        /\ stack' = Append(stack, CASE step = "push_ss"  -> USER_DS
                                    [] step = "push_esp" -> USER_ESP
                                    [] step = "push_cs"  -> USER_CS
                                    [] step = "push_eip" -> usr_main)
        /\ UNCHANGED <<cpu, pic, mem, user, Rest>>
  BY DEF Push
<1>2. /\ pc \in 1 .. 28 /\ Text[pc] = step /\ pc' = pc + 1 /\ pc' \in 1 .. 29
      /\ handler = "none"
  BY <1>1, AtStep
<1>3. /\ (step = "push_ss" => pc = 24) /\ (step = "push_esp" => pc = 25)
      /\ (step = "push_cs" => pc = 26) /\ (step = "push_eip" => pc = 27)
  BY <1>2, Places
<1>4. pc \in 24 .. 27
  BY <1>1, <1>3
<1>5. MemInv' /\ CpuInv' /\ HandlerInv' /\ TicksCounted' /\ handler' = "none"
  BY <1>1, <1>2, <1>4, QuietMem, QuietCpu, QuietCounts DEF Rest
<1>6. stack = Pushed
  BY <1>2 DEF BootInv, StackInv
<1>7. stack' = Pushed'
  <2>1. CASE step = "push_ss"
    BY <1>1, <1>2, <1>3, <1>6, <2>1 DEF Pushed
  <2>2. CASE step = "push_esp"
    BY <1>1, <1>2, <1>3, <1>6, <2>2 DEF Pushed
  <2>3. CASE step = "push_cs"
    BY <1>1, <1>2, <1>3, <1>6, <2>3 DEF Pushed
  <2>4. CASE step = "push_eip"
    BY <1>1, <1>2, <1>3, <1>6, <2>4 DEF Pushed
  <2> QED
    BY <1>1, <2>1, <2>2, <2>3, <2>4
<1>8. StackInv'
  BY <1>2, <1>4, <1>5, <1>7 DEF StackInv
<1> QED
  BY <1>1, <1>2, <1>5, <1>8, QuietCounts DEF BootInv, TypeInv

(* lret finds the four words return_gate pushed on top of the stack. *)
LEMMA DoesLret ==
  ASSUME BootInv, lret
  PROVE  BootInv'
<1> DEFINE frame == <<USER_DS, USER_ESP, USER_CS, usr_main>>
<1>1. /\ Run("lret") /\ Advance
      /\ user' = [ss |-> stack[Len(stack) - 3], esp |-> stack[Len(stack) - 2],
                  cs |-> stack[Len(stack) - 1], eip |-> stack[Len(stack) - 0]]
      /\ stack' = SubSeq(stack, 1, Len(stack) - 4)
      /\ cpu' = [cpu EXCEPT !.cpl = 3]
      /\ UNCHANGED <<pic, mem, Rest>>
  BY DEF lret
<1>2. pc = 28 /\ pc' = 29 /\ handler = "none"
  <2>1. /\ pc \in 1 .. 28 /\ Text[pc] = "lret" /\ pc' = pc + 1 /\ handler = "none"
    BY <1>1, AtStep
  <2> QED
    BY <2>1, Places
<1>3. MemInv' /\ HandlerInv' /\ TicksCounted' /\ handler' = "none"
  BY <1>1, <1>2, QuietMem, QuietCounts DEF Rest
<1>4. stack = frame
  BY <1>2 DEF BootInv, StackInv, Pushed
<1>5. Len(stack) = 4 /\ stack[1] = USER_DS /\ stack[2] = USER_ESP /\ stack[3] = USER_CS
      /\ stack[4] = usr_main
  BY <1>4
<1>6. user' = [ss |-> USER_DS, esp |-> USER_ESP, cs |-> USER_CS, eip |-> usr_main]
  BY <1>1, <1>5
<1>7. stack' = <<>>
  <2>1. stack' = SubSeq(frame, 1, 0)
    BY <1>1, <1>4, <1>5
  <2> QED
    BY <2>1
<1>8. StackInv'
  BY <1>2, <1>6, <1>7 DEF StackInv, Pushed
<1>9. cpu \in Cpus /\ CpuInv /\ cpu' = [cpu EXCEPT !.cpl = 3]
  BY <1>1 DEF BootInv, TypeInv
<1>10. /\ cpu' \in Cpus
       /\ cpu'.iflag = cpu.iflag /\ cpu'.cpl = 3 /\ cpu'.ds = cpu.ds
       /\ cpu'.idtr = cpu.idtr /\ cpu'.gdtr = cpu.gdtr /\ cpu'.tr = cpu.tr
       /\ cpu'.msr = cpu.msr /\ cpu'.paging = cpu.paging
  BY <1>9 DEF Cpus
<1>11. CpuInv'
  BY <1>2, <1>3, <1>9, <1>10 DEF CpuInv, Ds
<1> QED
  BY <1>1, <1>2, <1>3, <1>8, <1>10, <1>11, QuietCounts DEF BootInv, TypeInv

(* From sti on every vector in use leads to its handler, and to no other. *)
LEMMA Enters ==
  ASSUME BootInv, pc > 21, NEW v \in Vectors
  PROVE  CanEnter(v) /\ Target(v) = {gates[v]} /\ ClearsIF(mem.idt[v])
<1>1. /\ cpu.idtr = "idt" /\ cpu.gdtr = "gdt" /\ cpu.tr = address["tss"]
      /\ mem.idt = [u \in Vectors |-> setInterruptHandler(address[gates[u]], 0)]
      /\ mem.esp0 = INITIAL_ESP /\ mem.ss0 = KERNEL_DS
  BY DEF BootInv, TypeInv, CpuInv, MemInv
<1>2. mem.idt[v] = setInterruptHandler(address[gates[v]], 0)
  BY <1>1
<1>3. /\ address[gates[v]] \in 1 .. DWORD - 1 /\ address[gates[v]] \in Nat /\ gates[v] \in Handlers
  BY Addresses
<1>4. Offset(mem.idt[v]) = address[gates[v]]
  BY <1>1, <1>2, <1>3, GateOffset
<1>5. Present(mem.idt[v]) /\ ClearsIF(mem.idt[v])
  BY <1>2, <1>3, GateFlags
<1>6. mem.idt[v].segmentSelector = KERNEL_CS
  BY <1>2 DEF setInterruptHandler, Gate
<1>7. Target(v) = {gates[v]}
  <2>1. \A f, g \in Handlers : address[f] = address[g] => f = g
    BY BootAssumption
  <2>2. \A f \in Handlers : address[f] = Offset(mem.idt[v]) <=> f = gates[v]
    BY <1>3, <1>4, <2>1
  <2> QED
    BY <1>3, <2>2 DEF Target
<1> QED
  BY <1>1, <1>4, <1>5, <1>6, <1>7 DEF CanEnter

LEMMA DoesEnter ==
  ASSUME BootInv, pc > 21, NEW v \in Vectors, Entered(v)
  PROVE  /\ handler' = gates[v] /\ pc' = pc /\ cpu' \in Cpus
         /\ cpu'.iflag = 0 /\ cpu'.cpl = cpu.cpl /\ cpu'.idtr = cpu.idtr
         /\ cpu'.gdtr = cpu.gdtr /\ cpu'.tr = cpu.tr /\ cpu'.msr = cpu.msr
         /\ cpu'.paging = cpu.paging
<1>1. CanEnter(v) /\ Target(v) = {gates[v]} /\ ClearsIF(mem.idt[v])
  BY Enters
<1>2. handler' = gates[v] /\ pc' = pc /\ cpu' = [cpu EXCEPT !.ds = KERNEL_DS, !.iflag = 0]
  BY <1>1 DEF Entered
<1>3. cpu \in Cpus
  BY DEF BootInv, TypeInv
<1> QED
  BY <1>2, <1>3 DEF Cpus

LEMMA HandlerNames ==
  /\ gates[14] = "page_fault_handler2" /\ gates[32] = "clock_handler"
  /\ gates[33] = "keyboard_handler" /\ Vectors = {14, 32, 33}
BY DEF gates, Vectors, PAGE_FAULT, CLOCK, KEYBOARD

LEMMA DoesInterrupt ==
  ASSUME BootInv, NEW irq \in {CLOCK, KEYBOARD}, Interrupt(irq)
  PROVE  BootInv'
<1>1. /\ irq \in {0, 1} /\ irq \in Pending
      /\ pic' = [pic EXCEPT !.irr = @ \ {irq}]
      /\ UNCHANGED <<mem, user, zeos_ticks, pulses>>
  BY DEF Interrupt, CLOCK, KEYBOARD
<1>2. cpu \in Cpus /\ CpuInv /\ MemInv /\ pic \in Pics /\ pc \in 1 .. 29 /\ TypeInv
  BY DEF BootInv, TypeInv
<1>3. cpu.iflag = 1
  BY <1>1 DEF Pending
<1>4. handler = "none" /\ (pc = 1 \/ pc > 21)
  BY <1>2, <1>3 DEF CpuInv
<1>5. pic' \in Pics /\ pic'.base = pic.base
  BY <1>1, <1>2 DEF Pics
<1>6. CASE pc = 1
  <2>1. cpu.idtr = "BIOS"
    BY <1>2, <1>6 DEF CpuInv
  <2>2. UNCHANGED <<pc, cpu, stack, handler, clocks>>
    BY <2>1 DEF Interrupt
  <2>3. CpuInv' /\ MemInv'
    BY <1>1, <1>2, <1>5, <1>6, <2>2 DEF CpuInv, MemInv, Ds
  <2>4. StackInv' /\ HandlerInv' /\ TicksCounted'
    BY <1>1, <1>6, <2>2 DEF BootInv, StackInv, HandlerInv, TicksCounted, Pushed
  <2> QED
    BY <1>1, <1>2, <1>5, <2>2, <2>3, <2>4 DEF BootInv, TypeInv
<1>7. CASE pc > 21
  <2>1. cpu.idtr = "idt" /\ pic.base = 32
    BY <1>2, <1>7 DEF CpuInv, MemInv
  <2>2. /\ Entered(32 + irq)
        /\ stack' = IF cpu.cpl = 3 THEN stack ELSE stack \o Frame
        /\ clocks' = IF irq = 0 THEN clocks + 1 ELSE clocks
    BY <2>1 DEF Interrupt, CLOCK
  <2>3. 32 + irq \in Vectors
    BY <1>1, HandlerNames
  <2>4. /\ handler' = gates[32 + irq] /\ pc' = pc /\ cpu' \in Cpus
        /\ cpu'.iflag = 0 /\ cpu'.cpl = cpu.cpl /\ cpu'.idtr = cpu.idtr
        /\ cpu'.gdtr = cpu.gdtr /\ cpu'.tr = cpu.tr /\ cpu'.msr = cpu.msr
        /\ cpu'.paging = cpu.paging
    BY <1>7, <2>2, <2>3, DoesEnter
  <2>5. handler' = IF irq = 0 THEN "clock_handler" ELSE "keyboard_handler"
    BY <1>1, <2>4, HandlerNames
  <2>6. CpuInv'
    BY <1>2, <1>7, <2>4, <2>5 DEF CpuInv, Ds
  <2>7. MemInv'
    BY <1>1, <1>2, <1>5, <2>4 DEF MemInv
  <2>8. StackInv'
    <3>1. stack = Pushed /\ cpu.ds = Ds /\ Ds' = Ds /\ Pushed' = Pushed
      BY <1>2, <1>4, <1>7, <2>4 DEF BootInv, StackInv, CpuInv, Ds, Pushed
    <3>a. (pc # 29 => cpu.cpl = 0) /\ (pc = 29 => cpu.cpl = 3)
      BY <1>2 DEF CpuInv
    <3>b. Frame = <<"eflags", "cs", "eip", Ds>>
      BY <3>1 DEF Frame
    <3>c. stack' = IF cpu.cpl = 3 THEN stack ELSE stack \o Frame
      BY <2>2
    <3>d. stack = Pushed
      BY <3>1
    <3>2. pc # 29 => stack' = Pushed \o <<"eflags", "cs", "eip", Ds>>
      BY <3>a, <3>b, <3>c, <3>d
    <3>3. pc = 29 => stack' = Pushed
      BY <3>a, <3>c, <3>d
    <3>4. handler' # "none"
      BY <2>5
    <3> QED
      BY <1>1, <2>4, <3>1, <3>2, <3>3, <3>4 DEF BootInv, StackInv
  <2>9. HandlerInv' /\ TicksCounted' /\ clocks' \in Nat
    <3>1. clocks = zeos_ticks + 0 /\ clocks \in Nat /\ zeos_ticks \in Nat /\ zeos_ticks' = zeos_ticks
      BY <1>1, <1>2, <1>4 DEF BootInv, TypeInv, TicksCounted
    <3>2. clocks' \in Nat /\ clocks' = zeos_ticks + (IF irq = 0 THEN 1 ELSE 0)
      BY <2>2, <3>1
    <3>3. TicksCounted'
      BY <1>1, <2>5, <3>1, <3>2 DEF TicksCounted
    <3>4. HandlerInv'
      BY <1>2, <1>7, <2>4, <2>5 DEF HandlerInv
    <3> QED
      BY <3>2, <3>3, <3>4
  <2> QED
    BY <1>1, <1>2, <1>5, <2>4, <2>5, <2>6, <2>7, <2>8, <2>9 DEF BootInv, TypeInv
<1> QED
  BY <1>4, <1>6, <1>7

(* What a handler takes off the stack is what it put on it. *)
Words == {USER_DS, KERNEL_DS, USER_CS, USER_ESP, usr_main, "eflags", "cs", "eip"}

LEMMA Unwound ==
  ASSUME NEW s \in Seq(Words), NEW ds \in Words
  PROVE  LET t == s \o <<"eflags", "cs", "eip", ds>>
         IN t[Len(t)] = ds /\ SubSeq(t, 1, Len(t) - 4) = s
<1> DEFINE f == <<"eflags", "cs", "eip", ds>>
           t == s \o f
<1>1. f \in Seq(Words) /\ Len(f) = 4 /\ f[4] = ds
  BY DEF Words
<1>2. Len(s) \in Nat
  BY LenProperties
<1> HIDE DEF f
<1>3. /\ t \in Seq(Words) /\ Len(t) = Len(s) + Len(f)
      /\ \A i \in 1 .. Len(s) + Len(f) : t[i] = IF i <= Len(s) THEN s[i] ELSE f[i - Len(s)]
  BY <1>1, ConcatProperties, Zenon
<1> HIDE DEF t
<1>4. t[Len(t)] = ds
  BY <1>1, <1>2, <1>3
<1>5. Len(t) - 4 = Len(s)
  BY <1>1, <1>2, <1>3
<1>6. SubSeq(t, 1, Len(s)) = s
  <2>1. \A i \in 1 .. Len(s) : t[i] = s[i]
    BY <1>1, <1>2, <1>3
  <2>2. /\ SubSeq(t, 1, Len(s)) \in Seq(Words) /\ Len(SubSeq(t, 1, Len(s))) = Len(s)
        /\ \A i \in 1 .. Len(s) : SubSeq(t, 1, Len(s))[i] = t[i]
    BY <1>1, <1>2, <1>3
  <2> QED
    BY <2>1, <2>2, SeqEqual
<1> QED
  BY <1>4, <1>5, <1>6 DEF t, f

LEMMA DoesHandlerReturn ==
  ASSUME BootInv, HandlerReturns
  PROVE  BootInv'
<1>1. /\ handler \in {"clock_handler", "keyboard_handler"}
      /\ zeos_ticks' = IF handler = "clock_handler" THEN zeos_ticks + 1 ELSE zeos_ticks
      /\ handler' = "none"
      /\ cpu' = [cpu EXCEPT !.iflag = 1,
                            !.ds = IF cpu.cpl = 3 THEN USER_DS ELSE stack[Len(stack)]]
      /\ stack' = IF cpu.cpl = 3 THEN stack ELSE SubSeq(stack, 1, Len(stack) - 4)
      /\ UNCHANGED <<pc, pic, mem, user, pulses, clocks>>
  BY DEF HandlerReturns
<1>2. cpu \in Cpus /\ CpuInv /\ MemInv /\ pc \in 1 .. 29 /\ TypeInv
  BY DEF BootInv, TypeInv
<1>3. pc > 21
  BY <1>1, <1>2 DEF BootInv, HandlerInv
<1>4. Pushed \in Seq(Words) /\ Ds \in Words
  <2>1. {USER_DS, KERNEL_DS, USER_CS, USER_ESP, usr_main} \subseteq Words
    BY DEF Words
  <2>2. /\ <<>> \in Seq(Words) /\ <<USER_DS>> \in Seq(Words) /\ <<USER_DS, USER_ESP>> \in Seq(Words)
        /\ <<USER_DS, USER_ESP, USER_CS>> \in Seq(Words)
        /\ <<USER_DS, USER_ESP, USER_CS, usr_main>> \in Seq(Words)
    BY <2>1
  <2> QED
    BY <2>1, <2>2 DEF Pushed, Ds
<1>5. /\ (pc = 29 => stack' = Pushed)
      /\ (pc # 29 => stack[Len(stack)] = Ds /\ stack' = Pushed)
  <2>1. CASE pc = 29
    BY <1>1, <1>2, <2>1 DEF BootInv, CpuInv, StackInv
  <2>2. CASE pc # 29
    <3>1. stack = Pushed \o <<"eflags", "cs", "eip", Ds>> /\ cpu.cpl = 0
      BY <1>1, <1>2, <2>2 DEF BootInv, CpuInv, StackInv
    <3>2. stack[Len(stack)] = Ds /\ SubSeq(stack, 1, Len(stack) - 4) = Pushed
      BY <1>4, <3>1, Unwound
    <3> QED
      BY <1>1, <2>2, <3>1, <3>2
  <2> QED
    BY <2>1, <2>2
<1>6. cpu' = [cpu EXCEPT !.iflag = 1, !.ds = Ds]
  <2>1. CASE pc = 29
    BY <1>1, <1>2, <2>1 DEF CpuInv, Ds
  <2>2. CASE pc # 29
    <3>1. PICK w : w = stack[Len(stack)]
      OBVIOUS
    <3>2. cpu.cpl = 0 /\ w = Ds
      BY <1>2, <1>5, <2>2, <3>1 DEF CpuInv
    <3>3. cpu' = [cpu EXCEPT !.iflag = 1, !.ds = IF cpu.cpl = 3 THEN USER_DS ELSE w]
      BY <3>1 DEF HandlerReturns
    <3> QED
      BY <3>2, <3>3
  <2> QED
    BY <2>1, <2>2
<1>7. /\ cpu' \in Cpus
      /\ cpu'.iflag = 1 /\ cpu'.cpl = cpu.cpl /\ cpu'.ds = Ds
      /\ cpu'.idtr = cpu.idtr /\ cpu'.gdtr = cpu.gdtr /\ cpu'.tr = cpu.tr
      /\ cpu'.msr = cpu.msr /\ cpu'.paging = cpu.paging
  BY <1>2, <1>6 DEF Cpus, Ds
<1>8. CpuInv'
  BY <1>1, <1>2, <1>3, <1>7 DEF CpuInv, Ds
<1>9. MemInv'
  BY <1>1, <1>2 DEF MemInv
<1>10. StackInv'
  BY <1>1, <1>5 DEF BootInv, StackInv, Pushed
<1>11. HandlerInv' /\ TicksCounted' /\ zeos_ticks' \in Nat
  BY <1>1, <1>2, <1>3 DEF BootInv, TypeInv, HandlerInv, TicksCounted
<1> QED
  BY <1>1, <1>2, <1>7, <1>8, <1>9, <1>10, <1>11 DEF BootInv, TypeInv

LEMMA DoesUserEvent ==
  ASSUME BootInv, UserEvent
  PROVE  BootInv'
<1>1. /\ pc = 29 /\ handler = "none"
      /\ UNCHANGED <<pic, mem, stack, user, zeos_ticks, pulses, clocks>>
  BY WholeText DEF UserEvent, InUserMode
<1>2. cpu \in Cpus /\ CpuInv /\ MemInv /\ TypeInv
  BY DEF BootInv, TypeInv
<1>3. CanSysenter
  BY <1>1, <1>2 DEF CanSysenter, CpuInv
<1>4. CASE UNCHANGED <<handler, cpu, pc>>
  <2>1. CpuInv' /\ MemInv'
    BY <1>1, <1>2, <1>4 DEF CpuInv, MemInv, Ds
  <2>2. StackInv' /\ HandlerInv' /\ TicksCounted'
    BY <1>1, <1>4 DEF BootInv, StackInv, HandlerInv, TicksCounted, Pushed
  <2> QED
    BY <1>1, <1>2, <1>4, <2>1, <2>2 DEF BootInv, TypeInv
<1>5. CASE Entered(PAGE_FAULT)
  <2>1. 14 \in Vectors /\ Entered(14) /\ pc > 21
    BY <1>1, <1>5, HandlerNames DEF PAGE_FAULT
  <2>2. /\ handler' = "page_fault_handler2" /\ pc' = pc /\ cpu' \in Cpus
        /\ cpu'.iflag = 0 /\ cpu'.cpl = cpu.cpl /\ cpu'.idtr = cpu.idtr
        /\ cpu'.gdtr = cpu.gdtr /\ cpu'.tr = cpu.tr /\ cpu'.msr = cpu.msr
        /\ cpu'.paging = cpu.paging
    BY <2>1, DoesEnter, HandlerNames
  <2>3. CpuInv' /\ MemInv'
    BY <1>1, <1>2, <2>2 DEF CpuInv, MemInv, Ds
  <2>4. StackInv' /\ HandlerInv' /\ TicksCounted'
    BY <1>1, <1>2, <2>2 DEF BootInv, TypeInv, StackInv, HandlerInv, TicksCounted, Pushed
  <2> QED
    BY <1>1, <1>2, <2>2, <2>3, <2>4 DEF BootInv, TypeInv
<1> QED
  BY <1>3, <1>4, <1>5 DEF UserEvent

LEMMA DoesDevice ==
  ASSUME BootInv, TimerPulse \/ KeyEvent
  PROVE  BootInv'
<1>1. /\ UNCHANGED <<pc, cpu, mem, stack, handler, user, zeos_ticks, clocks>>
      /\ pulses' \in {pulses, pulses + 1}
      /\ \E irq \in {CLOCK, KEYBOARD} : pic' = [pic EXCEPT !.irr = @ \cup {irq}]
  BY DEF TimerPulse, KeyEvent
<1>2. TypeInv /\ pic \in Pics
  BY DEF BootInv, TypeInv
<1>3. pic' \in Pics /\ pic'.base = pic.base
  BY <1>1, <1>2 DEF Pics
<1>4. CpuInv' /\ MemInv'
  BY <1>1, <1>3 DEF BootInv, CpuInv, MemInv, Ds
<1>5. StackInv' /\ HandlerInv' /\ TicksCounted'
  BY <1>1 DEF BootInv, StackInv, HandlerInv, TicksCounted, Pushed, Ds
<1> QED
  BY <1>1, <1>2, <1>3, <1>4, <1>5 DEF BootInv, TypeInv

LEMMA BootUnchanged ==
  ASSUME BootInv, UNCHANGED vars
  PROVE  BootInv'
<1>1. UNCHANGED <<pc, cpu, pic, mem, stack, handler, user, zeos_ticks, pulses, clocks>>
  BY DEF vars
<1>2. CpuInv' /\ MemInv'
  BY <1>1 DEF BootInv, CpuInv, MemInv, Ds
<1>3. StackInv' /\ HandlerInv' /\ TicksCounted'
  BY <1>1 DEF BootInv, StackInv, HandlerInv, TicksCounted, Pushed, Ds
<1> QED
  BY <1>1, <1>2, <1>3 DEF BootInv, TypeInv

LEMMA BootInitially ==
  ASSUME Init
  PROVE  BootInv
<1>1. cpu \in Cpus /\ CpuInv
  <2>1. /\ pc = 1 /\ handler = "none"
        /\ cpu = [iflag |-> 1, cpl |-> 0, protected |-> FALSE, ds |-> 0, idtr |-> "BIOS",
                  gdtr |-> "none", tr |-> 0, msr |-> NoMsr, paging |-> FALSE]
    BY DEF Init
  <2>2. NoMsr \in [cs : {0, KERNEL_CS}, esp : {"", INITIAL_ESP}, eip : {"", "syscall_handler"}]
    BY DEF NoMsr
  <2>3. cpu \in Cpus
    BY <2>1, <2>2 DEF Cpus
  <2>4. cpu.cpl = 0 /\ cpu.iflag = 1 /\ cpu.idtr = "BIOS"
    BY <2>1
  <2> QED
    BY <2>1, <2>3, <2>4 DEF CpuInv
<1>2. pic \in Pics
  BY DEF Init, Pics
<1>3. mem \in Mems /\ MemInv
  <2>1. NoDescriptor \in [lowBase : Nat, midBase : Nat, highBase : Nat]
    <3>1. BYTE \in Nat /\ BYTE > 1 /\ WORD \in Nat /\ WORD > 1 /\ WORD * BYTE \in Nat
          /\ WORD * BYTE > 1
      BY ByteSizes
    <3>2. \A x, y \in Nat : x > 1 /\ y > 1 => (0 \div x) % y \in Nat /\ 0 % x \in Nat
      OBVIOUS
    <3>3. lowWord(0) \in Nat /\ midByte(0) \in Nat /\ highByte(0) \in Nat
      BY <3>1, <3>2 DEF lowWord, midByte, highByte
    <3> QED
      BY <3>3 DEF NoDescriptor, Descriptor
  <2>2. [v \in Vectors |-> NoGate] \in [Vectors -> Gates]
    BY DEF NoGate, Gate, Gates
  <2> QED
    <3>1. /\ pc = 1
          /\ mem = [a20 |-> FALSE, gdt_tss |-> NoDescriptor, esp0 |-> "", ss0 |-> 0,
                    idt |-> [v \in Vectors |-> NoGate],
                    kernel_pages |-> FALSE, user_pages |-> FALSE, user_code |-> FALSE]
      BY DEF Init
    <3>2. mem \in Mems
      BY <2>1, <2>2, <3>1 DEF Mems
    <3>3. pc = 1
      BY <3>1
    <3>4. MemInv
      BY <3>3 DEF MemInv
    <3> QED
      BY <3>2, <3>4
<1>4. StackInv /\ HandlerInv /\ TicksCounted
  <2>1. pc = 1 /\ stack = <<>> /\ handler = "none" /\ zeos_ticks = 0 /\ clocks = 0
    BY DEF Init
  <2> QED
    BY <2>1 DEF StackInv, HandlerInv, TicksCounted, Pushed
<1>5. TypeInv
  <2>1. pc = 1 /\ handler = "none" /\ zeos_ticks = 0 /\ pulses = 0 /\ clocks = 0
    BY DEF Init
  <2> QED
    BY <1>1, <1>2, <1>3, <2>1 DEF TypeInv
<1> QED
  BY <1>1, <1>3, <1>4, <1>5 DEF BootInv

LEMMA BootPreserved ==
  ASSUME BootInv, [Next]_vars
  PROVE  BootInv'
BY DoesProcessor, DoesSetGdt, DoesSetIdt, DoesSetTSS, DoesController, DoesMemory, DoesUserStore,
   DoesReset, DoesPrintk, DoesPush, DoesLret, DoesInterrupt, DoesHandlerReturn, DoesUserEvent,
   DoesDevice, BootUnchanged
DEF Next, Spin
---------------------------------------------------------------------------
(* What main has prepared when a step of it, an interrupt or the user      *)
(* program comes to need it.                                               *)
THEOREM BootPrepares == Spec => []BootInv
BY BootInitially, BootPreserved, PTL DEF Spec

(* Wherever the linker puts the handlers and the TSS, and whenever the     *)
(* devices interrupt, no interrupt, store, system call or fault finds the  *)
(* kernel unprepared (the order of main, setIdt's gates, enable_int).      *)
THEOREM BootNeverLost == Spec => []NeverLost
<1>1. BootInv => NeverLost
  BY DEF BootInv, TypeInv, NeverLost, Dead
<1> QED
  BY <1>1, BootPrepares, PTL

(* return_gate enters the user program at usr_main as main asked, however  *)
(* many handlers run on the stack while it builds its frame there.         *)
THEOREM BootStartsUser == Spec => []UserStartsRight
<1>1. ASSUME BootInv PROVE UserStartsRight
  <2> SUFFICES ASSUME pc = 29
               PROVE  /\ user = [ss |-> USER_DS, esp |-> USER_ESP, cs |-> USER_CS, eip |-> usr_main]
                      /\ handler = "none" => cpu.ds = USER_DS /\ cpu.iflag = 1
                      /\ cpu.paging /\ mem.user_pages /\ mem.user_code
                      /\ stack = <<>>
    BY WholeText DEF UserStartsRight
  <2>1. handler = "none" => cpu.ds = USER_DS /\ cpu.iflag = 1
    BY <1>1 DEF BootInv, CpuInv, Ds
  <2>2. cpu.paging = TRUE /\ mem.user_pages = TRUE /\ mem.user_code = TRUE
    BY <1>1 DEF BootInv, CpuInv, MemInv
  <2> QED
    BY <1>1, <2>1, <2>2 DEF BootInv, StackInv, Pushed
<1> QED
  BY <1>1, BootPrepares, PTL

(* reset_clock_ticks comes before the first clock interrupt, and every one *)
(* after it runs clock_handler once.                                       *)
THEOREM BootCountsTicks == Spec => []TicksCounted
<1>1. BootInv => TicksCounted
  BY DEF BootInv
<1> QED
  BY <1>1, BootPrepares, PTL
===========================================================================
