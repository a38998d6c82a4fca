-------------------------------- MODULE User ------------------------------
(***************************************************************************)
(* The user program on the kernel: main of user.c and the library functions*)
(* of libc.c it calls, down to the write and gettime of module Kernel,     *)
(* with every interrupt Kernel has.  After the text of main, its while(1)  *)
(* makes one more call of any kind, for any program linked with libc.      *)
(*                                                                         *)
(* frames is the stack of C functions, the innermost first, each with its  *)
(* argument, its local written and pc, the number of calls it has made.    *)
(* The bytes of a literal are named by their addresses, which lie above    *)
(* the ASCII codes of the bytes the library computes.                      *)
(***************************************************************************)
EXTENDS Kernel, Conversions

CONSTANTS rodata,         \* literal -> [at |-> address, len |-> its length]
          CHAR_AT,        \* address of printchar's parameter c
          ITOA_AT,        \* address of printint's itoa_buff
          Texts, Numbers, \* what the program prints
          Eips,           \* where it faults
          COPY_EIP,       \* an address in copy_from_user
          Junk            \* what may follow print_page_fault's buff in memory

INT_MAX == 2147483647
IsInt(n) == n \in Int /\ n >= -INT_MAX - 1 /\ n <= INT_MAX

ITOA_BUFF_10 == 10
ITOA_BUFF == 11        \* char itoa_buff[11]
InItoaBuff(addr) == addr \in ITOA_AT .. ITOA_AT + ITOA_BUFF - 1

Messages == {"Bad file number", "Permission denied", "Bad address", "Invalid argument",
             "Function not implemented", ""}
Strings == {"Hello", "alive", "alo", "alo2", " (", " bytes)"} \cup Messages

(* Literals with the NUL that ends them, c and itoa_buff are in the user's *)
(* pages and do not overlap; ticks, numbers and addresses are ints.        *)
ASSUME UserAssumption ==
  /\ (TICK_RANGE - 1) \div 2 <= INT_MAX
  /\ Strings \cup Texts \subseteq DOMAIN rodata
  /\ \A name \in DOMAIN rodata :
       LET l == rodata[name]
       IN /\ l \in [at : Nat, len : Nat] /\ l.len <= INT_MAX
          /\ \A a \in l.at .. l.at + l.len : UserMapped(a) /\ a # CHAR_AT /\ ~InItoaBuff(a)
          /\ \A other \in DOMAIN rodata : rodata[other].at = l.at => rodata[other].len = l.len
  /\ CHAR_AT \in Nat /\ ITOA_AT \in Nat /\ ~InItoaBuff(CHAR_AT)
  /\ UserMapped(CHAR_AT) /\ \A a \in ITOA_AT .. ITOA_AT + ITOA_BUFF - 1 : UserMapped(a)
  /\ \A n \in Numbers \cup Eips \cup {COPY_EIP} : IsInt(n)
  /\ Junk \subseteq Seq(Nat)

VARIABLES frames,
          ret,            \* value of the last function that returned
          c_param,        \* the char at CHAR_AT
          itoa_buff,
          fault,          \* eip of a page fault, and the text printed for it
          \* History, read by no action's guard:
          answered,       \* number of the last system call, and the kernel's answer
          job,            \* the last function main called, and its argument
          out             \* bytes shown since

program == <<frames, ret, c_param, itoa_buff>>
uhistory == <<answered, job, out>>
allvars == <<vars, program, fault, uhistory>>

Frame(fn, arg) == [fn |-> fn, arg |-> arg, pc |-> 0, written |-> 0]
Literal(name) == rodata[name].at

NoAnswer == [nr |-> 0, value |-> 0]
NoJob == [fn |-> "none", arg |-> 0, after |-> NoAnswer]

UserInit ==
  /\ Init
  /\ frames = <<Frame("main", 0)>> /\ ret = 0
  /\ c_param = EndOfString /\ itoa_buff = <<EndOfString>>
  /\ fault = [eip |-> 0, text |-> <<>>]
  /\ answered = NoAnswer /\ job = NoJob /\ out = <<>>
---------------------------------------------------------------------------
(* User memory. *)
Byte(addr) == CASE addr = CHAR_AT    -> c_param
                [] InItoaBuff(addr)  -> itoa_buff[addr - ITOA_AT + 1]
                [] OTHER             -> addr
string_length(addr) ==
  IF addr = ITOA_AT THEN strlen(itoa_buff)
  ELSE (CHOOSE l \in {rodata[name] : name \in DOMAIN rodata} : l.at = addr).len

(* Calls and returns. *)
Top == Head(frames)
Runs(fn, pc) == UserRuns("user") /\ Top.fn = fn /\ Top.pc = pc
Resumed == [Top EXCEPT !.pc = @ + 1]
Call(fn, arg) ==
  /\ frames' = <<Frame(fn, arg), Resumed>> \o Tail(frames)
  /\ UNCHANGED ret
CallKeeping(fn, arg, written) ==
  /\ frames' = <<Frame(fn, arg), [Resumed EXCEPT !.written = written]>> \o Tail(frames)
  /\ UNCHANGED ret
Ret(value) == frames' = Tail(frames) /\ ret' = value
Quiet == UNCHANGED <<vars, c_param, itoa_buff, fault, uhistory>>

(* print and printchar end with write, whose result is theirs. *)
print ==
  /\ Runs("print", 0)
  /\ write(1, Top.arg, string_length(Top.arg))
  /\ UNCHANGED <<program, fault, uhistory>>

printchar ==
  /\ Runs("printchar", 0)
  /\ c_param' = Top.arg
  /\ write(1, CHAR_AT, 1)
  /\ UNCHANGED <<frames, ret, itoa_buff, fault, uhistory>>

printint ==
  \/ /\ Runs("printint", 0)
     /\ itoa_buff' = itoa(Top.arg)
     /\ Call("print", ITOA_AT)
     /\ UNCHANGED <<vars, c_param, fault, uhistory>>
  \/ /\ Runs("printint", 1) /\ Ret(ret)
     /\ itoa_buff' = <<EndOfString>>
     /\ UNCHANGED <<vars, c_param, fault, uhistory>>

(* println and printintln: the text, then a newline; stop at an error. *)
Line(fn, text) ==
  \/ Runs(fn, 0) /\ Call(text, Top.arg) /\ Quiet
  \/ /\ Runs(fn, 1) /\ Quiet
     /\ IF ret < 0 THEN Ret(ret) ELSE CallKeeping("printchar", NEWLINE, ret)
  \/ Runs(fn, 2) /\ Ret(IF ret < 0 THEN ret ELSE Top.written + 1) /\ Quiet

println == Line("println", "print")
printintln == Line("printintln", "printint")

(* The messages of the errors of write; all other entries are "". *)
errno_message(e) ==
  Literal(CASE e = EBADF -> "Bad file number" [] e = EACCES -> "Permission denied"
            [] e = EFAULT -> "Bad address"    [] e = EINVAL -> "Invalid argument"
            [] e = ENOSYS -> "Function not implemented" [] OTHER -> "")

perror ==
  \/ Runs("perror", 0) /\ Call("println", errno_message(errno)) /\ Quiet
  \/ Runs("perror", 1) /\ Ret(ret) /\ Quiet

printlntest ==
  \/ Runs("printlntest", 0) /\ Call("print", Top.arg) /\ Quiet
  \/ /\ Runs("printlntest", 1) /\ Quiet
     /\ IF ret < 0 THEN Ret(ret) ELSE CallKeeping("print", Literal(" ("), ret)
  \/ Runs("printlntest", 2) /\ Call("printint", Top.written) /\ Quiet
  \/ Runs("printlntest", 3) /\ Call("println", Literal(" bytes)")) /\ Quiet
  \/ Runs("printlntest", 4) /\ Ret(ret) /\ Quiet
---------------------------------------------------------------------------
(* main, and any other program. *)
main ==
  <<[fn |-> "printlntest", arg |-> "Hello"], [fn |-> "printlntest", arg |-> "alive"],
    [fn |-> "write", fd |-> 0, buffer |-> Literal("alo"), size |-> 3], [fn |-> "perror"],
    [fn |-> "write", fd |-> 1, buffer |-> NULL, size |-> 3], [fn |-> "perror"],
    [fn |-> "write", fd |-> 1, buffer |-> Literal("alo2"), size |-> -1], [fn |-> "perror"]>>

(* A library call of the program itself is a job: what it shows is seen. *)
Job(fn, arg) ==
  /\ Call(fn, arg)
  /\ job' = [fn |-> fn, arg |-> arg, after |-> answered] /\ out' = <<>>
  /\ UNCHANGED <<vars, c_param, itoa_buff, fault, answered>>

Unobserved == job' = NoJob /\ out' = <<>> /\ UNCHANGED <<answered, fault>>

perror_if_failed ==
  IF ret < 0 THEN Job("perror", 0)
             ELSE frames' = <<Resumed>> /\ UNCHANGED ret /\ Quiet

WHILE == Len(main)

main_step ==
  /\ UserRuns("user") /\ Top.fn = "main" /\ Top.pc < WHILE
  /\ LET step == main[Top.pc + 1]
     IN \/ step.fn = "printlntest" /\ Job(step.fn, Literal(step.arg))
        \/ step.fn = "perror" /\ perror_if_failed
        \/ /\ step.fn = "write" /\ write(step.fd, step.buffer, step.size)
           /\ Unobserved /\ UNCHANGED program

(* In while(1), once: a library call ... *)
call_library ==
  /\ Runs("main", WHILE)
  /\ \/ \E n \in Numbers, fn \in {"printint", "printintln"} : Job(fn, n)
     \/ \E l \in Texts, fn \in {"print", "println"} : Job(fn, Literal(l))

(* ... or a system call and then what uses its result: printintln after    *)
(* gettime, as in the loop of user.c, perror after those that report       *)
(* errors (a negative count would lead it out of errno_message) ...        *)
call_system ==
  /\ Runs("main", WHILE)
  /\ \/ gettime /\ frames' = <<[Top EXCEPT !.pc = WHILE + 1]>>
     \/ UserCall /\ req'.nr # NR_GETTIME /\ frames' = <<[Top EXCEPT !.pc = WHILE + 3]>>
  /\ Unobserved /\ UNCHANGED <<ret, c_param, itoa_buff>>

use_result == \/ Runs("main", WHILE + 2) /\ Job("printintln", ret)
              \/ Runs("main", WHILE + 4) /\ perror_if_failed

(* ... or a fault. *)
stray ==
  /\ Runs("main", WHILE)
  /\ UserFault /\ \E eip \in Eips : fault' = [fault EXCEPT !.eip = eip]
  /\ UNCHANGED <<program, uhistory>>
---------------------------------------------------------------------------
(* The system call returns to the function that made it. *)
Returned ==
  /\ UserResumes
  /\ ret' = eax /\ answered' = [nr |-> req.nr, value |-> sysret]
  /\ frames' = IF Top.fn \in {"print", "printchar"} THEN Tail(frames)
                                                    ELSE <<Resumed>> \o Tail(frames)
  /\ c_param' = EndOfString
  /\ UNCHANGED <<itoa_buff, fault, job, out>>

KernelRuns ==
  /\ KernelStep
  /\ out' = IF Len(printed') > Len(printed)
              THEN Append(out, Byte(printed'[Len(printed')])) ELSE out
  /\ fault' \in IF at = "print_page_fault"
                  THEN {[fault EXCEPT !.text = fault_text(fault.eip, rest)] : rest \in Junk}
                  ELSE {IF at' = "print_page_fault" THEN [fault EXCEPT !.eip = COPY_EIP] ELSE fault}
  /\ UNCHANGED <<program, answered, job>>

Devices ==
  /\ \/ TimerPulse
     \/ \E event \in Scancodes : KeyEvent(event)
     \/ \E irq \in {CLOCK, KEYBOARD} : Deliver(irq)
  /\ UNCHANGED <<program, fault, uhistory>>

CheckError == CHECK_ERROR /\ UNCHANGED <<program, fault, uhistory>>

Program ==
  \/ CheckError \/ Returned \/ print \/ printchar \/ printint \/ println \/ printintln
  \/ perror \/ printlntest \/ main_step \/ use_result

UserNext == Devices \/ KernelRuns \/ Program \/ call_library \/ call_system \/ stray

UserSpec == UserInit /\ [][UserNext]_allvars

(* The processor runs the kernel, takes pending interrupts, and otherwise  *)
(* runs the program, which may stay in while(1) but not inside a function. *)
UserFairSpec ==
  /\ UserSpec
  /\ WF_allvars(KernelRuns)
  /\ WF_allvars(Deliver(CLOCK) /\ UNCHANGED <<program, fault, uhistory>>)
  /\ SF_allvars(Deliver(KEYBOARD) /\ UNCHANGED <<program, fault, uhistory>>)
  /\ SF_allvars(Program)
---------------------------------------------------------------------------
Functions == {"main", "print", "printchar", "printint", "println", "printintln",
              "perror", "printlntest"}

(* Frames are of known functions, and itoa never writes past the end of    *)
(* itoa_buff.                                                              *)
UserTypeOK ==
  /\ \A k \in 1 .. Len(frames) : frames[k].fn \in Functions /\ frames[k].pc \in 0 .. WHILE + 5
  /\ frames # <<>> /\ frames[Len(frames)].fn = "main"
  /\ ret \in Int
  /\ Len(itoa_buff) \in 1 .. ITOA_BUFF

(* The program is back in main from the function it called. *)
JobDone(fn) == at = "user" /\ Len(frames) = 1 /\ job.fn = fn

Bytes(addr) == [k \in 1 .. string_length(addr) |-> addr + k - 1]
Parenthesis == Bytes(Literal(" ("))
Trailer == Bytes(Literal(" bytes)")) \o <<NEWLINE>>
Inside(s, left, right) == SubSeq(s, left + 1, Len(s) - right)

(* Whatever interrupts come in between, a library function shows all of    *)
(* its text and nothing else (numbers in decimal, lines with their newline,*)
(* and printlntest the length of what it printed) and returns the number   *)
(* of bytes it has shown.                                                  *)
LibraryPrints ==
  /\ JobDone("print") => out = Bytes(job.arg)
  /\ JobDone("println") => out = Append(Bytes(job.arg), NEWLINE)
  /\ JobDone("printint") /\ job.arg >= 0 => Denotes(out, 10, job.arg)
  /\ JobDone("printintln") /\ job.arg >= 0 =>
       Denotes(Inside(out, 0, 1), 10, job.arg) /\ out[Len(out)] = NEWLINE
  /\ JobDone("printlntest") =>
       LET text == Bytes(job.arg)
           number == Inside(out, Len(text) + Len(Parenthesis), Len(Trailer))
       IN /\ out = text \o Parenthesis \o number \o Trailer
          /\ Denotes(number, 10, Len(text))
  /\ \A fn \in {"print", "println", "printint", "printintln"} :
       JobDone(fn) => ret = Len(out)

(* perror after a write the kernel refused shows the message of that       *)
(* error: the negative answer crosses sysexit, CHECK_ERROR, set_errno and  *)
(* the table, and the printing of the message does not disturb it.         *)
ErrorTexts == {<<EBADF, "Bad file number">>, <<EACCES, "Permission denied">>,
               <<EFAULT, "Bad address">>, <<EINVAL, "Invalid argument">>}
PerrorExplains ==
  JobDone("perror") /\ job.after.nr = NR_WRITE =>
    \E e \in ErrorTexts : /\ job.after.value = -e[1]
                          /\ out = Append(Bytes(Literal(e[2])), NEWLINE)

(* The report of a page fault shows the faulting address in hexadecimal,   *)
(* followed by nothing else if it has up to seven digits (all of the       *)
(* user's pages do), for every address itox takes for a positive int.      *)
FaultReported ==
  at = "page_fault_routine" /\ fault.eip >= 0 =>
    LET text == fault.text
    IN IF Len(text) < 8 THEN Denotes(text, 16, fault.eip)
       ELSE Denotes(SubSeq(text, 1, 8), 16, fault.eip)

(* A timer of 55 ms and a typist leave the program, when the processor is  *)
(* not in the kernel, time to run.                                         *)
DevicesSlow == []<>(at \in UserCode) => []<>(at \in UserCode /\ irr = {})

(* Then main gets through all its calls to while(1), and the program comes *)
(* back there from every system call and library call: none is caught in   *)
(* the kernel or starved by interrupts, unless the machine halts on a      *)
(* fault.                                                                  *)
ProgramSettles ==
  DevicesSlow =>
    <>[](\/ /\ Len(frames) = 1 /\ Base = "user"
            /\ Top.pc \in {WHILE, WHILE + 1, WHILE + 3, WHILE + 5}
         \/ Halted)

(* user.c's printintln(gettime()): the ticks since the system started are  *)
(* what is shown.                                                          *)
TimePrinted ==
  JobDone("printintln") /\ job.after.nr = NR_GETTIME =>
    Denotes(Inside(out, 0, 1), 10, job.after.value % TICK_RANGE)
===========================================================================
