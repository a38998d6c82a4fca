# ZeOS in TLA+

ZeOS is a small teaching operating system for the IA-32: a boot sector, a
kernel with a clock, a keyboard, a console, page tables and two system calls
(`write` and `gettime`), and one user process. This directory holds TLA+
modules that model its code, TLC configurations that check them on small
instances, and TLAPS proofs of the properties that matter most. Source paths
below are relative to the repository.

    tlc -workers 2 -config MCKernel.cfg MCKernel     # model-check one run
    tlapm KernelProofs.tla                           # check one proof module

`PROJECT.json` lists components, runs, mutants, the map from definitions to
source lines, findings, hazards and theorems.

## 1. Inventory

| component | source | state | operations | module |
|---|---|---|---|---|
| memory management | `mm.c`, `sched.c` | `phys_mem`, `dir_pages`, `pagusr_table`, cr3, CR0.PG | `init_mm`, `alloc_frame`, `free_frame`, `set_user_pages`, `free_user_pages`, `set_ss_pag`, `del_ss_pag`, `allocate_DIR`, `set_cr3` | Mm |
| system calls | `sys.c`, `sys_call_table.S`, `utils.c` | locals of `sys_write` | dispatch, `sys_write`, `sys_gettime`, `sys_ni_syscall`, `access_ok`, `copy_from_user` | Kernel |
| interrupts and drivers | `interrupt.c`, `clock.c`, `keyboard.c` | `zeos_ticks`, IDT; the 8259 and the devices | `clock_routine`, `keyboard_routine`, `print_page_fault` | Kernel |
| entry and exit paths | `entry.S`, `libc_sys.S`, `libc.c` | registers, both stacks, `errno` | `SAVE_ALL`, `RESTORE_ALL`, `EOI`, `syscall_handler`, the handlers, `write`, `gettime`, `CHECK_ERROR`, `set_errno` | Entry |
| console | `io.c`, `devices.c` | `x`, `y`, video memory | `printc`, `printc_xy`, `printk`, `sys_write_console` | Console, Terminal |
| lists | `list.c`, `list.h` | `next` and `prev` of each `list_head` | `INIT_LIST_HEAD`, `list_add`, `list_add_tail`, `list_del`, tests, `list_for_each_safe` | List |
| image builder | `build.c` | the image on stdout, bytes left of a file, four numbers | `main`, `minix_open`, `die` | Build |
| boot loader | `bootsect.S` | `sread`, `head`, `track`, es:bx, `syssize` | `read_it`, `read_track` | Loader |
| start-up | `bootsect.S`, `system.c`, `hardware.c`, `interrupt.c`, `mm.c`, `types.h` | IF, CPL, segment and system registers, 8259, IDT, GDT, TSS, MSRs | the steps of `main`, `setInterruptHandler`, `setGdt`, `setTSS`, `enable_int`, `return_gate` | Boot, Descriptors |
| block copies | `utils.c` | `size`, the two pointers | `copy_data` (`copy_from_user` and `copy_to_user` are the same loop) | Copy |
| from files to memory | the three above | the stage reached | builder, then loader, then `copy_data` in `main` | Image |
| conversions | `libc.c`, `utils.c`, `interrupt.c` | none | `itoa`, `itox`, `strlen`, the text of `print_page_fault` | Conversions |
| library and program | `libc.c`, `user.c` | C frames, `errno`, `itoa_buff` | `print`, `printchar`, `printint`, `printintln`, `println`, `perror`, `printlntest`, `main` | User |
| system calls, abstractly | `sys.c`, `libc_sys.S` | the call in progress, what it has shown, its answer | what a caller may rely on | Syscalls |
| process management stubs | `sched.c`, `sys.c` | none that changes | empty bodies or no caller | not modelled |

How they meet. The user process calls a wrapper of `libc_sys.S`, which loads
registers and executes `sysenter`; `syscall_handler` builds a frame,
dispatches through `sys_call_table` and leaves with `sti; sysexit`; the
wrapper's `CHECK_ERROR` then sets `errno` in user mode. The clock and the
keyboard interrupt user code (never the kernel, see `NoNesting`) through
interrupt gates; their routines share the console's cursor and video memory
with `sys_write`. `sys_write` reads user memory through the page tables of
`mm.c`, trusting `access_ok`. A page fault, in the process or in
`sys_write`, is reported and stops the machine.

What is hard to test here: interrupts at every instruction of the wrappers and
of `return_gate`; the point at which each handler ends its interrupt; scan
codes and pulses that arrive while earlier ones are unserved; stack offsets
that depend on everything pushed before them; boundaries (128-byte chunks, the
end of the user's pages, 64 kB segments, tracks, the last cell of the screen,
the sign of a tick counter); a read, a write or a BIOS call that fails half-way
through the image; numbers three separate programs agree on only by their
offsets; sequences of allocations and frees no caller makes yet. Each is an entry of "hazards" at the line where it bites, with the
properties that would catch it.

## 2. Modules and the code

**Mm.** `phys_mem`, `pagusr_table`, `dir_pages`, `dir_pages_baseAddr`, `cr3`
and `paging` are the code's own. Each function is an action; the loops of
`set_user_pages` and `free_user_pages` take one step per page (`call` is the
loop counter), so that invariants also hold inside them. `Pbase` is the 20-bit
field that turns the -1 of a failed `alloc_frame` into all ones. Pointers are
byte addresses: `allocate_DIR` divides the distance from `task` by the size of
the union, a directory keeps its table's address without the low bits
(`init_dir_pages`) and `get_PT` shifts it back. `Load`, `LoadDir` and `Store`
find the entry at an address; a wrong address leads to none or to another one.
Once paging is on, every pointer the functions follow is translated
(`Physical`) by the table that `cr3` leads to (`Walked`), one of the tables they
change. That `get_PT`'s physical address may be used as a pointer is therefore
a property, `TablesPrivate`, and no definition. Most functions
have no caller at this commit: a client calls them in any order, meeting two
obligations (it maps and frees only frames it got from `alloc_frame`, unmapped
before they are freed; `set_user_pages` is called on a task whose data pages
are absent). The TLB is not modelled.

**Kernel.** `at` is the code the processor executes, `stack` the suspended
contexts. An interrupt is taken whenever IF is 1 and the 8259 allows it, in any
code: nothing in the model forbids nesting, only the gates' flag (`gate_IF`)
and `sysenter` do, as in the code. Actions are the straight-line stretches of
the handlers and of `sys_write`; the console is one `printc` per step.
Addresses stand for the bytes they hold, so `printed` says which bytes were
written. `pulses`, `lost`, `printed`, `sysret` and `errno0` are history. The
8259 has fixed priorities, an edge-triggered request register and an in-service
register; a byte that reaches the keyboard controller's output raises IRQ 1.
A scan code past `char_map` reads a byte chosen freely. The word after
`sys_call_table`, where number 11 leads, is no service routine: `wild` is where
the model stops following. In `page_fault_routine` the handler spins with
interrupts off, so only devices move.

**Entry.** The same paths one instruction at a time: each routine of `entry.S`
and `libc_sys.S` is a sequence of instructions at an address of its own, the
stacks are sequences of words. C functions follow the ABI: they clobber eax, ecx and edx
and may overwrite their arguments. `system_call_handler` (int 0x80) has no gate
and is left out.

**Console, Terminal.** `x`, `y` and video memory, one `printc` per step.
`Terminal` is the abstract specification: one position running through the
cells, and pokes that do not move it. The mapping is `pos <- y * NUM_COLUMNS +
x`; `printc_xy` and the clock display must be pokes.

**List.** Pointers as functions on nodes, and beside them (history) the
sequence each list stands for. The client adds only entries that are in no
list and deletes only linked ones.

**Conversions.** `digits` is the `while (a>0)` loop as a recursive function,
`swap_ends` the reversal in place, `fault_text` what `printk` shows of
`print_page_fault`'s buffer, whose byte 8 is overwritten and which may have
lost its terminator. `Denotes` is the reference: the value of a text read from
the left, without leading zeros.

**User.** Extends Kernel: `frames` is the stack of C functions with their
argument, the local `written` and a counter of the calls they have made. Each
action runs a function up to its next call or its return; `print` and
`printchar` end in Kernel's `write`, and `Returned` takes Kernel's result back.
`main` is user.c's text; in its `while(1)` the model makes one more call of any
kind, `printintln(gettime())` of user.c's comment included, or faults. Bytes of
literals are named by their addresses, computed bytes by their ASCII code.
`job` and `out` (history) hold the function main called and the bytes shown
since.

**Syscalls.** The abstract specification: a call shows bytes of its buffer one
after the other, is served with an answer, and is delivered to the program as
value or as -1 and `errno`; no chunks, no stack, no interrupts but ticks. `Kernel`
maps itself to it (`ImplementsSyscalls`): `CallPhase` is where the call stands,
below a handler too. What is shown must be memory the program owns.

**Build.** The whole of `build.c`, one action per open, per piece of a file and
per number; every call may fail, a write after half of its bytes. A byte is
named by its file and place.

**Loader.** `read_it` in units of sectors; `int 0x13` is external, and one call
of it may deliver fewer sectors than asked, which the code does not see.
`memory` records which sector lies where.

**Copy.** The loop of `copy_data`, a word or a byte per step.

**Image.** Composes Build, Loader and Copy: the diskette Build wrote is booted,
`syssize` is read from its boot sector, and `main` takes the two lengths from
the first bytes of what was loaded. A kernel with a sector missing does not run
(`crash`).

**Descriptors, Boot.** `Text` is the order of the steps of the boot sector's end
and of `main`; each step changes the processor, the 8259, memory or the stack.
The devices raise IRQs from the beginning. Gates and the TSS descriptor hold
addresses in pieces, cut by `lowWord`, `highWord`, `midByte` and `highByte`; the
processor puts them together and looks for a handler there. The TSS it does
not look up again: `ltr` in `setTSS` caches the base the GDT holds at that moment
(`cpu.tr`), so `setGdt` must come before. An interrupt or a
fault that finds no gate, no stack, no code or no memory ends in `Dead`.
`return_gate` is split into its instructions because interrupts are already on.

External, modelled from their use: the 8259, the timer, the keyboard
controller, the BIOS, the processor's `sysenter`, `sysexit`, `iret` and
delivery, and libzeos (`page_fault_routine`, `zeos_show_clock`,
`monoprocess_init_addr_space`).

## 3. Runs

| run | states | shows |
|---|---|---|
| mm (MCMm) | 774,181 | frames are exclusive and never dangling; kernel frames and the kernel half of the tables are untouched; each task's table is found by the kernel where the processor walks it, and is its own |
| console | 231,714 | the cursor implements `Terminal` |
| kernel (MCKernel) | about 2.6 million | nesting, in-service bits, keys, ticks, `write` and `errno` in every interleaving; the kernel implements `Syscalls` |
| user (MCUser) | 46,824 | the library shows and counts what it should under all interrupts, `perror` names the error, faults are reported, calls return, interrupts are served, `main` settles |
| entry | 116,705 | an interrupt at any instruction is transparent; wrappers keep the ABI; offsets are right |
| list | 2,284 | pointers are the intended sequences; deletion during traversal is safe |
| image (MCImage) | 15,848 | build, loader and `copy_data` bring kernel and program to memory whole, or a failure is confined; legal reads; termination |
| boot | 982 | no interrupt is lost, user mode starts right |
| mm_free, kernel_dispatch, kernel_fault, user_time | | findings, section 6 |

Bounds.
- *mm*: two tasks of one code and two data pages, 16 frames of which nine are
  not the kernel's and `alloc_frame` can reach five (it skips every second), one
  fewer than the tasks need: frames are reused, leaked and exhausted. One page
  for a client's mappings. Pages of 64 bytes, which is 16 entries of four, so
  that a table fills a page as on the machine; the kernel's seven pages are the
  absent page 0 and two each for `task`, `dir_pages` and `pagusr_table`.
- *kernel*: chunks and pages of two bytes, a counter of four values (two of
  them negative), six sizes around chunk, page and address-space ends, three
  buffers (NULL, below the user's pages, inside), scan codes that are mapped,
  unmapped and released, two bytes in the keyboard controller. Number 11 is
  left out of `MCSysnos` and has the run kernel_dispatch.
- *user*: chunks of four bytes, literals of 0 to 10 bytes (a length of two
  digits, of exactly one chunk, of several), numbers with an odd and an even
  count of digits, a zero inside and at the end, INT_MAX and a negative one;
  fault addresses of two to eight digits and with the sign bit; one scan code;
  after `main`, one more call. *user_time* has a counter of four values, two of
  them negative; in *user* it has two.
- *entry*: one call at a time, three results (positive, zero, an error), one
  interrupt at a time because the code allows no more.
- *console*: two rows of three columns, buffers of up to two characters.
- *list*: two lists, four entries.
- *image*: sectors of 8 bytes, tracks of 5 and segments of 7 sectors, coprime so
  that a segment ends at every place of a track (18 and 128 meet at the even
  ones); a buffer of two sectors; user programs of 0 to 20 bytes (every tail of
  the copy), systems of 12 to 60 bytes, and sizes at both sides of the second,
  third and fourth segment's end, past the loader, at and past the largest
  length the word holds. At most one BIOS call fails, after any number of
  sectors, and a failing write of the host stops half-way.
- *boot*: three pulses, any number of keys.

Deadlock is checked in every run; the states in which the machine is stopped
(`page_fault_routine`, a loaded image) have an explicit idle step or devices
that still move. In Kernel this includes `wild`.

Fairness. The run user uses `UserFairSpec`: weak fairness of `KernelRuns` (the
processor executes kernel code, which runs with interrupts off) and of the
delivery of the clock (the processor takes a pending interrupt before the next
user instruction; the clock has the highest priority, so it stays deliverable
while user code runs), strong fairness of the delivery of the keyboard (a clock
request may disable it again and again) and of the program's own steps inside
`main` and the library (every interrupt disables them for a while). The call in
`while(1)` has no fairness: user.c makes none. The keyboard's part of
`InterruptsServed` assumes `TimerSlow`, and `ProgramSettles` assumes
`DevicesSlow`: the handlers finish before the next pulse or key often enough
that user code runs with nothing pending; the timer's period is 55 ms. Without
them a device faster than its handler would starve the rest. In the run image
the programs have weak fairness of their own steps.

## 4. Properties

Every property has a mutant in PROJECT.json: a plausible slip in the code (a
trap gate for an interrupt gate, an EOI after `RESTORE_ALL`, an offset one word
short, a loop that starts at 0) that TLC shows to break it. The comments beside
the definitions state them; the ones a reader should know first are
`NoNesting`, `InServiceMatches`, `NoStrandedKey` and `TickConservation` (what
interrupts may do), `WriteInOrder`, `WriteAllOrNothing` and `ErrnoContract`
(what a caller sees), `InterruptTransparent` and `WrapperContract` (that the
assembly keeps it), `FramesExclusive` and `NoDanglingPage` (memory),
`KernelArrives` and `UserArrives` (from files to memory), `UserStartsRight`
(start-up), `LibraryPrints` and `ProgramSettles` (the library and the program), and
the refinements `ImplementsTerminal` and `ImplementsSyscalls`.

## 5. Proofs

Each proof module proves its component's safety properties for every value of
the constants that the named assumption of the component's module allows.
tlapm checks them to the last leaf with Z3, Zenon and LS4.

| module | inductive invariant | assumption | theorems about |
|---|---|---|---|
| MmProofs | `MmInv` | `MmAssumption` | all invariants of the run mm |
| KernelProofs | `KernelInv`, `SyscallInv` | `KernelAssumption` | all invariants of the run kernel; `ImplementsSyscalls` |
| UserProofs | `UserInv` | `UserAssumption`, `KernelAssumption` | all invariants of the run user; `itoa` and `itox`; `ImplementsSyscalls` under the program |
| ConsoleProofs | `ConsoleInv` | `ConsoleAssumption` | `ImplementsTerminal` |
| ListProofs | `ListInv` | `ListAssumption` | all invariants of the run list |
| ImageProofs | `ImageInv` | `ImageAssumption`, `LoaderAssumption` | all invariants of the run image |
| BootProofs | `BootInv` | `BootAssumption`, `ByteAssumption` | all invariants of the run boot |
| EntryProofs | `EntryInv` | `EntryAssumption` | all properties of the run entry, the two action properties included |

*Mm.* The invariants are not inductive: that `free_frame` leaves no dangling
page needs `FramesExclusive`, whose preservation by `alloc_frame` needs
`NoDanglingPage`, and both need to know which table each task has, that
a frame mapped for a client is one it holds, and where in a loop
`set_user_pages` stands. `MmInv` is the conjunction; one lemma per action shows
it preserved, and each theorem follows from `MmInvariant`. Which entry a pointer
leads to is proved, from what `MmAssumption` says of the linker's layout: a table
fills a page, `dir_pages` and `pagusr_table` begin at a page and end inside the
kernel's pages, after page 0. Then the division in `allocate_DIR` gives the
task's index (`AllocatedDir`), the low bits a directory loses are zero
(`TableFrame`), the processor walks to the task's table (`WalkedDir`), and since
`KernelHalfIntact` maps those pages onto themselves in every table, the kernel's
own loads and stores reach it under any `cr3` (`Identity`, `TableOf`). This is
circular only in time: a store goes through the half that earlier stores left
intact.

*Kernel.* `KernelInv` adds to the type invariant and `NoNesting`: what the 8259
has in service at each place of the code, when a key waits, `TicksAdd` (the
tick sum without modulo, as an equation with a bounded number of wraps, which
the arithmetic backend can use), and `CallData`, which says at each place of a
call how `left`, `current`, `written`, `i` and `printed` relate to the size
requested. `CallData` is stated of the place where the call stands, which is
below the top of the stack while a handler runs: that is the formal content of
"interrupts do not disturb a call".

*Syscalls.* Every step of Kernel is a step of `Syscalls` or invisible to it.
`CallServed` adds to `KernelInv` what dispatch and checks have established by
the time a routine answers: which number it serves, that the arguments of
`write` were acceptable, and that every byte of the buffer it has reached is
mapped. Two facts about pages carry the argument: an address is mapped exactly
if it lies between the program's first and last byte (`MappedBytes`), and
`access_ok`, with its shifts and its wrapping sum, lets through every block that
lies there (`AccessGranted`). The converse of the second does not hold (finding
kernel_fault); a block it lets through by mistake halts the machine, which
`Syscalls` allows only for memory the program does not own.

*Console.* With the cursor inside the screen (`ConsoleInv`) the carry of `x` and
the wrap of `y` are one increment of `pos`, for any number of rows and columns.

*List.* A list of L entries is a ring of L + 1 nodes. `ListInv` says that the
rings of different heads share no node, that unlinked entries point nowhere,
and where the traversal stands in its ring; adding and deleting are then
insertion and removal at one place of one ring.

*Image.* The loader's invariant is the linear relation between the sector that
comes next on the diskette and its place in memory, which no chunk of a track
or of a segment disturbs. `BuildInv` says of every byte of the image which file
or number it is from. `StageInv` connects them: a number cut into bytes by
`build`, loaded, and put together again by `main` is the number `build` wrote
(`WordValue`, `DwordValue`, `NumbersArrive`, for any size of a byte).

*Boot.* `BootInv` lists what each step of `main` has left for those after it
(registers, descriptors, gates, memory) and what is on the one stack while a
handler runs above a half-built frame of `return_gate`. It rests on
two lemmas about Descriptors: a gate's offset and a descriptor's base, cut into
pieces and put together, are the address they were made from.

*Entry.* The program counter determines what lies on both stacks and in which
registers. `EntryInv` is the disjunction of four modes, each a table from
addresses to contents: `UserMode` (the program and the wrappers, relative to
the registers `C` the program had when it called), `SysMode`
(`syscall_handler`), `IrqMode` (the two interrupt handlers, over `IrqFrame`)
and `FaultMode`. `Holds` says that a kernel stack carries a return context and
the first k registers that `SAVE_ALL` pushes, `Restoring` that `RESTORE_ALL`
has taken k of them off again; `SavedOne` and `RestoredOne` are the two lemmas
all handlers share. `IrqMode` contains `UserOK` of the interrupted registers,
%eip and stack: that is why an interrupt may come between any two instructions
and the program goes on as if it had not. What a service routine does to its
arguments is the existential in `SysReplying`: some registers with the ones the
ABI reserves unchanged are still on the stack. The lemmas at the beginning read
the code of the routines off the sequences, one instruction each, and the ones
after them say what `Execute` does with it. The theorems hold for all arguments
and results and for every `MAX_SYSCALL`; `NR_NONE` is any number that is
neither in `sys_call_table` nor `MAX_SYSCALL` itself, which the `jg` lets
through (finding kernel_dispatch).

*Conversions.* The loop of `itoa` and `itox` is a function defined by recursion
over the integers, and TLAPS has no induction rule to reason about it with (the
library's theorems take an operator as parameter). Its existence, its equations
and its result are proved from a least counterexample instead: `Least` takes it
from the library's facts on well-founded relations, `FollowsExists` builds a
function recursive in smaller arguments on initial segments and glues them, and
`DigitsComputed` shows that the digits, read backwards, denote the number.
`SwapReverses` says that the exchanges of `swap_ends` are a reversal, for even
and odd lengths; `NumberWritten` puts them together. `TenDigits` and
`EightHexDigits` bound the lengths for the 32 bits of an int: `itoa` fits the 11
bytes of `itoa_buff`, and only an eighth hexadecimal digit meets `buff[8]`.

*User.* None of the run's invariants speaks about the inside of a call, so none
is inductive. `ProgramInv` has four parts. `StackOK`: the stack has at most four
frames; each function was called by the one below it with the argument the code
passes (`Linked`), and its local `written` is the length of the text it is
about. `BuffOK`: what `itoa_buff` holds while `print` shows it, and that it never
outgrows 11 bytes. `JobOK`: the function `main` called, and for `perror` that
`errno` still is the error. `PhaseOK`: what has been shown is the sum of what the
frames had shown when they called (`Context`) and a part of the top one's text
(`Part`), with the bytes of the system call in progress between its phases. A
`write` of the library is one the kernel cannot refuse (`WriteAccepted`: the
text lies in the program's pages), which is why printing a message does not
disturb the `errno` it is about. The proof steps over the kernel by
`Syscalls`: `SyscallInv` is preserved under the program too
(`KernelUnderProgram`), every step of the whole is one of `Syscalls` or a
stutter (`ProgramMakesSyscalls`), and the seven kinds of its steps are all that
`PhaseOK` has to survive. `FaultInv` keeps the text of the fault report.
`UserAssumption` says what the linker and the C types provide: every literal,
with its NUL, `printchar`'s parameter and `itoa_buff` lie in the user's pages,
the two buffers overlap no literal, literals at one address are one
literal, and numbers, ticks and addresses are 32-bit ints. `call_system` lets `perror`
follow every call but `gettime`: after a negative count it would index
`errno_message` outside the table, and user.c does not.

Only model-checked: liveness (`InterruptsServed`, `ProgramSettles`,
`ImageBoots`), which needs fairness and ENABLED. Every safety property of a
passing run is stated by a theorem.

## 6. Findings

- **mm_free**: `alloc_frame` starts at `NUM_PAG_KERNEL`, `free_frame` tests
  `frame>NUM_PAG_KERNEL`: that frame is never free again.
- **kernel_dispatch**: `jg` against `MAX_SYSCALL`, which is the number of
  entries: number 11 is dispatched through the word after the table.
- **kernel_fault**: `access_ok` compares the end's page with `<=` against the
  page after the last one, so `write` may fault inside the kernel, and the
  machine stops.
- **user_time**: after 2^31 ticks `gettime` returns -1 and sets `errno`, and
  `itoa` makes an empty string of -1: user.c's `printintln(gettime())` shows an
  empty line.

`TickConservation` also shows where `gettime` differs from the time elapsed:
pulses that come while one is latched (a long `sys_write` runs with interrupts
off) merge with it, and the count is behind by exactly their number.

## 7. Not modelled

The start of the boot sector (straight-line BIOS calls without alternatives);
`get_ticks`, `do_div`, `copy_to_user`, the write side of `access_ok`,
`printkint`, `__itoa`, `print_code`, `setTrapHandler`, `sys_fork`, `sys_exit`,
`sys_getpid`, `cpu_idle`, `current` (no caller in the sources); the TLB, which
matters only to `del_ss_pag` and `free_user_pages`, without callers too; libzeos
beyond how the sources use it; `make`, the linker scripts and the emulator's
configuration, although two hazards live there: a build that dies leaves a
partial `zeos.bin` that `make` takes for finished, and `GDT_START` repeats an
offset of the assembled boot sector by hand. The text of messages is abstracted
to their length.

## 8. Plan

Done: Mm, Kernel, Entry, Console with Terminal, List, Build, Loader, Copy and
Image, Descriptors and Boot, Conversions and User, Syscalls; the proof modules
of section 5.

Not planned: the parts of section 7; proofs of the three liveness properties,
which are out of the prover's reach.
