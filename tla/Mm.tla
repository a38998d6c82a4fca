-------------------------------- MODULE Mm --------------------------------
(***************************************************************************)
(* Memory management of ZeOS: the frame map phys_mem, the page directories *)
(* and the page tables of mm.c, with allocate_DIR and get_PT of sched.c.   *)
(*                                                                         *)
(* The kernel runs these functions with interrupts off, so no other code   *)
(* runs between two iterations of a loop; each iteration of set_user_pages *)
(* and of free_user_pages is nevertheless a step of its own, so that the   *)
(* invariants are checked and proved inside the loops as well.  At this    *)
(* commit only init_mm, alloc_frame and set_user_pages (for task 0) have a *)
(* caller; the other functions are exported for the process management to  *)
(* come, and a client calls them here in any order its obligations allow.  *)
(*                                                                         *)
(* Directories and tables are found by address: pointers are numbers of    *)
(* bytes, a directory holds its table's address without the low bits, and  *)
(* once paging is on the functions' own loads and stores are translated by *)
(* the tables they change.                                                 *)
(***************************************************************************)
EXTENDS Integers

CONSTANTS TOTAL_PAGES,        \* frames of physical memory, entries of a table
          NUM_PAG_KERNEL,     \* frames reserved for the kernel
          PAG_LOG_INIT_DATA,  \* first logical page of user data
          NUM_PAG_DATA, NUM_PAG_CODE,
          NR_TASKS,
          PBASE_RANGE,        \* values of the bit-field pbase_addr (2^20)
          PAGE_SIZE,          \* bytes of a page (2^12)
          ENTRY_SIZE,         \* sizeof(page_table_entry)
          TASK_SIZE,          \* sizeof(union task_union)
          task_at,            \* where the linker has put the arrays task,
          dir_pages_at,       \* dir_pages
          pagusr_table_at,    \* and pagusr_table
          TempPages           \* free logical pages a client maps frames at

PAG_LOG_INIT_CODE == PAG_LOG_INIT_DATA + NUM_PAG_DATA
UserEnd == PAG_LOG_INIT_CODE + NUM_PAG_CODE

(* A table fills a page; system.lds puts .data.task, which holds the three *)
(* arrays, at a multiple of the page size, and the kernel, whose first     *)
(* page is never NULL's, ends below its last page.                         *)
ASSUME MmAssumption ==
  /\ TOTAL_PAGES \in Nat /\ NUM_PAG_KERNEL \in Nat \ {0}
  /\ PAG_LOG_INIT_DATA \in Nat /\ NUM_PAG_KERNEL <= PAG_LOG_INIT_DATA
  /\ NUM_PAG_DATA \in Nat \ {0} /\ NUM_PAG_CODE \in Nat
  /\ UserEnd <= TOTAL_PAGES
  /\ NR_TASKS \in Nat \ {0}
  /\ PBASE_RANGE \in Nat /\ TOTAL_PAGES < PBASE_RANGE
  /\ TempPages \subseteq UserEnd .. TOTAL_PAGES - 1
  /\ PAGE_SIZE \in Nat \ {0} /\ ENTRY_SIZE \in Nat \ {0} /\ TASK_SIZE \in Nat \ {0}
  /\ TOTAL_PAGES * ENTRY_SIZE = PAGE_SIZE
  /\ task_at \in Nat /\ dir_pages_at \in Nat /\ pagusr_table_at \in Nat
  /\ dir_pages_at % PAGE_SIZE = 0 /\ pagusr_table_at % PAGE_SIZE = 0
  /\ dir_pages_at >= PAGE_SIZE /\ pagusr_table_at >= PAGE_SIZE
  /\ dir_pages_at + NR_TASKS * PAGE_SIZE <= NUM_PAG_KERNEL * PAGE_SIZE
  /\ pagusr_table_at + NR_TASKS * PAGE_SIZE <= NUM_PAG_KERNEL * PAGE_SIZE

NULL == 0
FREE_FRAME == 0
USED_FRAME == 1
Frames    == 0 .. TOTAL_PAGES - 1
Pages     == 0 .. TOTAL_PAGES - 1
Tasks     == 0 .. NR_TASKS - 1
DataPages == PAG_LOG_INIT_DATA .. PAG_LOG_INIT_CODE - 1
CodePages == PAG_LOG_INIT_CODE .. UserEnd - 1
UserPages == PAG_LOG_INIT_DATA .. UserEnd - 1

VARIABLES
  phys_mem,            \* Byte phys_mem[TOTAL_PAGES]
  pagusr_table,        \* page_table_entry pagusr_table[NR_TASKS][TOTAL_PAGES]
  dir_pages,           \* entry ENTRY_DIR_PAGES of each directory
  dir_pages_baseAddr,  \* task_struct field: address of the task's directory
  cr3,                 \* address of the directory the processor uses
  paging,              \* CR0.PG
  call,                \* the loop in progress: [op, task, pag]
  held                 \* frames a client got from alloc_frame

vars == <<phys_mem, pagusr_table, dir_pages, dir_pages_baseAddr, cr3, paging,
          call, held>>

page_table_entry == [present : 0..1, rw : 0..1, user : 0..1,
                     pbase_addr : 0 .. PBASE_RANGE - 1]

Pbase(n) == n % PBASE_RANGE      \* n as pbase_addr:20 keeps it
NO_FRAME == PBASE_RANGE - 1      \* the -1 of alloc_frame

(* entry = 0 *)
NoEntry == [present |-> 0, rw |-> 0, user |-> 0, pbase_addr |-> 0]
Entry(frame, user, rw) ==
  [present |-> 1, rw |-> rw, user |-> user, pbase_addr |-> Pbase(frame)]

Idle == [op |-> "none", task |-> 0, pag |-> 0]
Ready == paging = 1 /\ call = Idle
---------------------------------------------------------------------------
(* Frames.  alloc_frame visits every second frame only. *)
Candidates == {i \in NUM_PAG_KERNEL .. TOTAL_PAGES - 1 :
                 (i - NUM_PAG_KERNEL) % 2 = 0}
FreeCandidates == {i \in Candidates : phys_mem[i] = FREE_FRAME}

alloc_frame_unmarked(frame) ==
  /\ \/ frame \in FreeCandidates /\ \A i \in FreeCandidates : frame <= i
     \/ FreeCandidates = {} /\ frame = -1
  /\ UNCHANGED phys_mem

(* frame is the value returned; phys_mem' is the effect. *)
alloc_frame(frame) ==
  \/ /\ frame \in FreeCandidates
     /\ \A i \in FreeCandidates : frame <= i
     /\ phys_mem' = [phys_mem EXCEPT ![frame] = USED_FRAME]
  \/ /\ FreeCandidates = {}
     /\ frame = -1
     /\ UNCHANGED phys_mem

free_frame_unguarded(frame) ==
  phys_mem' = IF frame < TOTAL_PAGES
                THEN [phys_mem EXCEPT ![frame] = FREE_FRAME] ELSE phys_mem

free_frame(frame) ==
  phys_mem' = IF frame > NUM_PAG_KERNEL /\ frame < TOTAL_PAGES
                THEN [phys_mem EXCEPT ![frame] = FREE_FRAME] ELSE phys_mem

init_frames ==
  phys_mem' = [i \in Frames |-> IF i < NUM_PAG_KERNEL THEN USED_FRAME
                                                      ELSE FREE_FRAME]
---------------------------------------------------------------------------
(* Tables and directories. *)
init_table_pages_from_zero ==
  pagusr_table' = [t \in Tasks |-> [i \in Pages |->
      IF i < NUM_PAG_KERNEL THEN Entry(i, 0, 1) ELSE NoEntry]]

init_table_pages ==
  pagusr_table' = [t \in Tasks |-> [i \in Pages |->
      IF i \in 1 .. NUM_PAG_KERNEL - 1 THEN Entry(i, 0, 1) ELSE NoEntry]]

(* Addresses: &task[t], dir_pages[i] and &pagusr_table[i][page]. *)
TaskAddr(t) == task_at + t * TASK_SIZE
DirAddr(i) == dir_pages_at + i * (TOTAL_PAGES * ENTRY_SIZE)
EntryAddr(i, page) == pagusr_table_at + (i * TOTAL_PAGES + page) * ENTRY_SIZE

init_dir_pages_without_row ==
  dir_pages' = [i \in Tasks |-> Entry(EntryAddr(0, i) \div PAGE_SIZE, 1, 1)]

(* (unsigned int)&pagusr_table[i] >> 12 *)
init_dir_pages ==
  dir_pages' = [i \in Tasks |-> Entry(EntryAddr(i, 0) \div PAGE_SIZE, 1, 1)]

(* sizeof(struct task_struct) is 8. *)
allocate_DIR_of_structs(t) ==
  LET pos == (TaskAddr(t) - task_at) \div 8
  IN dir_pages_baseAddr' = [dir_pages_baseAddr EXCEPT ![t] = DirAddr(pos)]

allocate_DIR(t) ==
  LET pos == (TaskAddr(t) - task_at) \div TASK_SIZE
  IN dir_pages_baseAddr' = [dir_pages_baseAddr EXCEPT ![t] = DirAddr(pos)]

(* The entries in memory; what an address outside them leads to is none.   *)
DirAddrs == {DirAddr(i) : i \in Tasks}
EntryAddrs == {EntryAddr(i, p) : i \in Tasks, p \in Pages}
DirAt == [a \in DirAddrs |-> CHOOSE i \in Tasks : DirAddr(i) = a]
EntryAt == [a \in EntryAddrs |->
              CHOOSE at \in Tasks \X Pages : EntryAddr(at[1], at[2]) = a]
LoadDir(addr) == IF addr \in DirAddrs THEN dir_pages[DirAt[addr]] ELSE NoEntry
Load(addr) == IF addr \in EntryAddrs
                THEN pagusr_table[EntryAt[addr][1]][EntryAt[addr][2]]
                ELSE NoEntry
Store(addr, e) ==
  pagusr_table' =
    IF addr \in EntryAddrs
      THEN [pagusr_table EXCEPT ![EntryAt[addr][1]][EntryAt[addr][2]] = e]
      ELSE pagusr_table

(* The processor: it drops the low bits of cr3, and finds an address by    *)
(* its page, all of which are in entry ENTRY_DIR_PAGES of a directory.     *)
Walked(dir) == LoadDir(dir - (dir % PAGE_SIZE)).pbase_addr * PAGE_SIZE
FAULT == -1
Physical(addr) ==
  LET page == addr \div PAGE_SIZE
      e == Load(Walked(cr3) + page * ENTRY_SIZE)
  IN IF paging = 0 THEN addr
     ELSE IF page \in Pages /\ e.present = 1
          THEN e.pbase_addr * PAGE_SIZE + (addr % PAGE_SIZE)
          ELSE FAULT

(* Pointers of the kernel, which the processor translates. *)
get_DIR(t) == dir_pages_baseAddr[t]
get_PT(t)  == LoadDir(Physical(get_DIR(t))).pbase_addr * PAGE_SIZE
PageEntry(t, page) == Physical(get_PT(t) + page * ENTRY_SIZE)
get_frame(t, page) == Load(PageEntry(t, page)).pbase_addr

HasDir(t) == dir_pages_baseAddr[t] # NULL
SetEntry(t, page, e) == Store(PageEntry(t, page), e)
---------------------------------------------------------------------------
(* C statics are zero before main runs. *)
Init ==
  /\ phys_mem = [i \in Frames |-> FREE_FRAME]
  /\ pagusr_table = [t \in Tasks |-> [i \in Pages |-> NoEntry]]
  /\ dir_pages = [t \in Tasks |-> NoEntry]
  /\ dir_pages_baseAddr = [t \in Tasks |-> NULL]
  /\ cr3 = NULL
  /\ paging = 0
  /\ call = Idle
  /\ held = {}

init_mm ==
  /\ paging = 0
  /\ init_table_pages
  /\ init_frames
  /\ init_dir_pages
  /\ allocate_DIR(0)
  /\ cr3' = dir_pages_baseAddr'[0]
  /\ paging' = 1
  /\ UNCHANGED <<call, held>>

(* A new process gets its directory. *)
NewDirectory(t) ==
  /\ Ready /\ ~HasDir(t)
  /\ allocate_DIR(t)
  /\ UNCHANGED <<phys_mem, pagusr_table, dir_pages, cr3, paging, call, held>>

(* Client obligation: the task has no data pages yet (or gave them back). *)
set_user_pages(t) ==
  /\ Ready /\ HasDir(t)
  /\ \A p \in DataPages : Load(PageEntry(t, p)).present = 0
  /\ call' = [op |-> "set", task |-> t, pag |-> 0]
  /\ UNCHANGED <<phys_mem, pagusr_table, dir_pages, dir_pages_baseAddr, cr3,
                 paging, held>>

(* One iteration: the code pages first, read-only, then the data pages. *)
SetUserPage ==
  LET k == call.pag
      code == k < NUM_PAG_CODE
      page == IF code THEN PAG_LOG_INIT_CODE + k
                      ELSE PAG_LOG_INIT_DATA + (k - NUM_PAG_CODE)
  IN /\ call.op = "set" /\ k < NUM_PAG_CODE + NUM_PAG_DATA
     /\ \E f \in Frames \cup {-1} :
          /\ alloc_frame(f)
          /\ SetEntry(call.task, page, Entry(f, 1, IF code THEN 0 ELSE 1))
     /\ call' = [call EXCEPT !.pag = k + 1]
     /\ UNCHANGED <<dir_pages, dir_pages_baseAddr, cr3, paging, held>>

(* The loop ends; for task 0 libzeos then reloads cr3 to flush the TLB. *)
SetUserPagesReturn ==
  /\ call.op = "set" /\ call.pag = NUM_PAG_CODE + NUM_PAG_DATA
  /\ call' = Idle
  /\ UNCHANGED <<phys_mem, pagusr_table, dir_pages, dir_pages_baseAddr, cr3,
                 paging, held>>

(* May be called twice in a row: the second call finds entries that are 0. *)
free_user_pages(t) ==
  /\ Ready /\ HasDir(t)
  /\ call' = [op |-> "free", task |-> t, pag |-> 0]
  /\ UNCHANGED <<phys_mem, pagusr_table, dir_pages, dir_pages_baseAddr, cr3,
                 paging, held>>

FreeUserPage_keep_entry ==
  LET page == PAG_LOG_INIT_DATA + call.pag
  IN /\ call.op = "free" /\ call.pag < NUM_PAG_DATA
     /\ free_frame(get_frame(call.task, page))
     /\ call' = [call EXCEPT !.pag = @ + 1]
     /\ UNCHANGED <<pagusr_table, dir_pages, dir_pages_baseAddr, cr3, paging,
                    held>>

FreeUserPage ==
  LET page == PAG_LOG_INIT_DATA + call.pag
  IN /\ call.op = "free" /\ call.pag < NUM_PAG_DATA
     /\ free_frame(get_frame(call.task, page))
     /\ SetEntry(call.task, page, NoEntry)
     /\ call' = [call EXCEPT !.pag = @ + 1]
     /\ UNCHANGED <<dir_pages, dir_pages_baseAddr, cr3, paging, held>>

FreeUserPagesReturn ==
  /\ call.op = "free" /\ call.pag = NUM_PAG_DATA
  /\ call' = Idle
  /\ UNCHANGED <<phys_mem, pagusr_table, dir_pages, dir_pages_baseAddr, cr3,
                 paging, held>>

(* A client (fork, in the design) takes frames, maps them at free logical  *)
(* pages of a task, unmaps them, and gives unmapped frames back.           *)
ClientAlloc ==
  /\ Ready
  /\ \E f \in Frames \cup {-1} :
       alloc_frame(f) /\ held' = IF f = -1 THEN held ELSE held \cup {f}
  /\ UNCHANGED <<pagusr_table, dir_pages, dir_pages_baseAddr, cr3, paging, call>>

set_ss_pag(t, page, frame) ==
  /\ Ready /\ HasDir(t) /\ frame \in held
  /\ SetEntry(t, page, Entry(frame, 1, 1))
  /\ UNCHANGED <<phys_mem, dir_pages, dir_pages_baseAddr, cr3, paging, call,
                 held>>

del_ss_pag(t, page) ==
  /\ Ready /\ HasDir(t)
  /\ SetEntry(t, page, NoEntry)
  /\ UNCHANGED <<phys_mem, dir_pages, dir_pages_baseAddr, cr3, paging, call,
                 held>>

MappedAtTemp(frame) ==
  \E t \in Tasks, p \in TempPages :
    pagusr_table[t][p].present = 1 /\ pagusr_table[t][p].pbase_addr = frame

ClientFree(frame) ==
  /\ Ready /\ frame \in held /\ ~MappedAtTemp(frame)
  /\ free_frame(frame)
  /\ held' = held \ {frame}
  /\ UNCHANGED <<pagusr_table, dir_pages, dir_pages_baseAddr, cr3, paging, call>>

(* A context switch loads the directory of the task that gets the CPU. *)
set_cr3(t) ==
  /\ Ready /\ HasDir(t)
  /\ cr3' = get_DIR(t)
  /\ UNCHANGED <<phys_mem, pagusr_table, dir_pages, dir_pages_baseAddr, paging,
                 call, held>>

Next ==
  \/ init_mm \/ SetUserPage \/ SetUserPagesReturn
  \/ FreeUserPage \/ FreeUserPagesReturn \/ ClientAlloc
  \/ \E t \in Tasks : NewDirectory(t) \/ set_user_pages(t)
                        \/ free_user_pages(t) \/ set_cr3(t)
  \/ \E t \in Tasks, p \in TempPages :
       del_ss_pag(t, p) \/ \E f \in held : set_ss_pag(t, p, f)
  \/ \E f \in held : ClientFree(f)

Spec == Init /\ [][Next]_vars
---------------------------------------------------------------------------
(* Type correctness: every structure of mm.c holds what C declares, and    *)
(* pointers to directories point at the start of one.                      *)
TypeOK ==
  /\ phys_mem \in [Frames -> {FREE_FRAME, USED_FRAME}]
  /\ pagusr_table \in [Tasks -> [Pages -> page_table_entry]]
  /\ dir_pages \in [Tasks -> page_table_entry]
  /\ dir_pages_baseAddr \in [Tasks -> DirAddrs \cup {NULL}]
  /\ cr3 \in DirAddrs \cup {NULL}
  /\ paging \in 0..1
  /\ call \in [op : {"none", "set", "free"}, task : Tasks,
               pag : 0 .. NUM_PAG_CODE + NUM_PAG_DATA]
  /\ held \subseteq Frames

(* Once paging is on, no sequence of calls (a second free_user_pages, a    *)
(* free_frame of the 0 read from an empty entry) makes a kernel frame      *)
(* available to alloc_frame again: the purpose of free_frame's test.       *)
KernelFramesReserved ==
  paging = 1 => \A f \in 0 .. NUM_PAG_KERNEL - 1 : phys_mem[f] = USED_FRAME

(* Each table keeps the kernel half init_table_pages built: identity       *)
(* mapped, closed to user mode, and with page 0 absent so that a NULL      *)
(* dereference faults in every task.                                       *)
KernelHalfIntact ==
  paging = 1 =>
    \A t \in Tasks, p \in 0 .. NUM_PAG_KERNEL - 1 :
      pagusr_table[t][p] = IF p = 0 THEN NoEntry ELSE Entry(p, 0, 1)

(* A task's table survives the way through its directory, which keeps an   *)
(* address without its low bits, and through get_PT, which returns it as a *)
(* pointer although paging is on: what get_PT finds under any cr3 is what  *)
(* the processor walks when the task runs, the kernel's stores reach it    *)
(* from its first to its last entry, it is inside pagusr_table, and it     *)
(* shares no byte with the table of another task.                          *)
LastEntry == (TOTAL_PAGES - 1) * ENTRY_SIZE
TablesPrivate ==
  \A t \in Tasks : HasDir(t) =>
    LET PT == get_PT(t)
    IN /\ PT = Walked(get_DIR(t))
       /\ Physical(PT) = PT /\ Physical(PT + LastEntry) = PT + LastEntry
       /\ {PT, PT + LastEntry} \subseteq EntryAddrs
       /\ \A s \in Tasks \ {t} : HasDir(s) => \/ get_PT(s) + PAGE_SIZE <= PT
                                              \/ PT + PAGE_SIZE <= get_PT(s)

(* Use after free: a frame a task or a client can still reach is marked    *)
(* used, so alloc_frame cannot hand it out again.  set_user_pages ignores  *)
(* a failed alloc_frame and maps NO_FRAME, which lies outside memory.      *)
NoDanglingPage ==
  /\ \A t \in Tasks, p \in UserPages \cup TempPages :
       pagusr_table[t][p].present = 1 =>
         LET f == pagusr_table[t][p].pbase_addr
         IN \/ f = NO_FRAME /\ p \in UserPages
            \/ f \in NUM_PAG_KERNEL .. TOTAL_PAGES - 1 /\ phys_mem[f] = USED_FRAME
  /\ \A f \in held : f >= NUM_PAG_KERNEL /\ phys_mem[f] = USED_FRAME

(* Isolation: a frame set_user_pages gave to one page of one task belongs  *)
(* to no other page of any task and to no client.                          *)
FramesExclusive ==
  \A t \in Tasks, p \in UserPages :
    LET e == pagusr_table[t][p]
    IN e.present = 1 /\ e.pbase_addr # NO_FRAME =>
         /\ e.pbase_addr \notin held
         /\ \A s \in Tasks, q \in UserPages :
              pagusr_table[s][q].present = 1
              /\ pagusr_table[s][q].pbase_addr = e.pbase_addr
                => s = t /\ q = p

(* free_frame's comment: it marks the frame it is given as free.  Stated   *)
(* of every frame alloc_frame returned to the client that frees it.        *)
FreeFrameReleases ==
  [][\A f \in held : f \notin held' => phys_mem'[f] = FREE_FRAME]_vars
===========================================================================
