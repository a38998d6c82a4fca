----------------------------- MODULE MmProofs -----------------------------
(***************************************************************************)
(* Proofs about module Mm, for every memory size, page layout and number   *)
(* of tasks.                                                               *)
(*                                                                         *)
(* NoDanglingPage and FramesExclusive are not inductive alone.  A page     *)
(* that is freed twice is harmless because its entry is 0 (EmptyEntries)   *)
(* and free_frame(0) does nothing (KernelFramesReserved depends on it); a  *)
(* frame that is freed is mapped nowhere else because pages outside the    *)
(* user range map only frames their client holds (TempHeld).               *)
(*                                                                         *)
(* That a task's table is its own is arithmetic on addresses: the tables   *)
(* are whole pages, so the frame number in a directory loses nothing of a  *)
(* table's address (DirsPaired), and they are in the kernel's half, which  *)
(* every table maps onto itself, so get_PT's physical address is a pointer *)
(* to the same bytes under any cr3 (Identity).                             *)
(***************************************************************************)
EXTENDS Mm, TLAPS

(* Before init_mm nothing is mapped, held or in progress. *)
Booting ==
  paging = 0 => /\ call = Idle /\ held = {}
                /\ \A t \in Tasks : ~HasDir(t)
                /\ \A t \in Tasks, p \in Pages : pagusr_table[t][p] = NoEntry

DirsPaired ==
  /\ paging = 1 =>
       /\ cr3 # NULL
       /\ \A t \in Tasks : dir_pages[t] = Entry(EntryAddr(t, 0) \div PAGE_SIZE, 1, 1)
  /\ \A t \in Tasks : HasDir(t) => dir_pages_baseAddr[t] = DirAddr(t)

CallInProgress == call.op # "none" => paging = 1 /\ HasDir(call.task)

EmptyEntries ==
  \A t \in Tasks, p \in UserPages :
    pagusr_table[t][p].present = 0 => pagusr_table[t][p].pbase_addr = 0

TempHeld ==
  \A t \in Tasks, p \in TempPages :
    pagusr_table[t][p].present = 1 => pagusr_table[t][p].pbase_addr \in held

MmInv ==
  /\ TypeOK /\ Booting /\ DirsPaired /\ CallInProgress
  /\ EmptyEntries /\ TempHeld
  /\ KernelFramesReserved /\ KernelHalfIntact
  /\ NoDanglingPage /\ FramesExclusive
---------------------------------------------------------------------------
(* Lemmas about the operators. *)

(* Pages of the four kinds are pages, and they do not overlap. *)
LEMMA PageRanges ==
  /\ UserPages \subseteq Pages /\ TempPages \subseteq Pages
  /\ UserPages \cap TempPages = {}
  /\ \A p \in 0 .. NUM_PAG_KERNEL - 1 :
       p \in Pages /\ p \in Frames /\ p \notin UserPages /\ p \notin TempPages
  /\ DataPages \subseteq UserPages /\ CodePages \subseteq UserPages
BY MmAssumption
   DEF UserPages, Pages, Frames, DataPages, CodePages, UserEnd, PAG_LOG_INIT_CODE

(* pbase_addr keeps a frame's number, and -1 as NO_FRAME. *)
LEMMA PbaseKeeps ==
  /\ \A f \in Frames : Pbase(f) = f
  /\ Pbase(-1) = NO_FRAME
BY MmAssumption DEF Pbase, NO_FRAME, Frames

LEMMA EntryTypes ==
  /\ NoEntry \in page_table_entry
  /\ \A f \in Frames \cup {-1}, u, r \in 0..1 : Entry(f, u, r) \in page_table_entry
<1>1. \A f \in Frames \cup {-1} : Pbase(f) \in 0 .. PBASE_RANGE - 1
  BY PbaseKeeps, MmAssumption DEF NO_FRAME, Frames
<1> QED
  BY <1>1, MmAssumption DEF NoEntry, Entry, page_table_entry

(* A number of k-sized objects and a rest smaller than k. *)
LEMMA Division ==
  ASSUME NEW n \in Nat, NEW k \in Nat \ {0}, NEW r \in 0 .. k - 1
  PROVE  (n * k + r) \div k = n /\ (n * k + r) % k = r
<1> DEFINE a == n * k + r
           q == a \div k
<1>1. a \in Nat /\ n * k \in Nat
  OBVIOUS
<1>2. q \in Int /\ a = q * k + (a % k) /\ a % k \in 0 .. k - 1
  BY <1>1, SMT
<1> HIDE DEF q
<1>3. q = n
  <2>1. CASE q < n
    <3>1. PICK d \in Nat : n = q + 1 + d
      BY <1>2, <2>1
    <3>2. n * k = q * k + k + d * k /\ d * k >= 0
      BY <1>2, <3>1
    <3> QED
      BY <1>2, <3>2
  <2>2. CASE q > n
    <3>1. PICK d \in Nat : q = n + 1 + d
      BY <1>2, <2>2
    <3>2. q * k = n * k + k + d * k /\ d * k >= 0
      BY <1>2, <3>1
    <3> QED
      BY <1>2, <3>2
  <2> QED
    BY <1>2, <2>1, <2>2
<1> QED
  BY <1>2, <1>3 DEF q

LEMMA Multiple ==
  ASSUME NEW a \in Nat, NEW k \in Nat \ {0}, a % k = 0
  PROVE  \E n \in Nat : a = n * k
<1>1. a \div k \in Int /\ a = (a \div k) * k + (a % k)
  BY SMT
<1>2. a \div k \in Nat
  BY SMT
<1>3. (a \div k) * k + (a % k) = (a \div k) * k
  BY <1>2, SMT
<1>4. a = (a \div k) * k
  BY <1>1, <1>3, Zenon
<1> QED
  BY <1>2, <1>4, Zenon

LEMMA Cancel ==
  ASSUME NEW a \in Nat, NEW b \in Nat, NEW k \in Nat \ {0}
  PROVE  (a * k <= b * k => a <= b) /\ (a * k = b * k => a = b)
<1>1. ASSUME a > b PROVE a * k > b * k
  <2>1. PICK d \in Nat : a = b + 1 + d
    BY <1>1
  <2>2. a * k = b * k + k + d * k /\ d * k >= 0
    BY <2>1
  <2> QED
    BY <2>2
<1>2. ASSUME a < b PROVE a * k < b * k
  <2>1. PICK d \in Nat : b = a + 1 + d
    BY <1>2
  <2>2. b * k = a * k + k + d * k /\ d * k >= 0
    BY <2>1
  <2> QED
    BY <2>2
<1> QED
  BY <1>1, <1>2

LEMMA NextPage ==
  ASSUME NEW k \in Nat \ {0}
  PROVE  \A m, n \in Nat : m < n => m * k + k <= n * k
<1> SUFFICES ASSUME NEW m \in Nat, NEW n \in Nat, m < n PROVE m * k + k <= n * k
  OBVIOUS
<1>1. PICK d \in Nat : n = m + 1 + d
  OBVIOUS
<1>2. n * k = m * k + k + d * k /\ d * k >= 0
  BY <1>1
<1> QED
  BY <1>2

(* An entry of a table is inside the table's page. *)
LEMMA EntryOffset ==
  ASSUME NEW page \in Pages
  PROVE  page * ENTRY_SIZE \in 0 .. PAGE_SIZE - 1
<1>1. page \in Nat /\ ENTRY_SIZE \in Nat \ {0} /\ TOTAL_PAGES \in Nat
      /\ PAGE_SIZE \in Nat /\ TOTAL_PAGES * ENTRY_SIZE = PAGE_SIZE
  BY MmAssumption DEF Pages
<1>2. page < TOTAL_PAGES
  BY <1>1 DEF Pages
<1>3. page * ENTRY_SIZE \in Nat
  BY <1>1
<1>4. ~(PAGE_SIZE <= page * ENTRY_SIZE)
  <2>1. TOTAL_PAGES * ENTRY_SIZE <= page * ENTRY_SIZE => TOTAL_PAGES <= page
    BY <1>1, Cancel, Zenon
  <2>2. ~(TOTAL_PAGES <= page)
    BY <1>1, <1>2
  <2> QED
    BY <1>1, <2>1, <2>2, Zenon
<1> QED
  BY <1>1, <1>3, <1>4

(* Directory and table t each fill a page of the kernel's half. *)
LEMMA Placed ==
  ASSUME NEW at \in {dir_pages_at, pagusr_table_at}
  PROVE  \E c \in Nat : /\ at = c * PAGE_SIZE
                        /\ \A t \in Tasks : /\ c + t \in 1 .. NUM_PAG_KERNEL - 1
                                            /\ at + t * PAGE_SIZE = (c + t) * PAGE_SIZE
<1>1. /\ at \in Nat /\ PAGE_SIZE \in Nat \ {0} /\ at % PAGE_SIZE = 0
      /\ NR_TASKS \in Nat \ {0} /\ NUM_PAG_KERNEL \in Nat
      /\ at >= PAGE_SIZE
      /\ at + NR_TASKS * PAGE_SIZE <= NUM_PAG_KERNEL * PAGE_SIZE
  BY MmAssumption
<1>2. PICK c \in Nat : at = c * PAGE_SIZE
  BY <1>1, Multiple
<1>3. c # 0
  BY <1>1, <1>2
<1>4. c + NR_TASKS <= NUM_PAG_KERNEL
  <2>1. at + NR_TASKS * PAGE_SIZE = (c + NR_TASKS) * PAGE_SIZE
    BY <1>1, <1>2
  <2> QED
    BY <1>1, <2>1, Cancel
<1>5. \A t \in Tasks : at + t * PAGE_SIZE = (c + t) * PAGE_SIZE
  BY <1>1, <1>2 DEF Tasks
<1> QED
  BY <1>1, <1>2, <1>3, <1>4, <1>5 DEF Tasks

LEMMA DirPlaced ==
  ASSUME NEW t \in Tasks
  PROVE  \E n \in 1 .. NUM_PAG_KERNEL - 1 : DirAddr(t) = n * PAGE_SIZE
<1>1. DirAddr(t) = dir_pages_at + t * PAGE_SIZE
  BY MmAssumption DEF DirAddr
<1> QED
  BY <1>1, Placed

LEMMA EntryPlaced ==
  \E c \in Nat : \A t \in Tasks :
    /\ c + t \in 1 .. NUM_PAG_KERNEL - 1
    /\ EntryAddr(t, 0) = (c + t) * PAGE_SIZE
    /\ \A p \in Pages : EntryAddr(t, p) = (c + t) * PAGE_SIZE + p * ENTRY_SIZE
<1>1. PICK c \in Nat : \A t \in Tasks :
        /\ c + t \in 1 .. NUM_PAG_KERNEL - 1
        /\ pagusr_table_at + t * PAGE_SIZE = (c + t) * PAGE_SIZE
  BY Placed
<1>2. \A t \in Tasks, p \in Nat :
        EntryAddr(t, p) = pagusr_table_at + t * PAGE_SIZE + p * ENTRY_SIZE
  <2> SUFFICES ASSUME NEW t \in Nat, NEW p \in Nat
               PROVE  EntryAddr(t, p) = pagusr_table_at + t * PAGE_SIZE + p * ENTRY_SIZE
    BY DEF Tasks
  <2>1. (t * TOTAL_PAGES + p) * ENTRY_SIZE
          = t * (TOTAL_PAGES * ENTRY_SIZE) + p * ENTRY_SIZE
    BY MmAssumption
  <2> QED
    BY <2>1, MmAssumption DEF EntryAddr
<1>3. 0 \in Nat /\ Pages \subseteq Nat /\ 0 * ENTRY_SIZE = 0
  BY MmAssumption DEF Pages
<1>4. \A t \in Tasks : (c + t) * PAGE_SIZE \in Nat
  BY <1>1, MmAssumption DEF Tasks
<1> QED
  BY <1>1, <1>2, <1>3, <1>4

(* Addresses of entries are found again. *)
LEMMA DirFound == \A t \in Tasks : DirAddr(t) \in DirAddrs /\ DirAt[DirAddr(t)] = t
<1>1. \A i, j \in Tasks : DirAddr(i) = DirAddr(j) => i = j
  <2> SUFFICES ASSUME NEW i \in Nat, NEW j \in Nat, DirAddr(i) = DirAddr(j)
               PROVE  i = j
    BY DEF Tasks
  <2>1. i * PAGE_SIZE = j * PAGE_SIZE
    BY MmAssumption DEF DirAddr
  <2> QED
    BY <2>1, Cancel, MmAssumption
<1> QED
  BY <1>1 DEF DirAddrs, DirAt

LEMMA EntryFound ==
  \A t \in Tasks, p \in Pages :
    EntryAddr(t, p) \in EntryAddrs /\ EntryAt[EntryAddr(t, p)] = <<t, p>>
<1>1. ASSUME NEW i \in Tasks, NEW j \in Tasks, NEW p \in Pages, NEW q \in Pages,
             EntryAddr(i, p) = EntryAddr(j, q)
      PROVE  i = j /\ p = q
  <2>1. PICK c \in Nat : \A t \in Tasks :
          /\ c + t \in 1 .. NUM_PAG_KERNEL - 1
          /\ \A x \in Pages : EntryAddr(t, x) = (c + t) * PAGE_SIZE + x * ENTRY_SIZE
    BY EntryPlaced
  <2>2. /\ p * ENTRY_SIZE \in 0 .. PAGE_SIZE - 1
        /\ q * ENTRY_SIZE \in 0 .. PAGE_SIZE - 1
        /\ c + i \in Nat /\ c + j \in Nat /\ PAGE_SIZE \in Nat \ {0}
    BY <2>1, EntryOffset, MmAssumption
  <2>3. /\ ((c + i) * PAGE_SIZE + p * ENTRY_SIZE) \div PAGE_SIZE = c + i
        /\ ((c + i) * PAGE_SIZE + p * ENTRY_SIZE) % PAGE_SIZE = p * ENTRY_SIZE
    BY <2>2, Division, Zenon
  <2>4. /\ ((c + j) * PAGE_SIZE + q * ENTRY_SIZE) \div PAGE_SIZE = c + j
        /\ ((c + j) * PAGE_SIZE + q * ENTRY_SIZE) % PAGE_SIZE = q * ENTRY_SIZE
    BY <2>2, Division, Zenon
  <2>5. c + i = c + j /\ p * ENTRY_SIZE = q * ENTRY_SIZE
    BY <1>1, <2>1, <2>3, <2>4, Zenon
  <2> QED
    BY <2>5, Cancel, MmAssumption DEF Tasks, Pages
<1>2. SUFFICES ASSUME NEW t \in Tasks, NEW p \in Pages
               PROVE  EntryAddr(t, p) \in EntryAddrs
                      /\ EntryAt[EntryAddr(t, p)] = <<t, p>>
  OBVIOUS
<1>3. EntryAddr(t, p) \in EntryAddrs
  BY DEF EntryAddrs
<1>4. EntryAt[EntryAddr(t, p)]
        = CHOOSE at \in Tasks \X Pages : EntryAddr(at[1], at[2]) = EntryAddr(t, p)
  BY <1>3, Zenon DEF EntryAt
<1>5. \A at \in Tasks \X Pages :
        EntryAddr(at[1], at[2]) = EntryAddr(t, p) => at = <<t, p>>
  BY <1>1
<1>6. <<t, p>> \in Tasks \X Pages /\ EntryAddr(<<t, p>>[1], <<t, p>>[2]) = EntryAddr(t, p)
  OBVIOUS
<1> QED
  BY <1>3, <1>4, <1>5, <1>6

(* allocate_DIR's division finds the task's place in the array task. *)
LEMMA AllocatedDir ==
  ASSUME NEW t \in Tasks, allocate_DIR(t)
  PROVE  /\ dir_pages_baseAddr' = [dir_pages_baseAddr EXCEPT ![t] = DirAddr(t)]
         /\ DirAddr(t) \in DirAddrs /\ DirAddr(t) # NULL
<1>1. t \in Nat /\ TASK_SIZE \in Nat \ {0} /\ 0 \in 0 .. TASK_SIZE - 1
  BY MmAssumption DEF Tasks
<1>2. (t * TASK_SIZE + 0) \div TASK_SIZE = t
  BY <1>1, Division, Zenon
<1>3. TaskAddr(t) - task_at = t * TASK_SIZE + 0
  BY <1>1, MmAssumption DEF TaskAddr
<1>4. DirAddr(t) # NULL
  <2>1. PICK n \in 1 .. NUM_PAG_KERNEL - 1 : DirAddr(t) = n * PAGE_SIZE
    BY DirPlaced
  <2>2. n \in Nat \ {0} /\ PAGE_SIZE \in Nat \ {0}
    BY MmAssumption
  <2> QED
    BY <2>1, <2>2 DEF NULL
<1> QED
  BY <1>2, <1>3, <1>4, DirFound, Zenon DEF allocate_DIR

(* A table is a whole frame: its address loses nothing but zero bits. *)
LEMMA TableFrame ==
  ASSUME NEW t \in Tasks
  PROVE  /\ EntryAddr(t, 0) \div PAGE_SIZE \in Frames
         /\ EntryAddr(t, 0) = (EntryAddr(t, 0) \div PAGE_SIZE) * PAGE_SIZE
         /\ DirAddr(t) % PAGE_SIZE = 0
<1>1. PICK m \in Nat : m \in 1 .. NUM_PAG_KERNEL - 1 /\ EntryAddr(t, 0) = m * PAGE_SIZE
  BY EntryPlaced
<1>2. PICK n \in Nat : n \in 1 .. NUM_PAG_KERNEL - 1 /\ DirAddr(t) = n * PAGE_SIZE
  BY DirPlaced
<1>3. PAGE_SIZE \in Nat \ {0} /\ 0 \in 0 .. PAGE_SIZE - 1
  BY MmAssumption
<1>4. m * PAGE_SIZE + 0 = m * PAGE_SIZE /\ n * PAGE_SIZE + 0 = n * PAGE_SIZE
  BY <1>3
<1>5. (m * PAGE_SIZE + 0) \div PAGE_SIZE = m /\ (n * PAGE_SIZE + 0) % PAGE_SIZE = 0
  BY <1>3, Division, Zenon
<1>6. EntryAddr(t, 0) \div PAGE_SIZE = m /\ DirAddr(t) % PAGE_SIZE = 0
  BY <1>1, <1>2, <1>4, <1>5, Zenon
<1>7. m \in Frames
  BY <1>1, PageRanges
<1> QED
  BY <1>1, <1>6, <1>7

(* A directory is followed to the table init_dir_pages put in it. *)
LEMMA WalkedDir ==
  ASSUME MmInv, paging = 1, NEW t \in Tasks
  PROVE  /\ LoadDir(DirAddr(t)).pbase_addr * PAGE_SIZE = EntryAddr(t, 0)
         /\ Walked(DirAddr(t)) = EntryAddr(t, 0)
<1> DEFINE m == EntryAddr(t, 0) \div PAGE_SIZE
<1>1. m \in Frames /\ EntryAddr(t, 0) = m * PAGE_SIZE /\ DirAddr(t) % PAGE_SIZE = 0
  BY TableFrame
<1>2. LoadDir(DirAddr(t)) = Entry(m, 1, 1)
  BY DirFound DEF MmInv, DirsPaired, LoadDir
<1>3. LoadDir(DirAddr(t)).pbase_addr = m
  BY <1>1, <1>2, PbaseKeeps DEF Entry
<1>4. DirAddr(t) - (DirAddr(t) % PAGE_SIZE) = DirAddr(t)
  <2>1. DirAddr(t) \in Int
    BY MmAssumption DEF DirAddr, Tasks
  <2> QED
    BY <1>1, <2>1
<1> QED
  BY <1>1, <1>3, <1>4 DEF Walked

(* Once paging is on, the kernel's half is where it was before.            *)
LEMMA Identity ==
  ASSUME MmInv, paging = 1,
         NEW n \in 1 .. NUM_PAG_KERNEL - 1, NEW r \in 0 .. PAGE_SIZE - 1
  PROVE  Physical(n * PAGE_SIZE + r) = n * PAGE_SIZE + r
<1> DEFINE a == n * PAGE_SIZE + r
<1>1. n \in Nat /\ PAGE_SIZE \in Nat \ {0} /\ n \in Pages /\ n \in Frames
  BY PageRanges, MmAssumption
<1>2. a \div PAGE_SIZE = n /\ a % PAGE_SIZE = r
  BY <1>1, Division, Zenon
<1>3. PICK i \in Tasks : cr3 = DirAddr(i)
  BY DEF MmInv, TypeOK, DirsPaired, DirAddrs
<1>4. Walked(cr3) + n * ENTRY_SIZE = EntryAddr(i, n)
  <2>1. Walked(cr3) = EntryAddr(i, 0)
    BY <1>3, WalkedDir
  <2>2. EntryAddr(i, n) = EntryAddr(i, 0) + n * ENTRY_SIZE
    BY <1>1, EntryPlaced
  <2> QED
    BY <2>1, <2>2
<1>5. Load(EntryAddr(i, n)) = pagusr_table[i][n]
  BY <1>1, EntryFound DEF Load
<1>6. pagusr_table[i][n] = Entry(n, 0, 1)
  BY DEF MmInv, KernelHalfIntact
<1>7. Load(EntryAddr(i, n)).present = 1 /\ Load(EntryAddr(i, n)).pbase_addr = n
  BY <1>1, <1>5, <1>6, PbaseKeeps DEF Entry
<1> HIDE DEF a
<1>8. Physical(a) = n * PAGE_SIZE + r
  BY <1>1, <1>2, <1>4, <1>7 DEF Physical
<1> QED
  BY <1>8 DEF a

(* The table of a task that has a directory: its address, and its entries. *)
LEMMA TableOf ==
  ASSUME MmInv, NEW t \in Tasks, HasDir(t)
  PROVE  /\ paging = 1
         /\ get_PT(t) = EntryAddr(t, 0) /\ Walked(get_DIR(t)) = EntryAddr(t, 0)
         /\ \A p \in Pages : /\ Physical(get_PT(t) + p * ENTRY_SIZE) = EntryAddr(t, p)
                             /\ get_PT(t) + p * ENTRY_SIZE = EntryAddr(t, p)
                             /\ PageEntry(t, p) = EntryAddr(t, p)
                             /\ Load(PageEntry(t, p)) = pagusr_table[t][p]
<1>1. paging = 1 /\ get_DIR(t) = DirAddr(t)
  BY DEF MmInv, TypeOK, Booting, DirsPaired, HasDir, get_DIR
<1>2. Physical(DirAddr(t)) = DirAddr(t)
  <2>1. PICK n \in 1 .. NUM_PAG_KERNEL - 1 : DirAddr(t) = n * PAGE_SIZE
    BY DirPlaced
  <2>2. 0 \in 0 .. PAGE_SIZE - 1 /\ n * PAGE_SIZE + 0 = n * PAGE_SIZE
    BY MmAssumption
  <2> QED
    BY <1>1, <2>1, <2>2, Identity
<1>3. get_PT(t) = EntryAddr(t, 0) /\ Walked(get_DIR(t)) = EntryAddr(t, 0)
  BY <1>1, <1>2, WalkedDir DEF get_PT
<1>4. ASSUME NEW p \in Pages
      PROVE  /\ get_PT(t) + p * ENTRY_SIZE = EntryAddr(t, p)
             /\ Physical(EntryAddr(t, p)) = EntryAddr(t, p)
  <2>1. PICK n \in 1 .. NUM_PAG_KERNEL - 1 :
          /\ EntryAddr(t, 0) = n * PAGE_SIZE
          /\ EntryAddr(t, p) = n * PAGE_SIZE + p * ENTRY_SIZE
    BY EntryPlaced
  <2>2. p * ENTRY_SIZE \in 0 .. PAGE_SIZE - 1
    BY EntryOffset
  <2> QED
    BY <1>1, <1>3, <2>1, <2>2, Identity
<1>5. \A p \in Pages : Load(EntryAddr(t, p)) = pagusr_table[t][p]
  BY EntryFound DEF Load
<1> QED
  BY <1>1, <1>3, <1>4, <1>5 DEF PageEntry

(* An assignment to an entry changes that entry of that task and no other. *)
LEMMA SetEntryEffect ==
  ASSUME MmInv, NEW t \in Tasks, HasDir(t), NEW page \in Pages,
         NEW e \in page_table_entry, SetEntry(t, page, e)
  PROVE  /\ pagusr_table' \in [Tasks -> [Pages -> page_table_entry]]
         /\ pagusr_table'[t][page] = e
         /\ \A s \in Tasks, q \in Pages :
              s # t \/ q # page => pagusr_table'[s][q] = pagusr_table[s][q]
<1>1. PageEntry(t, page) = EntryAddr(t, page)
  BY TableOf
<1>2. pagusr_table' = [pagusr_table EXCEPT ![t][page] = e]
  <2> DEFINE at == EntryAt[EntryAddr(t, page)]
  <2>1. EntryAddr(t, page) \in EntryAddrs /\ at = <<t, page>>
    BY EntryFound
  <2>2. pagusr_table' = [pagusr_table EXCEPT ![at[1]][at[2]] = e]
    BY <1>1, <2>1, Zenon DEF SetEntry, Store
  <2>3. at[1] = t /\ at[2] = page
    BY <2>1
  <2> HIDE DEF at
  <2> QED
    BY <2>2, <2>3, Zenon
<1>3. pagusr_table \in [Tasks -> [Pages -> page_table_entry]]
  BY DEF MmInv, TypeOK
<1> QED
  BY <1>2, <1>3

(* alloc_frame takes a free frame that is not the kernel's, or none. *)
LEMMA AllocEffect ==
  ASSUME TypeOK, NEW f \in Frames \cup {-1}, alloc_frame(f)
  PROVE  /\ phys_mem' \in [Frames -> {FREE_FRAME, USED_FRAME}]
         /\ \A i \in Frames : phys_mem[i] = USED_FRAME => phys_mem'[i] = USED_FRAME
         /\ f # -1 => /\ f \in Frames /\ f >= NUM_PAG_KERNEL
                      /\ phys_mem[f] = FREE_FRAME /\ phys_mem'[f] = USED_FRAME
BY MmAssumption
   DEF TypeOK, alloc_frame, FreeCandidates, Candidates, Frames, FREE_FRAME, USED_FRAME

(* free_frame changes no frame but its argument, and none of the kernel's. *)
LEMMA FreeEffect ==
  ASSUME TypeOK, NEW f \in Int, free_frame(f)
  PROVE  /\ phys_mem' \in [Frames -> {FREE_FRAME, USED_FRAME}]
         /\ \A i \in Frames : i # f \/ i <= NUM_PAG_KERNEL => phys_mem'[i] = phys_mem[i]
BY MmAssumption DEF TypeOK, free_frame, Frames, FREE_FRAME, USED_FRAME

(* A free frame is reachable neither by a task nor by a client. *)
LEMMA FreeMeansUnmapped ==
  ASSUME MmInv, NEW f \in Frames, phys_mem[f] = FREE_FRAME
  PROVE  /\ f \notin held
         /\ \A t \in Tasks, p \in UserPages \cup TempPages :
              pagusr_table[t][p].present = 1 => pagusr_table[t][p].pbase_addr # f
BY MmAssumption
   DEF MmInv, NoDanglingPage, FREE_FRAME, USED_FRAME, NO_FRAME, Frames
---------------------------------------------------------------------------
(* The invariant holds at boot and after init_mm. *)
LEMMA InitInv == Init => MmInv
<1> SUFFICES ASSUME Init PROVE MmInv
  OBVIOUS
<1>1. TypeOK
  BY MmAssumption DEF Init, TypeOK, NoEntry, page_table_entry, Idle, Tasks,
       FREE_FRAME, USED_FRAME
<1>2. \A t \in Tasks, p \in Pages : pagusr_table[t][p] = NoEntry
  BY DEF Init
<1>3. Booting /\ DirsPaired /\ CallInProgress
  BY <1>2 DEF Init, Booting, DirsPaired, CallInProgress, HasDir, Idle
<1>4. EmptyEntries /\ TempHeld /\ NoDanglingPage /\ FramesExclusive
  BY <1>2, PageRanges
     DEF Init, EmptyEntries, TempHeld, NoDanglingPage, FramesExclusive, NoEntry
<1>5. KernelFramesReserved /\ KernelHalfIntact
  BY DEF Init, KernelFramesReserved, KernelHalfIntact
<1> QED
  BY <1>1, <1>3, <1>4, <1>5 DEF MmInv

LEMMA init_mmInv == MmInv /\ init_mm => MmInv'
<1> SUFFICES ASSUME MmInv, init_mm PROVE MmInv'
  OBVIOUS
<1> USE DEF init_mm
<1>0. 0 \in Tasks
  BY MmAssumption DEF Tasks
<1>a. /\ dir_pages_baseAddr' = [dir_pages_baseAddr EXCEPT ![0] = DirAddr(0)]
      /\ DirAddr(0) \in DirAddrs /\ DirAddr(0) # NULL
  BY <1>0, AllocatedDir
<1>b. dir_pages_baseAddr \in [Tasks -> DirAddrs \cup {NULL}]
  BY DEF MmInv, TypeOK
<1>c. cr3' = DirAddr(0)
  BY <1>0, <1>a, <1>b
<1>d. \A t \in Tasks : EntryAddr(t, 0) \div PAGE_SIZE \in Frames
  BY TableFrame
<1>1. TypeOK'
  <2>1. pagusr_table' \in [Tasks -> [Pages -> page_table_entry]]
    BY EntryTypes, PageRanges, MmAssumption DEF init_table_pages
  <2>2. dir_pages' \in [Tasks -> page_table_entry]
    BY <1>d, EntryTypes DEF init_dir_pages
  <2>3. phys_mem' \in [Frames -> {FREE_FRAME, USED_FRAME}]
    BY DEF init_frames
  <2>4. dir_pages_baseAddr' \in [Tasks -> DirAddrs \cup {NULL}]
    BY <1>a, <1>b
  <2> QED
    BY <1>a, <1>c, <2>1, <2>2, <2>3, <2>4 DEF MmInv, TypeOK
<1>2. call' = Idle /\ held' = {} /\ paging' = 1
  BY DEF MmInv, Booting
<1>3. DirsPaired' /\ Booting' /\ CallInProgress'
  <2>1. \A t \in Tasks :
          dir_pages'[t] = Entry(EntryAddr(t, 0) \div PAGE_SIZE, 1, 1)
    BY DEF init_dir_pages
  <2>2. \A t \in Tasks :
          dir_pages_baseAddr'[t] # NULL => dir_pages_baseAddr'[t] = DirAddr(t)
    BY <1>a, <1>b DEF MmInv, Booting, HasDir
  <2> QED
    BY <1>2, <1>a, <1>c, <2>1, <2>2
       DEF DirsPaired, Booting, CallInProgress, HasDir, Idle
<1>4. \A t \in Tasks, p \in UserPages \cup TempPages : pagusr_table'[t][p] = NoEntry
  BY PageRanges, MmAssumption
     DEF init_table_pages, UserPages, PAG_LOG_INIT_CODE, UserEnd
<1>5. EmptyEntries' /\ TempHeld' /\ NoDanglingPage' /\ FramesExclusive'
  BY <1>2, <1>4 DEF EmptyEntries, TempHeld, NoDanglingPage, FramesExclusive, NoEntry
<1>6. KernelFramesReserved'
  BY PageRanges, MmAssumption DEF init_frames, KernelFramesReserved
<1>7. KernelHalfIntact'
  BY PageRanges, MmAssumption DEF init_table_pages, KernelHalfIntact
<1> QED
  BY <1>1, <1>3, <1>5, <1>6, <1>7 DEF MmInv
---------------------------------------------------------------------------
(* Steps that leave frames and tables alone. *)
LEMMA NewDirectoryInv ==
  ASSUME MmInv, NEW t \in Tasks, NewDirectory(t) PROVE MmInv'
<1> USE DEF NewDirectory, Ready
<1>0. /\ dir_pages_baseAddr' = [dir_pages_baseAddr EXCEPT ![t] = DirAddr(t)]
      /\ DirAddr(t) \in DirAddrs
  BY AllocatedDir
<1>1. TypeOK'
  BY <1>0 DEF MmInv, TypeOK
<1>2. \A s \in Tasks :
        dir_pages_baseAddr'[s] = IF s = t THEN DirAddr(t) ELSE dir_pages_baseAddr[s]
  BY <1>0 DEF MmInv, TypeOK
<1>3. Booting' /\ DirsPaired' /\ CallInProgress'
  BY <1>2, MmAssumption
     DEF MmInv, Booting, DirsPaired, CallInProgress, HasDir, Idle, TypeOK
<1>4. EmptyEntries' /\ TempHeld' /\ NoDanglingPage' /\ FramesExclusive'
  BY DEF MmInv, EmptyEntries, TempHeld, NoDanglingPage, FramesExclusive
<1>5. KernelFramesReserved' /\ KernelHalfIntact'
  BY DEF MmInv, KernelFramesReserved, KernelHalfIntact
<1> QED
  BY <1>1, <1>3, <1>4, <1>5 DEF MmInv

LEMMA ControlInv ==
  ASSUME MmInv,
         UNCHANGED <<phys_mem, pagusr_table, dir_pages, dir_pages_baseAddr,
                     paging, held>>,
         TypeOK', CallInProgress',
         paging = 0 => call' = Idle, paging = 1 => cr3' # NULL
  PROVE  MmInv'
<1>1. Booting' /\ DirsPaired'
  BY DEF MmInv, Booting, DirsPaired, HasDir
<1>2. EmptyEntries' /\ TempHeld' /\ NoDanglingPage' /\ FramesExclusive'
  BY DEF MmInv, EmptyEntries, TempHeld, NoDanglingPage, FramesExclusive
<1>3. KernelFramesReserved' /\ KernelHalfIntact'
  BY DEF MmInv, KernelFramesReserved, KernelHalfIntact
<1> QED
  BY <1>1, <1>2, <1>3 DEF MmInv

LEMMA StartInv ==
  ASSUME MmInv, NEW t \in Tasks, set_user_pages(t) \/ free_user_pages(t)
  PROVE  MmInv'
<1> USE DEF set_user_pages, free_user_pages, Ready
<1>1. TypeOK'
  BY MmAssumption DEF MmInv, TypeOK
<1>2. CallInProgress'
  BY DEF CallInProgress, HasDir
<1>3. paging = 1 => cr3' # NULL
  BY DEF MmInv, DirsPaired
<1> QED
  BY <1>1, <1>2, <1>3, ControlInv

LEMMA ReturnInv ==
  ASSUME MmInv, SetUserPagesReturn \/ FreeUserPagesReturn
  PROVE  MmInv'
<1> USE DEF SetUserPagesReturn, FreeUserPagesReturn
<1>1. TypeOK'
  BY MmAssumption DEF MmInv, TypeOK, Idle, Tasks
<1>2. CallInProgress'
  BY DEF CallInProgress, Idle
<1>3. paging = 1 => cr3' # NULL
  BY DEF MmInv, DirsPaired
<1> QED
  BY <1>1, <1>2, <1>3, ControlInv

LEMMA set_cr3Inv ==
  ASSUME MmInv, NEW t \in Tasks, set_cr3(t) PROVE MmInv'
<1> USE DEF set_cr3
<1>1. TypeOK' /\ cr3' # NULL
  BY DEF MmInv, TypeOK, get_DIR, HasDir
<1>2. CallInProgress'
  BY DEF MmInv, CallInProgress, HasDir
<1> QED
  BY <1>1, <1>2, ControlInv DEF Ready
---------------------------------------------------------------------------
(* Steps that change frames or tables. *)
LEMMA SetUserPageInv == ASSUME MmInv, SetUserPage PROVE MmInv'
<1> DEFINE t == call.task
           k == call.pag
           code == k < NUM_PAG_CODE
           page == IF code THEN PAG_LOG_INIT_CODE + k
                           ELSE PAG_LOG_INIT_DATA + (k - NUM_PAG_CODE)
<1>1. /\ call.op = "set" /\ k < NUM_PAG_CODE + NUM_PAG_DATA
      /\ call' = [call EXCEPT !.pag = k + 1]
      /\ UNCHANGED <<dir_pages, dir_pages_baseAddr, cr3, paging, held>>
  BY DEF SetUserPage
<1>2. PICK f \in Frames \cup {-1} :
        /\ alloc_frame(f)
        /\ SetEntry(t, page, Entry(f, 1, IF code THEN 0 ELSE 1))
  BY DEF SetUserPage
<1> DEFINE e == Entry(f, 1, IF code THEN 0 ELSE 1)
<1>3. t \in Tasks /\ k \in Nat /\ HasDir(t) /\ paging = 1
  BY <1>1 DEF MmInv, TypeOK, CallInProgress
<1>4. page \in UserPages /\ page \in Pages
  BY <1>1, <1>3, MmAssumption, PageRanges
     DEF UserPages, UserEnd, PAG_LOG_INIT_CODE
<1>5. e \in page_table_entry /\ e.present = 1 /\ e.pbase_addr = Pbase(f)
  <2>1. (IF code THEN 0 ELSE 1) \in 0..1
    OBVIOUS
  <2>2. e \in page_table_entry
    BY <2>1, EntryTypes
  <2> QED
    BY <2>2 DEF Entry
<1> HIDE DEF t, k, code, page, e
<1>6. /\ pagusr_table' \in [Tasks -> [Pages -> page_table_entry]]
      /\ pagusr_table'[t][page] = e
      /\ \A s \in Tasks, q \in Pages :
           s # t \/ q # page => pagusr_table'[s][q] = pagusr_table[s][q]
  BY <1>2, <1>3, <1>4, <1>5, SetEntryEffect DEF e
<1>7. /\ phys_mem' \in [Frames -> {FREE_FRAME, USED_FRAME}]
      /\ \A i \in Frames : phys_mem[i] = USED_FRAME => phys_mem'[i] = USED_FRAME
      /\ f # -1 => /\ f \in Frames /\ f >= NUM_PAG_KERNEL
                   /\ phys_mem[f] = FREE_FRAME /\ phys_mem'[f] = USED_FRAME
  BY <1>2, AllocEffect DEF MmInv
<1>8. TypeOK'
  <2>1. call' \in [op : {"none", "set", "free"}, task : Tasks,
                   pag : 0 .. NUM_PAG_CODE + NUM_PAG_DATA]
    BY <1>1, MmAssumption DEF MmInv, TypeOK, k
  <2> QED
    BY <1>1, <1>6, <1>7, <2>1 DEF MmInv, TypeOK
<1>9. Booting' /\ DirsPaired' /\ CallInProgress'
  BY <1>1, <1>3 DEF MmInv, Booting, DirsPaired, CallInProgress, HasDir, TypeOK
<1>10. EmptyEntries' /\ TempHeld'
  BY <1>1, <1>4, <1>5, <1>6, PageRanges DEF MmInv, EmptyEntries, TempHeld
<1>11. KernelFramesReserved' /\ KernelHalfIntact'
  BY <1>1, <1>4, <1>6, <1>7, PageRanges
     DEF MmInv, KernelFramesReserved, KernelHalfIntact
<1>12. NoDanglingPage'
  <2>1. \/ e.pbase_addr = NO_FRAME
        \/ /\ e.pbase_addr \in NUM_PAG_KERNEL .. TOTAL_PAGES - 1
           /\ phys_mem'[e.pbase_addr] = USED_FRAME
    BY <1>5, <1>7, PbaseKeeps, MmAssumption DEF Frames
  <2>2. \A s \in Tasks, q \in UserPages \cup TempPages :
          (s # t \/ q # page) /\ pagusr_table'[s][q].present = 1 =>
            LET g == pagusr_table'[s][q].pbase_addr
            IN \/ g = NO_FRAME /\ q \in UserPages
               \/ g \in NUM_PAG_KERNEL .. TOTAL_PAGES - 1 /\ phys_mem'[g] = USED_FRAME
    <3> SUFFICES ASSUME NEW s \in Tasks, NEW q \in UserPages \cup TempPages,
                        s # t \/ q # page, pagusr_table'[s][q].present = 1
                 PROVE  LET g == pagusr_table'[s][q].pbase_addr
                        IN \/ g = NO_FRAME /\ q \in UserPages
                           \/ /\ g \in NUM_PAG_KERNEL .. TOTAL_PAGES - 1
                              /\ phys_mem'[g] = USED_FRAME
      OBVIOUS
    <3>1. pagusr_table'[s][q] = pagusr_table[s][q]
      BY <1>6, PageRanges
    <3>2. CASE pagusr_table[s][q].pbase_addr = NO_FRAME /\ q \in UserPages
      BY <3>1, <3>2
    <3>3. CASE /\ pagusr_table[s][q].pbase_addr \in NUM_PAG_KERNEL .. TOTAL_PAGES - 1
               /\ phys_mem[pagusr_table[s][q].pbase_addr] = USED_FRAME
      <4>1. pagusr_table[s][q].pbase_addr \in Frames
        BY <3>3, MmAssumption DEF Frames
      <4> QED
        BY <1>7, <3>1, <3>3, <4>1
    <3> QED
      BY <3>1, <3>2, <3>3 DEF MmInv, NoDanglingPage
  <2>3. \A g \in held' : g >= NUM_PAG_KERNEL /\ phys_mem'[g] = USED_FRAME
    BY <1>1, <1>7 DEF MmInv, TypeOK, NoDanglingPage
  <2> QED
    BY <1>4, <1>6, <2>1, <2>2, <2>3 DEF NoDanglingPage
<1>13. FramesExclusive'
  <2>1. f # -1 => /\ f \notin held
                  /\ \A s \in Tasks, q \in UserPages :
                       pagusr_table[s][q].present = 1 => pagusr_table[s][q].pbase_addr # f
    BY <1>7, FreeMeansUnmapped
  <2>2. e.pbase_addr # NO_FRAME => f # -1 /\ e.pbase_addr = f
    BY <1>5, PbaseKeeps
  <2>3. UserPages \subseteq Pages
    BY PageRanges
  <2> QED
    BY <1>1, <1>3, <1>4, <1>6, <2>1, <2>2, <2>3 DEF MmInv, FramesExclusive
<1> QED
  BY <1>8, <1>9, <1>10, <1>11, <1>12, <1>13 DEF MmInv

(* The frame of a present data page is freed while nothing else reaches it; *)
(* an absent page reads frame 0 and NO_FRAME lies beyond memory, and        *)
(* free_frame ignores both.                                                 *)
LEMMA FreeUserPageInv == ASSUME MmInv, FreeUserPage PROVE MmInv'
<1> DEFINE t == call.task
           page == PAG_LOG_INIT_DATA + call.pag
           f == pagusr_table[t][page].pbase_addr
<1>1. /\ call.op = "free" /\ call.pag < NUM_PAG_DATA
      /\ call' = [call EXCEPT !.pag = call.pag + 1]
      /\ SetEntry(t, page, NoEntry)
      /\ UNCHANGED <<dir_pages, dir_pages_baseAddr, cr3, paging, held>>
  BY DEF FreeUserPage
<1>2. t \in Tasks /\ call.pag \in Nat /\ HasDir(t) /\ paging = 1
  BY <1>1 DEF MmInv, TypeOK, CallInProgress
<1>3. page \in UserPages /\ page \in Pages
  BY <1>1, <1>2, MmAssumption, PageRanges
     DEF UserPages, UserEnd, PAG_LOG_INIT_CODE
<1>4. free_frame(f)
  BY <1>2, <1>3, TableOf DEF FreeUserPage, get_frame
<1>5. f \in Nat /\ pagusr_table[t][page].present \in 0..1
  BY <1>2, <1>3, MmAssumption DEF MmInv, TypeOK, page_table_entry
<1> HIDE DEF t, page
<1>6. /\ pagusr_table' \in [Tasks -> [Pages -> page_table_entry]]
      /\ pagusr_table'[t][page] = NoEntry
      /\ \A s \in Tasks, q \in Pages :
           s # t \/ q # page => pagusr_table'[s][q] = pagusr_table[s][q]
  BY <1>1, <1>2, <1>3, EntryTypes, SetEntryEffect
<1> HIDE DEF f
<1>7. /\ phys_mem' \in [Frames -> {FREE_FRAME, USED_FRAME}]
      /\ \A i \in Frames : i # f \/ i <= NUM_PAG_KERNEL => phys_mem'[i] = phys_mem[i]
  BY <1>4, <1>5, FreeEffect DEF MmInv
<1>8. TypeOK'
  <2>1. call' \in [op : {"none", "set", "free"}, task : Tasks,
                   pag : 0 .. NUM_PAG_CODE + NUM_PAG_DATA]
    BY <1>1, MmAssumption DEF MmInv, TypeOK
  <2> QED
    BY <1>1, <1>6, <1>7, <2>1 DEF MmInv, TypeOK
<1>9. Booting' /\ DirsPaired' /\ CallInProgress'
  BY <1>1, <1>2 DEF MmInv, Booting, DirsPaired, CallInProgress, HasDir, TypeOK
<1>10. EmptyEntries' /\ TempHeld'
  BY <1>1, <1>3, <1>6, PageRanges DEF MmInv, EmptyEntries, TempHeld, NoEntry
<1>11. KernelHalfIntact'
  BY <1>1, <1>3, <1>6, PageRanges DEF MmInv, KernelHalfIntact
<1>12. KernelFramesReserved'
  BY <1>1, <1>7, PageRanges, MmAssumption DEF MmInv, KernelFramesReserved
<1>13. f \in Frames /\ f > NUM_PAG_KERNEL =>
         /\ f \notin held
         /\ \A s \in Tasks, q \in UserPages \cup TempPages :
              (s # t \/ q # page) /\ pagusr_table[s][q].present = 1 =>
                pagusr_table[s][q].pbase_addr # f
  <2> SUFFICES ASSUME f \in Frames, f > NUM_PAG_KERNEL
               PROVE  /\ f \notin held
                      /\ \A s \in Tasks, q \in UserPages \cup TempPages :
                           (s # t \/ q # page) /\ pagusr_table[s][q].present = 1 =>
                             pagusr_table[s][q].pbase_addr # f
    OBVIOUS
  <2>1. pagusr_table[t][page].present = 1
    BY <1>2, <1>3, <1>5, MmAssumption DEF MmInv, EmptyEntries, f
  <2>2. f # NO_FRAME
    BY MmAssumption DEF Frames, NO_FRAME
  <2>3. f \notin held
    BY <1>2, <1>3, <2>1, <2>2 DEF MmInv, FramesExclusive, f
  <2>4. \A s \in Tasks, q \in UserPages :
          (s # t \/ q # page) /\ pagusr_table[s][q].present = 1 =>
            pagusr_table[s][q].pbase_addr # f
    BY <1>2, <1>3, <2>1, <2>2 DEF MmInv, FramesExclusive, f
  <2>5. \A s \in Tasks, q \in TempPages :
          pagusr_table[s][q].present = 1 => pagusr_table[s][q].pbase_addr # f
    BY <2>3 DEF MmInv, TempHeld
  <2> QED
    BY <2>3, <2>4, <2>5
<1>14. NoDanglingPage'
  <2>1. \A s \in Tasks, q \in UserPages \cup TempPages :
          pagusr_table'[s][q].present = 1 =>
            LET g == pagusr_table'[s][q].pbase_addr
            IN \/ g = NO_FRAME /\ q \in UserPages
               \/ g \in NUM_PAG_KERNEL .. TOTAL_PAGES - 1 /\ phys_mem'[g] = USED_FRAME
    <3> SUFFICES ASSUME NEW s \in Tasks, NEW q \in UserPages \cup TempPages,
                        pagusr_table'[s][q].present = 1
                 PROVE  LET g == pagusr_table'[s][q].pbase_addr
                        IN \/ g = NO_FRAME /\ q \in UserPages
                           \/ /\ g \in NUM_PAG_KERNEL .. TOTAL_PAGES - 1
                              /\ phys_mem'[g] = USED_FRAME
      OBVIOUS
    <3>1. s # t \/ q # page
      BY <1>6 DEF NoEntry
    <3>2. pagusr_table'[s][q] = pagusr_table[s][q]
      BY <1>6, <3>1, PageRanges
    <3>3. CASE pagusr_table[s][q].pbase_addr = NO_FRAME /\ q \in UserPages
      BY <3>2, <3>3
    <3>4. CASE /\ pagusr_table[s][q].pbase_addr \in NUM_PAG_KERNEL .. TOTAL_PAGES - 1
               /\ phys_mem[pagusr_table[s][q].pbase_addr] = USED_FRAME
      <4> DEFINE g == pagusr_table[s][q].pbase_addr
      <4>1. g \in Frames
        BY <3>4, MmAssumption DEF Frames
      <4>2. g # f \/ g <= NUM_PAG_KERNEL
        BY <1>13, <3>1, <3>2, <4>1, MmAssumption DEF Frames
      <4> QED
        BY <1>7, <3>2, <3>4, <4>1, <4>2
    <3> QED
      BY <3>2, <3>3, <3>4 DEF MmInv, NoDanglingPage
  <2>2. \A g \in held' : g >= NUM_PAG_KERNEL /\ phys_mem'[g] = USED_FRAME
    <3> SUFFICES ASSUME NEW g \in held
                 PROVE  g >= NUM_PAG_KERNEL /\ phys_mem'[g] = USED_FRAME
      BY <1>1
    <3>1. g \in Frames /\ g >= NUM_PAG_KERNEL /\ phys_mem[g] = USED_FRAME
      BY DEF MmInv, TypeOK, NoDanglingPage
    <3>2. g # f \/ g <= NUM_PAG_KERNEL
      BY <1>13, <3>1, MmAssumption DEF Frames
    <3> QED
      BY <1>7, <3>1, <3>2
  <2> QED
    BY <2>1, <2>2 DEF NoDanglingPage
<1>15. FramesExclusive'
  <2>1. \A s \in Tasks, q \in UserPages :
          pagusr_table'[s][q].present = 1 => pagusr_table'[s][q] = pagusr_table[s][q]
    <3> SUFFICES ASSUME NEW s \in Tasks, NEW q \in UserPages,
                        pagusr_table'[s][q].present = 1
                 PROVE  pagusr_table'[s][q] = pagusr_table[s][q]
      OBVIOUS
    <3>1. s # t \/ q # page
      BY <1>6 DEF NoEntry
    <3> QED
      BY <1>6, <3>1, PageRanges
  <2> QED
    BY <1>1, <2>1 DEF MmInv, FramesExclusive
<1> QED
  BY <1>8, <1>9, <1>10, <1>11, <1>12, <1>14, <1>15 DEF MmInv
---------------------------------------------------------------------------
(* Steps of a client. *)
LEMMA ClientAllocInv == ASSUME MmInv, ClientAlloc PROVE MmInv'
<1>1. /\ Ready
      /\ UNCHANGED <<pagusr_table, dir_pages, dir_pages_baseAddr, cr3, paging, call>>
  BY DEF ClientAlloc
<1>2. PICK f \in Frames \cup {-1} :
        alloc_frame(f) /\ held' = IF f = -1 THEN held ELSE held \cup {f}
  BY DEF ClientAlloc
<1>3. /\ phys_mem' \in [Frames -> {FREE_FRAME, USED_FRAME}]
      /\ \A i \in Frames : phys_mem[i] = USED_FRAME => phys_mem'[i] = USED_FRAME
      /\ f # -1 => /\ f \in Frames /\ f >= NUM_PAG_KERNEL
                   /\ phys_mem[f] = FREE_FRAME /\ phys_mem'[f] = USED_FRAME
  BY <1>2, AllocEffect DEF MmInv
<1>4. TypeOK'
  BY <1>1, <1>2, <1>3 DEF MmInv, TypeOK
<1>5. Booting' /\ DirsPaired' /\ CallInProgress' /\ EmptyEntries' /\ TempHeld'
  BY <1>1, <1>2
     DEF Ready, MmInv, Booting, DirsPaired, CallInProgress, HasDir, EmptyEntries,
         TempHeld
<1>6. KernelFramesReserved' /\ KernelHalfIntact'
  BY <1>1, <1>3, PageRanges DEF MmInv, KernelFramesReserved, KernelHalfIntact
<1>7. NoDanglingPage'
  <2>1. NUM_PAG_KERNEL .. TOTAL_PAGES - 1 \subseteq Frames
    BY MmAssumption DEF Frames
  <2> QED
    BY <1>1, <1>2, <1>3, <2>1 DEF MmInv, TypeOK, NoDanglingPage
<1>8. FramesExclusive'
  BY <1>1, <1>2, <1>3, FreeMeansUnmapped DEF MmInv, FramesExclusive
<1> QED
  BY <1>4, <1>5, <1>6, <1>7, <1>8 DEF MmInv

LEMMA ss_pagInv ==
  ASSUME MmInv, NEW t \in Tasks, NEW page \in TempPages,
         \/ del_ss_pag(t, page)
         \/ \E f \in held : set_ss_pag(t, page, f)
  PROVE  MmInv'
<1>1. /\ Ready /\ HasDir(t)
      /\ UNCHANGED <<phys_mem, dir_pages, dir_pages_baseAddr, cr3, paging, call, held>>
  BY DEF del_ss_pag, set_ss_pag
<1>2. PICK e \in page_table_entry :
        /\ SetEntry(t, page, e)
        /\ e.present = 1 => e.pbase_addr \in held
  <2>1. CASE del_ss_pag(t, page)
    BY <2>1, EntryTypes DEF del_ss_pag, NoEntry
  <2>2. CASE \E f \in held : set_ss_pag(t, page, f)
    <3>1. PICK f \in held : SetEntry(t, page, Entry(f, 1, 1))
      BY <2>2 DEF set_ss_pag
    <3>2. Entry(f, 1, 1) \in page_table_entry
      BY EntryTypes DEF MmInv, TypeOK
    <3>3. Entry(f, 1, 1).pbase_addr = f
      BY PbaseKeeps DEF Entry, MmInv, TypeOK
    <3> QED
      BY <3>1, <3>2, <3>3
  <2> QED
    BY <2>1, <2>2
<1>3. page \in Pages /\ page \notin UserPages
  BY PageRanges
<1>4. /\ pagusr_table' \in [Tasks -> [Pages -> page_table_entry]]
      /\ pagusr_table'[t][page] = e
      /\ \A s \in Tasks, q \in Pages :
           s # t \/ q # page => pagusr_table'[s][q] = pagusr_table[s][q]
  BY <1>1, <1>2, <1>3, SetEntryEffect
<1>5. \A s \in Tasks, q \in UserPages : pagusr_table'[s][q] = pagusr_table[s][q]
  BY <1>3, <1>4, PageRanges
<1>6. TypeOK'
  BY <1>1, <1>4 DEF MmInv, TypeOK
<1>7. Booting' /\ DirsPaired' /\ CallInProgress'
  BY <1>1 DEF Ready, MmInv, Booting, DirsPaired, CallInProgress, HasDir
<1>8. EmptyEntries' /\ FramesExclusive'
  BY <1>1, <1>5 DEF MmInv, EmptyEntries, FramesExclusive
<1>9. TempHeld'
  BY <1>1, <1>2, <1>4, PageRanges DEF MmInv, TempHeld
<1>10. KernelFramesReserved' /\ KernelHalfIntact'
  BY <1>1, <1>4, PageRanges DEF MmInv, KernelFramesReserved, KernelHalfIntact
<1>11. NoDanglingPage'
  <2>1. \A g \in held : /\ g \in NUM_PAG_KERNEL .. TOTAL_PAGES - 1
                        /\ phys_mem[g] = USED_FRAME
    BY MmAssumption DEF MmInv, TypeOK, NoDanglingPage, Frames
  <2> QED
    BY <1>1, <1>5, <1>9, <2>1 DEF MmInv, NoDanglingPage, TempHeld
<1> QED
  BY <1>6, <1>7, <1>8, <1>9, <1>10, <1>11 DEF MmInv

LEMMA ClientFreeInv ==
  ASSUME MmInv, NEW f \in held, ClientFree(f) PROVE MmInv'
<1>1. /\ Ready /\ ~MappedAtTemp(f) /\ free_frame(f) /\ held' = held \ {f}
      /\ UNCHANGED <<pagusr_table, dir_pages, dir_pages_baseAddr, cr3, paging, call>>
  BY DEF ClientFree
<1>2. f \in Frames /\ f \in Int
  BY DEF MmInv, TypeOK, Frames
<1>3. /\ phys_mem' \in [Frames -> {FREE_FRAME, USED_FRAME}]
      /\ \A i \in Frames : i # f \/ i <= NUM_PAG_KERNEL => phys_mem'[i] = phys_mem[i]
  BY <1>1, <1>2, FreeEffect DEF MmInv
<1>4. TypeOK'
  BY <1>1, <1>3 DEF MmInv, TypeOK
<1>5. Booting' /\ DirsPaired' /\ CallInProgress' /\ EmptyEntries'
  BY <1>1 DEF Ready, MmInv, Booting, DirsPaired, CallInProgress, HasDir, EmptyEntries
<1>6. TempHeld'
  BY <1>1 DEF MmInv, TempHeld, MappedAtTemp
<1>7. KernelFramesReserved' /\ KernelHalfIntact'
  BY <1>1, <1>3, PageRanges, MmAssumption
     DEF MmInv, KernelFramesReserved, KernelHalfIntact
<1>8. \A t \in Tasks, p \in UserPages \cup TempPages :
        pagusr_table[t][p].present = 1 => pagusr_table[t][p].pbase_addr # f
  <2>1. f # NO_FRAME
    BY <1>2, MmAssumption DEF Frames, NO_FRAME
  <2> QED
    BY <1>1, <2>1 DEF MmInv, FramesExclusive, MappedAtTemp
<1>9. NoDanglingPage'
  <2>1. NUM_PAG_KERNEL .. TOTAL_PAGES - 1 \subseteq Frames
    BY MmAssumption DEF Frames
  <2>2. \A g \in Frames : g # f => phys_mem'[g] = phys_mem[g]
    BY <1>3
  <2> QED
    BY <1>1, <1>8, <2>1, <2>2 DEF MmInv, TypeOK, NoDanglingPage
<1>10. FramesExclusive'
  BY <1>1 DEF MmInv, FramesExclusive
<1> QED
  BY <1>4, <1>5, <1>6, <1>7, <1>9, <1>10 DEF MmInv
---------------------------------------------------------------------------
(* Every step of mm.c and of its clients preserves the invariant. *)
LEMMA NextInv == MmInv /\ [Next]_vars => MmInv'
<1> SUFFICES ASSUME MmInv, [Next]_vars PROVE MmInv'
  OBVIOUS
<1>1. CASE init_mm
  BY <1>1, init_mmInv
<1>2. CASE SetUserPage
  BY <1>2, SetUserPageInv
<1>3. CASE SetUserPagesReturn \/ FreeUserPagesReturn
  BY <1>3, ReturnInv
<1>4. CASE FreeUserPage
  BY <1>4, FreeUserPageInv
<1>5. CASE ClientAlloc
  BY <1>5, ClientAllocInv
<1>6. ASSUME NEW t \in Tasks, NewDirectory(t) PROVE MmInv'
  BY <1>6, NewDirectoryInv
<1>7. ASSUME NEW t \in Tasks, set_user_pages(t) \/ free_user_pages(t) PROVE MmInv'
  BY <1>7, StartInv
<1>8. ASSUME NEW t \in Tasks, set_cr3(t) PROVE MmInv'
  BY <1>8, set_cr3Inv
<1>9. ASSUME NEW t \in Tasks, NEW p \in TempPages,
             del_ss_pag(t, p) \/ \E f \in held : set_ss_pag(t, p, f)
      PROVE  MmInv'
  BY <1>9, ss_pagInv
<1>10. ASSUME NEW f \in held, ClientFree(f) PROVE MmInv'
  BY <1>10, ClientFreeInv
<1>11. CASE UNCHANGED vars
  <2>1. TypeOK' /\ CallInProgress'
    BY <1>11 DEF vars, MmInv, TypeOK, CallInProgress, HasDir
  <2>2. (paging = 0 => call' = Idle) /\ (paging = 1 => cr3' # NULL)
    BY <1>11 DEF vars, MmInv, Booting, DirsPaired
  <2> QED
    BY <1>11, <2>1, <2>2, ControlInv DEF vars
<1> QED
  BY <1>1, <1>2, <1>3, <1>4, <1>5, <1>6, <1>7, <1>8, <1>9, <1>10, <1>11 DEF Next

(* The inductive invariant holds of every behaviour. *)
THEOREM MmInvariant == Spec => []MmInv
BY InitInv, NextInv, PTL DEF Spec

(* Type correctness of the frame map, the tables and the directories of    *)
(* mm.c.                                                                   *)
THEOREM TypeCorrect == Spec => []TypeOK
<1>1. MmInv => TypeOK
  BY DEF MmInv
<1> QED
  BY <1>1, MmInvariant, PTL

(* mm.c's functions never give away a frame of the kernel. *)
THEOREM KernelFramesProtected == Spec => []KernelFramesReserved
<1>1. MmInv => KernelFramesReserved
  BY DEF MmInv
<1> QED
  BY <1>1, MmInvariant, PTL

(* mm.c's functions never change the kernel's half of a table. *)
THEOREM KernelHalfProtected == Spec => []KernelHalfIntact
<1>1. MmInv => KernelHalfIntact
  BY DEF MmInv
<1> QED
  BY <1>1, MmInvariant, PTL

(* Wherever system.lds puts the arrays, in whole pages of the kernel: what *)
(* get_PT returns for a task is, under any cr3, a pointer to the very      *)
(* table the processor walks for it, inside pagusr_table and disjoint from *)
(* the tables of the other tasks.                                          *)
THEOREM TablesArePrivate == Spec => []TablesPrivate
<1>1. ASSUME MmInv PROVE TablesPrivate
  <2> SUFFICES ASSUME NEW t \in Tasks, HasDir(t)
               PROVE  /\ get_PT(t) = Walked(get_DIR(t))
                      /\ Physical(get_PT(t)) = get_PT(t)
                      /\ Physical(get_PT(t) + LastEntry) = get_PT(t) + LastEntry
                      /\ {get_PT(t), get_PT(t) + LastEntry} \subseteq EntryAddrs
                      /\ \A s \in Tasks \ {t} : HasDir(s) =>
                           \/ get_PT(s) + PAGE_SIZE <= get_PT(t)
                           \/ get_PT(t) + PAGE_SIZE <= get_PT(s)
    BY Zenon DEF TablesPrivate
  <2>1. /\ 0 \in Pages /\ TOTAL_PAGES - 1 \in Pages
        /\ get_PT(t) \in Int /\ get_PT(t) + 0 * ENTRY_SIZE = get_PT(t)
    <3>1. \E n \in Nat : get_PT(t) = n * PAGE_SIZE
      BY <1>1, TableOf, EntryPlaced
    <3> QED
      BY <3>1, MmAssumption, PageRanges DEF Pages
  <2>2. /\ get_PT(t) = Walked(get_DIR(t))
        /\ Physical(get_PT(t) + 0 * ENTRY_SIZE) = get_PT(t) + 0 * ENTRY_SIZE
        /\ Physical(get_PT(t) + LastEntry) = get_PT(t) + LastEntry
        /\ get_PT(t) + 0 * ENTRY_SIZE = EntryAddr(t, 0)
        /\ get_PT(t) + LastEntry = EntryAddr(t, TOTAL_PAGES - 1)
    BY <1>1, <2>1, TableOf DEF LastEntry
  <2>3. ASSUME NEW s \in Tasks \ {t}, HasDir(s)
        PROVE  \/ get_PT(s) + PAGE_SIZE <= get_PT(t)
               \/ get_PT(t) + PAGE_SIZE <= get_PT(s)
    <3>1. PICK c \in Nat : /\ get_PT(s) = (c + s) * PAGE_SIZE
                           /\ get_PT(t) = (c + t) * PAGE_SIZE
      BY <1>1, <2>3, TableOf, EntryPlaced
    <3>2. c + s \in Nat /\ c + t \in Nat /\ s # t /\ PAGE_SIZE \in Nat \ {0}
          /\ s \in Nat /\ t \in Nat
      BY MmAssumption DEF Tasks
    <3>3. \A m, n \in Nat : m < n => m * PAGE_SIZE + PAGE_SIZE <= n * PAGE_SIZE
      BY <3>2, NextPage
    <3> QED
      BY <3>1, <3>2, <3>3
  <2> QED
    BY <2>1, <2>2, <2>3, EntryFound
<1> QED
  BY <1>1, MmInvariant, PTL

(* No page of a task and no client reaches a frame that alloc_frame could  *)
(* hand out again.                                                         *)
THEOREM NoUseAfterFree == Spec => []NoDanglingPage
<1>1. MmInv => NoDanglingPage
  BY DEF MmInv
<1> QED
  BY <1>1, MmInvariant, PTL

(* The frames set_user_pages gives to a page belong to that page alone. *)
THEOREM Isolation == Spec => []FramesExclusive
<1>1. MmInv => FramesExclusive
  BY DEF MmInv
<1> QED
  BY <1>1, MmInvariant, PTL
===========================================================================
