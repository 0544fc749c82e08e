---------------------------- MODULE AddressSpace ----------------------------
(***************************************************************************)
(* User address spaces: kernel/mm/vmm.c with its callers fork, exec,       *)
(* task_create, task_cleanup and the page-fault handler, over the frame    *)
(* allocator FrameAlloc.                                                   *)
(*                                                                         *)
(* A space is a function from slots to frames: its PML4, its lower tables  *)
(* (Node), its pages (VPage), and the page that exec has allocated but not  *)
(* yet mapped (Spare).  wr and cow are the PAGE_WRITABLE and PAGE_COW bits  *)
(* of present entries.  fork, exec and task_create run with interrupts off; *)
(* they are split into one step per allocation so that each of them can be  *)
(* the one that fails, and build their space under the name New.  An        *)
(* allocation may fail although FreeFrames is not empty: the kernel heap    *)
(* takes frames as well, and they are not part of this model.               *)
(*                                                                         *)
(* A reap runs with interrupts on when task_wait has blocked before it: it  *)
(* can be preempted after every frame it releases, and the entries of the   *)
(* zombie go on naming the frames released.  A reap that is not preempted   *)
(* is the same steps without a switch between them.  Spec assumes that the  *)
(* reaper is not killed half way; KillSpec lifts that.  pmm_free_page is    *)
(* one step here; PmmPreempted splits it.  Of the family tree only           *)
(* parent_pid is kept (it says who reaps); the lists are in Tasks.          *)
(***************************************************************************)
EXTENDS Integers, FiniteSets, SequencesExt

CONSTANTS Task, Frame, VPage, Node, Val,
          Pml4, Spare,  \* the two other slots of a space
          New,          \* the space under construction
          Idle,         \* task 0, which runs on the boot page tables
          First,        \* task 1, which kmain creates
          NoFrame, NoVal,
          PathOf,       \* PathOf[v]: the tables a walk to page v goes through
          TableOrder,   \* the tables, in the order vmm_copy_userspace meets them
          FreeOrder,    \* tables and pages, in the order vmm_free_user_pages frees them
          Programs,     \* what exec may load: sequences of Loads
          BootStack,    \* the loads of init_task_stack
          BootImage,    \* the loads of userspace_map_to_task
          WritableSeg,  \* pages the programs may write
          Placement(_)  \* frames pmm_alloc_page may return for a free set

Space == Task \cup {New}
Slot == {Pml4, Spare} \cup Node \cup VPage
Empty == [x \in Slot |-> NoFrame]

\* One page of a segment, or (fixed) of the arguments or the stack
Loads == [page : VPage, fixed : BOOLEAN, writable : BOOLEAN, val : Val]

LeafOf(v) == Last(PathOf[v])

\* What a task finds in memory once all the loads of P have been made
ImageOf(P) == [v \in VPage |->
  LET At == {i \in DOMAIN P : P[i].page = v}
  IN  IF At = {} THEN NoVal ELSE P[CHOOSE i \in At : \A j \in At : j <= i].val]

ASSUME SpaceAssumption ==
  /\ IsFiniteSet(Task)
  /\ Node \cap VPage = {} /\ {Pml4, Spare} \cap (Node \cup VPage) = {} /\ Pml4 # Spare
  /\ First \in Task /\ New \notin Task /\ Idle \notin Task \cup {New}
  /\ NoFrame \notin Frame /\ NoVal \notin Val
  /\ PathOf \in [VPage -> Seq(Node) \ {<<>>}]
  /\ ToSet(TableOrder) = Node /\ IsInjective(TableOrder)
  /\ ToSet(FreeOrder) = Node \cup VPage /\ IsInjective(FreeOrder)
  /\ Programs \subseteq Seq(Loads) /\ {BootStack, BootImage} \subseteq Seq(Loads)
  /\ \A P \in Programs \cup {BootStack, BootImage} : \A v \in VPage \ WritableSeg :
       \A i \in DOMAIN P : P[i].page = v => ~P[i].writable
  /\ \A S \in SUBSET Frame : Placement(S) \subseteq S /\ (S # {} => Placement(S) # {})

VARIABLES state,        \* state[t]: "unused", "live" or "zombie"
          parent,       \* parent[t]: parent_pid
          cur,          \* whose page tables are in CR3
          map, wr, cow, \* per space: slot -> frame; writable pages; COW pages
          page_refs,    \* the PMM's reference counts
          contents,     \* what each frame holds
          tlb, tlbw,    \* cached translations of cur, those cached writable
          op,           \* the system call in progress with interrupts off
          reap          \* reap[z]: how far task_cleanup of zombie z has come

vars == <<state, parent, cur, map, wr, cow, page_refs, contents, tlb, tlbw, op, reap>>
spaceVars == <<map, wr, cow, page_refs, contents>>
tlbVars == <<tlb, tlbw>>

NoOp == [kind |-> "none", task |-> Idle, todo |-> <<>>]

\* off: task_remove_child has taken the zombie off its parent's list; busy: the
\* parent is inside task_cleanup; left: the slots not released yet
NoReap == [off |-> FALSE, busy |-> FALSE, left |-> <<>>]

-----------------------------------------------------------------------------
(* Helpers *)

FreeFrames == {f \in Frame : page_refs[f] = 0}

Mapped(s, x) == map[s][x] # NoFrame

\* What vmm_free_user_pages frees, in its order: it reaches a page only by
\* walking to it.
Walk(s) == SelectSeq(FreeOrder, LAMBDA x :
             Mapped(s, x) /\ (x \in VPage => \A n \in ToSet(PathOf[x]) : Mapped(s, n)))

\* Mutant of FreeSpace: the PML4 is freed twice.
FreeSpace_pml4_twice(s) ==
  page_refs' = [f \in Frame |->
    IF map[s][Pml4] = f THEN page_refs[f] - 2
    ELSE IF \E x \in ToSet(Walk(s)) \cup {Spare} : map[s][x] = f THEN page_refs[f] - 1
    ELSE page_refs[f]]

\* vmm_free_user_pages, then pmm_free_page of the PML4 and of a page that was
\* allocated but could not be mapped: each loses one reference.
FreeSpace(s) ==
  page_refs' = [f \in Frame |->
    IF \E x \in ToSet(Walk(s)) \cup {Pml4, Spare} : map[s][x] = f
    THEN page_refs[f] - 1 ELSE page_refs[f]]

Flush == tlb' = [v \in VPage |-> NoFrame] /\ tlbw' = {}

\* Inside task_cleanup of some zombie, running or preempted
Reaping(p) == \E z \in Task : parent[z] = p /\ reap[z].busy

Running == op = NoOp /\ cur \in Task /\ state[cur] = "live" /\ ~Reaping(cur)

\* pmm_alloc_page for slot x of the space under construction
AllocInto(x, f) ==
  /\ f \in Placement(FreeFrames)
  /\ map' = [map EXCEPT ![New][x] = f]
  /\ page_refs' = [page_refs EXCEPT ![f] = 1]

\* The tables that a walk to page v lacks, from the top
Missing(v) == SelectSeq(PathOf[v], LAMBDA n : ~Mapped(New, n))

\* The new space becomes t's; whatever t had before is gone from the tables.
Install(t) ==
  /\ map' = [map EXCEPT ![t] = map[New], ![New] = Empty]
  /\ wr' = [wr EXCEPT ![t] = wr[New], ![New] = {}]
  /\ cow' = [cow EXCEPT ![t] = cow[New], ![New] = {}]

\* The rollback of fork, exec and task_create
Discard ==
  /\ FreeSpace(New)
  /\ map' = [map EXCEPT ![New] = Empty]
  /\ wr' = [wr EXCEPT ![New] = {}]
  /\ cow' = [cow EXCEPT ![New] = {}]
  /\ op' = NoOp

\* Boot: idle runs, no process has been created.
Init ==
  /\ state = [t \in Task |-> "unused"] /\ parent = [t \in Task |-> Idle] /\ cur = Idle
  /\ map = [s \in Space |-> Empty]
  /\ wr = [s \in Space |-> {}] /\ cow = [s \in Space |-> {}]
  /\ page_refs = [f \in Frame |-> 0]
  /\ \E x \in Val : contents = [f \in Frame |-> x]
  /\ tlb = [v \in VPage |-> NoFrame] /\ tlbw = {}
  /\ op = NoOp
  /\ reap = [z \in Task |-> NoReap]

-----------------------------------------------------------------------------
(* fork: vmm_create_pml4, vmm_copy_userspace, TLB flush.  A call that finds  *)
(* no free task slot or no frame for the PML4 changes nothing.               *)

task_fork(c) ==
  /\ Running /\ state[c] = "unused"
  /\ \E f \in Frame : AllocInto(Pml4, f)
  /\ op' = [kind |-> "fork", task |-> c,
            todo |-> SelectSeq(TableOrder, LAMBDA n : Mapped(cur, n))]
  /\ UNCHANGED <<state, parent, cur, wr, cow, contents, tlb, tlbw, reap>>

\* Mutants of copy_table: the parent stays writable; the parent's entries lose
\* PAGE_WRITABLE but are not marked COW.
CopyWith(n, drop) ==
  LET Entries == {v \in VPage : LeafOf(v) = n /\ Mapped(cur, v)}
  IN  /\ op.kind = "fork" /\ op.todo # <<>> /\ n = Head(op.todo)
      /\ \E f \in Placement(FreeFrames) :
           /\ map' = [map EXCEPT ![New] = [x \in Slot |->
                        IF x = n THEN f ELSE IF x \in Entries THEN map[cur][x] ELSE @[x]]]
           /\ page_refs' = [g \in Frame |->
                        IF g = f THEN 1
                        ELSE IF \E v \in Entries : map[cur][v] = g
                        THEN page_refs[g] + 1 ELSE page_refs[g]]
      /\ wr' = [wr EXCEPT ![cur] = IF drop THEN @ \ Entries ELSE @]
      /\ cow' = [cow EXCEPT ![New] = @ \cup Entries]
      /\ op' = [op EXCEPT !.todo = Tail(@)]
      /\ UNCHANGED <<state, parent, cur, contents, tlb, tlbw, reap>>
copy_table_parent_writable(n) == CopyWith(n, FALSE)
copy_table_parent_not_cow(n) == CopyWith(n, TRUE)

\* copy_pdpt, copy_pd and copy_pt: one table more; with a page table come its
\* entries, which both sides now hold read-only and COW, and the increfs.
copy_table(n) ==
  LET Entries == {v \in VPage : LeafOf(v) = n /\ Mapped(cur, v)}
  IN  /\ op.kind = "fork" /\ op.todo # <<>> /\ n = Head(op.todo)
      /\ \E f \in Placement(FreeFrames) :
           /\ map' = [map EXCEPT ![New] = [x \in Slot |->
                        IF x = n THEN f ELSE IF x \in Entries THEN map[cur][x] ELSE @[x]]]
           /\ page_refs' = [g \in Frame |->
                        IF g = f THEN 1
                        ELSE IF \E v \in Entries : map[cur][v] = g
                        THEN page_refs[g] + 1 ELSE page_refs[g]]
      /\ wr' = [wr EXCEPT ![cur] = @ \ Entries]
      /\ cow' = [cow EXCEPT ![cur] = @ \cup Entries, ![New] = @ \cup Entries]
      /\ op' = [op EXCEPT !.todo = Tail(@)]
      /\ UNCHANGED <<state, parent, cur, contents, tlb, tlbw, reap>>

\* Mutant of copy_fails: only the PML4 is freed.
copy_fails_leaks ==
  /\ op.kind = "fork" /\ op.todo # <<>>
  /\ page_refs' = [page_refs EXCEPT ![map[New][Pml4]] = 0]
  /\ map' = [map EXCEPT ![New] = Empty] /\ cow' = [cow EXCEPT ![New] = {}]
  /\ op' = NoOp
  /\ UNCHANGED <<state, parent, cur, wr, contents, tlb, tlbw, reap>>

\* vmm_copy_userspace failed: the child is undone.  The entries of the parent
\* already made COW stay so, and its TLB is not flushed.
copy_fails ==
  /\ op.kind = "fork" /\ op.todo # <<>>
  /\ Discard
  /\ UNCHANGED <<state, parent, cur, contents, tlb, tlbw, reap>>

\* Mutant of fork_commit: the parent's TLB is not flushed.
fork_commit_no_flush ==
  /\ op.kind = "fork" /\ op.todo = <<>>
  /\ Install(op.task)
  /\ state' = [state EXCEPT ![op.task] = "live"]
  /\ parent' = [parent EXCEPT ![op.task] = cur]
  /\ op' = NoOp
  /\ UNCHANGED <<cur, page_refs, contents, tlb, tlbw, reap>>

fork_commit ==
  /\ op.kind = "fork" /\ op.todo = <<>>
  /\ Install(op.task)
  /\ state' = [state EXCEPT ![op.task] = "live"]
  /\ parent' = [parent EXCEPT ![op.task] = cur]
  /\ Flush
  /\ op' = NoOp
  /\ UNCHANGED <<cur, page_refs, contents, reap>>

-----------------------------------------------------------------------------
(* exec and task_create: a fresh space filled load by load.                 *)

do_exec ==
  /\ Running
  /\ \E f \in Frame : AllocInto(Pml4, f)
  /\ \E P \in Programs : op' = [kind |-> "exec", task |-> cur, todo |-> P]
  /\ UNCHANGED <<state, parent, cur, wr, cow, contents, tlb, tlbw, reap>>

\* kmain creates the first task before it enables interrupts: init_task_stack
\* maps its stack, userspace_map_to_task then the image.
task_create ==
  /\ op = NoOp /\ cur = Idle /\ state[First] = "unused"
  /\ \E f \in Frame : AllocInto(Pml4, f)
  /\ op' = [kind |-> "create", task |-> First, todo |-> BootStack]
  /\ UNCHANGED <<state, parent, cur, wr, cow, contents, tlb, tlbw, reap>>

\* The page of the next load and whether it has to be allocated: a segment
\* uses the page that an earlier one has mapped, arguments and stack do not.
Loading == op.kind \in {"exec", "create"} /\ op.todo # <<>>
Fresh == Head(op.todo).fixed \/ ~Mapped(New, Head(op.todo).page)

\* A page is allocated and filled through the kernel's own mapping ...
load_page ==
  /\ Loading /\ Fresh /\ ~Mapped(New, Spare)
  /\ \E f \in Frame : /\ AllocInto(Spare, f)
                      /\ contents' = [contents EXCEPT ![f] = Head(op.todo).val]
  /\ UNCHANGED <<state, parent, cur, wr, cow, tlb, tlbw, op, reap>>

\* (a page that two segments share gets the data of both and the rights of
\* either)
load_again ==
  LET l == Head(op.todo)
  IN  /\ Loading /\ ~Fresh
      /\ contents' = [contents EXCEPT ![map[New][l.page]] = l.val]
      /\ wr' = [wr EXCEPT ![New] = IF l.writable THEN @ \cup {l.page} ELSE @]
      /\ op' = [op EXCEPT !.todo = Tail(@)]
      /\ UNCHANGED <<state, parent, cur, map, cow, page_refs, tlb, tlbw, reap>>

\* ... then vmm_map_page adds the tables that are missing on the way ...
map_table ==
  /\ op.kind = "image" \/ Mapped(New, Spare)
  /\ op.todo # <<>> /\ Missing(Head(op.todo).page) # <<>>
  /\ \E f \in Frame : AllocInto(Head(Missing(Head(op.todo).page)), f)
  /\ UNCHANGED <<state, parent, cur, wr, cow, contents, tlb, tlbw, op, reap>>

\* Mutant of vmm_map_page: exec still thinks it owns the page it mapped.
vmm_map_page_keeps_spare ==
  LET l == Head(op.todo)
  IN  /\ Mapped(New, Spare) /\ Missing(l.page) = <<>> /\ ~Mapped(New, l.page)
      /\ map' = [map EXCEPT ![New][l.page] = map[New][Spare]]
      /\ wr' = [wr EXCEPT ![New] = IF l.writable THEN @ \cup {l.page} ELSE @]
      /\ op' = [op EXCEPT !.todo = Tail(@)]
      /\ UNCHANGED <<state, parent, cur, cow, page_refs, contents, tlb, tlbw, reap>>

\* ... and sets the entry, unless it is present.
vmm_map_page ==
  LET l == Head(op.todo)
  IN  /\ Mapped(New, Spare) /\ Missing(l.page) = <<>> /\ ~Mapped(New, l.page)
      /\ map' = [map EXCEPT ![New][l.page] = map[New][Spare], ![New][Spare] = NoFrame]
      /\ wr' = [wr EXCEPT ![New] = IF l.writable THEN @ \cup {l.page} ELSE @]
      /\ op' = [op EXCEPT !.todo = Tail(@)]
      /\ UNCHANGED <<state, parent, cur, cow, page_refs, contents, tlb, tlbw, reap>>

\* A bad ELF file, a refused kernel stack, the lack of a frame or an entry that
\* is present: the caller keeps its old image, a new task is not created.
build_fails ==
  /\ op.kind \in {"exec", "create"}
  /\ Mapped(New, Spare) => LET v == Head(op.todo).page
                           IN  Missing(v) # <<>> \/ Mapped(New, v)
  /\ Discard
  /\ UNCHANGED <<state, parent, cur, contents, tlb, tlbw, reap>>

\* Mutant of exec_commit: the CR3 switch is forgotten.
exec_commit_no_switch ==
  /\ op.kind = "exec" /\ op.todo = <<>>
  /\ FreeSpace(cur)
  /\ Install(cur)
  /\ op' = NoOp
  /\ UNCHANGED <<state, parent, cur, contents, tlb, tlbw, reap>>

\* CR3 is switched before the old space is freed.
exec_commit ==
  /\ op.kind = "exec" /\ op.todo = <<>>
  /\ Flush
  /\ FreeSpace(cur)
  /\ Install(cur)
  /\ op' = NoOp
  /\ UNCHANGED <<state, parent, cur, contents, reap>>

stack_ready ==
  /\ op.kind = "create" /\ op.todo = <<>>
  /\ op' = [op EXCEPT !.kind = "image", !.todo = BootImage]
  /\ UNCHANGED <<state, parent, cur, spaceVars, tlbVars, reap>>

\* The frame is one that userspace_load filled, and is init's from here on
\* (the boot tables go on mapping it, which nothing uses).
userspace_map_to_task ==
  LET l == Head(op.todo)
  IN  /\ op.kind = "image" /\ op.todo # <<>>
      /\ Missing(l.page) = <<>> /\ ~Mapped(New, l.page)
      /\ \E f \in Frame : /\ AllocInto(l.page, f)
                          /\ contents' = [contents EXCEPT ![f] = l.val]
      /\ wr' = [wr EXCEPT ![New] = IF l.writable THEN @ \cup {l.page} ELSE @]
      /\ op' = [op EXCEPT !.todo = Tail(@)]
      /\ UNCHANGED <<state, parent, cur, cow, tlb, tlbw, reap>>

\* No frame for a table: the loader goes on with the next page.
image_skips ==
  /\ op.kind = "image" /\ op.todo # <<>>
  /\ Missing(Head(op.todo).page) # <<>>
  /\ op' = [op EXCEPT !.todo = Tail(@)]
  /\ UNCHANGED <<state, parent, cur, spaceVars, tlbVars, reap>>

create_commit ==
  /\ op.kind = "image" /\ op.todo = <<>>
  /\ Install(op.task)
  /\ state' = [state EXCEPT ![op.task] = "live"]
  /\ op' = NoOp
  /\ UNCHANGED <<parent, cur, page_refs, contents, tlb, tlbw, reap>>

-----------------------------------------------------------------------------
(* User code, the MMU and the page-fault handler                            *)

\* The processor may cache the translation of any present entry.
tlb_fill(v) ==
  /\ Running /\ Mapped(cur, v)
  /\ tlb' = [tlb EXCEPT ![v] = map[cur][v]]
  /\ tlbw' = IF v \in wr[cur] THEN tlbw \cup {v} ELSE tlbw \ {v}
  /\ UNCHANGED <<state, parent, cur, spaceVars, op, reap>>

\* A store goes wherever the cached translation says.
user_store(v, x) ==
  /\ Running /\ v \in tlbw
  /\ contents' = [contents EXCEPT ![tlb[v]] = x]
  /\ UNCHANGED <<state, parent, cur, map, wr, cow, page_refs, tlb, tlbw, op, reap>>

\* Mutant of copy_to_user: any present page will do.
copy_to_user_any_page(v, x) ==
  /\ Running /\ Mapped(cur, v)
  /\ contents' = [contents EXCEPT ![map[cur][v]] = x]
  /\ UNCHANGED <<state, parent, cur, map, wr, cow, page_refs, tlb, tlbw, op, reap>>

\* SYS_READ, SYS_WAIT and the other calls that fill a user buffer first look
\* for PAGE_WRITABLE in every entry (validate_user_ptr_writable), then store
\* through the user's translation; a page that is still COW is refused.
copy_to_user(v, x) ==
  /\ Running /\ Mapped(cur, v) /\ v \in wr[cur]
  /\ contents' = [contents EXCEPT ![IF tlb[v] # NoFrame THEN tlb[v] ELSE map[cur][v]] = x]
  /\ UNCHANGED <<state, parent, cur, map, wr, cow, page_refs, tlb, tlbw, op, reap>>

\* A store faults on a cached read-only entry, or on a walk that ends at an
\* absent or read-only one.
WriteFault(v) ==
  /\ Running
  /\ \/ tlb[v] # NoFrame /\ v \notin tlbw
     \/ tlb[v] = NoFrame /\ ~(Mapped(cur, v) /\ v \in wr[cur])

Invlpg(v) == tlb' = [tlb EXCEPT ![v] = NoFrame] /\ tlbw' = tlbw \ {v}

\* Mutant of cow_reuse: a page shared by two is given away.
cow_reuse_shared(v) ==
  /\ WriteFault(v) /\ Mapped(cur, v) /\ v \in cow[cur]
  /\ page_refs[map[cur][v]] <= 2
  /\ wr' = [wr EXCEPT ![cur] = @ \cup {v}]
  /\ cow' = [cow EXCEPT ![cur] = @ \ {v}]
  /\ Invlpg(v)
  /\ UNCHANGED <<state, parent, cur, map, page_refs, contents, op, reap>>

\* vmm_handle_cow_fault: the only owner gets the page back writable,
cow_reuse(v) ==
  /\ WriteFault(v) /\ Mapped(cur, v) /\ v \in cow[cur]
  /\ page_refs[map[cur][v]] = 1
  /\ wr' = [wr EXCEPT ![cur] = @ \cup {v}]
  /\ cow' = [cow EXCEPT ![cur] = @ \ {v}]
  /\ Invlpg(v)
  /\ UNCHANGED <<state, parent, cur, map, page_refs, contents, op, reap>>

\* Mutant of cow_copy: nothing is copied.
cow_copy_not_copied(v) ==
  /\ WriteFault(v) /\ Mapped(cur, v) /\ v \in cow[cur]
  /\ page_refs[map[cur][v]] # 1
  /\ \E f \in Placement(FreeFrames) :
       /\ page_refs' = [page_refs EXCEPT ![f] = 1, ![map[cur][v]] = @ - 1]
       /\ map' = [map EXCEPT ![cur][v] = f]
  /\ wr' = [wr EXCEPT ![cur] = @ \cup {v}]
  /\ cow' = [cow EXCEPT ![cur] = @ \ {v}]
  /\ Invlpg(v)
  /\ UNCHANGED <<state, parent, cur, contents, op, reap>>

\* any other one gets a copy.
cow_copy(v) ==
  /\ WriteFault(v) /\ Mapped(cur, v) /\ v \in cow[cur]
  /\ page_refs[map[cur][v]] # 1
  /\ \E f \in Placement(FreeFrames) :
       /\ contents' = [contents EXCEPT ![f] = contents[map[cur][v]]]
       /\ page_refs' = [page_refs EXCEPT ![f] = 1, ![map[cur][v]] = @ - 1]
       /\ map' = [map EXCEPT ![cur][v] = f]
  /\ wr' = [wr EXCEPT ![cur] = @ \cup {v}]
  /\ cow' = [cow EXCEPT ![cur] = @ \ {v}]
  /\ Invlpg(v)
  /\ UNCHANGED <<state, parent, cur, op, reap>>

\* t becomes a zombie, and init (or idle, when init is gone or dying) inherits
\* its children; one that is off the list, under reap, stays behind.
Dies(t) ==
  LET heir == IF t = First \/ state[First] # "live" THEN Idle ELSE First
  IN  /\ state' = [state EXCEPT ![t] = "zombie"]
      /\ parent' = [u \in Task |-> IF parent[u] = t /\ ~reap[u].off THEN heir ELSE parent[u]]

\* Otherwise task_exit_code(-SIGSEGV): the task is a zombie, its space stays.
fault_kills(v) ==
  /\ WriteFault(v)
  /\ Mapped(cur, v) /\ v \in cow[cur] => page_refs[map[cur][v]] # 1
  /\ Dies(cur)
  /\ UNCHANGED <<cur, spaceVars, tlbVars, op, reap>>

-----------------------------------------------------------------------------
(* Life and death of tasks, as far as memory is concerned                   *)

\* task_exit_code by the task itself, task_kill by another one
task_dies(t) ==
  /\ Running /\ state[t] = "live" /\ ~Reaping(t)
  /\ Dies(t)
  /\ UNCHANGED <<cur, spaceVars, tlbVars, op, reap>>

\* task_wait has found zombie z: task_cleanup begins.  The space to free is
\* never the one in CR3.
reap_begins(z) ==
  /\ Running /\ state[z] = "zombie" /\ parent[z] = cur
  /\ reap' = [reap EXCEPT ![z] = [off |-> TRUE, busy |-> TRUE, left |-> Append(Walk(z), Pml4)]]
  /\ UNCHANGED <<state, parent, cur, spaceVars, tlbVars, op>>

ReapTurn(z) == op = NoOp /\ reap[z].busy /\ parent[z] = cur

\* Mutant of reap_frees: the reference count is not looked at.
reap_frees_shared(z) ==
  /\ ReapTurn(z) /\ reap[z].left # <<>>
  /\ page_refs' = [page_refs EXCEPT ![map[z][Head(reap[z].left)]] = 0]
  /\ reap' = [reap EXCEPT ![z].left = Tail(@)]
  /\ UNCHANGED <<state, parent, cur, map, wr, cow, contents, tlbVars, op>>

\* One pmm_free_page of vmm_free_user_pages, or the one of the PML4.  A frame
\* that is free already is only warned about.  The entry stays.
reap_frees(z) ==
  /\ ReapTurn(z) /\ reap[z].left # <<>>
  /\ page_refs' = [page_refs EXCEPT ![map[z][Head(reap[z].left)]] = IF @ > 0 THEN @ - 1 ELSE 0]
  /\ reap' = [reap EXCEPT ![z].left = Tail(@)]
  /\ UNCHANGED <<state, parent, cur, map, wr, cow, contents, tlbVars, op>>

\* cr3 = 0, and task_wait frees the slot.
reap_ends(z) ==
  /\ ReapTurn(z) /\ reap[z].left = <<>>
  /\ map' = [map EXCEPT ![z] = Empty]
  /\ wr' = [wr EXCEPT ![z] = {}]
  /\ cow' = [cow EXCEPT ![z] = {}]
  /\ state' = [state EXCEPT ![z] = "unused"] /\ parent' = [parent EXCEPT ![z] = Idle]
  /\ reap' = [reap EXCEPT ![z] = NoReap]
  /\ UNCHANGED <<cur, page_refs, contents, tlbVars, op>>

\* task_kill of a reaper p in mid-reap.  The zombie is on no list, so it is
\* not handed on: its parent_pid stays p, and the next task in slot p finds it
\* and frees it from the start.  (Only as long as the zombie's tables are
\* intact: a walk through a table that has been freed reads anything.)
kill_reaper(p) ==
  /\ Running /\ Reaping(p) /\ state[p] = "live"
  /\ \A z \in Task : parent[z] = p /\ reap[z].busy =>
       {n \in Node : Mapped(z, n)} \subseteq ToSet(reap[z].left)
  /\ Dies(p)
  /\ reap' = [z \in Task |-> IF parent[z] = p THEN [reap[z] EXCEPT !.busy = FALSE] ELSE reap[z]]
  /\ UNCHANGED <<cur, spaceVars, tlbVars, op>>

\* do_schedule loads CR3 of the task it picks.
switch_to(t) ==
  /\ op = NoOp /\ (t = Idle \/ (t \in Task /\ state[t] = "live"))
  /\ cur' = t
  /\ Flush
  /\ UNCHANGED <<state, parent, spaceVars, op, reap>>

TaskNext ==
  \E t \in Task : \/ task_fork(t) \/ task_dies(t)
                  \/ reap_begins(t) \/ reap_frees(t) \/ reap_ends(t)

TableNext ==
  \/ \E n \in Node : copy_table(n)
  \/ copy_fails \/ fork_commit \/ do_exec \/ build_fails \/ exec_commit
  \/ load_page \/ load_again \/ map_table \/ vmm_map_page
  \/ task_create \/ stack_ready \/ userspace_map_to_task \/ image_skips \/ create_commit

UserNext ==
  \E v \in VPage : \/ tlb_fill(v) \/ cow_reuse(v) \/ cow_copy(v) \/ fault_kills(v)
                   \/ \E x \in Val : user_store(v, x) \/ copy_to_user(v, x)

Next == TaskNext \/ TableNext \/ UserNext \/ \E t \in Task \cup {Idle} : switch_to(t)

Spec == Init /\ [][Next]_vars

KillSpec == Init /\ [][Next \/ \E p \in Task : kill_reaper(p)]_vars

-----------------------------------------------------------------------------
(* Properties *)

TypeOK ==
  /\ state \in [Task -> {"unused", "live", "zombie"}] /\ cur \in Task \cup {Idle}
  /\ map \in [Space -> [Slot -> Frame \cup {NoFrame}]]
  /\ wr \in [Space -> SUBSET VPage] /\ cow \in [Space -> SUBSET VPage]
  /\ page_refs \in [Frame -> Nat] /\ contents \in [Frame -> Val]
  /\ tlb \in [VPage -> Frame \cup {NoFrame}] /\ tlbw \subseteq VPage
  /\ op.kind \in {"none", "fork", "exec", "create", "image"}
  /\ op.task \in Task \cup {Idle} /\ op.todo \in Seq(Node \cup Loads)
  /\ parent \in [Task -> Task \cup {Idle}]
  /\ \A z \in Task : {reap[z].off, reap[z].busy} \subseteq BOOLEAN /\ reap[z].left \in Seq(Slot)

\* Slot x of space s holds a reference to its frame: a reap drops it before the
\* entry goes.
Held(s, x) == Mapped(s, x) /\ (s \in Task /\ reap[s].busy => x \in ToSet(reap[s].left))
Holders(f) == {s \in Space : \E x \in Slot : Held(s, x) /\ map[s][x] = f}

\* The reference count of a frame is the number of address spaces that hold
\* it, through every fork, COW copy, exec and failure half way through one, and
\* at every point of a preempted reap: rollback leaks no frame and frees none
\* twice, and a count of one means that whatever else still names the frame is
\* a zombie that has given it up.
RefsAreSharers == \A f \in Frame : page_refs[f] = Cardinality(Holders(f))

\* No two slots of one space hold the same frame, and no other space holds the
\* frame of a page table: in particular a table that a preempted reap has still
\* to walk through has not been given out again.
TablesPrivate ==
  \A s \in Space, x \in Slot : Held(s, x) =>
    /\ \A y \in Slot : Held(s, y) /\ map[s][y] = map[s][x] => y = x
    /\ x \notin VPage => Holders(map[s][x]) = {s}

\* A page that is writable in some space is held by no other space: a COW fault
\* gives a page back only when every other sharer has copied or released it,
\* also while the reap that released it is still under way.
NoSharedWritable ==
  \A s \in Space : \A v \in wr[s] :
    Mapped(s, v) /\ (Held(s, v) => v \notin cow[s] /\ Holders(map[s][v]) = {s})

\* While user code runs, a cached translation is the one in the page tables,
\* and it is writable only if the frame is private: neither a flush that fork
\* left out on failure nor a frame that a preempted reap has released shows
\* through the TLB.
TlbSafe ==
  Running => \A v \in VPage : tlb[v] # NoFrame =>
    /\ tlb[v] = map[cur][v]
    /\ IF v \in tlbw THEN Holders(tlb[v]) = {cur} ELSE v \notin wr[cur]

\* A page that the program may write stays writable or COW: a store to it can
\* kill the process only when the copy gets no frame.
WritableStaysSo ==
  \A t \in Task, v \in WritableSeg : Mapped(t, v) => v \in wr[t] \cup cow[t]

\* What a live process reads changes with its own stores and exec only: no
\* other step that touches page tables or frees a frame (a COW fault, its own
\* or another process's fork, exec, exit or reaping, or a failure of one)
\* changes it.  As a refinement ImplementsPrivateMemory cannot see this: a COW
\* fault that did not copy the page would be a Store of the process that
\* faulted.
Reads(t) == [v \in VPage |-> IF map[t][v] = NoFrame THEN NoVal ELSE contents[map[t][v]]]
PageTablesKeepMemory ==
  [][map' # map \/ page_refs' # page_refs => \A t \in Task :
       state[t] = "live" /\ state'[t] = "live" /\ ~(t = cur /\ exec_commit)
         => Reads(t)' = Reads(t)]_vars

\* Processes never see each other's stores: the whole machinery implements one
\* private memory per process.
PM == INSTANCE PrivateMemory WITH
        alive <- {t \in Task : state[t] = "live"},
        mem <- [t \in Task |-> IF state[t] = "live" THEN Reads(t) ELSE [v \in VPage |-> NoVal]],
        Images <- {ImageOf(P) : P \in Programs},
        BootMem <- ImageOf(BootStack \o BootImage)
ImplementsPrivateMemory == PM!MSpec

\* docs/index.md, 6.4: fork copies the address space "marking writable pages
\* as COW".
OnlyWritablePagesCow == \A t \in Task : cow[t] \subseteq WritableSeg

\* vmm.c:259: a COW page whose count is one has "Only owner - just make it
\* writable again": no other live process maps it.
OnlyOwner ==
  \A t, u \in {s \in Task : state[s] = "live"} : \A v \in cow[t] :
    t # u /\ page_refs[map[t][v]] = 1 => map[u][v] # map[t][v]
=============================================================================
