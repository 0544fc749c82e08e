# A TLA+ model of the Crius kernel

Crius is a single-processor, preemptive x86-64 kernel with a small userspace
(Nexus). This directory models the parts of it where several actors meet on
shared state, checks them with TLC on small instances, and proves some of the
results for every instance with TLAPS.

## 1. The system and what can go wrong in it

| part | source | state | who changes it |
|---|---|---|---|
| physical memory | `kernel/mm/pmm.c` | bitmap, reference counts, free count, scan hint | page tables, heap |
| address spaces | `kernel/mm/vmm.c`, `kernel/arch/page_fault.c` | page tables, COW bits, TLB | fork, exec, faults, reaping |
| processes | `kernel/process/*.c` | `tasks[]`, family lists, kernel stacks | system calls, faults |
| scheduler | `kernel/scheduler/scheduler.c`, `kernel/arch/isr.asm` | `current_task`, `need_reschedule`, saved contexts | timer and device interrupts |
| heap | `kernel/mm/kmalloc.c` | blocks, free list, page runs | everybody |
| files | `kernel/fs/file.c`, `kernel/fs/vfs`, `ramfs`, `ext2`, `devfs`, `procfs` | file pool, mounts, inodes, disk | system calls |
| devices | `kernel/drivers` | input ring, USB rings, disk | interrupts, polling |
| userspace | `nexus` | init's supervision loop, shell | itself |

The gate of `int 0x80` is an interrupt gate: a system call runs with interrupts
off and is atomic with respect to other tasks. There is one exception that
matters everywhere: a call that executes `sti; hlt` (`task_wait`, `task_sleep`,
`kbd_dev_read`, the end of `task_exit_code`) continues **with interrupts on**.
The rest of a blocking `task_wait`, which reaps the child, can therefore be
preempted at any instruction. `PROJECT.json` lists the hazards line by line,
those of the parts not modelled yet included.

## 2. Modules

| module | models | refines |
|---|---|---|
| `FrameAlloc` | what a frame allocator promises | - |
| `Pmm` | `pmm.c`, each call as one step | `FrameAlloc` |
| `PmmPreempted` | `pmm.c` with a release that is preempted | - |
| `PrivateMemory` | one private memory per process | - |
| `AddressSpace` | page tables, fork, exec, COW, TLB | `PrivateMemory` |
| `Tasks` | process table, family lists, scheduler, wait/exit/kill/sleep | - |
| `KernelStack` | allocation and freeing of kernel stacks | - |
| `PmmProofs`, `KernelStackProofs` | theorems | |
| `MC*` | instances for TLC | |

**Pmm.** `bitmap`, `page_refs`, `pages_free` and `last_scan` are the variables of
the C file; the bitmap is the set of its ones. `held` records how many holders
each page has, which the code does not know, `outcome` what the last call
returned and `asked` how many pages it wanted, so that a refusal is compared with
the request it refuses. `pmm_alloc_page` is next-fit from `last_scan`, `pmm_alloc_pages`
first-fit. Holders release only what they hold; a second free of a free page is
`pmm_free_page_ignored`. The limit 255 of a count is the constant `RefLimit`, and
`MaxSharers` says how many holders a page can get. The assumption
`MaxSharers <= RefLimit` is what the code has: a page has at most one holder per
task, and `MAX_TASKS` is 64.

Every call of `Pmm` is one step. That is how all callers run it except a reap after
a blocking `task_wait`, where a timer interrupt may fall between any two
instructions of `pmm_free_page`. `PmmPreempted` adds such a release to the calls of
`Pmm`: `release_tests` loads the bit and the count, `release_drops` and
`release_frees` store what follows from the values loaded (the -O2 build keeps them
in registers). What `Pmm` guarantees, and what is proved of it, is for calls that
run to completion; `pmm_race` shows what is lost otherwise.

**AddressSpace.** A space maps slots (PML4, tables, pages, and the page that exec
has allocated but not mapped) to frames. `PathOf` gives the tables above a page,
from the top. Frames come from an allocator that may return any member of
`Placement(free)`, which is what `FrameAlloc` promises, or fail at any time, because
the heap uses frames too. fork, exec and the creation of the first task run with
interrupts off, but they are split at each allocation, so that each one can be the
one that fails: `copy_fails` and `build_fails` are the rollbacks. A program is a
sequence of loads; a page that an earlier segment has mapped is filled again and
gets the union of the permissions (`load_again`), the argument page and the stack
are fresh pages, and `vmm_map_page` refuses an entry that is present. At boot
`init_task_stack` maps the stack (`task_create`) and the loader adds the image
(`userspace_map_to_task`), where a page that cannot be mapped is skipped.

A reap is one step per frame (`reap_begins`, `reap_frees`, `reap_ends`), in the
order of `vmm_free_user_pages`: the pages below a table, then the table, the PML4
last. Between two steps any other task may run, and the zombie's entries go on
naming the frames released; `Held` tells the entries that still own a reference from
those that do not. A reap that is not preempted is the same steps without a switch.
`Spec` assumes that a reaper is not killed in the middle of this. `KillSpec` lifts
the assumption (`kill_reaper`, for a reaper that has released pages but no table
yet), and `reaper_killed` shows what then happens. To say who reaps a zombie next,
the model keeps `parent_pid` and reparenting; a zombie already taken off its
parent's list is not reparented, as in the code. One `pmm_free_page` is one step
here. A page fault in kernel mode panics; the model has none, because the checks of
`usercopy.c` let the kernel touch present pages only.

`tlb_fill` and `user_store` are the processor (external): any present entry may be
cached at any time, and a store goes where the cached entry says. The refinement of
`PrivateMemory` says who may change whose memory, but it lets a process change its
own at any time, so a COW fault that forgot to copy would pass for a store;
`PageTablesKeepMemory` rules that out.

**Tasks.** Variables are the fields of `struct task` that control uses. One action
per system call and per interrupt; an interrupt includes the tick, the wake-ups,
the choice and the switch. `pc` is only needed inside `task_sleep` and inside a
`task_wait` that blocked. What is left of such a wait runs with interrupts on and is
one action per pass over the table or a list and one per store, in the order in
which the -O2 build stores: the scan (`wait_rescan`, `wait_finds_none`), the check
for children, the three stores that block again, the search for the link to the
child (`wait_find_link`), its replacement (`wait_unlink`), `wait_detach`,
`wait_free`, and the three stores of `wait_clear`. `Chain(p)` is the children list.
`torn` is a history variable: it becomes true when a task is switched out between
the scan that found a zombie and the last of these stores. Several
properties of the lists hold until then and not after, and say so. Quanta are
abstracted: a quantum may end at any tick if a second task exists. Priorities only
set the length of a quantum, so they are not modelled. (`docs/index.md` 230 says
that lower values run first; `do_schedule` picks the next ready slot in table order
whatever the priorities are.)

**KernelStack.** `rsp` is the stack a context is saved on, `cpu` the one the
processor is on. The live states are one state here, so `do_schedule` may choose
any live task. `Spec` is the kernel in which a reap is not interrupted;
`PreemptibleSpec` adds the steps of a reap after a blocking wait.

## 3. Runs

| run | shows | size |
|---|---|---|
| `pmm` | counts, bitmap, free count and hint agree; refusals are justified | 6 pages, one not usable; runs of up to 3; up to 3 holders |
| `address_space` | refinement of private memory, faults and rollbacks invisible, TLB, sharing invariants; every allocation may fail, every reap may be preempted | 2 tasks, 2 pages under 2 tables and a common upper one, 18 frames |
| `address_space_shared` | three generations of sharers, exec and COW copies among them | 3 tasks, 1 page under 2 levels of tables, 16 frames |
| `tasks_families` | family lists, zombies, scheduler; lists end even when a reap is torn | 5 slots, init waits blocking |
| `tasks_blocking` | preempted reapers, wake-ups; starvation, waiters, sleepers | 4 slots, tasks 1 and 2 wait blocking |
| `kernel_stack` | deferred freeing of stacks | idle, init, 2 more tasks, 7 stacks |

The bounds are the smallest that let the interesting cases happen: a run of three
pages must skip the hole and the hint must wrap; a page must be shared by three
spaces, copied by one of them, given up by an exec of another and released in any
order; a parent, two children and a third process that kills are needed to
interleave a reap with a fork or a kill; seven stacks are one for each task and one
more for each that is between an exec and its next switch. The frames of the two
address-space runs are as many as all spaces and the one under construction can use
(18 and 16), so nothing in them is unreachable for lack of memory; failures come
from the allocator's freedom to refuse. All tasks that do not wait blocking may
wait with `WNOHANG`, and any of them may be killed.
In `MCAddressSpace` the tasks other than the first are interchangeable. Its view
forgets the names of frames and keeps which entries agree on one, together with
the count of each and the contents of pages: no action depends on the name of a
frame, a frame is overwritten before it becomes a page, and nothing reads an entry
that a reap has released. In `reaper_killed` something does, so there the view only
prunes the search; the trace it finds is a behaviour all the same.
`MCKernelStack` permutes stacks and the tasks other than init.

Six runs state what a document, a comment or a test says, and TLC shows a
behaviour of the code that contradicts it:

| run | the code |
|---|---|
| `pmm_race` | loses a release that falls between the load and the store of another one's count |
| `read_only_pages` | marks read-only pages COW too, and a later store to them is granted |
| `reaper_killed` | frees the frames of a zombie twice when its reaper is killed half way |
| `tasks_family_race` | resets the fields of a slot after making it available |
| `tasks_zombie_race` | takes a zombie off its list before it is freed; it is not inherited when its reaper is killed |
| `kernel_stack_race` | frees a stack twice; the second free may hit the next owner |

The races of a torn reap are why `FamilyListsExact`, `ZombiesInherited` and
`WakesForAReason` speak of the time before the first one, and why liveness is stated
as being woken, not as completing the wait. `WaitersWake` speaks of children whose
`parent_pid` names the waiter. Idle counts as a live parent in `ZombiesInherited`,
although the idle loop never waits: the orphans of a dead init are kept, not reaped.

**Fairness.** `tasks_blocking` assumes weak fairness of `timer_irq` only: the APIC timer
is periodic, interrupts are on in user code and in every `hlt`, and each quantum
(4 to 14 ticks) ends. Nothing is assumed of user code.

**Deadlock** is checked in every run.

## 4. Proofs

`PmmSafety` (every `MAX_PAGES`, every usable set) proves the type invariant and
`RefsCountHolders`, `BitmapIsOwnership` and `FreeCountExact`, which are inductive
together: a count says how many hold a page, the bitmap says whether anyone does,
and the free count is the number of the others; the cardinality steps use the
library's finite set theorems. `PmmImplementsFrameAlloc` maps each step to a step
of `FrameAlloc`. Its core are `NextFitComplete` and `FirstFitComplete`: if a page
or a run is free then the search finds one. Both rest on `LeastElement`, obtained
from the well-foundedness of `<` on the naturals.

`KernelStackSafety` (any tasks, any stacks) proves the three invariants of
`KernelStack`. They are not inductive: `Shape` adds that a slot has a stack exactly
when it is in use and that idle stays on the boot stack, and `Frames` that while
the processor is on the stack exec replaced, the context to be resumed is the
frame exec built. That last fact is what makes it right for `do_schedule` not to
save the interrupted context in that case. The theorem is about `Spec`, and
`kernel_stack_race` shows that it fails for `PreemptibleSpec`.

Both theorems about `Pmm` are about calls that run to completion; `pmm_race` shows
that `FreePagesUnchanged`, which follows from them, fails for `PreemptibleSpec`.

Only model-checked: everything about `AddressSpace`, `PmmPreempted` and `Tasks`, and
liveness, which is out of the prover's reach.

## 5. Plan

In order of importance:

1. Proofs for the core: the inductive invariant of `AddressSpace` and its
   refinement of `PrivateMemory`; `OneRunner`, `DeadStayDead` and
   `ReapersFreeZombies` of `Tasks` for every `MAX_TASKS`.
2. `Kmalloc`: blocks of a run as an interval tiling, free list, merging, page run
   table; an abstract heap that it implements, and the blocks lost by
   `merge_backward`. Theorem: blocks tile their run and never overlap.
3. `FileTable`: file pool, descriptor tables, fork/exit/kill/close; theorem: the
   count of a file is the number of descriptors that name it.
4. `VfsMount` and `Ramfs`: mount table and lookup order, path resolution against a
   reference definition, inodes and directories, offsets at the size limit.
5. `Ext2`: allocation, directories and truncation as sequences of disk writes, with
   crashes in between; the superblock cached per mount.
6. `Keyboard` and `XhciRing`: rings with cycle bits, late completions, timeouts.
7. Algorithms: argument page of exec, user pointer and string validation, ELF
   segment checks.
8. `InitShell`: supervision loop of init over an abstract wait.

Not planned: register programming of APIC, PCI, IDE and USB controllers, the
framebuffer console and the interactive programs, which have no shared state or
protocol that a model would say more about than the code.
