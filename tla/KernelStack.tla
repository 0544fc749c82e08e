---------------------------- MODULE KernelStack -----------------------------
(***************************************************************************)
(* Kernel stacks: fork, exec (which runs on the stack it replaces), exit,   *)
(* kill, reaping and do_schedule allocate and free them while the processor *)
(* or a saved context may still be on them.                                 *)
(*                                                                          *)
(* "live" stands for READY, RUNNING, BLOCKED and SLEEPING: do_schedule may  *)
(* pick any live task, which covers every choice module Tasks makes.        *)
(***************************************************************************)
CONSTANTS Task,         \* the slots of tasks[] other than idle's
          Idle, InitTask,
          Stack,        \* the blocks kmalloc(TASK_STACK_SIZE) may return
          Boot,         \* the stack kmain, and so the idle loop, runs on
          Null

ASSUME StackAssumption ==
  /\ Idle \notin Task /\ InitTask \in Task /\ Null \notin Task \cup {Idle}
  /\ Null # Boot /\ Boot \notin Stack /\ Null \notin Stack
  /\ "user" \notin Stack /\ Null # "user" /\ Boot # "user"

Slots == Task \cup {Idle}

VARIABLES status,       \* "unused", "live" or "zombie"
          parent_pid,
          cur,          \* current_task
          kernel_stack, stack, pending_free_kstack,
          rsp,          \* the stack that holds a task's saved context
          rsp0,         \* the stack the TSS gives to traps from user mode
          cpu,          \* the stack RSP is in, "user" in user mode
          heap,         \* the stacks that are allocated
          reaping,      \* reaping[t]: the zombie t is in the middle of freeing
          step          \* step[t]: how far a task_wait that blocked is

task_fields == <<kernel_stack, stack, pending_free_kstack>>
vars == <<status, parent_pid, cur, task_fields, rsp, rsp0, cpu, heap, reaping, step>>

\* kfree ignores NULL and a block that is free already.
kfree(H, s) == H \ {s}

\* Interrupts are off in a system call and it entered on kernel_stack.
InSyscall == cur # Idle /\ status[cur] = "live" /\ cpu = kernel_stack[cur] /\ step[cur] = "none"

-----------------------------------------------------------------------------
\* kmain at its sti: idle on the boot stack, with a heap stack of its own, and
\* init ready to run.
Init ==
  \E si, s1 \in Stack :
    /\ si # s1 /\ heap = {si, s1}
    /\ status = [t \in Slots |-> IF t \in {Idle, InitTask} THEN "live" ELSE "unused"]
    /\ parent_pid = [t \in Slots |-> IF t = InitTask THEN Idle ELSE Null]
    /\ kernel_stack = [t \in Slots |-> IF t = Idle THEN si ELSE IF t = InitTask THEN s1 ELSE Null]
    /\ stack = kernel_stack
    /\ pending_free_kstack = [t \in Slots |-> Null]
    /\ rsp = [t \in Slots |-> IF t = InitTask THEN s1 ELSE Null]
    /\ cur = Idle /\ cpu = Boot /\ rsp0 = Null
    /\ reaping = [t \in Slots |-> Null] /\ step = [t \in Slots |-> "none"]

\* A trap from user mode moves the processor to rsp0; one from kernel mode
\* leaves it on the stack it is on.
trap ==
  /\ cpu = "user" /\ cpu' = rsp0
  /\ UNCHANGED <<status, parent_pid, cur, task_fields, rsp, rsp0, heap, reaping, step>>

iretq ==
  /\ cur # Idle /\ status[cur] = "live" /\ cpu # "user" /\ step[cur] = "none"
  /\ cpu' = "user"
  /\ UNCHANGED <<status, parent_pid, cur, task_fields, rsp, rsp0, heap, reaping, step>>

\* Switching with a given rule for saving the context that was interrupted
SwitchTo(t, saved, newRsp0) ==
  /\ cpu # "user" /\ status[t] = "live"
  /\ rsp' = saved
  /\ heap' = kfree(heap, pending_free_kstack[cur])
  /\ pending_free_kstack' = [pending_free_kstack EXCEPT ![cur] = Null]
  /\ cur' = t /\ cpu' = saved[t] /\ rsp0' = newRsp0
  /\ UNCHANGED <<status, parent_pid, kernel_stack, stack, reaping, step>>

do_schedule_always_saves(t) == SwitchTo(t, [rsp EXCEPT ![cur] = cpu], kernel_stack[t])
do_schedule_keeps_rsp0(t) ==
  SwitchTo(t, IF cpu = pending_free_kstack[cur] THEN rsp ELSE [rsp EXCEPT ![cur] = cpu], rsp0)

\* Runs on a stack of its own.  A context still on the stack that exec left to
\* be freed is not saved, because exec has put a frame on the new stack; the
\* old stack is freed and the next task resumes where its context is.
do_schedule(t) ==
  SwitchTo(t, IF cpu = pending_free_kstack[cur] THEN rsp ELSE [rsp EXCEPT ![cur] = cpu],
           kernel_stack[t])

\* A child of the current task in slot c on stack s, frame on stack f
Fork(c, s, f) ==
  /\ InSyscall /\ status[c] = "unused" /\ s \notin heap
  /\ heap' = heap \cup {s}
  /\ kernel_stack' = [kernel_stack EXCEPT ![c] = s]
  /\ stack' = [stack EXCEPT ![c] = s]
  /\ pending_free_kstack' = [pending_free_kstack EXCEPT ![c] = Null]
  /\ rsp' = [rsp EXCEPT ![c] = f]
  /\ status' = [status EXCEPT ![c] = "live"]
  /\ parent_pid' = [parent_pid EXCEPT ![c] = cur]
  /\ reaping' = [reaping EXCEPT ![c] = Null] /\ step' = [step EXCEPT ![c] = "none"]
  /\ UNCHANGED <<cur, rsp0, cpu>>

task_fork_no_frame(c, s) == Fork(c, s, Null)

\* A fork that fails has given its stack back.
task_fork(c, s) == Fork(c, s, s)

Exec(s, freed) ==
  /\ InSyscall /\ s \notin heap
  /\ kernel_stack' = [kernel_stack EXCEPT ![cur] = s]
  /\ stack' = [stack EXCEPT ![cur] = s]
  /\ rsp' = [rsp EXCEPT ![cur] = s]
  /\ rsp0' = s
  /\ heap' = kfree(heap \cup {s}, freed)
  /\ pending_free_kstack' = [pending_free_kstack EXCEPT ![cur] = kernel_stack[cur]]
  /\ UNCHANGED <<status, parent_pid, cur, cpu, reaping, step>>

do_exec_forgets_pending(s) == Exec(s, Null)

\* The stack exec runs on becomes pending, the one an earlier exec left is
\* freed.  An exec that fails has given its new stack back.
do_exec(s) == Exec(s, pending_free_kstack[cur])

\* The children of d go to init, or to idle when init is gone or dying; a
\* child that d has unlinked to reap it is not in d's list any more.
Reparented(d) ==
  LET heir == IF status[InitTask] = "live" /\ d # InitTask THEN InitTask ELSE Idle
  IN  [t \in Slots |-> IF parent_pid[t] = d /\ reaping[d] # t THEN heir ELSE parent_pid[t]]

Die(d) ==
  /\ parent_pid' = Reparented(d)
  /\ heap' = kfree(heap, pending_free_kstack[d])
  /\ pending_free_kstack' = [pending_free_kstack EXCEPT ![d] = Null]
  /\ status' = [status EXCEPT ![d] = "zombie"]
  /\ UNCHANGED <<cur, kernel_stack, stack, rsp, rsp0, cpu, reaping, step>>

task_exit_code == InSyscall /\ Die(cur)

task_kill(t) == InSyscall /\ t # cur /\ status[t] = "live" /\ Die(t)

\* task_wait when no interrupt comes between its scan and its last reset.
\* kernel_stack is NULL already when task_cleanup compares stack with it, so
\* the same block is passed to kfree twice; the second call finds it free.
task_wait(z) ==
  /\ InSyscall /\ status[z] = "zombie" /\ parent_pid[z] = cur
  /\ heap' = kfree(kfree(kfree(heap, kernel_stack[z]), stack[z]), pending_free_kstack[z])
  /\ kernel_stack' = [kernel_stack EXCEPT ![z] = Null]
  /\ stack' = [stack EXCEPT ![z] = Null]
  /\ pending_free_kstack' = [pending_free_kstack EXCEPT ![z] = Null]
  /\ status' = [status EXCEPT ![z] = "unused"]
  /\ parent_pid' = [parent_pid EXCEPT ![z] = Null]
  /\ UNCHANGED <<cur, rsp, rsp0, cpu, reaping, step>>

Next ==
  \/ trap
  \/ iretq
  \/ \E t \in Slots : do_schedule(t)
  \/ \E c \in Task, s \in Stack : task_fork(c, s)
  \/ \E s \in Stack : do_exec(s)
  \/ task_exit_code
  \/ \E t \in Task : task_kill(t)
  \/ \E z \in Task : task_wait(z)

Spec == Init /\ [][Next]_vars

-----------------------------------------------------------------------------
(* task_wait returns from its hlt with interrupts on: what follows, the reap  *)
(* included, can be interrupted anywhere and other tasks run in between.      *)

wait_blocks ==
  /\ InSyscall
  /\ \E t \in Task : parent_pid[t] = cur
  /\ \A t \in Task : parent_pid[t] = cur => status[t] = "live"
  /\ step' = [step EXCEPT ![cur] = "blocks"]
  /\ UNCHANGED <<status, parent_pid, cur, task_fields, rsp, rsp0, cpu, heap, reaping>>

At(k) == cur # Idle /\ status[cur] = "live" /\ cpu # "user" /\ step[cur] = k

wait_frees_kernel_stack(z) ==
  /\ At("blocks") /\ status[z] = "zombie" /\ parent_pid[z] = cur
  /\ heap' = kfree(heap, kernel_stack[z])
  /\ kernel_stack' = [kernel_stack EXCEPT ![z] = Null]
  /\ reaping' = [reaping EXCEPT ![cur] = z] /\ step' = [step EXCEPT ![cur] = "freed"]
  /\ UNCHANGED <<status, parent_pid, cur, stack, pending_free_kstack, rsp, rsp0, cpu>>

wait_frees_stack ==
  /\ At("freed")
  /\ LET z == reaping[cur]
     IN  /\ heap' = kfree(kfree(heap, stack[z]), pending_free_kstack[z])
         /\ stack' = [stack EXCEPT ![z] = Null]
         /\ pending_free_kstack' = [pending_free_kstack EXCEPT ![z] = Null]
         /\ status' = [status EXCEPT ![z] = "unused"]
  /\ step' = [step EXCEPT ![cur] = "unused"]
  /\ UNCHANGED <<parent_pid, cur, kernel_stack, rsp, rsp0, cpu, reaping>>

wait_resets ==
  /\ At("unused")
  /\ pending_free_kstack' = [pending_free_kstack EXCEPT ![reaping[cur]] = Null]
  /\ parent_pid' = [parent_pid EXCEPT ![reaping[cur]] = Null]
  /\ reaping' = [reaping EXCEPT ![cur] = Null] /\ step' = [step EXCEPT ![cur] = "none"]
  /\ UNCHANGED <<status, cur, kernel_stack, stack, rsp, rsp0, cpu, heap>>

PreemptibleNext ==
  \/ Next
  \/ wait_blocks
  \/ \E z \in Task : wait_frees_kernel_stack(z)
  \/ wait_frees_stack
  \/ wait_resets

PreemptibleSpec == Init /\ [][PreemptibleNext]_vars

-----------------------------------------------------------------------------
(* Properties *)

TypeOK ==
  /\ status \in [Slots -> {"unused", "live", "zombie"}]
  /\ parent_pid \in [Slots -> Slots \cup {Null}]
  /\ cur \in Slots
  /\ kernel_stack \in [Slots -> Stack \cup {Null}]
  /\ stack \in [Slots -> Stack \cup {Null}]
  /\ pending_free_kstack \in [Slots -> Stack \cup {Null}]
  /\ rsp \in [Slots -> Stack \cup {Boot, Null}]
  /\ rsp0 \in Stack \cup {Null}
  /\ cpu \in Stack \cup {Boot, "user"}
  /\ heap \in SUBSET Stack
  /\ reaping \in [Slots -> Task \cup {Null}]
  /\ step \in [Slots -> {"none", "blocks", "freed", "unused"}]

Owned(t) == {kernel_stack[t], pending_free_kstack[t]} \ {Null}

\* The processor, and every context that may be resumed, is on an allocated
\* stack of the task itself: exec's deferred free never takes the stack from
\* under a system call or a saved frame (do_schedule, do_exec, task_wait).
ContextsOnLiveStacks ==
  /\ cur # Idle /\ cpu # "user" => cpu \in heap \cap Owned(cur)
  /\ \A t \in Task : status[t] = "live" =>
       /\ kernel_stack[t] \in heap
       /\ t # cur => rsp[t] = kernel_stack[t]

\* No stack belongs to two tasks or twice to one, and a trap from user mode
\* lands on the kernel stack of the task that is running.
StacksExclusive ==
  /\ \A t, u \in Slots : t # u => Owned(t) \cap Owned(u) = {}
  /\ \A t \in Slots : kernel_stack[t] # Null => kernel_stack[t] # pending_free_kstack[t]
  /\ cur # Idle => rsp0 = kernel_stack[cur]

\* A stack stays allocated exactly as long as some task owns it, however tasks
\* exec repeatedly, are killed before their next switch, and are reaped.
NoStackLeak == heap = UNION {Owned(t) : t \in Slots}
=============================================================================
