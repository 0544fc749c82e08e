------------------------------- MODULE Tasks --------------------------------
(***************************************************************************)
(* The process table, the scheduler and the process system calls:          *)
(* kernel/process/process.c, kernel/process/fork.c and                     *)
(* kernel/scheduler/scheduler.c, entered from kernel/arch/isr.asm.          *)
(*                                                                         *)
(* A system call enters through an interrupt gate and runs with interrupts  *)
(* off, so it is one action, unless it executes `sti; hlt': from there on   *)
(* the rest of that call can be preempted, and its steps are separate       *)
(* actions.  Only a blocking task_wait has work left to do at that point:    *)
(* it scans the table again and reaps or blocks, one action per pass over    *)
(* the table or a list and one per store, in the order the -O2 build makes   *)
(* them.  An interrupt is one action, the tick, the reschedule and the       *)
(* context switch included.  Priorities only set the length of a quantum,    *)
(* which the model leaves open, so task_set_priority is left out.           *)
(***************************************************************************)
EXTENDS Integers, FiniteSets

CONSTANTS MAX_TASKS,    \* length of tasks[]
          Waiters,      \* bound: the tasks that wait without WNOHANG
          SleepTicks    \* bound: the arguments of task_sleep

Pid == 0..(MAX_TASKS - 1)
None == -1              \* no task; as an argument of task_wait, any child
PidOrNone == Pid \cup {None}
NoSuchPid == MAX_TASKS  \* an argument of task_wait that is no task's
Idle == 0
InitPid == 1

ASSUME TasksAssumption ==
  /\ MAX_TASKS \in Nat /\ MAX_TASKS > 1
  /\ Waiters \subseteq Nat
  /\ SleepTicks \subseteq Nat

VARIABLES state, parent_pid, first_child, next_sibling, wait_for_pid,
          sleep_left,   \* sleep_until - scheduler_ticks_total, at least 0
          current_task, need_reschedule,
          torn,         \* history: was a reap ever switched out half way?
          pc,           \* where each task is: in user code or in a system call
          arg,          \* task_wait's `pid'
          found,        \* task_wait's `found'
          prev          \* task_remove_child's `prev', None for the head of the list

family == <<parent_pid, first_child, next_sibling>>
local == <<pc, arg, found, prev>>
vars == <<state, family, wait_for_pid, sleep_left, current_task,
          need_reschedule, torn, local>>

States == {"UNUSED", "READY", "RUNNING", "BLOCKED", "SLEEPING", "ZOMBIE"}
Gone(p) == state[p] \in {"UNUSED", "ZOMBIE"}

\* Where a reap that runs with interrupts on can be: before and after the
\* store that frees the slot.
Reaping == {"find", "unlink", "detach", "free"}
Clearing == {"clear_sibling", "clear_family", "clear_wait"}
InReap(p) == ~Gone(p) /\ pc[p] \in Reaping \cup Clearing

-----------------------------------------------------------------------------
(* Scheduling *)

\* task_count
TaskCount == Cardinality({p \in Pid : ~Gone(p)})

\* Does a zombie in table st answer the wait of p for pid w?
Answers(st, z, p, w) == st[z] = "ZOMBIE" /\ parent_pid[z] = p /\ w \in {None, z}

\* Mutants: the pid waited for is ignored; no waiter is woken; the current task
\* is made ready whatever its state.
Wakes_any_child(st, left, p) ==
  \/ st[p] = "SLEEPING" /\ left[p] = 0
  \/ st[p] = "BLOCKED" /\ \E z \in Pid : Answers(st, z, p, None)
Wakes_sleepers_only(st, left, p) == st[p] = "SLEEPING" /\ left[p] = 0
Awake_even_dead(st, left) ==
  [p \in Pid |-> IF p = current_task THEN "READY" ELSE st[p]]

\* do_schedule puts the running task back in the ready state, wakes sleepers
\* whose time has come (left) and waiters that have something to reap ...
Wakes(st, left, p) ==
  \/ st[p] = "SLEEPING" /\ left[p] = 0
  \/ st[p] = "BLOCKED" /\ \E z \in Pid : Answers(st, z, p, wait_for_pid[p])

Awake(st, left) ==
  [p \in Pid |-> IF (p = current_task /\ st[p] = "RUNNING") \/ Wakes(st, left, p)
                 THEN "READY" ELSE st[p]]

\* Mutant of Dist: the scan always starts at slot 0.
Dist_from_zero(p) == p

\* ... and picks the first ready task after the current one, in table order.
Dist(p) == IF p > current_task THEN p - current_task ELSE p + MAX_TASKS - current_task
Picks(st, p) == st[p] = "READY" /\ \A q \in Pid : st[q] = "READY" => Dist(p) <= Dist(q)

do_schedule(st, left) ==
  /\ LET awake == Awake(st, left)
     IN  \E p \in Pid :
           /\ Picks(awake, p)
           /\ current_task' = p
           /\ state' = [awake EXCEPT ![p] = "RUNNING"]
  /\ wait_for_pid' = [p \in Pid |-> IF st[p] = "BLOCKED" /\ Wakes(st, left, p)
                                    THEN None ELSE wait_for_pid[p]]
  /\ sleep_left' = left
  /\ need_reschedule' = FALSE
  /\ torn' = (torn \/ (InReap(current_task) /\ current_task' # current_task))

\* Mutant of Left: the clock stands still.
Left_stopped == sleep_left

\* scheduler_tick advances the clock and readies due sleepers; the quantum of
\* the current task may end whenever another task exists.
Left == [p \in Pid |-> IF sleep_left[p] > 0 THEN sleep_left[p] - 1 ELSE 0]
Ticked(left) == [p \in Pid |-> IF state[p] = "SLEEPING" /\ left[p] = 0 THEN "READY" ELSE state[p]]

timer_irq ==
  /\ need_reschedule \/ TaskCount > 1
  /\ LET left == Left IN do_schedule(Ticked(left), left)
  /\ UNCHANGED <<family, local>>

timer_irq_no_switch ==
  /\ ~need_reschedule
  /\ state' = Ticked(Left)
  /\ sleep_left' = Left
  /\ UNCHANGED <<family, wait_for_pid, current_task, need_reschedule, torn, local>>

\* Any other interrupt also honours need_reschedule on its way out.
device_irq ==
  /\ need_reschedule
  /\ do_schedule(state, sleep_left)
  /\ UNCHANGED <<family, local>>

-----------------------------------------------------------------------------
(* Family lists *)

\* The children list of p: what first_child and then next_sibling lead to.
Chain(p) ==
  LET link[n \in Pid] == IF n = 0 THEN first_child[p]
                         ELSE IF link[n - 1] = None THEN None ELSE next_sibling[link[n - 1]]
  IN  {link[n] : n \in Pid} \ {None}

\* Mutant of Heir: the orphans of init go to init.
Heir_always_init(d) == InitPid

\* task_reparent_children pushes the list of d, one by one, on the list of
\* init, or of idle when init is dead or dying.
Heir(d) == IF Gone(InitPid) \/ d = InitPid THEN Idle ELSE InitPid

task_reparent_children(d) ==
  LET moved == Chain(d)
      before(c) == IF c = first_child[d] THEN first_child[Heir(d)]
                   ELSE CHOOSE q \in moved : next_sibling[q] = c
  IN  /\ parent_pid' = [c \in Pid |-> IF c \in moved THEN Heir(d) ELSE parent_pid[c]]
      /\ next_sibling' = [c \in Pid |-> IF c \in moved THEN before(c) ELSE next_sibling[c]]
      /\ first_child' = [p \in Pid |->
           IF p = d THEN None
           ELSE IF p = Heir(d) /\ moved # {}
                THEN CHOOSE c \in moved : next_sibling[c] = None
                ELSE first_child[p]]

\* Mutant of task_remove_child: a child that is not first is not unlinked.
task_remove_child_head_only(p, z) ==
  /\ first_child' = IF first_child[p] = z THEN [first_child EXCEPT ![p] = next_sibling[z]]
                    ELSE first_child
  /\ next_sibling' = [next_sibling EXCEPT ![z] = None]

\* task_remove_child
task_remove_child(p, z) ==
  /\ first_child' = IF first_child[p] = z THEN [first_child EXCEPT ![p] = next_sibling[z]]
                    ELSE first_child
  /\ next_sibling' = [q \in Pid |->
       IF q = z THEN None
       ELSE IF first_child[p] # z /\ q \in Chain(p) /\ next_sibling[q] = z
            THEN next_sibling[z] ELSE next_sibling[q]]

-----------------------------------------------------------------------------
(* System calls: the running task, in user code *)

InUser(p) == p = current_task /\ p # Idle /\ state[p] = "RUNNING" /\ pc[p] = "user"

\* Mutant of task_fork: first_child is set before it is read.
task_fork_swapped(p) ==
  /\ InUser(p)
  /\ \E c \in Pid :
       /\ state[c] = "UNUSED"
       /\ state' = [state EXCEPT ![c] = "READY"]
       /\ parent_pid' = [parent_pid EXCEPT ![c] = p]
       /\ next_sibling' = [next_sibling EXCEPT ![c] = c]
       /\ first_child' = [first_child EXCEPT ![c] = None, ![p] = c]
  /\ UNCHANGED <<wait_for_pid, sleep_left, current_task, need_reschedule, torn, local>>

\* alloc_task takes the lowest unused slot.  A fork that finds none, or no
\* memory, changes nothing here.
task_fork(p) ==
  /\ InUser(p)
  /\ \E c \in Pid :
       /\ state[c] = "UNUSED" /\ \A d \in Pid : state[d] = "UNUSED" => c <= d
       /\ state' = [state EXCEPT ![c] = "READY"]
       /\ parent_pid' = [parent_pid EXCEPT ![c] = p]
       /\ next_sibling' = [next_sibling EXCEPT ![c] = first_child[p]]
       /\ first_child' = [first_child EXCEPT ![c] = None, ![p] = c]
       /\ wait_for_pid' = [wait_for_pid EXCEPT ![c] = None]
       /\ sleep_left' = [sleep_left EXCEPT ![c] = 0]
       /\ pc' = [pc EXCEPT ![c] = "user"]
       /\ arg' = [arg EXCEPT ![c] = None]
       /\ found' = [found EXCEPT ![c] = None]
       /\ prev' = [prev EXCEPT ![c] = None]
  /\ UNCHANGED <<current_task, need_reschedule, torn>>

\* task_exit_code, also reached from a fatal exception; the task then halts
\* with interrupts on until it is switched away from.
task_exit_code(p) ==
  /\ InUser(p)
  /\ task_reparent_children(p)
  /\ state' = [state EXCEPT ![p] = "ZOMBIE"]
  /\ need_reschedule' = TRUE
  /\ UNCHANGED <<wait_for_pid, sleep_left, current_task, torn, local>>

\* Mutant of task_kill: a task may kill itself.
task_kill_self(p, d) ==
  /\ InUser(p) /\ d # Idle /\ ~Gone(d)
  /\ task_reparent_children(d)
  /\ state' = [state EXCEPT ![d] = "ZOMBIE"]
  /\ UNCHANGED <<wait_for_pid, sleep_left, current_task, need_reschedule, torn, local>>

task_kill(p, d) ==
  /\ InUser(p) /\ d \notin {p, Idle} /\ ~Gone(d)
  /\ task_reparent_children(d)
  /\ state' = [state EXCEPT ![d] = "ZOMBIE"]
  /\ UNCHANGED <<wait_for_pid, sleep_left, current_task, need_reschedule, torn, local>>

scheduler_yield(p) ==
  /\ InUser(p) /\ TaskCount > 1
  /\ do_schedule(state, sleep_left)
  /\ UNCHANGED <<family, local>>

task_sleep(p, n) ==
  /\ InUser(p)
  /\ state' = [state EXCEPT ![p] = "SLEEPING"]
  /\ sleep_left' = [sleep_left EXCEPT ![p] = n]
  /\ need_reschedule' = TRUE
  /\ pc' = [pc EXCEPT ![p] = "sleep"]
  /\ UNCHANGED <<family, wait_for_pid, current_task, torn, arg, found, prev>>

task_sleep_returns(p) ==
  /\ p = current_task /\ state[p] = "RUNNING" /\ pc[p] = "sleep"
  /\ pc' = [pc EXCEPT ![p] = "user"]
  /\ UNCHANGED <<state, family, wait_for_pid, sleep_left, current_task,
                 need_reschedule, torn, arg, found, prev>>

-----------------------------------------------------------------------------
(* task_wait *)

\* What the scan of the table finds for a wait of p for w.
FirstZombie(p, w, z) ==
  Answers(state, z, p, w) /\ \A y \in Pid : Answers(state, y, p, w) => z <= y
NoZombie(p, w) == \A z \in Pid : ~Answers(state, z, p, w)

\* Mutant of HasChild: not checked.
HasChild_unchecked(p, w) == TRUE

HasChild(p, w) == \E c \in Pid : ~Gone(c) /\ parent_pid[c] = p /\ w \in {None, c}

\* The first pass runs with interrupts off: it reaps in one go,
task_wait(p, w) ==
  /\ InUser(p)
  /\ \E z \in Pid :
       /\ FirstZombie(p, w, z)
       /\ task_remove_child(p, z)
       /\ state' = [state EXCEPT ![z] = "UNUSED"]
       /\ parent_pid' = [parent_pid EXCEPT ![z] = None]
       /\ wait_for_pid' = [wait_for_pid EXCEPT ![z] = None]
  /\ UNCHANGED <<sleep_left, current_task, need_reschedule, torn, local>>

\* Mutant of Block: need_reschedule is not set.
Block_no_reschedule(p, w) ==
  /\ NoZombie(p, w) /\ HasChild(p, w)
  /\ state' = [state EXCEPT ![p] = "BLOCKED"]
  /\ wait_for_pid' = [wait_for_pid EXCEPT ![p] = w]
  /\ UNCHANGED <<need_reschedule, family, sleep_left, current_task, torn>>

\* or blocks (it returns -ECHILD without a child, 0 with WNOHANG).
Block(p, w) ==
  /\ NoZombie(p, w) /\ HasChild(p, w)
  /\ state' = [state EXCEPT ![p] = "BLOCKED"]
  /\ wait_for_pid' = [wait_for_pid EXCEPT ![p] = w]
  /\ need_reschedule' = TRUE
  /\ UNCHANGED <<family, sleep_left, current_task, torn>>

task_wait_blocks(p, w) ==
  /\ InUser(p) /\ p \in Waiters
  /\ Block(p, w)
  /\ pc' = [pc EXCEPT ![p] = "wait"]
  /\ arg' = [arg EXCEPT ![p] = w]
  /\ UNCHANGED <<found, prev>>

\* The rest runs with interrupts on and can be preempted between any two of
\* its steps.  The processor is with p, which has reached `at'.
At(p, at) == p = current_task /\ ~Gone(p) /\ pc[p] = at
Goto(p, at) == pc' = [pc EXCEPT ![p] = at]

\* hlt has returned; every interrupt honours need_reschedule.
Woken(p) == At(p, "wait") /\ state[p] = "RUNNING" /\ ~need_reschedule

\* Mutant of wait_rescan: a child that is still alive will do.
wait_rescan_any_child(p) ==
  /\ Woken(p)
  /\ \E z \in Pid : /\ state[z] # "UNUSED" /\ parent_pid[z] = p /\ arg[p] \in {None, z}
                    /\ found' = [found EXCEPT ![p] = z]
  /\ Goto(p, "find")
  /\ UNCHANGED <<state, family, wait_for_pid, sleep_left, current_task,
                 need_reschedule, torn, arg, prev>>

\* A zombie that appears in a slot the scan has passed is not seen, so the one
\* found need not be the first.
wait_rescan(p) ==
  /\ Woken(p)
  /\ \E z \in Pid : Answers(state, z, p, arg[p]) /\ found' = [found EXCEPT ![p] = z]
  /\ Goto(p, "find")
  /\ UNCHANGED <<state, family, wait_for_pid, sleep_left, current_task,
                 need_reschedule, torn, arg, prev>>

wait_finds_none(p) ==
  /\ Woken(p) /\ NoZombie(p, arg[p])
  /\ Goto(p, "children")
  /\ UNCHANGED <<state, family, wait_for_pid, sleep_left, current_task,
                 need_reschedule, torn, arg, found, prev>>

\* -ECHILD, or on to the three stores that block again
wait_checks_children(p) ==
  /\ At(p, "children")
  /\ Goto(p, IF HasChild(p, arg[p]) THEN "block" ELSE "user")
  /\ UNCHANGED <<state, family, wait_for_pid, sleep_left, current_task,
                 need_reschedule, torn, arg, found, prev>>

wait_blocks_again(p) ==
  \/ /\ At(p, "block")
     /\ state' = [state EXCEPT ![p] = "BLOCKED"]
     /\ Goto(p, "blocked")
     /\ UNCHANGED <<family, wait_for_pid, sleep_left, current_task,
                    need_reschedule, torn, arg, found, prev>>
  \/ /\ At(p, "blocked")
     /\ wait_for_pid' = [wait_for_pid EXCEPT ![p] = arg[p]]
     /\ Goto(p, "waiting")
     /\ UNCHANGED <<state, family, sleep_left, current_task,
                    need_reschedule, torn, arg, found, prev>>
  \/ /\ At(p, "waiting")
     /\ need_reschedule' = TRUE
     /\ Goto(p, "wait")
     /\ UNCHANGED <<state, family, wait_for_pid, sleep_left, current_task,
                    torn, arg, found, prev>>

\* task_remove_child finds the link to the child, if there is one,
wait_find_link(p) ==
  /\ At(p, "find")
  /\ \/ /\ first_child[p] = found[p]
        /\ prev' = prev /\ Goto(p, "unlink")
     \/ /\ first_child[p] # found[p]
        /\ \E q \in Chain(p) : next_sibling[q] = found[p] /\ prev' = [prev EXCEPT ![p] = q]
        /\ Goto(p, "unlink")
     \/ /\ first_child[p] # found[p] /\ \A q \in Chain(p) : next_sibling[q] # found[p]
        /\ prev' = prev /\ Goto(p, "detach")
  /\ UNCHANGED <<state, family, wait_for_pid, sleep_left, current_task,
                 need_reschedule, torn, arg, found>>

\* Mutant of wait_unlink: a child that is not first is not unlinked.
wait_unlink_head_only(p) ==
  /\ At(p, "unlink")
  /\ first_child' = IF prev[p] = None
                    THEN [first_child EXCEPT ![p] = next_sibling[found[p]]] ELSE first_child
  /\ prev' = [prev EXCEPT ![p] = None]
  /\ Goto(p, "detach")
  /\ UNCHANGED <<state, parent_pid, next_sibling, wait_for_pid, sleep_left, current_task,
                 need_reschedule, torn, arg, found>>

\* overwrites it with the child's next_sibling, whatever it holds by now,
wait_unlink(p) ==
  /\ At(p, "unlink")
  /\ \/ /\ prev[p] = None
        /\ first_child' = [first_child EXCEPT ![p] = next_sibling[found[p]]]
        /\ UNCHANGED next_sibling
     \/ /\ prev[p] # None
        /\ next_sibling' = [next_sibling EXCEPT ![prev[p]] = next_sibling[found[p]]]
        /\ UNCHANGED first_child
  /\ prev' = [prev EXCEPT ![p] = None]
  /\ Goto(p, "detach")
  /\ UNCHANGED <<state, parent_pid, wait_for_pid, sleep_left, current_task,
                 need_reschedule, torn, arg, found>>

\* and ends the child's own link.  task_cleanup follows.
wait_detach(p) ==
  /\ At(p, "detach")
  /\ next_sibling' = [next_sibling EXCEPT ![found[p]] = None]
  /\ Goto(p, "free")
  /\ UNCHANGED <<state, parent_pid, first_child, wait_for_pid, sleep_left,
                 current_task, need_reschedule, torn, arg, found, prev>>

\* tasks[found].state = TASK_UNUSED
wait_free(p) ==
  /\ At(p, "free")
  /\ state' = [state EXCEPT ![found[p]] = "UNUSED"]
  /\ Goto(p, "clear_sibling")
  /\ UNCHANGED <<family, wait_for_pid, sleep_left, current_task,
                 need_reschedule, torn, arg, found, prev>>

\* The fields after it: next_sibling; parent_pid and first_child in one store;
\* exit_code and wait_for_pid in one store.
wait_clear(p) ==
  \/ /\ At(p, "clear_sibling")
     /\ next_sibling' = [next_sibling EXCEPT ![found[p]] = None]
     /\ Goto(p, "clear_family")
     /\ UNCHANGED <<state, parent_pid, first_child, wait_for_pid, sleep_left,
                    current_task, need_reschedule, torn, arg, found, prev>>
  \/ /\ At(p, "clear_family")
     /\ parent_pid' = [parent_pid EXCEPT ![found[p]] = None]
     /\ first_child' = [first_child EXCEPT ![found[p]] = None]
     /\ Goto(p, "clear_wait")
     /\ UNCHANGED <<state, next_sibling, wait_for_pid, sleep_left,
                    current_task, need_reschedule, torn, arg, found, prev>>
  \/ /\ At(p, "clear_wait")
     /\ wait_for_pid' = [wait_for_pid EXCEPT ![found[p]] = None]
     /\ Goto(p, "user")
     /\ arg' = [arg EXCEPT ![p] = None]
     /\ found' = [found EXCEPT ![p] = None]
     /\ UNCHANGED <<state, family, sleep_left, current_task,
                    need_reschedule, torn, prev>>

-----------------------------------------------------------------------------
(* kmain: task 0 idles, task 1 is the first user process. *)
Init ==
  /\ state = [p \in Pid |-> IF p = Idle THEN "RUNNING" ELSE IF p = InitPid THEN "READY" ELSE "UNUSED"]
  /\ parent_pid = [p \in Pid |-> IF p = InitPid THEN Idle ELSE None]
  /\ first_child = [p \in Pid |-> None]
  /\ next_sibling = [p \in Pid |-> None]
  /\ wait_for_pid = [p \in Pid |-> None]
  /\ sleep_left = [p \in Pid |-> 0]
  /\ current_task = Idle
  /\ need_reschedule = FALSE
  /\ torn = FALSE
  /\ pc = [p \in Pid |-> "user"]
  /\ arg = [p \in Pid |-> None]
  /\ found = [p \in Pid |-> None]
  /\ prev = [p \in Pid |-> None]

Irq == timer_irq \/ timer_irq_no_switch \/ device_irq

Syscall(p) ==
  \/ task_fork(p) \/ task_exit_code(p) \/ scheduler_yield(p)
  \/ \E d \in Pid : task_kill(p, d)
  \/ \E n \in SleepTicks : task_sleep(p, n)
  \/ \E w \in PidOrNone \cup {NoSuchPid} : task_wait(p, w) \/ task_wait_blocks(p, w)

Resume(p) ==
  \/ task_sleep_returns(p) \/ wait_rescan(p) \/ wait_finds_none(p)
  \/ wait_checks_children(p) \/ wait_blocks_again(p)
  \/ wait_find_link(p) \/ wait_unlink(p) \/ wait_detach(p)
  \/ wait_free(p) \/ wait_clear(p)

Next == Irq \/ \E p \in Pid : Syscall(p) \/ Resume(p)

Spec == Init /\ [][Next]_vars

\* The timer keeps firing, and quanta (4 to 14 ticks) keep ending.
Fairness == WF_vars(timer_irq)
FairSpec == Spec /\ Fairness

-----------------------------------------------------------------------------
TypeOK ==
  /\ state \in [Pid -> States]
  /\ parent_pid \in [Pid -> PidOrNone]
  /\ first_child \in [Pid -> PidOrNone]
  /\ next_sibling \in [Pid -> PidOrNone]
  /\ wait_for_pid \in [Pid -> PidOrNone]
  /\ sleep_left \in [Pid -> Nat]
  /\ current_task \in Pid
  /\ need_reschedule \in BOOLEAN
  /\ torn \in BOOLEAN
  /\ pc \in [Pid -> Reaping \cup Clearing \cup
                    {"user", "sleep", "wait", "children", "block", "blocked", "waiting"}]
  /\ arg \in [Pid -> PidOrNone]
  /\ found \in [Pid -> PidOrNone]
  /\ prev \in [Pid -> PidOrNone]

\* Only the current task is in state RUNNING; if the processor is with a task
\* that may not go on (it blocked, sleeps or died), a reschedule is pending, or
\* that task is between the store that blocks it and the one that asks for
\* the reschedule; and idle can always be picked, so do_schedule never returns
\* to a dead task through its `next < 0' exit.
OneRunner ==
  /\ \A p \in Pid : state[p] = "RUNNING" => p = current_task
  /\ state[current_task] # "RUNNING" =>
       \/ need_reschedule /\ state[current_task] \in {"BLOCKED", "SLEEPING", "ZOMBIE"}
       \/ pc[current_task] \in {"blocked", "waiting"} /\ state[current_task] = "BLOCKED"
  /\ state[Idle] \in {"READY", "RUNNING"}

\* No slot is freed twice or under a live task: what a reaper switched out in
\* the middle of task_wait is about to free is a zombie, and nobody else is
\* about to free it.
ReapersFreeZombies ==
  \A p \in Pid : ~Gone(p) /\ pc[p] \in Reaping =>
    /\ state[found[p]] = "ZOMBIE"
    /\ \A q \in Pid \ {p} : ~Gone(q) /\ pc[q] \in Reaping => found[q] # found[p]

\* A list of children ends, and no task is on it twice: the loops of
\* task_reparent_children and task_remove_child terminate.
ListsEnd ==
  \A p \in Pid : first_child[p] # None =>
    /\ \E c \in Chain(p) : next_sibling[c] = None
    /\ first_child[p] \notin {next_sibling[c] : c \in Chain(p)}

\* As long as no reap is switched out half way, the list of children of a live
\* task that is not itself reaping holds exactly its children (init apart,
\* which task_create_args does not put on the list of idle).
FamilyListsExact ==
  ~torn => \A p \in Pid : ~Gone(p) /\ ~InReap(p) =>
    Chain(p) = {c \in Pid : state[c] # "UNUSED" /\ parent_pid[c] = p} \ {InitPid}

\* A task that died is always somebody's to reap: its parent is alive.
ZombiesHaveParents ==
  \A z \in Pid : state[z] = "ZOMBIE" => parent_pid[z] # None /\ ~Gone(parent_pid[z])

\* It is as long as no reap is switched out half way: init, or idle once init
\* is dead, inherits the zombies of a task that exits or is killed.
ZombiesInherited == ~torn => ZombiesHaveParents

\* A dead task never runs again: a zombie's slot is freed by a reap and by
\* nothing else.
DeadStayDead ==
  [][\A p \in Pid : state[p] = "ZOMBIE" => state'[p] \in {"ZOMBIE", "UNUSED"}]_vars

\* A blocked task is woken only for a zombie child that its task_wait will
\* collect, unless it was preempted between the store of its state and the one
\* of wait_for_pid.  This holds as long as no reap is switched out half way:
\* after that, the reaper may reset the wait_for_pid of the slot's next owner.
WakesForAReason ==
  [][\A p \in Pid :
       /\ ~torn /\ pc[p] # "blocked"
       /\ state[p] = "BLOCKED" /\ state'[p] \in {"READY", "RUNNING"}
       => \E z \in Pid : Answers(state, z, p, arg[p])]_vars

\* A task that is ready to run gets the processor (or is killed).
NoStarvation == \A p \in Pid : state[p] = "READY" ~> state[p] # "READY"

\* A parent blocked in task_wait is woken once a child it waits for has
\* exited or was killed (or is killed itself).
WaitersWake ==
  \A p \in Pid \ {Idle} : (state[p] = "BLOCKED" /\ \E z \in Pid : Answers(state, z, p, arg[p]))
                 ~> state[p] # "BLOCKED"

\* A task in task_sleep is woken (or killed).
SleepersWake == \A p \in Pid \ {Idle} : state[p] = "SLEEPING" ~> state[p] # "SLEEPING"

\* first_child is a child, and next_sibling has the same parent.
SiblingsShareParent ==
  \A p \in Pid :
    /\ ~Gone(p) /\ first_child[p] # None => parent_pid[first_child[p]] = p
    /\ ~Gone(p) /\ next_sibling[p] # None => parent_pid[next_sibling[p]] = parent_pid[p]
=============================================================================
