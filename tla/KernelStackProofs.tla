------------------------- MODULE KernelStackProofs --------------------------
(***************************************************************************)
(* The stack discipline of KernelStack holds for every number of tasks and  *)
(* stacks, as long as a reap is not interrupted.                            *)
(***************************************************************************)
EXTENDS KernelStack, TLAPS

\* What the three invariants need to be inductive: stack mirrors kernel_stack,
\* a slot has a stack exactly when it is in use, idle keeps to the boot stack,
\* and nobody is in the middle of an interruptible reap.
Shape ==
  /\ stack = kernel_stack
  /\ \A t \in Slots : status[t] = "unused" => kernel_stack[t] = Null /\ pending_free_kstack[t] = Null
  /\ \A t \in Slots : status[t] # "unused" => kernel_stack[t] \in Stack
  /\ status[cur] # "unused" /\ status[Idle] = "live" /\ pending_free_kstack[Idle] = Null
  /\ cpu = "user" => status[cur] = "live"
  /\ IF cur = Idle THEN cpu = Boot ELSE rsp[Idle] = Boot
  /\ step = [t \in Slots |-> "none"] /\ reaping = [t \in Slots |-> Null]

\* The heap, stack by stack
HeapIsOwned ==
  \A s \in Stack : s \in heap <=> \E t \in Slots : s = kernel_stack[t] \/ s = pending_free_kstack[t]

Disjoint ==
  \A t, u \in Slots : t # u =>
    /\ kernel_stack[t] # Null => kernel_stack[t] # kernel_stack[u] /\ kernel_stack[t] # pending_free_kstack[u]
    /\ pending_free_kstack[t] # Null => pending_free_kstack[t] # pending_free_kstack[u]

Distinct == \A t \in Slots : kernel_stack[t] # Null => kernel_stack[t] # pending_free_kstack[t]

\* While the processor is still on the stack exec replaced, the context to be
\* resumed is the frame exec built; traps land on the running task's stack.
Frames ==
  cur # Idle => /\ rsp0 = kernel_stack[cur]
                /\ cpu = pending_free_kstack[cur] => rsp[cur] = kernel_stack[cur]

KS == TypeOK /\ Shape /\ ContextsOnLiveStacks /\ HeapIsOwned /\ Disjoint /\ Distinct /\ Frames

\* The pointwise forms say the same as the invariants checked by the run.
LEMMA KSImplies == KS => StacksExclusive /\ NoStackLeak
<1> SUFFICES ASSUME KS PROVE StacksExclusive /\ NoStackLeak
  OBVIOUS
<1>1. StacksExclusive
  BY StackAssumption DEF KS, StacksExclusive, Disjoint, Distinct, Frames, Owned, TypeOK
<1>2. NoStackLeak
  <2>1. ASSUME NEW s \in heap PROVE s \in UNION {Owned(t) : t \in Slots}
    BY <2>1, StackAssumption DEF KS, HeapIsOwned, Owned, TypeOK
  <2>2. ASSUME NEW t \in Slots, NEW s \in Owned(t) PROVE s \in heap
    BY <2>2, StackAssumption DEF KS, HeapIsOwned, Owned, TypeOK
  <2> QED BY <2>1, <2>2 DEF NoStackLeak
<1> QED BY <1>1, <1>2

LEMMA InitKS == Init => KS
<1> SUFFICES ASSUME Init PROVE KS
  OBVIOUS
<1>1. PICK si \in Stack, s1 \in Stack : si # s1 /\ heap = {si, s1}
        /\ kernel_stack = [t \in Slots |-> IF t = Idle THEN si ELSE IF t = InitTask THEN s1 ELSE Null]
        /\ rsp = [t \in Slots |-> IF t = InitTask THEN s1 ELSE Null]
  BY DEF Init
<1>2. TypeOK
  BY <1>1, StackAssumption DEF Init, TypeOK, Slots
<1>3. Shape
  BY <1>1, StackAssumption DEF Init, Shape, Slots
<1>4. ContextsOnLiveStacks
  <2>1. ASSUME NEW t \in Task, status[t] = "live" PROVE kernel_stack[t] \in heap /\ rsp[t] = kernel_stack[t]
    <3>1. t = InitTask /\ t # Idle /\ t \in Slots
      BY <2>1, StackAssumption DEF Init, Slots
    <3> QED BY <1>1, <3>1
  <2> QED BY <2>1 DEF Init, ContextsOnLiveStacks
<1>5. HeapIsOwned /\ Disjoint
  <2>1. kernel_stack[Idle] = si /\ kernel_stack[InitTask] = s1 /\ Idle \in Slots /\ InitTask \in Slots
    BY <1>1, StackAssumption DEF Slots
  <2>2. \A t \in Slots : pending_free_kstack[t] = Null /\ (t \notin {Idle, InitTask} => kernel_stack[t] = Null)
    BY <1>1 DEF Init
  <2>3. HeapIsOwned
    BY <1>1, <2>1, <2>2, StackAssumption DEF HeapIsOwned
  <2>4. Disjoint
    BY <1>1, <2>1, <2>2, StackAssumption DEF Disjoint
  <2> QED BY <2>3, <2>4
<1>6. Distinct /\ Frames
  BY DEF Init, Distinct, Frames
<1> QED BY <1>2, <1>3, <1>4, <1>5, <1>6 DEF KS, Init

-----------------------------------------------------------------------------
(* Each action preserves KS.                                                 *)

LEMMA TrapKS == KS /\ (trap \/ iretq) => KS'
<1> SUFFICES ASSUME KS, trap \/ iretq PROVE KS'
  OBVIOUS
<1>1. UNCHANGED <<status, parent_pid, cur, task_fields, rsp, rsp0, heap, reaping, step>>
  BY DEF trap, iretq
<1>2. cur # Idle /\ status[cur] = "live" /\ cpu' \in {"user", rsp0}
  BY StackAssumption DEF KS, Shape, trap, iretq
<1>3. rsp0 = kernel_stack[cur] /\ cur \in Task /\ rsp0 \in Stack
  BY <1>2 DEF KS, Shape, Frames, TypeOK, Slots
<1>4. TypeOK'
  BY <1>1, <1>2, <1>3 DEF KS, TypeOK, task_fields
<1>5. Shape'
  BY <1>1, <1>2, <1>3 DEF KS, Shape, task_fields
<1>6. ContextsOnLiveStacks'
  BY <1>1, <1>2, <1>3, StackAssumption DEF KS, ContextsOnLiveStacks, Owned, task_fields
<1>7. HeapIsOwned' /\ Disjoint'
  BY <1>1 DEF KS, HeapIsOwned, Disjoint, task_fields
<1>8. Distinct' /\ Frames'
  BY <1>1, <1>2, <1>3, StackAssumption DEF KS, Distinct, Frames, TypeOK, task_fields
<1> QED BY <1>4, <1>5, <1>6, <1>7, <1>8 DEF KS

LEMMA ScheduleKS == ASSUME KS, NEW t \in Slots, do_schedule(t) PROVE KS'
<1> DEFINE saved == IF cpu = pending_free_kstack[cur] THEN rsp ELSE [rsp EXCEPT ![cur] = cpu]
<1>1. /\ cpu # "user" /\ status[t] = "live"
      /\ rsp' = saved /\ heap' = heap \ {pending_free_kstack[cur]}
      /\ pending_free_kstack' = [pending_free_kstack EXCEPT ![cur] = Null]
      /\ cur' = t /\ cpu' = saved[t] /\ rsp0' = kernel_stack[t]
      /\ UNCHANGED <<status, parent_pid, kernel_stack, stack, reaping, step>>
  BY DEF do_schedule, SwitchTo, kfree
<1>2. kernel_stack[t] \in Stack /\ cur \in Slots
  BY <1>1 DEF KS, Shape, TypeOK
<1>3. \A u \in Task : status[u] = "live" => saved[u] = kernel_stack[u]
  <2>1. ASSUME NEW u \in Task, status[u] = "live", u # cur PROVE saved[u] = kernel_stack[u]
    BY <2>1 DEF KS, ContextsOnLiveStacks, TypeOK, Slots
  <2>2. ASSUME cur \in Task, status[cur] = "live", cpu # pending_free_kstack[cur] PROVE saved[cur] = kernel_stack[cur]
    BY <1>1, <2>2, StackAssumption DEF KS, ContextsOnLiveStacks, TypeOK, Slots, Owned
  <2>3. ASSUME cur \in Task, status[cur] = "live", cpu = pending_free_kstack[cur] PROVE saved[cur] = kernel_stack[cur]
    BY <1>1, <2>3, StackAssumption DEF KS, Frames, TypeOK
  <2> QED BY <2>1, <2>2, <2>3
<1>4. saved[Idle] = Boot
  BY <1>1, <1>2, StackAssumption DEF KS, Shape, TypeOK, Slots
<1>5. \A u \in Slots : pending_free_kstack[cur] # Null => kernel_stack[u] # pending_free_kstack[cur]
  BY <1>2, StackAssumption DEF KS, Disjoint, Distinct
<1>6. TypeOK'
  <2>1. saved \in [Slots -> Stack \cup {Boot, Null}]
    BY <1>1 DEF KS, TypeOK
  <2>2. saved[t] \in Stack \cup {Boot}
    BY <1>1, <1>2, <1>3, <1>4 DEF Slots
  <2> QED BY <1>1, <1>2, <2>1, <2>2 DEF KS, TypeOK
<1>7. Shape'
  BY <1>1, <1>2, <1>4, StackAssumption DEF KS, Shape, TypeOK, Slots
<1>8. ContextsOnLiveStacks'
  <2>1. ASSUME NEW u \in Task, status[u] = "live" PROVE kernel_stack[u] \in heap'
    BY <1>1, <1>2, <1>5, <2>1, StackAssumption DEF KS, ContextsOnLiveStacks, TypeOK, Slots
  <2>2. ASSUME t # Idle PROVE saved[t] \in heap' /\ saved[t] \in Owned(t)'
    BY <1>1, <1>2, <1>3, <2>1, <2>2, StackAssumption DEF Owned, Slots
  <2> QED BY <1>1, <1>3, <2>1, <2>2 DEF ContextsOnLiveStacks
<1>9. HeapIsOwned'
  <2> SUFFICES ASSUME NEW s \in Stack
               PROVE  s \in heap' <=> \E u \in Slots : s = kernel_stack'[u] \/ s = pending_free_kstack'[u]
    BY DEF HeapIsOwned
  <2>1. CASE s = pending_free_kstack[cur]
    BY <1>1, <1>2, <1>5, <2>1, StackAssumption DEF KS, Disjoint, TypeOK
  <2>2. CASE s # pending_free_kstack[cur]
    BY <1>1, <1>2, <2>2, StackAssumption DEF KS, HeapIsOwned, TypeOK
  <2> QED BY <2>1, <2>2
<1>10. Disjoint' /\ Distinct'
  BY <1>1, <1>2, StackAssumption DEF KS, Disjoint, Distinct, TypeOK
<1>11. Frames'
  <2>1. ASSUME t # Idle PROVE rsp'[t] = kernel_stack'[t]
    BY <1>1, <1>3, <2>1 DEF Slots
  <2> QED BY <1>1, <2>1 DEF Frames
<1> QED BY <1>6, <1>7, <1>8, <1>9, <1>10, <1>11 DEF KS

LEMMA ForkKS == ASSUME KS, NEW c \in Task, NEW s \in Stack, task_fork(c, s) PROVE KS'
<1>1. /\ cur # Idle /\ status[cur] = "live" /\ cpu = kernel_stack[cur]
      /\ status[c] = "unused" /\ s \notin heap /\ heap' = heap \cup {s}
      /\ kernel_stack' = [kernel_stack EXCEPT ![c] = s] /\ stack' = [stack EXCEPT ![c] = s]
      /\ pending_free_kstack' = [pending_free_kstack EXCEPT ![c] = Null]
      /\ rsp' = [rsp EXCEPT ![c] = s] /\ status' = [status EXCEPT ![c] = "live"]
      /\ parent_pid' = [parent_pid EXCEPT ![c] = cur]
      /\ reaping' = [reaping EXCEPT ![c] = Null] /\ step' = [step EXCEPT ![c] = "none"]
      /\ UNCHANGED <<cur, rsp0, cpu>>
  BY DEF task_fork, Fork, InSyscall
<1>2. c # cur /\ c # Idle /\ c \in Slots /\ cur \in Slots /\ cur \in Task
  BY <1>1, StackAssumption DEF KS, TypeOK, Slots
<1>3. kernel_stack[c] = Null /\ pending_free_kstack[c] = Null
  BY <1>1, <1>2 DEF KS, Shape
<1>4. \A u \in Slots : kernel_stack[u] # s /\ pending_free_kstack[u] # s
  BY <1>1 DEF KS, HeapIsOwned
<1>5. TypeOK'
  BY <1>1, <1>2 DEF KS, TypeOK
<1>6. Shape'
  BY <1>1, <1>2, StackAssumption DEF KS, Shape, TypeOK, Slots
<1>7. ContextsOnLiveStacks'
  <2>1. ASSUME NEW u \in Task, status'[u] = "live"
        PROVE  kernel_stack'[u] \in heap' /\ (u # cur' => rsp'[u] = kernel_stack'[u])
    BY <1>1, <1>2, <2>1 DEF KS, ContextsOnLiveStacks, TypeOK, Slots
  <2>2. cpu' # "user" => cpu' \in heap' \cap Owned(cur)'
    BY <1>1, <1>2 DEF KS, ContextsOnLiveStacks, Owned, TypeOK
  <2> QED BY <2>1, <2>2 DEF ContextsOnLiveStacks
<1>8. HeapIsOwned'
  <2> SUFFICES ASSUME NEW x \in Stack
               PROVE  x \in heap' <=> \E u \in Slots : x = kernel_stack'[u] \/ x = pending_free_kstack'[u]
    BY DEF HeapIsOwned
  <2>1. CASE x = s
    BY <1>1, <1>2, <2>1 DEF KS, TypeOK
  <2>2. CASE x # s
    BY <1>1, <1>2, <1>3, <2>2, StackAssumption DEF KS, HeapIsOwned, TypeOK
  <2> QED BY <2>1, <2>2
<1>9. Disjoint' /\ Distinct'
  BY <1>1, <1>2, <1>4, StackAssumption DEF KS, Disjoint, Distinct, TypeOK
<1>10. Frames'
  BY <1>1, <1>2 DEF KS, Frames, TypeOK
<1> QED BY <1>5, <1>6, <1>7, <1>8, <1>9, <1>10 DEF KS

LEMMA ExecKS == ASSUME KS, NEW s \in Stack, do_exec(s) PROVE KS'
<1> DEFINE old == pending_free_kstack[cur]
<1>1. /\ cur # Idle /\ status[cur] = "live" /\ cpu = kernel_stack[cur] /\ s \notin heap
      /\ heap' = (heap \cup {s}) \ {old}
      /\ kernel_stack' = [kernel_stack EXCEPT ![cur] = s] /\ stack' = [stack EXCEPT ![cur] = s]
      /\ rsp' = [rsp EXCEPT ![cur] = s] /\ rsp0' = s
      /\ pending_free_kstack' = [pending_free_kstack EXCEPT ![cur] = kernel_stack[cur]]
      /\ UNCHANGED <<status, parent_pid, cur, cpu, reaping, step>>
  BY DEF do_exec, Exec, InSyscall, kfree
<1>2. cur \in Slots /\ cur \in Task /\ kernel_stack[cur] \in Stack /\ kernel_stack[cur] \in heap
  BY <1>1 DEF KS, TypeOK, Shape, Slots, ContextsOnLiveStacks
<1>3. \A u \in Slots : kernel_stack[u] # s /\ pending_free_kstack[u] # s
  BY <1>1 DEF KS, HeapIsOwned
<1>4. \A u \in Slots : old # Null => kernel_stack[u] # old
  BY <1>2, StackAssumption DEF KS, Disjoint, Distinct
<1>5. TypeOK'
  BY <1>1, <1>2 DEF KS, TypeOK
<1>6. Shape'
  BY <1>1, <1>2, StackAssumption DEF KS, Shape, TypeOK, Slots
<1>7. ContextsOnLiveStacks'
  <2>1. ASSUME NEW u \in Task, status'[u] = "live"
        PROVE  kernel_stack'[u] \in heap' /\ (u # cur' => rsp'[u] = kernel_stack'[u])
    BY <1>1, <1>2, <1>3, <1>4, <2>1, StackAssumption DEF KS, ContextsOnLiveStacks, TypeOK, Slots
  <2>2. cpu' \in heap' \cap Owned(cur)'
    BY <1>1, <1>2, <1>3, <1>4, StackAssumption DEF KS, Owned, TypeOK
  <2> QED BY <1>1, <2>1, <2>2 DEF ContextsOnLiveStacks, Owned
<1>8. HeapIsOwned'
  <2> SUFFICES ASSUME NEW x \in Stack
               PROVE  x \in heap' <=> \E u \in Slots : x = kernel_stack'[u] \/ x = pending_free_kstack'[u]
    BY DEF HeapIsOwned
  <2>1. CASE x = s
    BY <1>1, <1>2, <1>3, <2>1 DEF KS, TypeOK
  <2>2. CASE x = old
    BY <1>1, <1>2, <1>3, <1>4, <2>2, StackAssumption DEF KS, Disjoint, TypeOK
  <2>3. CASE x # s /\ x # old
    BY <1>1, <1>2, <2>3, StackAssumption DEF KS, HeapIsOwned, TypeOK
  <2> QED BY <2>1, <2>2, <2>3
<1>9. Disjoint' /\ Distinct'
  BY <1>1, <1>2, <1>3, StackAssumption DEF KS, Disjoint, Distinct, TypeOK
<1>10. Frames'
  BY <1>1, <1>2 DEF KS, Frames, TypeOK
<1> QED BY <1>5, <1>6, <1>7, <1>8, <1>9, <1>10 DEF KS

LEMMA DieKS ==
  ASSUME KS, NEW d \in Task, Die(d), status[d] = "live", d = cur => cpu = kernel_stack[cur]
  PROVE  KS'
<1> DEFINE old == pending_free_kstack[d]
<1>1. /\ parent_pid' = Reparented(d) /\ heap' = heap \ {old}
      /\ pending_free_kstack' = [pending_free_kstack EXCEPT ![d] = Null]
      /\ status' = [status EXCEPT ![d] = "zombie"]
      /\ UNCHANGED <<cur, kernel_stack, stack, rsp, rsp0, cpu, reaping, step>>
  BY DEF Die, kfree
<1>2. d \in Slots /\ d # Idle /\ cur \in Slots
  BY StackAssumption DEF KS, TypeOK, Slots
<1>3. \A u \in Slots : old # Null => kernel_stack[u] # old
  BY <1>2, StackAssumption DEF KS, Disjoint, Distinct
<1>4. Reparented(d) \in [Slots -> Slots \cup {Null}]
  BY StackAssumption DEF KS, TypeOK, Reparented, Slots
<1>5. TypeOK'
  BY <1>1, <1>2, <1>4 DEF KS, TypeOK
<1>6. Shape'
  <2>1. d = cur => cpu # "user"
    BY <1>2, StackAssumption DEF KS, Shape
  <2> QED BY <1>1, <1>2, <2>1, StackAssumption DEF KS, Shape, TypeOK, Slots
<1>7. ContextsOnLiveStacks'
  <2>1. ASSUME NEW u \in Task, status'[u] = "live"
        PROVE  kernel_stack'[u] \in heap' /\ (u # cur' => rsp'[u] = kernel_stack'[u])
    BY <1>1, <1>2, <1>3, <2>1, StackAssumption DEF KS, ContextsOnLiveStacks, Shape, TypeOK, Slots
  <2>2. ASSUME cur # Idle, cpu # "user" PROVE cpu \in heap' \cap Owned(cur)'
    <3>1. cpu \in heap /\ cpu \in Owned(cur)
      BY <2>2 DEF KS, ContextsOnLiveStacks
    <3>2. cpu # old
      BY <1>2, <1>3, <3>1, StackAssumption DEF KS, Disjoint, Owned
    <3> QED BY <1>1, <1>2, <3>1, <3>2 DEF KS, TypeOK, Owned
  <2> QED BY <1>1, <2>1, <2>2 DEF ContextsOnLiveStacks
<1>8. HeapIsOwned'
  <2> SUFFICES ASSUME NEW x \in Stack
               PROVE  x \in heap' <=> \E u \in Slots : x = kernel_stack'[u] \/ x = pending_free_kstack'[u]
    BY DEF HeapIsOwned
  <2>1. CASE x = old
    BY <1>1, <1>2, <1>3, <2>1, StackAssumption DEF KS, Disjoint, TypeOK
  <2>2. CASE x # old
    BY <1>1, <1>2, <2>2, StackAssumption DEF KS, HeapIsOwned, TypeOK
  <2> QED BY <2>1, <2>2
<1>9. Disjoint' /\ Distinct'
  BY <1>1, <1>2, StackAssumption DEF KS, Disjoint, Distinct, TypeOK
<1>10. Frames'
  <2>1. d = cur => cpu # Null
    BY <1>2, StackAssumption DEF KS, TypeOK
  <2> QED BY <1>1, <1>2, <2>1 DEF KS, Frames, TypeOK
<1> QED BY <1>5, <1>6, <1>7, <1>8, <1>9, <1>10 DEF KS

LEMMA WaitKS == ASSUME KS, NEW z \in Task, task_wait(z) PROVE KS'
<1>1. /\ cur # Idle /\ status[cur] = "live" /\ cpu = kernel_stack[cur] /\ status[z] = "zombie"
      /\ heap' = (heap \ {kernel_stack[z]}) \ {pending_free_kstack[z]}
      /\ kernel_stack' = [kernel_stack EXCEPT ![z] = Null] /\ stack' = [stack EXCEPT ![z] = Null]
      /\ pending_free_kstack' = [pending_free_kstack EXCEPT ![z] = Null]
      /\ status' = [status EXCEPT ![z] = "unused"]
      /\ parent_pid' = [parent_pid EXCEPT ![z] = Null]
      /\ UNCHANGED <<cur, rsp, rsp0, cpu, reaping, step>>
  BY DEF task_wait, kfree, InSyscall, KS, Shape
<1>2. z \in Slots /\ z # Idle /\ z # cur /\ cur \in Slots /\ cur \in Task
  BY <1>1, StackAssumption DEF KS, TypeOK, Slots
<1>3. ASSUME NEW u \in Slots, u # z
      PROVE  /\ kernel_stack[u] # Null => kernel_stack[u] # kernel_stack[z] /\ kernel_stack[u] # pending_free_kstack[z]
             /\ pending_free_kstack[u] # Null =>
                  pending_free_kstack[u] # kernel_stack[z] /\ pending_free_kstack[u] # pending_free_kstack[z]
             /\ kernel_stack'[u] = kernel_stack[u] /\ pending_free_kstack'[u] = pending_free_kstack[u]
  BY <1>1, <1>2, <1>3, StackAssumption DEF KS, Disjoint, TypeOK
<1>4. TypeOK'
  BY <1>1, <1>2 DEF KS, TypeOK
<1>5. Shape'
  BY <1>1, <1>2, StackAssumption DEF KS, Shape, TypeOK, Slots
<1>6. ContextsOnLiveStacks'
  <2>1. ASSUME NEW u \in Task, status'[u] = "live"
        PROVE  kernel_stack'[u] \in heap' /\ (u # cur' => rsp'[u] = kernel_stack'[u])
    <3>1. u # z /\ u \in Slots /\ status[u] = "live" /\ kernel_stack[u] # Null
      BY <1>1, <1>2, <2>1, StackAssumption DEF KS, Shape, TypeOK, Slots
    <3>2. kernel_stack[u] \in heap /\ (u # cur => rsp[u] = kernel_stack[u])
      BY <2>1, <3>1 DEF KS, ContextsOnLiveStacks
    <3> QED BY <1>1, <1>3, <3>1, <3>2
  <2>2. cpu \in heap' \cap Owned(cur)'
    <3>1. kernel_stack[cur] \in heap /\ kernel_stack[cur] # Null
      BY <1>1, <1>2, StackAssumption DEF KS, ContextsOnLiveStacks, Shape
    <3>2. kernel_stack'[cur] = kernel_stack[cur]
      BY <1>1, <1>2 DEF KS, TypeOK
    <3> QED BY <1>1, <1>2, <1>3, <3>1, <3>2 DEF Owned
  <2> QED BY <1>1, <2>1, <2>2 DEF ContextsOnLiveStacks
<1>7. HeapIsOwned'
  <2> SUFFICES ASSUME NEW x \in Stack
               PROVE  x \in heap' <=> \E u \in Slots : x = kernel_stack'[u] \/ x = pending_free_kstack'[u]
    BY DEF HeapIsOwned
  <2>1. CASE x = kernel_stack[z] \/ x = pending_free_kstack[z]
    <3>1. x # Null /\ x \notin heap'
      BY <1>1, <2>1, StackAssumption
    <3>2. ASSUME NEW u \in Slots, u # z PROVE x # kernel_stack'[u] /\ x # pending_free_kstack'[u]
      BY <1>3, <2>1, <3>1, <3>2
    <3>3. x # kernel_stack'[z] /\ x # pending_free_kstack'[z]
      BY <1>1, <1>2, <3>1 DEF KS, TypeOK
    <3> QED BY <3>1, <3>2, <3>3
  <2>2. CASE x # kernel_stack[z] /\ x # pending_free_kstack[z]
    BY <1>1, <1>2, <2>2, StackAssumption DEF KS, HeapIsOwned, TypeOK
  <2> QED BY <2>1, <2>2
<1>8. Disjoint' /\ Distinct'
  BY <1>1, <1>2, StackAssumption DEF KS, Disjoint, Distinct, TypeOK
<1>9. Frames'
  BY <1>1, <1>2 DEF KS, Frames, TypeOK
<1> QED BY <1>4, <1>5, <1>6, <1>7, <1>8, <1>9 DEF KS

LEMMA NextKS == KS /\ [Next]_vars => KS'
<1> SUFFICES ASSUME KS, [Next]_vars PROVE KS'
  OBVIOUS
<1>1. CASE trap \/ iretq
  BY <1>1, TrapKS
<1>2. ASSUME NEW t \in Slots, do_schedule(t) PROVE KS'
  BY <1>2, ScheduleKS
<1>3. ASSUME NEW c \in Task, NEW s \in Stack, task_fork(c, s) PROVE KS'
  BY <1>3, ForkKS
<1>4. ASSUME NEW s \in Stack, do_exec(s) PROVE KS'
  BY <1>4, ExecKS
<1>5. CASE task_exit_code
  <2>1. cur \in Task
    BY <1>5 DEF task_exit_code, InSyscall, KS, TypeOK, Slots
  <2> QED BY <1>5, <2>1, DieKS DEF task_exit_code, InSyscall
<1>6. ASSUME NEW t \in Task, task_kill(t) PROVE KS'
  BY <1>6, DieKS DEF task_kill
<1>7. ASSUME NEW z \in Task, task_wait(z) PROVE KS'
  BY <1>7, WaitKS
<1>8. CASE UNCHANGED vars
  BY <1>8 DEF vars, task_fields, KS, TypeOK, Shape, ContextsOnLiveStacks, HeapIsOwned, Disjoint,
              Distinct, Frames, Owned
<1> QED BY <1>1, <1>2, <1>3, <1>4, <1>5, <1>6, <1>7, <1>8 DEF Next

\* For any number of tasks and stacks: no context and no running system call
\* is ever on a freed stack, no stack is shared, and none is leaked, through
\* every order of fork, exec, exit, kill, wait and do_schedule in which a reap
\* is not interrupted.
THEOREM KernelStackSafety ==
  Spec => [](TypeOK /\ ContextsOnLiveStacks /\ StacksExclusive /\ NoStackLeak)
<1>1. KS => TypeOK /\ ContextsOnLiveStacks /\ StacksExclusive /\ NoStackLeak
  BY KSImplies DEF KS
<1> QED BY <1>1, InitKS, NextKS, PTL DEF Spec
=============================================================================
