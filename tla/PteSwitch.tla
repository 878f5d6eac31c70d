----------------------------- MODULE PteSwitch -----------------------------
(***************************************************************************)
(* sys_pte_entry_switch, step by step, as one worker calls it.             *)
(*                                                                         *)
(* The call exchanges two entries of the page directory that maps the      *)
(* address it is given.  It runs in the kernel on whichever CPU the worker *)
(* is on, holds mmap_lock only for reading, can be preempted between any   *)
(* two of its instructions, and ends with a flush of the TLB of the CPU it *)
(* is then on - of no other.  That is enough only for a worker that is     *)
(* pinned, and pin_process_to_node, which the worker calls first, goes on  *)
(* without a word to its caller when it fails.                             *)
(*                                                                         *)
(* ParallelTraining takes the call as one step, Switched; SwitchIsAtomic   *)
(* says that it may.                                                       *)
(***************************************************************************)
EXTENDS Integers, Sequences

CONSTANTS
    LastIndex,              \* 511, the last entry of a page directory
    Cpus,                   \* the CPUs of the machine
    NodeCpus,               \* the CPUs of the worker's node, in increasing order
    Rank, Configured,       \* the worker's rank, numa_num_configured_nodes()
    Arguments               \* indexes a caller may pass

ASSUME PteSwitchAssumption ==
    /\ LastIndex \in Nat
    /\ Rank \in Nat
    /\ Configured \in Nat \ {0}
    /\ NodeCpus \in Seq(Cpus)
    /\ NodeCpus # <<>>
    /\ Arguments \subseteq Int

Indexes == 0 .. LastIndex
M == INSTANCE NumaView WITH NumNodes <- LastIndex + 1
NoFrame == M!NoFrame
Tables == M!Tables

EINVAL == -22
NO_MAP == -14               \* -EFAULT

\* pin_process_to_node: the workers of a node take its cores in turn.
CoreIndex(rank, nodes, cores) == (rank \div nodes) % cores
TargetCore == NodeCpus[1 + CoreIndex(Rank, Configured, Len(NodeCpus))]

VARIABLES
    affinity,               \* "unset", "pinned" or "failed"
    cpu,                    \* the CPU the worker runs on
    upper,                  \* the PML4 and PDP entries above the directory are present
    pde,                    \* the directory: its entries name frames
    tlb,                    \* tlb[c][x]: what CPU c has cached of entry x
    locked,                 \* the worker holds mmap_lock for reading
    pc,                     \* "user", or the next step of the call
    a, b,                   \* PTE_index_A and PTE_index_B, from the directory's start
    pte_slot,               \* the entry kept during the exchange
    ret                     \* what the last call returned

placement == <<affinity, cpu>>
call == <<locked, pc, a, b, pte_slot, ret>>
vars == <<placement, upper, pde, tlb, call>>

Nothing == [x \in Indexes |-> NoFrame]

Init ==
    /\ affinity = "unset"
    /\ cpu \in Cpus
    /\ upper \in BOOLEAN
    /\ pde \in {t \in Tables : \A x \in Indexes : t[x] \in {x, NoFrame}}
    /\ ~upper => pde = Nothing
    /\ tlb = [c \in Cpus |-> Nothing]
    /\ locked = FALSE
    /\ pc = "user"
    /\ a = 0
    /\ b = 0
    /\ pte_slot = NoFrame
    /\ ret = 0

-----------------------------------------------------------------------------
(* The worker outside the call, and the machine.                           *)

\* sched_setaffinity moves the worker to the only CPU it now allows.
Pin ==
    /\ affinity = "unset"
    /\ pc = "user"
    /\ affinity' = "pinned"
    /\ cpu' = TargetCore
    /\ UNCHANGED <<upper, pde, tlb, call>>

\* The node's CPUs are unknown, it has none, or sched_setaffinity fails: a
\* message is printed and the worker goes on.
PinFails ==
    /\ affinity = "unset"
    /\ pc = "user"
    /\ affinity' = "failed"
    /\ UNCHANGED <<cpu, upper, pde, tlb, call>>

\* The scheduler moves a worker that is not pinned, also in the middle of a
\* call, and leaves the TLB of both CPUs alone.
Migrate(c) ==
    /\ affinity # "pinned"
    /\ cpu' = c
    /\ UNCHANGED <<affinity, upper, pde, tlb, call>>

\* The worker touches an address: through the TLB, else through the table,
\* else a page fault installs the entry's own frame.
Access(x) ==
    /\ pc = "user"
    /\ tlb[cpu][x] = NoFrame
    /\ upper' = TRUE
    /\ pde' = M!Touch(pde, x)
    /\ tlb' = [tlb EXCEPT ![cpu][x] = M!Frame(pde, x)]
    /\ UNCHANGED <<placement, call>>

\* A TLB forgets an entry.
Evict(c, x) ==
    /\ tlb' = [tlb EXCEPT ![c][x] = NoFrame]
    /\ UNCHANGED <<placement, upper, pde, call>>

-----------------------------------------------------------------------------
(* The call.                                                               *)

\* Mutant of Invoke: the indexes are checked before they are rebased.
InvokeUnbased(base, x, y) ==
    /\ affinity # "unset"
    /\ pc = "user"
    /\ IF x < 0 \/ y < 0 \/ x > LastIndex \/ y > LastIndex
       THEN ret' = EINVAL /\ UNCHANGED <<pc, a, b>>
       ELSE pc' = "lock" /\ a' = x + base /\ b' = y + base /\ UNCHANGED ret
    /\ UNCHANGED <<placement, upper, pde, tlb, locked, pte_slot>>

\* pes(vaddr, x, y), base = PDE(vaddr): the indexes are checked, rebased and
\* checked again before any lock is taken.
Invoke(base, x, y) ==
    /\ affinity # "unset"
    /\ pc = "user"
    /\ IF x < 0 \/ y < 0 \/ x + base > LastIndex \/ y + base > LastIndex
       THEN ret' = EINVAL /\ UNCHANGED <<pc, a, b>>
       ELSE pc' = "lock" /\ a' = x + base /\ b' = y + base /\ UNCHANGED ret
    /\ UNCHANGED <<placement, upper, pde, tlb, locked, pte_slot>>

DownRead ==
    /\ pc = "lock"
    /\ locked' = TRUE
    /\ pc' = "walk"
    /\ UNCHANGED <<placement, upper, pde, tlb, a, b, pte_slot, ret>>

\* The call returns, and its locals are gone.
Return(value) ==
    /\ ret' = value
    /\ pc' = "user"
    /\ a' = 0
    /\ b' = 0
    /\ pte_slot' = NoFrame

\* Mutant of Walk: the early return forgets up_read.
WalkKeepingLock ==
    /\ pc = "walk"
    /\ \/ upper /\ pc' = "check" /\ UNCHANGED <<a, b, pte_slot, ret>>
       \/ ~upper /\ Return(NO_MAP)
    /\ UNCHANGED <<placement, upper, pde, tlb, locked>>

\* The PML4 and PDP entries; each early return releases the lock.
Walk ==
    /\ pc = "walk"
    /\ \/ upper /\ pc' = "check" /\ UNCHANGED <<locked, a, b, pte_slot, ret>>
       \/ ~upper /\ Return(NO_MAP) /\ locked' = FALSE
    /\ UNCHANGED <<placement, upper, pde, tlb>>

\* Mutant of Check: only the entry that is saved is looked at.
CheckOne ==
    /\ pc = "check"
    /\ pc' = IF M!Present(pde, b) THEN "save" ELSE "unlock"
    /\ UNCHANGED <<placement, upper, pde, tlb, locked, a, b, pte_slot, ret>>

Check ==
    /\ pc = "check"
    /\ pc' = IF M!Present(pde, a) /\ M!Present(pde, b) THEN "save" ELSE "unlock"
    /\ UNCHANGED <<placement, upper, pde, tlb, locked, a, b, pte_slot, ret>>

Save ==
    /\ pc = "save"
    /\ pte_slot' = pde[b]
    /\ pc' = "writeB"
    /\ UNCHANGED <<placement, upper, pde, tlb, locked, a, b, ret>>

WriteB ==
    /\ pc = "writeB"
    /\ pde' = [pde EXCEPT ![b] = pde[a]]
    /\ pc' = "writeA"
    /\ UNCHANGED <<placement, upper, tlb, locked, a, b, pte_slot, ret>>

\* Mutant of WriteA: the saved entry is not used.
WriteAUnsaved ==
    /\ pc = "writeA"
    /\ pde' = [pde EXCEPT ![a] = pde[b]]
    /\ pc' = "flush"
    /\ UNCHANGED <<placement, upper, tlb, locked, a, b, pte_slot, ret>>

WriteA ==
    /\ pc = "writeA"
    /\ pde' = [pde EXCEPT ![a] = pte_slot]
    /\ pc' = "flush"
    /\ UNCHANGED <<placement, upper, tlb, locked, a, b, pte_slot, ret>>

\* Mutant of Flush: the flush is left out.
FlushNothing ==
    /\ pc = "flush"
    /\ pc' = "unlock"
    /\ UNCHANGED <<placement, upper, pde, tlb, locked, a, b, pte_slot, ret>>

\* __flush_tlb_local, on the CPU the worker is on now.
Flush ==
    /\ pc = "flush"
    /\ tlb' = [tlb EXCEPT ![cpu] = Nothing]
    /\ pc' = "unlock"
    /\ UNCHANGED <<placement, upper, pde, locked, a, b, pte_slot, ret>>

UpRead ==
    /\ pc = "unlock"
    /\ Return(0)
    /\ locked' = FALSE
    /\ UNCHANGED <<placement, upper, pde, tlb>>

-----------------------------------------------------------------------------
Next == \/ Pin \/ PinFails
        \/ \E c \in Cpus : Migrate(c)
        \/ \E x \in Indexes : Access(x)
        \/ \E c \in Cpus, x \in Indexes : Evict(c, x)
        \/ \E base \in Indexes, x, y \in Arguments : Invoke(base, x, y)
        \/ DownRead \/ Walk \/ Check \/ Save \/ WriteB \/ WriteA \/ Flush \/ UpRead

Spec == Init /\ [][Next]_vars

-----------------------------------------------------------------------------
(* Properties.                                                             *)

\* Between the return of the index checks and the end of the call both indexes
\* name entries of the directory, and every entry is a frame or absent.
TypeOK ==
    /\ affinity \in {"unset", "pinned", "failed"}
    /\ cpu \in Cpus
    /\ upper \in BOOLEAN
    /\ pde \in Tables
    /\ tlb \in [Cpus -> Tables]
    /\ locked \in BOOLEAN
    /\ pc \in {"user", "lock", "walk", "check", "save", "writeB", "writeA",
               "flush", "unlock"}
    /\ a \in Indexes
    /\ b \in Indexes
    /\ pte_slot \in Indexes \cup {NoFrame}
    /\ ret \in {0, EINVAL, NO_MAP}

\* Outside the two writes of the exchange no frame is mapped at two entries, so
\* no copy of the network is lost or aliased by a call, a fault or both.
NoFrameTwice ==
    pc # "writeA" =>
        \A x, y \in Indexes : x # y /\ pde[x] = pde[y] => pde[x] = NoFrame

\* Whatever path the call returns by, mmap_lock is released; a worker that kept
\* it would block its own next mmap, in init_private_workspace.
LockReleased == pc = "user" => ~locked

\* A pinned worker never reaches memory through a translation the exchange has
\* made obsolete: what its CPU has cached is what the table says.
PinnedSeesTable ==
    affinity = "pinned" /\ pc = "user" =>
        \A x \in Indexes : tlb[cpu][x] \in {NoFrame, pde[x]}

\* The table as if a half-done exchange had not begun.
View == IF pc = "writeA" THEN [pde EXCEPT ![b] = pte_slot] ELSE pde

\* Seen this way the table changes in one step only: two entries that are both
\* present are exchanged, as Switched has it, or a fault installs one.  A call
\* that returns an error, or finds an entry absent, changes nothing.
SwitchIsAtomic ==
    [][\/ View' = View
       \/ pc = "writeA" /\ View' = M!Switched(View, a, b)
       \/ \E x \in Indexes : View' = M!Touch(View, x)]_vars
=============================================================================
