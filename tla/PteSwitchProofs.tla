-------------------------- MODULE PteSwitchProofs --------------------------
(***************************************************************************)
(* The exchange of two page-directory entries, for every size of the       *)
(* directory, every set of CPUs and every argument.                        *)
(*                                                                         *)
(* What makes the exchange safe is said of View, the table with a half-    *)
(* done exchange undone: it is injective on the entries present, and the   *)
(* frames it maps are the home frames of the entries present.  The second  *)
(* half is needed for faults: the frame a fault installs is not already    *)
(* mapped somewhere else.                                                  *)
(***************************************************************************)
EXTENDS PteSwitch, TLAPS

Injective(t) == \A x, y \in Indexes : x # y /\ t[x] = t[y] => t[x] = NoFrame
Closed(t) == \A x \in Indexes : t[x] # NoFrame => t[x] \in Indexes /\ t[t[x]] # NoFrame

\* Where the call is, and what it has checked and saved so far.
CallInv ==
    /\ pc \in {"user", "lock"} => ~locked
    /\ affinity = "unset" => pc = "user"
    /\ pc \in {"save", "writeB"} => pde[a] # NoFrame /\ pde[b] # NoFrame
    /\ pc = "writeB" => pte_slot = pde[b]
    /\ pc = "writeA" => /\ pde[a] # NoFrame
                        /\ pde[b] = pde[a]
                        /\ pte_slot # NoFrame
                        /\ a = b => pte_slot = pde[b]

\* A CPU is up to date when all it has cached is in the table.
UpToDate(c) == \A x \in Indexes : tlb[c][x] \in {NoFrame, pde[x]}
TlbInv ==
    /\ affinity = "unset" => \A c \in Cpus : UpToDate(c)
    /\ affinity = "pinned" /\ pc \notin {"writeA", "flush"} => UpToDate(cpu)

IInv == TypeOK /\ CallInv /\ TlbInv /\ Injective(View) /\ Closed(View)

-----------------------------------------------------------------------------
LEMMA TargetType == TargetCore \in Cpus
<1>1. Len(NodeCpus) \in Nat \ {0}
  BY PteSwitchAssumption
<1>2. Rank \div Configured \in Nat
  BY PteSwitchAssumption
<1>3. 1 + CoreIndex(Rank, Configured, Len(NodeCpus)) \in 1 .. Len(NodeCpus)
  BY <1>1, <1>2 DEF CoreIndex
<1> QED
  BY <1>3, PteSwitchAssumption DEF TargetCore

LEMMA NoFrameFacts == /\ NoFrame \notin Indexes
                      /\ Tables = [Indexes -> Indexes \cup {NoFrame}]
                      /\ Nothing \in Tables
                      /\ 0 \in Indexes
  BY PteSwitchAssumption
     DEF NoFrame, M!NoFrame, Indexes, Tables, M!Tables, M!Nodes, Nothing

\* The three operators of NumaView on the tables of this module.
LEMMA TouchFacts == ASSUME NEW t \in Tables, NEW x \in Indexes
    PROVE /\ M!Touch(t, x) = IF t[x] = NoFrame THEN [t EXCEPT ![x] = x] ELSE t
          /\ M!Touch(t, x) \in Tables
          /\ M!Frame(t, x) = IF t[x] = NoFrame THEN x ELSE t[x]
          /\ M!Frame(t, x) \in Indexes
<1>1. M!Touch(t, x) = IF t[x] = NoFrame THEN [t EXCEPT ![x] = x] ELSE t
  BY DEF M!Touch, NoFrame
<1>2. M!Frame(t, x) = M!Touch(t, x)[x]
  BY DEF M!Frame
<1> QED
  BY <1>1, <1>2, NoFrameFacts

LEMMA SwitchedFacts == ASSUME NEW t \in Tables, NEW x \in Indexes, NEW y \in Indexes,
                              t[x] # NoFrame, t[y] # NoFrame
    PROVE M!Switched(t, x, y) = [t EXCEPT ![x] = t[y], ![y] = t[x]]
  BY DEF M!Switched, M!Present, NoFrame

\* A fault keeps a table injective and closed, and so does an exchange.
LEMMA TouchKeeps == ASSUME NEW t \in Tables, Injective(t), Closed(t), NEW x \in Indexes
                    PROVE Injective(M!Touch(t, x)) /\ Closed(M!Touch(t, x))
<1> DEFINE u == [t EXCEPT ![x] = x]
<1>1. CASE t[x] # NoFrame
  BY <1>1, TouchFacts
<1>2. CASE t[x] = NoFrame
  <2>1. /\ M!Touch(t, x) = u
        /\ u[x] = x
        /\ \A y \in Indexes \ {x} : u[y] = t[y]
    BY <1>2, TouchFacts, NoFrameFacts
  <2>2. \A y \in Indexes \ {x} : t[y] # x
    BY <1>2, NoFrameFacts DEF Closed
  <2>3. Injective(u)
    BY <2>1, <2>2 DEF Injective
  <2>4. Closed(u)
    BY <2>1, NoFrameFacts DEF Closed
  <2> QED
    BY <2>1, <2>3, <2>4
<1> QED
  BY <1>1, <1>2

LEMMA ExchangeKeeps == ASSUME NEW t \in Tables, Injective(t), Closed(t),
                              NEW x \in Indexes, NEW y \in Indexes,
                              t[x] # NoFrame, t[y] # NoFrame
    PROVE /\ Injective([t EXCEPT ![x] = t[y], ![y] = t[x]])
          /\ Closed([t EXCEPT ![x] = t[y], ![y] = t[x]])
<1> DEFINE u == [t EXCEPT ![x] = t[y], ![y] = t[x]]
<1>1. /\ u[x] = t[y]
      /\ u[y] = t[x]
      /\ \A z \in Indexes \ {x, y} : u[z] = t[z]
  BY NoFrameFacts
<1>2. Injective(u)
  BY <1>1 DEF Injective
<1>3. \A z \in Indexes : t[z] # NoFrame <=> u[z] # NoFrame
  BY <1>1
<1>4. Closed(u)
  BY <1>1, <1>3 DEF Closed
<1> QED
  BY <1>2, <1>4
-----------------------------------------------------------------------------
\* The workers of one node are spread over its cores: as long as there are no
\* more of them than cores, and the kernel's node count is the one the ranks are
\* dealt by, two of them never get the same core.
THEOREM CoresSpread ==
    ASSUME NEW nodes \in Nat \ {0}, NEW cores \in Nat \ {0},
           NEW r \in Nat, NEW q \in Nat,
           r # q, r % nodes = q % nodes,
           r \div nodes < cores, q \div nodes < cores
    PROVE CoreIndex(r, nodes, cores) # CoreIndex(q, nodes, cores)
<1>1. r \div nodes \in Nat /\ q \div nodes \in Nat
  OBVIOUS
<1>2. r \div nodes # q \div nodes
  <2>1. \A m \in Nat \ {0}, x, y \in Nat : x \div m = y \div m /\ x % m = y % m => x = y
    BY SMT
  <2> QED
    BY <2>1
<1>3. \A n \in Nat : n < cores => n % cores = n
  OBVIOUS
<1> QED
  BY <1>1, <1>2, <1>3 DEF CoreIndex

-----------------------------------------------------------------------------
LEMMA InitIInv == Init => IInv
<1> SUFFICES ASSUME Init PROVE IInv
  OBVIOUS
<1>1. TypeOK
  BY NoFrameFacts DEF Init, TypeOK
<1>2. View = pde /\ \A x \in Indexes : pde[x] \in {x, NoFrame}
  BY DEF Init, View
<1>3. Injective(View) /\ Closed(View)
  BY <1>2, NoFrameFacts DEF Injective, Closed
<1>4. CallInv /\ TlbInv
  BY DEF Init, CallInv, TlbInv, UpToDate, Nothing
<1> QED
  BY <1>1, <1>3, <1>4 DEF IInv

LEMMA StepTypeOK == TypeOK /\ [Next]_vars => TypeOK'
<1> SUFFICES ASSUME TypeOK, [Next]_vars PROVE TypeOK'
  OBVIOUS
<1> USE NoFrameFacts
<1>1. CASE Pin \/ PinFails \/ \E c \in Cpus : Migrate(c)
  BY <1>1, TargetType DEF Pin, PinFails, Migrate, TypeOK, call
<1>2. ASSUME NEW x \in Indexes, Access(x) PROVE TypeOK'
  <2>1. pde' \in Tables /\ tlb' \in [Cpus -> Tables]
    BY <1>2, TouchFacts DEF Access, TypeOK
  <2> QED
    BY <1>2, <2>1 DEF Access, TypeOK, placement, call
<1>3. CASE \E c \in Cpus, x \in Indexes : Evict(c, x)
  BY <1>3 DEF Evict, TypeOK, placement, call
<1>4. ASSUME NEW base \in Indexes, NEW x \in Arguments, NEW y \in Arguments,
             Invoke(base, x, y)
      PROVE TypeOK'
  BY <1>4, PteSwitchAssumption DEF Invoke, TypeOK, placement, Indexes
<1>5. CASE DownRead \/ Walk \/ Check
  BY <1>5 DEF DownRead, Walk, Return, Check, TypeOK, placement
<1>6. CASE Save \/ WriteB \/ WriteA
  BY <1>6 DEF Save, WriteB, WriteA, TypeOK, placement
<1>7. CASE Flush \/ UpRead
  BY <1>7 DEF Flush, UpRead, Return, TypeOK, placement
<1>8. CASE UNCHANGED vars
  BY <1>8 DEF TypeOK, vars, placement, call
<1> QED
  BY <1>1, <1>2, <1>3, <1>4, <1>5, <1>6, <1>7, <1>8 DEF Next

LEMMA StepCallInv == IInv /\ [Next]_vars => CallInv'
<1> SUFFICES ASSUME IInv, [Next]_vars PROVE CallInv'
  OBVIOUS
<1> USE DEF IInv, CallInv
<1>1. CASE Pin \/ PinFails \/ \E c \in Cpus : Migrate(c)
  BY <1>1 DEF Pin, PinFails, Migrate, call
<1>2. CASE \E x \in Indexes : Access(x)
  BY <1>2 DEF Access, placement, call
<1>3. CASE \E c \in Cpus, x \in Indexes : Evict(c, x)
  BY <1>3 DEF Evict, placement, call
<1>4. CASE \E base \in Indexes, x, y \in Arguments : Invoke(base, x, y)
  BY <1>4 DEF Invoke, placement
<1>5. CASE DownRead \/ Walk
  BY <1>5 DEF DownRead, Walk, Return, placement
<1>6. CASE Check
  BY <1>6 DEF Check, placement, M!Present, NoFrame
<1>7. CASE Save
  BY <1>7 DEF Save, placement
<1>8. CASE WriteB
  BY <1>8, NoFrameFacts DEF WriteB, placement, TypeOK
<1>9. CASE WriteA \/ Flush \/ UpRead
  BY <1>9 DEF WriteA, Flush, UpRead, Return, placement
<1>10. CASE UNCHANGED vars
  BY <1>10 DEF vars, placement, call
<1> QED
  BY <1>1, <1>2, <1>3, <1>4, <1>5, <1>6, <1>7, <1>8, <1>9, <1>10 DEF Next

LEMMA StepTlbInv == IInv /\ [Next]_vars => TlbInv'
<1> SUFFICES ASSUME IInv, [Next]_vars PROVE TlbInv'
  OBVIOUS
<1> USE DEF IInv, TlbInv, UpToDate
<1>1. CASE Pin \/ PinFails \/ \E c \in Cpus : Migrate(c)
  BY <1>1, TargetType DEF Pin, PinFails, Migrate, call
<1>2. ASSUME NEW x \in Indexes, Access(x) PROVE TlbInv'
  <2>1. ASSUME NEW c \in Cpus, UpToDate(c) PROVE UpToDate(c)'
    <3>1. /\ pde' = IF pde[x] = NoFrame THEN [pde EXCEPT ![x] = x] ELSE pde
          /\ tlb' = [tlb EXCEPT ![cpu][x] = IF pde[x] = NoFrame THEN x ELSE pde[x]]
      BY <1>2, TouchFacts DEF Access, TypeOK
    <3>2. pde \in [Indexes -> Indexes \cup {NoFrame}] /\ tlb[c] \in [Indexes -> Indexes \cup {NoFrame}]
      BY NoFrameFacts DEF TypeOK
    <3>3. pde'[x] = IF pde[x] = NoFrame THEN x ELSE pde[x]
      BY <3>1, <3>2
    <3>4. \A y \in Indexes \ {x} : pde'[y] = pde[y]
      BY <3>1, <3>2
    <3>5. \A y \in Indexes \ {x} : tlb'[c][y] = tlb[c][y]
      BY <3>1, <3>2 DEF TypeOK
    <3>6. tlb'[c][x] \in {NoFrame, pde'[x]}
      <4>1. CASE c = cpu
        BY <4>1, <3>1, <3>2, <3>3 DEF TypeOK
      <4>2. CASE c # cpu
        <5>1. tlb'[c] = tlb[c]
          BY <4>2, <3>1 DEF TypeOK
        <5>2. tlb[c][x] = NoFrame \/ tlb[c][x] = pde[x]
          BY <2>1
        <5> QED
          BY <5>1, <5>2, <3>3
      <4> QED
        BY <4>1, <4>2
    <3> QED
      BY <2>1, <3>4, <3>5, <3>6
  <2> QED
    BY <1>2, <2>1 DEF Access, placement, call, TypeOK
<1>3. CASE \E c \in Cpus, x \in Indexes : Evict(c, x)
  BY <1>3, NoFrameFacts DEF Evict, placement, call, TypeOK
<1>4. CASE \E base \in Indexes, x, y \in Arguments : Invoke(base, x, y)
  BY <1>4 DEF Invoke, placement
<1>5. CASE DownRead \/ Walk \/ Check \/ Save
  BY <1>5 DEF DownRead, Walk, Return, Check, Save, placement
<1>6. CASE WriteB \/ WriteA
  BY <1>6 DEF WriteB, WriteA, placement, CallInv
<1>7. CASE Flush
  BY <1>7 DEF Flush, placement, TypeOK, Nothing, CallInv
<1>8. CASE UpRead
  BY <1>8 DEF UpRead, Return, placement
<1>9. CASE UNCHANGED vars
  BY <1>9 DEF vars, placement, call
<1> QED
  BY <1>1, <1>2, <1>3, <1>4, <1>5, <1>6, <1>7, <1>8, <1>9 DEF Next

LEMMA ViewType == TypeOK => View \in Tables
  BY NoFrameFacts DEF TypeOK, View

\* How a step changes the table seen with half-done exchanges undone.
LEMMA StepView ==
    IInv /\ [Next]_vars =>
        \/ View' = View
        \/ /\ pc = "writeA"
           /\ View[a] # NoFrame /\ View[b] # NoFrame
           /\ View' = [View EXCEPT ![a] = View[b], ![b] = View[a]]
        \/ \E x \in Indexes : View' = M!Touch(View, x)
<1> SUFFICES ASSUME IInv, [Next]_vars
             PROVE \/ View' = View
                   \/ /\ pc = "writeA"
                      /\ View[a] # NoFrame /\ View[b] # NoFrame
                      /\ View' = [View EXCEPT ![a] = View[b], ![b] = View[a]]
                   \/ \E x \in Indexes : View' = M!Touch(View, x)
  OBVIOUS
<1>1. CASE Pin \/ PinFails \/ \E c \in Cpus : Migrate(c)
  BY <1>1 DEF Pin, PinFails, Migrate, View, call
<1>2. ASSUME NEW x \in Indexes, Access(x) PROVE View' = M!Touch(View, x)
  BY <1>2 DEF Access, View, call
<1>3. CASE \E c \in Cpus, x \in Indexes : Evict(c, x)
  BY <1>3 DEF Evict, View, call
<1>4. CASE \E base \in Indexes, x, y \in Arguments : Invoke(base, x, y)
  BY <1>4 DEF Invoke, View
<1>5. CASE DownRead \/ Walk \/ Check \/ Save
  BY <1>5 DEF DownRead, Walk, Return, Check, Save, View
<1>6. CASE WriteB
  <2>1. /\ View = pde
        /\ pte_slot = pde[b]
        /\ View' = [pde' EXCEPT ![b] = pte_slot]
    BY <1>6 DEF WriteB, View, IInv, CallInv
  <2>2. View' = pde
    BY <1>6, <2>1, NoFrameFacts DEF WriteB, IInv, TypeOK
  <2> QED
    BY <2>1, <2>2
<1>7. CASE WriteA
  <2>1. /\ View = [pde EXCEPT ![b] = pte_slot]
        /\ View' = [pde EXCEPT ![a] = pte_slot]
    BY <1>7 DEF WriteA, View
  <2>2. /\ pde \in [Indexes -> Indexes \cup {NoFrame}]
        /\ a \in Indexes /\ b \in Indexes
        /\ pde[a] # NoFrame /\ pde[b] = pde[a] /\ pte_slot # NoFrame
        /\ a = b => pte_slot = pde[b]
    BY <1>7, NoFrameFacts DEF WriteA, IInv, TypeOK, CallInv
  <2>3. View[b] = pte_slot /\ View[a] = pde[b]
    BY <2>1, <2>2
  <2>4. View' = [View EXCEPT ![a] = View[b], ![b] = View[a]]
    <3> DEFINE t == [View EXCEPT ![a] = View[b], ![b] = View[a]]
    <3>1. View \in [Indexes -> Indexes \cup {NoFrame}]
      BY ViewType, NoFrameFacts DEF IInv
    <3>2. t \in [Indexes -> Indexes \cup {NoFrame}] /\ View' \in [Indexes -> Indexes \cup {NoFrame}]
      BY <2>1, <2>2, <3>1, NoFrameFacts DEF IInv, TypeOK
    <3>3. ASSUME NEW y \in Indexes PROVE t[y] = View'[y]
      <4>1. CASE y = b /\ a # b
        BY <4>1, <2>1, <2>2, <2>3, <3>1
      <4>2. CASE y = a /\ a # b
        BY <4>2, <2>1, <2>2, <2>3, <3>1
      <4>3. CASE y = b /\ a = b
        BY <4>3, <2>1, <2>2, <2>3, <3>1
      <4>4. CASE y # a /\ y # b
        BY <4>4, <2>1, <2>2, <3>1
      <4> QED
        BY <4>1, <4>2, <4>3, <4>4
    <3> HIDE DEF t
    <3>4. t = View'
      BY <3>2, <3>3
    <3> QED
      BY <3>4 DEF t
  <2> QED
    BY <1>7, <2>2, <2>3, <2>4 DEF WriteA
<1>8. CASE Flush \/ UpRead
  BY <1>8 DEF Flush, UpRead, Return, View
<1>9. CASE UNCHANGED vars
  BY <1>9 DEF vars, View, call
<1> QED
  BY <1>1, <1>2, <1>3, <1>4, <1>5, <1>6, <1>7, <1>8, <1>9 DEF Next

LEMMA StepPermutation == IInv /\ [Next]_vars => Injective(View') /\ Closed(View')
<1> SUFFICES ASSUME IInv, [Next]_vars PROVE Injective(View') /\ Closed(View')
  OBVIOUS
<1>1. PICK t : t = View
  OBVIOUS
<1>2. PICK u : u = View'
  OBVIOUS
<1>3. t \in Tables /\ Injective(t) /\ Closed(t) /\ a \in Indexes /\ b \in Indexes
  BY <1>1, ViewType DEF IInv, TypeOK
<1>4. \/ u = t
      \/ /\ t[a] # NoFrame /\ t[b] # NoFrame
         /\ u = [t EXCEPT ![a] = t[b], ![b] = t[a]]
      \/ \E x \in Indexes : u = M!Touch(t, x)
  BY <1>1, <1>2, StepView
<1>5. Injective(u) /\ Closed(u)
  BY <1>3, <1>4, TouchKeeps, ExchangeKeeps
<1> QED
  BY <1>2, <1>5

LEMMA IInvariant == Spec => []IInv
<1>1. IInv /\ [Next]_vars => IInv'
  <2>1. IInv /\ [Next]_vars => TypeOK'
    BY StepTypeOK DEF IInv
  <2>2. IInv /\ [Next]_vars => Injective(View)' /\ Closed(View)'
    BY StepPermutation DEF Injective, Closed
  <2> QED
    BY <2>1, <2>2, StepCallInv, StepTlbInv DEF IInv
<1> QED
  BY <1>1, InitIInv, PTL DEF Spec

-----------------------------------------------------------------------------
\* The indexes the call works with always name entries of the directory, for
\* every directory size, address and pair of arguments.
THEOREM TypeCorrect == Spec => []TypeOK
<1>1. IInv => TypeOK
  BY DEF IInv
<1> QED
  BY <1>1, IInvariant, PTL

\* No call, fault or interleaving of both maps a frame at two entries.
THEOREM NoFrameIsTwice == Spec => []NoFrameTwice
<1>1. IInv => NoFrameTwice
  BY DEF IInv, NoFrameTwice, Injective, View
<1> QED
  BY <1>1, IInvariant, PTL

\* Every path out of the call releases mmap_lock.
THEOREM LockIsReleased == Spec => []LockReleased
<1>1. IInv => LockReleased
  BY DEF IInv, CallInv, LockReleased
<1> QED
  BY <1>1, IInvariant, PTL

\* For a pinned worker the local flush is enough: it sees what the table says.
THEOREM PinnedIsCoherent == Spec => []PinnedSeesTable
<1>1. IInv => PinnedSeesTable
  BY DEF IInv, TlbInv, UpToDate, PinnedSeesTable
<1> QED
  BY <1>1, IInvariant, PTL

\* The exchange is one step: what ParallelTraining takes for granted.
THEOREM SwitchAtomic == Spec => SwitchIsAtomic
<1>1. IInv /\ [Next]_vars => \/ View' = View
                             \/ pc = "writeA" /\ View' = M!Switched(View, a, b)
                             \/ \E x \in Indexes : View' = M!Touch(View, x)
  <2>1. IInv => View \in Tables /\ a \in Indexes /\ b \in Indexes
    BY ViewType DEF IInv, TypeOK
  <2> QED
    BY <2>1, StepView, SwitchedFacts
<1> QED
  BY <1>1, IInvariant, PTL DEF Spec, SwitchIsAtomic
=============================================================================
