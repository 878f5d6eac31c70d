------------------------- MODULE TableSearchProofs -------------------------
(***************************************************************************)
(* The system-call table under the two modules, and the search for it, for *)
(* tables of any size and every layout of the kernel's memory.             *)
(*                                                                         *)
(* What keeps the table whole is who holds which entry: USCTM the first    *)
(* free one while it is loaded, PES one other free one, and nobody else    *)
(* any.  The two can therefore come and go in any order.                   *)
(***************************************************************************)
EXTENDS TableSearch, WellFoundedInduction, FiniteSetTheorems, TLAPS

-----------------------------------------------------------------------------
(* Entries in order.                                                       *)

LEMMA MinFacts == ASSUME NEW S \in SUBSET Nat, S # {}
                  PROVE  Min(S) \in S /\ \A x \in S : Min(S) <= x
<1>1. PICK x \in S : \A y \in S : ~(<<y, x>> \in OpToRel(<, Nat))
  BY NatLessThanWellFounded, WFMin
<1>2. \A y \in S : <<y, x>> \in Nat \X Nat
  OBVIOUS
<1>3. \A y \in S : ~(y < x)
  BY <1>1, <1>2 DEF OpToRel
<1>4. \A y \in S : x <= y
  BY <1>3
<1> QED
  BY <1>4 DEF Min

LEMMA MaxFacts == ASSUME NEW n \in Nat, NEW S \in SUBSET (0 .. n), S # {}
                  PROVE  Max(S) \in S /\ \A x \in S : x <= Max(S)
<1> DEFINE Mirror == {n - x : x \in S}
<1>1. Mirror \in SUBSET Nat /\ Mirror # {}
  <2>1. \A x \in S : n - x \in Nat
    OBVIOUS
  <2> QED
    BY <2>1
<1>2. Min(Mirror) \in Mirror /\ \A x \in Mirror : Min(Mirror) <= x
  BY <1>1, MinFacts
<1>3. PICK top \in S : Min(Mirror) = n - top
  BY <1>2
<1>4. \A x \in S : n - x \in Mirror
  OBVIOUS
<1>5. \A x \in S : n - top <= n - x
  BY <1>2, <1>3, <1>4
<1>6. \A x \in S : top >= x
  BY <1>5
<1> QED
  BY <1>6 DEF Max

LEMMA EntriesFinite == ASSUME NEW S \in SUBSET Entries
                       PROVE  IsFiniteSet(S) /\ Cardinality(S) \in Nat
<1>1. IsFiniteSet(Entries)
  BY SyscallTableAssumption, FS_Interval DEF Entries
<1> QED
  BY <1>1, FS_Subset, FS_CardinalityType

\* Every place in the list of free entries is taken by one of them: the number of
\* lower ones runs through all the numbers below the size of the set.
LEMMA NthFacts == ASSUME NEW S \in SUBSET Entries, NEW n \in 1 .. Cardinality(S)
                  PROVE  Nth(S, n) \in S /\ Cardinality({z \in S : z < Nth(S, n)}) = n - 1
<1> DEFINE below(e) == {z \in S : z < e}
           size == Cardinality(S)
           f == [e \in S |-> Cardinality(below(e))]
<1>1. size \in Nat /\ IsFiniteSet(S) /\ S \subseteq Nat
  BY EntriesFinite DEF Entries
<1>2. \A e \in S : below(e) \in SUBSET S /\ e \notin below(e)
  BY <1>1
<1>3. \A e \in S : f[e] \in 0 .. size - 1
  <2> TAKE e \in S
  <2>1. below(e) \in SUBSET S /\ below(e) # S
    BY <1>2
  <2>2. Cardinality(below(e)) <= size /\ Cardinality(below(e)) # size
    BY <2>1, <1>1, FS_Subset
  <2>3. Cardinality(below(e)) \in Nat
    BY <2>1, EntriesFinite
  <2> QED
    BY <2>2, <2>3, <1>1
<1>4. \A d, e \in S : d < e => f[d] < f[e]
  <2> SUFFICES ASSUME NEW d \in S, NEW e \in S, d < e
               PROVE  f[d] < f[e]
    OBVIOUS
  <2>1. below(d) \in SUBSET below(e) /\ d \in below(e) /\ d \notin below(d)
    <3>1. \A z \in S : z < d => z < e
      BY <1>1
    <3> QED
      BY <3>1, <1>2
  <2>2. IsFiniteSet(below(e)) /\ Cardinality(below(e)) \in Nat /\ Cardinality(below(d)) \in Nat
    BY <1>2, EntriesFinite
  <2>3. Cardinality(below(d)) <= Cardinality(below(e))
        /\ Cardinality(below(d)) # Cardinality(below(e))
    BY <2>1, <2>2, FS_Subset
  <2> QED
    BY <2>2, <2>3
<1>5. f \in Injection(S, 0 .. size - 1)
  <2>1. f \in [S -> 0 .. size - 1]
    BY <1>3
  <2>2. \A d, e \in S : d # e => f[d] # f[e]
    <3> SUFFICES ASSUME NEW d \in S, NEW e \in S, d # e, f[d] = f[e]
                 PROVE  FALSE
      OBVIOUS
    <3>1. d < e \/ e < d
      BY <1>1
    <3>2. f[d] < f[e] \/ f[e] < f[d]
      BY <3>1, <1>4
    <3>3. f[d] \in Nat /\ f[e] \in Nat
      BY <1>1, <1>3
    <3> HIDE DEF f
    <3> QED
      BY <3>2, <3>3
  <2> QED
    BY <2>1, <2>2 DEF Injection, IsInjective
<1>6. IsFiniteSet(0 .. size - 1) /\ Cardinality(0 .. size - 1) = size
  <2> HIDE DEF size
  <2>1. size - 1 \in Int /\ (0 > size - 1 => size = 0)
    BY <1>1
  <2> QED
    BY <1>1, <2>1, FS_Interval
<1>7. f \in Surjection(S, 0 .. size - 1)
  BY <1>5, <1>6, FS_Injection
<1>8. PICK e \in S : f[e] = n - 1
  <2>1. n - 1 \in 0 .. size - 1
    BY <1>1
  <2> QED
    BY <1>7, <2>1 DEF Surjection
<1>9. Cardinality({z \in S : z < e}) = n - 1
  BY <1>8
<1> QED
  BY <1>9 DEF Nth

\* The array that USCTM exposes.
LEMMA FreeEntriesFacts == ASSUME NEW ni
    PROVE  FreeEntries(ni) \in Seq(Entries) /\ Len(FreeEntries(ni)) <= MaxFree
<1> DEFINE all == {e \in Entries : table[e] = ni}
           len == Min({Cardinality(all), MaxFree})
<1>1. all \in SUBSET Entries /\ Cardinality(all) \in Nat /\ MaxFree \in Nat
  BY EntriesFinite, SyscallTableAssumption
<1>2. len \in Nat /\ len <= Cardinality(all) /\ len <= MaxFree
  <2>1. {Cardinality(all), MaxFree} \in SUBSET Nat
    BY <1>1
  <2> QED
    BY <2>1, MinFacts
<1>3. \A n \in 1 .. len : Nth(all, n) \in Entries
  <2> TAKE n \in 1 .. len
  <2>1. n \in 1 .. Cardinality(all)
    BY <1>1, <1>2
  <2> QED
    BY <1>1, <2>1, NthFacts
<1> HIDE DEF all, len
<1>4. [n \in 1 .. len |-> Nth(all, n)] \in Seq(Entries) /\ Len([n \in 1 .. len |-> Nth(all, n)]) = len
  BY <1>2, <1>3
<1>5. FreeEntries(ni) = [n \in 1 .. len |-> Nth(all, n)]
  BY DEF FreeEntries, all, len
<1> QED
  BY <1>2, <1>4, <1>5
-----------------------------------------------------------------------------
(* Who holds which entry.                                                  *)

\* The first free entry is USCTM's, and USCTM knows what to put back.
FirstInv ==
    /\ usctm = "in" => table[First] = SysTrial /\ hacked_ni_syscall = NiSyscall
    /\ usctm = "out" => table[First] = NiSyscall
    /\ dispatch = "table" /\ UsesSwitch => usctm = "in"

\* PES has chosen another free entry, and knows what to put back.
ChoiceInv ==
    pes # "out" => restore \in NiEntries \ {First} /\ the_ni_syscall = NiSyscall

\* All other entries are the kernel's; PES's own is between its two writes, or
\* after one that faulted, not the kernel's.
OthersInv ==
    \A e \in Entries \ {First} :
        \/ table[e] = Original[e] /\ ~(e = restore /\ pes \in {"written", "in", "closing"})
        \/ table[e] = SysPes /\ e = restore /\ pes \in {"written", "in", "closing", "dead"}

TableInv == TypeOK /\ FirstInv /\ ChoiceInv /\ OthersInv

\* The application's number is the second free entry, and not the last.
SecondFree ==
    /\ AppNumber \in NiEntries \ {First}
    /\ \A e \in NiEntries \ {First} : AppNumber <= e
    /\ \E e \in NiEntries \ {First} : AppNumber < e

\* PES has always chosen the application's number.
NumberInv == pes # "out" => restore = AppNumber

LEMMA KernelFacts == /\ First \in NiEntries /\ NiEntries \subseteq Entries /\ Entries \subseteq Nat
                     /\ Original \in [Entries -> Handlers] /\ Original[First] = NiSyscall
                     /\ \A e \in NiEntries : Original[e] = NiSyscall
                     /\ \A e \in Entries \ NiEntries : Original[e] = e
                     /\ NiSyscall \in Handlers /\ SysPes \in Handlers /\ SysTrial \in Handlers
  BY SyscallTableAssumption DEF Entries, Handlers, Original

\* The handlers of modules and the one for free entries are no entry's own.
LEMMA HandlersDiffer == /\ NiSyscall # SysTrial /\ NiSyscall # SysPes /\ SysTrial # SysPes
                        /\ \A e \in Entries : e \notin {NiSyscall, SysTrial, SysPes}
  BY SyscallTableAssumption DEF Entries, NiSyscall, SysTrial, SysPes

\* While USCTM is in and PES out, what is found twice is free and not USCTM's.
LEMMA TwiceIsFree == ASSUME TableInv, usctm = "in", pes = "out"
    PROVE  /\ Twice \subseteq NiEntries \ {First}
           /\ \A e \in Twice : table[e] = NiSyscall
           /\ \A e, z \in NiEntries \ {First} : e < z => e \in Twice
<1>1. /\ table[First] = SysTrial
      /\ \A e \in Entries \ {First} : table[e] = Original[e]
  BY DEF TableInv, FirstInv, OthersInv
<1>2. \A e, z \in Entries : e # z /\ table[e] = table[z] => {e, z} \subseteq NiEntries \ {First}
  BY <1>1, KernelFacts, HandlersDiffer
<1>3. Twice \subseteq NiEntries \ {First}
  <2> SUFFICES ASSUME NEW e \in Twice
               PROVE  e \in NiEntries \ {First}
    OBVIOUS
  <2>1. PICK z \in Entries : e \in Entries /\ z > e /\ table[z] = table[e]
    BY DEF Twice
  <2>2. e # z
    BY <2>1, KernelFacts
  <2> QED
    BY <1>2, <2>1, <2>2
<1>4. \A e \in NiEntries \ {First} : table[e] = NiSyscall
  BY <1>1, KernelFacts
<1>5. \A e, z \in NiEntries \ {First} : e < z => e \in Twice
  BY <1>4, KernelFacts DEF Twice
<1> QED
  BY <1>3, <1>4, <1>5

\* A step of PES's loader that does not write the table.
LEMMA NoWriteKeeps ==
    ASSUME TableInv, UNCHANGED <<table, usctmVars, restore, the_ni_syscall>>,
           pes # "out", pes # "dead",
           pes \in {"written", "in", "closing"} => pes' \in {"written", "in", "closing", "dead"},
           pes' \in {"written", "in", "closing"} => pes \in {"written", "in", "closing"}
    PROVE  FirstInv' /\ ChoiceInv' /\ OthersInv'
<1>1. FirstInv' /\ ChoiceInv'
  BY DEF TableInv, FirstInv, ChoiceInv, usctmVars
<1>2. OthersInv'
  BY DEF TableInv, OthersInv
<1> QED
  BY <1>1, <1>2

\* A write of PES's loader, which is where it has chosen.
LEMMA WriteKeeps ==
    ASSUME TableInv, UNCHANGED <<usctmVars, restore, the_ni_syscall>>, pes # "out",
           \/ pes = "open" /\ pes' = "written" /\ table' = [table EXCEPT ![restore] = SysPes]
           \/ pes = "closing" /\ pes' = "cleared" /\ table' = [table EXCEPT ![restore] = the_ni_syscall]
    PROVE  FirstInv' /\ ChoiceInv' /\ OthersInv'
<1>1. restore \in NiEntries \ {First} /\ restore \in Entries /\ the_ni_syscall = NiSyscall
  BY KernelFacts DEF TableInv, ChoiceInv
<1>2. table \in [Entries -> Handlers]
  BY DEF TableInv, TypeOK
<1>3. FirstInv' /\ ChoiceInv'
  BY <1>1, <1>2, KernelFacts DEF TableInv, FirstInv, ChoiceInv, usctmVars
<1>4. OthersInv'
  BY <1>1, <1>2, KernelFacts, HandlersDiffer DEF TableInv, OthersInv
<1> QED
  BY <1>3, <1>4

LEMMA TypeNext == ASSUME TableInv, [Next]_vars
                  PROVE  TypeOK'
<1> USE DEF TableInv, TypeOK
<1>1. CASE LoadUsctm \/ UnloadUsctm
  <2>1. table[First] \in Handlers
    BY KernelFacts
  <2>2. <<>> \in Seq(Entries) /\ Len(<<>>) <= MaxFree
    BY SyscallTableAssumption
  <2>3. table' \in [Entries -> Handlers] /\ hacked_ni_syscall' \in Handlers
    BY <1>1, <2>1, KernelFacts, SyscallTableAssumption
       DEF LoadUsctm, InstallTrial, UnloadUsctm, Handlers, Entries
  <2> QED
    BY <1>1, <2>2, <2>3, FreeEntriesFacts
       DEF LoadUsctm, InstallTrial, UnloadUsctm, OwnDispatch, pesVars
<1>2. CASE LoadPes
  <2>1. Min(Twice) \in Entries
    <3>1. Twice \in SUBSET Nat /\ Twice \subseteq Entries
      BY KernelFacts DEF Twice
    <3> QED
      BY <1>2, <3>1, MinFacts DEF LoadPes
  <2> QED
    BY <1>2, <2>1 DEF LoadPes, usctmVars
<1>3. CASE UnprotectLoad \/ UnprotectUnload
  BY <1>3 DEF UnprotectLoad, UnprotectUnload, Unprotect, usctmVars
<1>4. CASE Install \/ Uninstall
  BY <1>4, KernelFacts DEF Install, Uninstall, Write, usctmVars
<1>5. CASE ProtectLoad \/ ProtectUnload
  BY <1>5 DEF ProtectLoad, ProtectUnload, Protect, usctmVars
<1>6. CASE \E c \in Cpus : Move(c)
  BY <1>6 DEF Move, usctmVars
<1>7. CASE UNCHANGED vars
  BY <1>7 DEF vars, usctmVars, pesVars
<1> QED
  BY <1>1, <1>2, <1>3, <1>4, <1>5, <1>6, <1>7 DEF Next

LEMMA TableInvInit == Init => TableInv
<1> SUFFICES ASSUME Init
             PROVE  TableInv
  OBVIOUS
<1>1. TypeOK
  <2>1. <<>> \in Seq(Entries) /\ Len(<<>>) <= MaxFree /\ 0 \in Handlers
    BY SyscallTableAssumption DEF Handlers, Entries
  <2> QED
    BY <2>1, KernelFacts DEF Init, TypeOK, OwnDispatch
<1>2. FirstInv /\ ChoiceInv /\ OthersInv
  BY KernelFacts DEF Init, FirstInv, ChoiceInv, OthersInv, OwnDispatch
<1> QED
  BY <1>1, <1>2 DEF TableInv

LEMMA TableInvNext == TableInv /\ [Next]_vars => TableInv'
<1> SUFFICES ASSUME TableInv, [Next]_vars
             PROVE  FirstInv' /\ ChoiceInv' /\ OthersInv'
  BY TypeNext DEF TableInv
<1>1. CASE LoadUsctm
  <2>1. table[First] = NiSyscall /\ table \in [Entries -> Handlers]
    BY <1>1 DEF LoadUsctm, TableInv, FirstInv, TypeOK
  <2> QED
    BY <1>1, <2>1, KernelFacts
       DEF LoadUsctm, InstallTrial, pesVars, TableInv, FirstInv, ChoiceInv, OthersInv
<1>2. CASE UnloadUsctm
  <2>1. hacked_ni_syscall = NiSyscall /\ table \in [Entries -> Handlers]
    BY <1>2 DEF UnloadUsctm, TableInv, FirstInv, TypeOK
  <2> QED
    BY <1>2, <2>1, KernelFacts
       DEF UnloadUsctm, OwnDispatch, pesVars, TableInv, FirstInv, ChoiceInv, OthersInv
<1>3. CASE LoadPes
  <2>1. Min(Twice) \in Twice
    BY <1>3, KernelFacts, MinFacts DEF LoadPes, Twice
  <2>2. Min(Twice) \in NiEntries \ {First} /\ table[Min(Twice)] = NiSyscall
    BY <1>3, <2>1, TwiceIsFree DEF LoadPes
  <2>3. FirstInv' /\ ChoiceInv'
    BY <1>3, <2>2 DEF LoadPes, usctmVars, TableInv, FirstInv, ChoiceInv
  <2>4. OthersInv'
    BY <1>3 DEF LoadPes, TableInv, OthersInv
  <2> QED
    BY <2>3, <2>4
<1>4. CASE UnprotectLoad \/ UnprotectUnload
  BY <1>4, NoWriteKeeps DEF UnprotectLoad, UnprotectUnload, Unprotect
<1>5. CASE Install \/ Uninstall
  <2>1. CASE wp[cpu]
    BY <1>5, <2>1, NoWriteKeeps DEF Install, Uninstall, Write
  <2>2. CASE ~wp[cpu]
    BY <1>5, <2>2, WriteKeeps DEF Install, Uninstall, Write
  <2> QED
    BY <2>1, <2>2
<1>6. CASE ProtectLoad \/ ProtectUnload
  BY <1>6, NoWriteKeeps DEF ProtectLoad, ProtectUnload, Protect
<1>7. CASE \E c \in Cpus : Move(c)
  BY <1>7, NoWriteKeeps DEF Move, Idle
<1>8. CASE UNCHANGED vars
  BY <1>8 DEF vars, usctmVars, pesVars, TableInv, FirstInv, ChoiceInv, OthersInv
<1> QED
  BY <1>1, <1>2, <1>3, <1>4, <1>5, <1>6, <1>7, <1>8 DEF Next

LEMMA TableInvHolds == TableInv => /\ TypeOK
                                   /\ RealCallsKept
                                   /\ HandlersLoaded
                                   /\ TableRestored
<1> SUFFICES ASSUME TableInv
             PROVE  RealCallsKept /\ HandlersLoaded /\ TableRestored
  BY DEF TableInv
<1>1. RealCallsKept
  <2> SUFFICES ASSUME NEW e \in Entries \ NiEntries
               PROVE  table[e] = e
    BY DEF RealCallsKept
  <2>1. e # First /\ Original[e] = e
    BY KernelFacts
  <2> QED
    BY <2>1 DEF TableInv, OthersInv, ChoiceInv
<1>2. HandlersLoaded
  <2>1. \A e \in Entries : Original[e] \notin {SysTrial, SysPes}
    BY KernelFacts, HandlersDiffer
  <2>2. \A e \in Entries \ {First} : table[e] # SysTrial /\ (table[e] = SysPes => pes # "out")
    BY <2>1, HandlersDiffer DEF TableInv, OthersInv
  <2>3. /\ table[First] = SysTrial => usctm = "in"
        /\ table[First] # SysPes
    BY HandlersDiffer DEF TableInv, TypeOK, FirstInv
  <2>4. dispatch = "table" /\ UsesSwitch => usctm = "in"
    BY DEF TableInv, FirstInv
  <2> QED
    BY <2>2, <2>3, <2>4 DEF HandlersLoaded
<1>3. TableRestored
  <2> SUFFICES ASSUME usctm = "out", pes = "out"
               PROVE  table = Original
    BY DEF TableRestored
  <2>1. \A e \in Entries : table[e] = Original[e]
    BY KernelFacts DEF TableInv, FirstInv, OthersInv
  <2>2. table \in [Entries -> Handlers] /\ Original \in [Entries -> Handlers]
    BY KernelFacts DEF TableInv, TypeOK
  <2> QED
    BY <2>1, <2>2
<1> QED
  BY <1>1, <1>2, <1>3

LEMMA NumberInvNext == ASSUME SecondFree, TableInv, NumberInv, [Next]_vars
                       PROVE  NumberInv'
<1>1. CASE LoadPes
  <2>1. AppNumber \in Twice
    BY <1>1, TwiceIsFree DEF SecondFree, LoadPes
  <2>2. \A e \in Twice : AppNumber <= e
    BY <1>1, TwiceIsFree DEF SecondFree, LoadPes
  <2>3. Min(Twice) \in Twice /\ Min(Twice) <= AppNumber
    BY <2>1, KernelFacts, MinFacts DEF Twice
  <2>4. Min(Twice) \in Nat /\ AppNumber \in Nat /\ AppNumber <= Min(Twice)
    BY <2>1, <2>2, <2>3, KernelFacts DEF Twice
  <2>5. Min(Twice) = AppNumber
    BY <2>3, <2>4
  <2> QED
    BY <1>1, <2>5 DEF LoadPes, NumberInv
<1>2. CASE ~LoadPes
  <2>1. UNCHANGED restore /\ (pes = "out" => pes' = "out")
    BY <1>2 DEF Next, vars, pesVars, LoadUsctm, InstallTrial, UnloadUsctm, UnprotectLoad,
                UnprotectUnload, Unprotect, Install, Uninstall, Write, ProtectLoad,
                ProtectUnload, Protect, Move
  <2> QED
    BY <2>1 DEF NumberInv
<1> QED
  BY <1>1, <1>2

LEMMA NumberInvHolds == ASSUME SecondFree, TableInv, NumberInv
                        PROVE  NumberIsStable
<1>1. AppNumber \in Entries \ {First}
  BY KernelFacts DEF SecondFree
<1> QED
  BY <1>1 DEF NumberIsStable, NumberInv, TableInv, OthersInv

LEMMA TableInvAlways == Spec => []TableInv
  BY TableInvInit, TableInvNext, PTL DEF Spec

-----------------------------------------------------------------------------
(* Theorems of SyscallTable, where USCTM finds the table in one step.      *)

\* The state is typed: USCTM's list of free entries never overruns the exposed
\* array, and PES's entry is one of the table.
THEOREM TypeCorrect == Spec => []TypeOK
  BY TableInvAlways, TableInvHolds, PTL

\* No order of loading, removal and faults costs the kernel one of its own calls.
THEOREM CallsAreKept == Spec => []RealCallsKept
  BY TableInvAlways, TableInvHolds, PTL

\* No entry, and no redirected dispatcher, leads into a module that is gone.
THEOREM HandlersAreLoaded == Spec => []HandlersLoaded
  BY TableInvAlways, TableInvHolds, PTL

\* With both modules removed the table is the kernel's, in whatever order they went.
THEOREM TableIsRestored == Spec => []TableRestored
  BY TableInvAlways, TableInvHolds, PTL

\* PES is under the application's number whenever it is there, if that is the
\* number of the second free entry and there is one more.
THEOREM NumberStays == ASSUME SecondFree
                       PROVE  Spec => []NumberIsStable
<1>1. Init => NumberInv
  BY DEF Init, NumberInv
<1>2. TableInv /\ NumberInv /\ [Next]_vars => NumberInv'
  BY NumberInvNext
<1>3. TableInv /\ NumberInv => NumberIsStable
  BY NumberInvHolds
<1> QED
  BY <1>1, <1>2, <1>3, TableInvAlways, PTL DEF Spec

-----------------------------------------------------------------------------
(* The search.                                                             *)

LEMMA SeventhFacts == /\ Seventh \in Markers /\ Seventh \in Nat /\ First \in Nat
                      /\ \A m \in Markers : m \in 0 .. Seventh
                      /\ Seventh <= LastEntry
                      /\ PageWords \in Nat /\ Seventh < PageWords /\ First < Seventh
<1>1. LastEntry \in Nat /\ Markers \in SUBSET (0 .. LastEntry) /\ First \in Markers
  BY SyscallTableAssumption DEF Entries
<1>2. Max(Markers) \in Markers /\ \A m \in Markers : m <= Max(Markers)
  BY <1>1, MaxFacts
<1>3. /\ First < Max(Markers) /\ Max(Markers) < PageWords
      /\ PageWords \in Nat
  BY TableSearchAssumption DEF Seventh
<1> DEFINE last == Max(Markers)
<1> HIDE DEF last
<1>4. last \in Nat /\ last <= LastEntry /\ last \in Markers
  <2>1. last \in Markers
    BY <1>2 DEF last
  <2> QED
    BY <1>1, <2>1
<1>5. \A m \in Markers : m \in 0 .. last
  BY <1>1, <1>2, <1>4 DEF last
<1>6. First \in Nat
  BY <1>1
<1> QED
  BY <1>3, <1>4, <1>5, <1>6 DEF Seventh, last

LEMMA Division == ASSUME NEW a \in Nat, NEW d \in Nat, d > 0
                  PROVE  /\ a \div d \in Nat
                         /\ d * (a \div d) <= a /\ a < d * (a \div d) + d
                         /\ a % d \in 0 .. d - 1
                         /\ a = d * (a \div d) + (a % d)
  BY SMT

LEMMA Quotient == ASSUME NEW q \in Nat, NEW d \in Nat, NEW r \in 0 .. d - 1
                  PROVE  (q * d + r) \div d = q
  BY SMT

LEMMA ProductGrows == ASSUME NEW d \in Nat, NEW u \in Nat, NEW v \in Nat, u <= v
                      PROVE  u * d <= v * d
  BY SMT

LEMMA NestedDivision == ASSUME NEW x \in Nat, NEW d \in Nat, d > 1
                        PROVE  /\ x \div 1 = x
                               /\ x \div (d * d) = (x \div d) \div d
                               /\ x \div (d * d * d) = ((x \div d) \div d) \div d
                               /\ x < d * (d * d * d) => ((x \div d) \div d) \div d < d
<1>1. x \div 1 = x
  BY SMT
<1>2. \A y \in Nat : \A c \in Nat : c > 0 => y \div (d * c) = (y \div d) \div c
  BY SMT
<1>3. x \div (d * d) = (x \div d) \div d
  BY SMT
<1>4. d * d * d = d * (d * d) /\ d * d \in Nat /\ d * d > 0
  BY SMT
<1>5. x \div d \in Nat
  BY Division
<1>6. x \div (d * d * d) = ((x \div d) \div d) \div d
  BY <1>2, <1>4, <1>5
<1>7. \A y \in Nat : \A c \in Nat : y < d * c => y \div d < c
  BY SMT
<1>8. x < d * (d * (d * d)) => ((x \div d) \div d) \div d < d
  BY <1>4, <1>5, <1>7, Division
<1> QED
  BY <1>1, <1>3, <1>4, <1>6, <1>8

\* Pages of addresses.
LEMMA PageFacts == ASSUME NEW a \in Nat
                   PROVE  /\ PageOf(a) \in Nat
                          /\ PageOf(a) * PageWords <= a /\ a < (PageOf(a) + 1) * PageWords
<1>1. PageWords \in Nat /\ PageWords > 0
  BY SeventhFacts
<1>2. \A q \in Nat : q * PageWords = PageWords * q /\ (q + 1) * PageWords = PageWords * q + PageWords
  BY <1>1, SMT
<1> QED
  BY <1>1, <1>2, Division DEF PageOf

LEMMA PageIs == ASSUME NEW q \in Nat, NEW r \in 0 .. PageWords - 1
                PROVE  PageOf(q * PageWords + r) = q
  BY SeventhFacts, Quotient DEF PageOf

LEMMA PageGrows == ASSUME NEW a \in Nat, NEW z \in Nat, a <= z
                   PROVE  PageOf(a) <= PageOf(z)
<1>1. SUFFICES ASSUME PageOf(a) > PageOf(z)
               PROVE  FALSE
  BY PageFacts
<1>2. (PageOf(z) + 1) * PageWords <= PageOf(a) * PageWords
  <2> DEFINE u == PageOf(z) + 1
             v == PageOf(a)
  <2>1. u \in Nat /\ v \in Nat /\ u <= v
    BY <1>1, PageFacts
  <2> HIDE DEF u, v
  <2>2. u * PageWords <= v * PageWords
    BY <2>1, SeventhFacts, ProductGrows
  <2> QED
    BY <2>2 DEF u, v
<1> DEFINE x == (PageOf(z) + 1) * PageWords
           y == PageOf(a) * PageWords
<1>3. x <= y /\ z < x /\ y <= a /\ x \in Int /\ y \in Int
  BY <1>2, PageFacts, SeventhFacts
<1> HIDE DEF x, y
<1> QED
  BY <1>3

\* A page is named by its path: two of them part somewhere on the way.
LEMMA PathsDiffer == ASSUME NEW p \in Pages, NEW q \in Pages
                     PROVE  /\ Path(4, p) = Path(4, q) => p = q
                            /\ \A level \in 1 .. 3 : Path(level, p) # Path(4, q)
<1>1. Fan \in Nat /\ Fan > 1 /\ p \in Nat /\ q \in Nat
  BY TableSearchAssumption DEF Pages
<1> DEFINE F == Fan
           D(x) == x \div F
           DD(x) == (x \div F) \div F
           DDD(x) == ((x \div F) \div F) \div F
<1>2. \A x \in Pages : /\ Index(1, x) = DDD(x) % F /\ Index(2, x) = DD(x) % F
                       /\ Index(3, x) = D(x) % F /\ Index(4, x) = x % F
                       /\ DDD(x) % F = DDD(x)
  <2> TAKE x \in Pages
  <2>1. x \in Nat /\ x < F * (F * F * F)
    BY <1>1, TableSearchAssumption DEF Pages, Span
  <2>2. /\ x \div (F * F) = DD(x) /\ x \div (F * F * F) = DDD(x)
        /\ x \div 1 = x /\ DDD(x) < F
    BY <1>1, <2>1, NestedDivision
  <2>3. DDD(x) \in Nat
    BY <1>1, <2>1, Division
  <2>4. DDD(x) % F = DDD(x)
    BY <1>1, <2>2, <2>3, SMT
  <2> QED
    BY <2>2, <2>4 DEF Index, Span
<1>3. ASSUME Path(4, p) = Path(4, q)
      PROVE  p = q
  <2>1. \A n \in 1 .. 4 : Index(n, p) = Index(n, q)
    BY <1>3 DEF Path
  <2>2. DDD(p) = DDD(q)
    BY <1>2, <2>1
  <2>3. \A x, y \in Nat : D(x) = D(y) /\ x % F = y % F => x = y
    BY <1>1, Division
  <2>4. \A x \in Nat : D(x) \in Nat
    BY <1>1, Division
  <2>5. DD(p) = DD(q)
    BY <1>1, <1>2, <2>1, <2>2, <2>3, <2>4
  <2>6. D(p) = D(q)
    BY <1>1, <1>2, <2>1, <2>5, <2>3, <2>4
  <2> QED
    BY <1>1, <1>2, <2>1, <2>6, <2>3
<1>4. \A level \in 1 .. 3 : Path(level, p) # Path(4, q)
  BY DEF Path
<1> QED
  BY <1>3, <1>4

\* What the search relies on in the kernel's table: entry 0 is in use, and PES,
\* which may be there already, is in no entry that the search looks at.
KernelTable ==
    /\ 0 \notin NiEntries
    /\ First > 1
    /\ SecondFree
    /\ AppNumber \notin Markers

\* The page tables are built of tables above and pages below, and the pages where
\* the table lies are there.
MemoryInv ==
    /\ entry \in [Paths -> {"none", "table", "page"}]
    /\ \A p \in Pages : /\ Entry(1, p) # "page" /\ Entry(2, p) # "page"
                        /\ Entry(4, p) # "table"
    /\ sys_call_table \in Places
    /\ filling \in Fillings
    /\ \A p \in TablePages(sys_call_table) : Translates(p)

\* The search is not behind the table, and what it is about to read is there.
PlaceInv ==
    /\ scan \in {"idle", "page", "second", "match", "found"}
    /\ k \in Start .. PageOf(sys_call_table)
    /\ i \in 0 .. PageWords - 1
    /\ hacked_syscall_tbl \in {NULL, sys_call_table}
    /\ scan # "idle" => Idle /\ usctm = "out"
    /\ scan = "page" => i = 0
    /\ scan \in {"page", "second", "match"} => k * PageWords + i <= sys_call_table
    /\ scan \in {"second", "match"} => Translates(k)
    /\ scan = "match" => Translates(PageOf(k * PageWords + i + Seventh))
    /\ scan = "found" => hacked_syscall_tbl = sys_call_table

SearchInv == TableInv /\ NumberInv /\ MemoryInv /\ PlaceInv

LEMMA EntryType == ASSUME entry \in [Paths -> {"none", "table", "page"}], NEW p \in Pages
                   PROVE  \A level \in 1 .. 4 : /\ Path(level, p) \in Paths
                                               /\ Entry(level, p) \in {"none", "table", "page"}
  BY DEF Paths, Entry

\* sys_vtpmo tells what the processor would.
LEMMA ProbeIsTranslation == ASSUME MemoryInv, NEW p \in Pages
                            PROVE  sys_vtpmo(p) = NO_MAP <=> ~Translates(p)
<1>1. \A level \in 1 .. 4 : Entry(level, p) \in {"none", "table", "page"}
  BY EntryType DEF MemoryInv
<1>2. Entry(1, p) # "page" /\ Entry(2, p) # "page" /\ Entry(4, p) # "table"
  BY DEF MemoryInv
<1>3. Translates(p) <=> /\ Entry(1, p) = "table" /\ Entry(2, p) = "table"
                        /\ \/ Entry(3, p) = "page"
                           \/ Entry(3, p) = "table" /\ Entry(4, p) = "page"
  BY <1>1, <1>2 DEF Translates
<1>4. p # NO_MAP
  BY TableSearchAssumption DEF Pages, NO_MAP
<1> QED
  BY <1>1, <1>2, <1>3, <1>4 DEF sys_vtpmo

\* The table, and all that the search reads before it is there, lies below the
\* area where modules come and go.
LEMMA TablePlace == ASSUME MemoryInv
    PROVE  /\ sys_call_table \in Nat
           /\ TablePages(sys_call_table) \subseteq Pages
           /\ PageOf(sys_call_table) \in TablePages(sys_call_table)
           /\ \A q \in Pages : q <= PageOf(sys_call_table + LastEntry) => q \notin ModuleArea
<1> DEFINE from == PageOf(sys_call_table)
           to == PageOf(sys_call_table + LastEntry)
<1>1. sys_call_table \in Nat /\ sys_call_table + LastEntry \in Nat
  BY TableSearchAssumption, SyscallTableAssumption DEF MemoryInv
<1>2. from \in Nat /\ to \in Nat /\ from <= to
  BY <1>1, PageFacts, PageGrows, SyscallTableAssumption
<1>3. TablePages(sys_call_table) \subseteq Image
  BY TableSearchAssumption DEF MemoryInv
<1>4. TablePages(sys_call_table) = from .. to
  BY DEF TablePages
<1> HIDE DEF from, to
<1>5. from \in TablePages(sys_call_table) /\ to \in Image
  BY <1>2, <1>3, <1>4
<1>6. \A q \in Pages : q <= to => q \notin ModuleArea
  <2>1. \A q \in Pages : q \in Nat
    BY TableSearchAssumption DEF Pages
  <2>2. \A q \in ModuleArea : to < q
    BY <1>5, TableSearchAssumption
  <2> QED
    BY <1>2, <2>1, <2>2
<1> QED
  BY <1>1, <1>3, <1>5, <1>6, TableSearchAssumption DEF from, to

\* A module that comes or goes changes no other page, and no table of pages.
LEMMA RemapKeeps == ASSUME MemoryInv, NEW p \in ModuleArea, RemapModule(p)
    PROVE  /\ MemoryInv'
           /\ \A q \in Pages \ {p} : Translates(q)' <=> Translates(q)
<1>1. p \in Pages
  BY TableSearchAssumption
<1>2. entry' = [entry EXCEPT ![Path(4, p)] = IF @ = "page" THEN "none" ELSE "page"]
  BY DEF RemapModule
<1>3. \A q \in Pages, level \in 1 .. 4 :
          q # p \/ level # 4 => Entry(level, q)' = Entry(level, q)
  <2> TAKE q \in Pages, level \in 1 .. 4
  <2> HAVE q # p \/ level # 4
  <2>1. Path(level, q) # Path(4, p)
    BY <1>1, PathsDiffer
  <2>2. Path(level, q) \in Paths
    BY EntryType DEF MemoryInv
  <2> QED
    BY <1>2, <2>1, <2>2 DEF Entry, MemoryInv
<1>4. \A q \in Pages \ {p} : Translates(q)' <=> Translates(q)
  BY <1>3 DEF Translates
<1>5. entry' \in [Paths -> {"none", "table", "page"}]
  BY <1>2 DEF MemoryInv
<1>6. \A q \in Pages : Entry(1, q)' # "page" /\ Entry(2, q)' # "page" /\ Entry(4, q)' # "table"
  <2> TAKE q \in Pages
  <2>1. Entry(1, q)' # "page" /\ Entry(2, q)' # "page"
    BY <1>3 DEF MemoryInv
  <2>2. CASE q # p
    BY <1>3, <2>1, <2>2 DEF MemoryInv
  <2>3. CASE q = p
    <3>1. Path(4, p) \in Paths
      BY <1>1, EntryType DEF MemoryInv
    <3> QED
      BY <1>2, <2>1, <2>3, <3>1 DEF Entry, MemoryInv
  <2> QED
    BY <2>2, <2>3
<1>7. UNCHANGED <<sys_call_table, filling>>
  BY DEF RemapModule
<1>8. \A q \in TablePages(sys_call_table) : Translates(q)'
  <2>1. \A q \in TablePages(sys_call_table) : q \in Image /\ q \in Pages
    BY TablePlace, TableSearchAssumption DEF MemoryInv
  <2>2. \A q \in Image : q # p
    BY TableSearchAssumption DEF Pages
  <2> QED
    BY <1>4, <2>1, <2>2 DEF MemoryInv
<1> QED
  BY <1>4, <1>5, <1>6, <1>7, <1>8 DEF MemoryInv, TablePages

\* A page is where its large page or its own entry is, as the tables are built.
LEMMA MemoryInvInit == SearchInit => MemoryInv
<1> SUFFICES ASSUME SearchInit
             PROVE  MemoryInv
  OBVIOUS
<1>1. PICK large \in SUBSET Image, small \in SUBSET Image, left \in {"none", "page"} :
          /\ \A p \in large : {q \in Pages : Path(3, q) = Path(3, p)} \subseteq large
          /\ \A p \in small : {q \in large : Path(3, q) = Path(3, p)} = {}
          /\ TablePages(sys_call_table) \subseteq large \cup small
          /\ entry = TablesFor(large, small, left)
  BY DEF SearchInit
<1> DEFINE has(path, S) == \E p \in S : Path(Len(path), p) = path
           Kind(path) == CASE Len(path) < 3 /\ has(path, Image \cup ModuleArea) -> "table"
              [] Len(path) = 3 /\ has(path, large) -> "page"
              [] Len(path) = 3 /\ has(path, small \cup ModuleArea) -> "table"
              [] Len(path) = 4 /\ has(path, small) -> "page"
              [] Len(path) = 4 /\ has(path, large) -> left
              [] OTHER -> "none"
<1>2. entry = [path \in Paths |-> Kind(path)]
  BY <1>1 DEF TablesFor
<1>3. \A p \in Pages, level \in 1 .. 4 : Path(level, p) \in Paths /\ Len(Path(level, p)) = level
  BY DEF Paths, Path
<1>4. \A path : Kind(path) \in {"none", "table", "page"}
  OBVIOUS
<1>5. \A path : /\ Len(path) \in {1, 2} => Kind(path) # "page"
                /\ Len(path) = 4 => Kind(path) # "table"
  <2> HIDE DEF has
  <2>1. \A path : Len(path) = 1 \/ Len(path) = 2 => Kind(path) \in {"table", "none"}
    OBVIOUS
  <2>2. \A path : Len(path) = 4 => Kind(path) \in {"page", "none"}
    OBVIOUS
  <2> QED
    BY <2>1, <2>2
<1>6. \A path : Len(path) \in {1, 2} =>
          (has(path, Image \cup ModuleArea) => Kind(path) = "table")
  <2> HIDE DEF has
  <2> SUFFICES ASSUME NEW path, Len(path) \in {1, 2}, has(path, Image \cup ModuleArea)
               PROVE  Kind(path) = "table"
    OBVIOUS
  <2>1. Len(path) < 3 /\ Len(path) # 3 /\ Len(path) # 4
    <3> DEFINE n == Len(path)
    <3> HIDE DEF n
    <3>1. n \in {1, 2}
      BY DEF n
    <3>2. n < 3 /\ n # 3 /\ n # 4
      BY <3>1
    <3> QED
      BY <3>2 DEF n
  <2> QED
    BY <2>1
<1>7. \A path : Len(path) = 3 =>
          /\ has(path, large) /\ ~has(path, small \cup ModuleArea) => Kind(path) = "page"
          /\ ~has(path, large) /\ has(path, small \cup ModuleArea) => Kind(path) = "table"
  <2> HIDE DEF has
  <2> SUFFICES ASSUME NEW path, Len(path) = 3
               PROVE  /\ has(path, large) /\ ~has(path, small \cup ModuleArea) => Kind(path) = "page"
                      /\ ~has(path, large) /\ has(path, small \cup ModuleArea) => Kind(path) = "table"
    OBVIOUS
  <2>1. ~(Len(path) < 3) /\ Len(path) # 4
    OBVIOUS
  <2> QED
    BY <2>1
<1>8. \A path : Len(path) = 4 =>
          (has(path, small) /\ ~has(path, large) => Kind(path) = "page")
  <2> HIDE DEF has
  <2> SUFFICES ASSUME NEW path, Len(path) = 4, has(path, small), ~has(path, large)
               PROVE  Kind(path) = "page"
    OBVIOUS
  <2>1. ~(Len(path) < 3) /\ Len(path) # 3
    OBVIOUS
  <2> QED
    BY <2>1
<1>9. ASSUME NEW S, NEW p \in S, p \in Pages, NEW level \in 1 .. 4
      PROVE  has(Path(level, p), S)
  <2>1. Len(Path(level, p)) = level
    BY <1>3, <1>9
  <2>2. Path(Len(Path(level, p)), p) = Path(level, p)
    BY <2>1
  <2> QED
    BY <2>2
<1>10. ASSUME NEW p \in large
      PROVE  Kind(Path(1, p)) = "table" /\ Kind(Path(2, p)) = "table" /\ Kind(Path(3, p)) = "page"
  <2>1. p \in Pages /\ p \in Image
    BY TableSearchAssumption
  <2>2. /\ has(Path(1, p), Image \cup ModuleArea) /\ has(Path(2, p), Image \cup ModuleArea)
        /\ has(Path(3, p), large)
    <3> HIDE DEF has
    <3>1. p \in Image \cup ModuleArea
      BY <2>1
    <3> QED
      BY <1>9, <2>1, <3>1
  <2>3. ~has(Path(3, p), small \cup ModuleArea)
    <3>1. Len(Path(3, p)) = 3
      BY <1>3, <2>1
    <3>2. \A q \in small : Path(3, q) # Path(3, p)
      BY <1>1
    <3>3. \A q \in ModuleArea : Path(3, q) # Path(3, p)
      <4> SUFFICES ASSUME NEW q \in ModuleArea, Path(3, q) = Path(3, p)
                   PROVE  FALSE
        OBVIOUS
      <4>1. q \in Pages /\ q \in Image
        BY <1>1, TableSearchAssumption
      <4> QED
        BY <4>1, TableSearchAssumption DEF Pages
    <3> QED
      BY <3>1, <3>2, <3>3
  <2> HIDE DEF has, Kind
  <2> QED
    BY <1>3, <1>6, <1>7, <2>1, <2>2, <2>3
<1>11. ASSUME NEW p \in small
      PROVE  /\ Kind(Path(1, p)) = "table" /\ Kind(Path(2, p)) = "table" /\ Kind(Path(3, p)) = "table"
             /\ Kind(Path(4, p)) = "page"
  <2>1. p \in Pages /\ p \in Image
    BY TableSearchAssumption
  <2>2. /\ has(Path(1, p), Image \cup ModuleArea) /\ has(Path(2, p), Image \cup ModuleArea)
        /\ has(Path(3, p), small \cup ModuleArea) /\ has(Path(4, p), small)
    <3> HIDE DEF has
    <3>1. p \in Image \cup ModuleArea /\ p \in small \cup ModuleArea
      BY <2>1
    <3> QED
      BY <1>9, <2>1, <3>1
  <2>3. ~has(Path(3, p), large)
    <3>1. Len(Path(3, p)) = 3
      BY <1>3, <2>1
    <3>2. \A q \in large : Path(3, q) # Path(3, p)
      BY <1>1
    <3> QED
      BY <3>1, <3>2
  <2>4. ~has(Path(4, p), large)
    <3>1. Len(Path(4, p)) = 4
      BY <1>3, <2>1
    <3>2. \A q \in large : Path(4, q) # Path(4, p)
      <4> SUFFICES ASSUME NEW q \in large, Path(4, q) = Path(4, p)
                   PROVE  FALSE
        OBVIOUS
      <4>1. q = p
        BY <2>1, PathsDiffer, TableSearchAssumption
      <4> QED
        BY <1>1, <4>1
    <3> QED
      BY <3>1, <3>2
  <2> HIDE DEF has, Kind
  <2> QED
    BY <1>3, <1>6, <1>7, <1>8, <2>1, <2>2, <2>3, <2>4
<1> HIDE DEF Kind, has
<1>12. \A p \in Pages, level \in 1 .. 4 : Entry(level, p) = Kind(Path(level, p))
  BY <1>2, <1>3 DEF Entry
<1>13. \A p \in TablePages(sys_call_table) : Translates(p)
  <2> TAKE p \in TablePages(sys_call_table)
  <2>1. p \in large \/ p \in small
    BY <1>1
  <2>2. p \in Pages
    BY <2>1, TableSearchAssumption
  <2>3. CASE p \in large
    BY <1>10, <1>12, <2>2, <2>3 DEF Translates
  <2>4. CASE p \in small
    BY <1>11, <1>12, <2>2, <2>4 DEF Translates
  <2> QED
    BY <2>1, <2>3, <2>4
<1>14. \A p \in Pages : Entry(1, p) # "page" /\ Entry(2, p) # "page" /\ Entry(4, p) # "table"
  BY <1>3, <1>5, <1>12
<1>15. entry \in [Paths -> {"none", "table", "page"}]
  BY <1>2, <1>4
<1> QED
  BY <1>13, <1>14, <1>15 DEF MemoryInv, SearchInit

\* The table that the search runs over: the marked entries are free, the entries
\* before the first of them hold handlers that no other entry holds.
LEMMA TableFacts == ASSUME KernelTable, TableInv, NumberInv, usctm = "out"
    PROVE  /\ \A m \in Markers : m \in Entries /\ table[m] = NiSyscall
           /\ \A e \in 0 .. First - 1 : e \in Entries /\ table[e] = e
           /\ \A e \in Entries : First <= e => table[e] \notin 0 .. First - 1
<1>1. /\ \A e \in Entries \ {First} : table[e] = Original[e] \/ (table[e] = SysPes /\ e = restore /\ pes # "out")
      /\ table[First] = NiSyscall
  BY DEF TableInv, OthersInv, FirstInv
<1>2. pes # "out" => restore = AppNumber
  BY DEF NumberInv
<1>3. AppNumber \in NiEntries /\ AppNumber \notin Markers
  BY DEF KernelTable, SecondFree
<1>4. \A m \in Markers : m \in Entries /\ table[m] = NiSyscall
  <2> TAKE m \in Markers
  <2>1. m \in NiEntries /\ m \in Entries
    BY SyscallTableAssumption
  <2> QED
    BY <1>1, <1>2, <1>3, <2>1, KernelFacts
<1>5. \A e \in 0 .. First - 1 : e \in Entries /\ table[e] = e
  <2> TAKE e \in 0 .. First - 1
  <2>1. e \in Entries \ {First}
    BY SeventhFacts, SyscallTableAssumption DEF Entries
  <2>2. e \notin NiEntries
    <3>1. e = 0 \/ e \in 1 .. First - 1
      BY SeventhFacts
    <3> QED
      BY <3>1, SyscallTableAssumption DEF KernelTable
  <2> QED
    BY <1>1, <1>2, <1>3, <2>1, <2>2, KernelFacts
<1>6. \A e \in Entries : First <= e => table[e] \notin 0 .. First - 1
  <2> TAKE e \in Entries
  <2> HAVE First <= e
  <2>1. NiSyscall \notin 0 .. First - 1 /\ SysPes \notin 0 .. First - 1 /\ e \notin 0 .. First - 1
    BY SeventhFacts, KernelFacts DEF NiSyscall, SysPes
  <2>2. table[e] \in {NiSyscall, SysPes, e}
    BY <1>1, KernelFacts
  <2> QED
    BY <2>1, <2>2
<1> QED
  BY <1>4, <1>5, <1>6

LEMMA WordFacts == ASSUME MemoryInv
    PROVE  /\ \A a \in Nat : a < sys_call_table => Word(a) = filling
           /\ \A e \in Entries : Word(sys_call_table + e) = table[e]
           /\ \A a \in Nat :
                  Word(a) = filling \/ (a - sys_call_table \in Entries /\ Word(a) = table[a - sys_call_table])
           /\ filling \in {Zero, Low, Odd, Datum}
<1>1. sys_call_table \in Nat /\ filling \in {Zero, Low, Odd, Datum}
  BY TablePlace, TableSearchAssumption DEF MemoryInv
<1>2. \A a \in Nat : a < sys_call_table => a - sys_call_table \notin Entries
  BY <1>1, SyscallTableAssumption DEF Entries
<1>3. \A e \in Entries : (sys_call_table + e) - sys_call_table = e
  BY <1>1, KernelFacts
<1> QED
  BY <1>1, <1>2, <1>3 DEF Word

\* Nothing before the table looks like it: outside of it the first marked word has
\* the same content as the second word, inside of it a content that is unique.
LEMMA NoEarlyMatch ==
    ASSUME KernelTable, TableInv, NumberInv, MemoryInv, usctm = "out",
           NEW a \in Nat, a < sys_call_table
    PROVE  ~Matches(a)
<1>1. sys_call_table \in Nat /\ First \in Nat /\ First > 1
  BY TablePlace, SeventhFacts DEF KernelTable
<1>2. CASE a + First < sys_call_table
  <2>1. a + 1 < sys_call_table /\ a + 1 \in Nat /\ a + First \in Nat
    BY <1>1, <1>2
  <2>2. Word(a + 1) = Word(a + First)
    BY <1>2, <2>1, WordFacts
  <2>3. 1 \in 1 .. First - 1
    BY <1>1
  <2> QED
    BY <2>2, <2>3 DEF Matches, good_area
<1>3. CASE sys_call_table <= a + First
  <2> DEFINE e == (a + First) - sys_call_table
             z == (a + Seventh) - sys_call_table
  <2>1. e \in 0 .. First - 1 /\ e < z /\ z \in Nat
    BY <1>1, <1>3, SeventhFacts
  <2>2. e \in Entries /\ table[e] = e
    BY <2>1, TableFacts
  <2>3. Word(a + First) = e
    <3>1. sys_call_table + e = a + First
      BY <1>1
    <3> QED
      BY <2>2, <3>1, WordFacts
  <2>4. Word(a + Seventh) # e
    <3>1. a + Seventh \in Nat
      BY SeventhFacts
    <3>2. filling # e
      <4> HIDE DEF e
      <4> QED
        BY <2>1, WordFacts DEF Zero, Low, Odd, Datum
    <3>3. z \in Entries => table[z] # e
      <4>1. CASE First <= z
        BY <2>1, <4>1, TableFacts
      <4>2. CASE z < First
        <5>1. z \in 0 .. First - 1
          BY <1>1, <2>1, <4>2
        <5>2. table[z] = z
          BY <5>1, TableFacts
        <5> HIDE DEF e, z
        <5> QED
          BY <2>1, <5>2
      <4> HIDE DEF e, z
      <4>3. First <= z \/ z < First
        BY <1>1, <2>1
      <4> QED
        BY <4>1, <4>2, <4>3
    <3> QED
      BY <3>1, <3>2, <3>3, WordFacts
  <2> QED
    BY <2>3, <2>4, SeventhFacts DEF Matches
<1>4. a + First < sys_call_table \/ sys_call_table <= a + First
  BY <1>1
<1> QED
  BY <1>2, <1>3, <1>4

\* The table itself does, PES or no PES.
LEMMA MatchAtTable ==
    ASSUME KernelTable, TableInv, NumberInv, MemoryInv, usctm = "out"
    PROVE  Matches(sys_call_table)
<1>1. /\ First \in Entries /\ First \in Markers
      /\ \A m \in Markers : m \in Entries /\ Word(sys_call_table + m) = NiSyscall
  BY TableFacts, WordFacts, SyscallTableAssumption
<1>2. NiSyscall \notin {Zero, Low, Odd}
  BY DEF NiSyscall, Zero, Low, Odd
<1>3. \A e \in 1 .. First - 1 : Word(sys_call_table + e) # NiSyscall
  <2> TAKE e \in 1 .. First - 1
  <2>1. e \in 0 .. First - 1
    BY SeventhFacts
  <2>2. Word(sys_call_table + e) = e /\ e \in Entries
    BY <2>1, TableFacts, WordFacts
  <2> QED
    BY <2>2, HandlersDiffer
<1> QED
  BY <1>1, <1>2, <1>3 DEF Matches, good_area

\* Where the search is while it looks for the table, in pages and in words.
LEMMA SearchPlace == ASSUME MemoryInv, PlaceInv
    PROVE  /\ k \in Nat /\ i \in Nat /\ k \in Pages /\ Start \in Nat
           /\ k * PageWords \in Nat /\ (k + 1) * PageWords = k * PageWords + PageWords
           /\ PageOf(sys_call_table) \in Nat /\ PageOf(sys_call_table) < MaxAddr
<1>1. PageOf(sys_call_table) \in Pages /\ Start \in Nat /\ MaxAddr \in Nat
  BY TablePlace, TableSearchAssumption
<1>2. k \in Nat /\ i \in Nat /\ k \in Pages
  BY <1>1, SeventhFacts DEF PlaceInv, Pages
<1>3. PageOf(sys_call_table) \in Nat /\ PageOf(sys_call_table) < MaxAddr
  BY <1>1 DEF Pages
<1>4. k * PageWords \in Nat /\ (k + 1) * PageWords = k * PageWords + PageWords
  BY <1>2, SeventhFacts, SMT
<1> QED
  BY <1>1, <1>2, <1>3, <1>4

\* A page before the table's is left for the next one.
LEMMA NextPageKeeps == ASSUME MemoryInv, PlaceInv, k < PageOf(sys_call_table), NextPage
    PROVE  /\ scan' = "page" /\ i' = 0 /\ k' \in Start .. PageOf(sys_call_table)
           /\ k' * PageWords + i' <= sys_call_table
<1>1. k + 1 \in Start .. PageOf(sys_call_table) /\ k + 1 < MaxAddr /\ k + 1 \in Nat
  <2>1. Start <= k
    BY SearchPlace DEF PlaceInv
  <2>2. MaxAddr \in Nat
    BY TableSearchAssumption
  <2> QED
    BY <2>1, <2>2, SearchPlace
<1>2. (k + 1) * PageWords <= PageOf(sys_call_table) * PageWords
  BY <1>1, SearchPlace, SeventhFacts, ProductGrows
<1>3. PageOf(sys_call_table) * PageWords <= sys_call_table
  BY TablePlace, PageFacts
<1>4. (k + 1) * PageWords <= sys_call_table
  <2> DEFINE x == (k + 1) * PageWords
             y == PageOf(sys_call_table) * PageWords
  <2>1. x \in Int /\ y \in Int /\ sys_call_table \in Int /\ x <= y /\ y <= sys_call_table
    BY <1>2, <1>3, SearchPlace, SeventhFacts, TablePlace
  <2> HIDE DEF x, y
  <2>2. x <= sys_call_table
    BY <2>1
  <2> QED
    BY <2>2 DEF x
<1>5. (k + 1) * PageWords + 0 = (k + 1) * PageWords
  BY SearchPlace, SeventhFacts
<1> QED
  BY <1>1, <1>4, <1>5 DEF NextPage

\* A table that began at the word the search is at would end in this page or the
\* next; with the search not behind the table, not behind the table's end.
LEMMA LastPage ==
    ASSUME MemoryInv, PlaceInv, k * PageWords + i <= sys_call_table
    PROVE  LET last == PageOf(k * PageWords + i + Seventh)
           IN  /\ last \in {k, k + 1}
               /\ last <= PageOf(sys_call_table + LastEntry)
               /\ \A m \in 0 .. Seventh : PageOf(k * PageWords + i + m) \in {k, last}
<1> DEFINE a == k * PageWords + i
<1>1. a \in Nat /\ sys_call_table \in Nat /\ a <= sys_call_table
  BY SearchPlace, TablePlace
<1>2. \A m \in 0 .. Seventh : PageOf(a + m) \in {k, k + 1} /\ PageOf(a + m) <= PageOf(a + Seventh)
  <2> TAKE m \in 0 .. Seventh
  <2>1. PageOf(a + m) \in {k, k + 1}
    <3>1. i \in 0 .. PageWords - 1 /\ m \in Nat /\ m < PageWords /\ PageWords \in Nat
      BY SeventhFacts DEF PlaceInv
    <3>2. CASE i + m < PageWords
      <4>1. i + m \in 0 .. PageWords - 1 /\ a + m = k * PageWords + (i + m)
        BY <3>1, <3>2, SearchPlace
      <4> QED
        BY <4>1, SearchPlace, PageIs
    <3>3. CASE ~(i + m < PageWords)
      <4>1. i + m - PageWords \in 0 .. PageWords - 1
        BY <3>1, <3>3
      <4>2. a + m = (k + 1) * PageWords + (i + m - PageWords) /\ k + 1 \in Nat
        <5> DEFINE x == k * PageWords
                   y == (k + 1) * PageWords
        <5>1. x \in Nat /\ y = x + PageWords /\ i \in Nat /\ k + 1 \in Nat
          BY SearchPlace
        <5>2. a = x + i
          OBVIOUS
        <5> HIDE DEF x, y, a
        <5>3. a + m = y + (i + m - PageWords)
          BY <3>1, <5>1, <5>2
        <5> QED
          BY <5>1, <5>3 DEF y
      <4>3. PageOf((k + 1) * PageWords + (i + m - PageWords)) = k + 1
        BY <4>1, <4>2, PageIs
      <4> QED
        BY <4>2, <4>3
    <3> QED
      BY <3>2, <3>3
  <2>2. a + m \in Nat /\ a + Seventh \in Nat /\ a + m <= a + Seventh
    <3> HIDE DEF a
    <3> QED
      BY <1>1, SeventhFacts
  <2> HIDE DEF a
  <2> QED
    BY <2>1, <2>2, PageGrows
<1>3. PageOf(a + Seventh) <= PageOf(sys_call_table + LastEntry)
  <2> HIDE DEF a
  <2>1. /\ a + Seventh \in Nat /\ sys_call_table + LastEntry \in Nat
        /\ a + Seventh <= sys_call_table + LastEntry
    BY <1>1, SeventhFacts, SyscallTableAssumption
  <2> QED
    BY <2>1, PageGrows
<1>4. PageOf(a + Seventh) \in {k, k + 1}
  BY <1>2, SeventhFacts
<1>5. \A m \in 0 .. Seventh : PageOf(a + m) \in {k, PageOf(a + Seventh)}
  <2> HIDE DEF a
  <2> TAKE m \in 0 .. Seventh
  <2>1. PageOf(a + m) \in {k, k + 1} /\ PageOf(a + m) <= PageOf(a + Seventh)
    BY <1>2
  <2> QED
    BY <1>4, <2>1, SearchPlace
<1> QED
  BY <1>3, <1>4, <1>5

LEMMA MemoryStays == ASSUME MemoryInv, UNCHANGED memory
                     PROVE  MemoryInv' /\ \A q : Translates(q)' <=> Translates(q)
  BY DEF MemoryInv, memory, Entry, Translates, TablePages

\* The page the search is at is there, and so is the one it would read next.
LEMMA PagesAreKnown ==
    ASSUME MemoryInv, PlaceInv, k * PageWords + i <= sys_call_table
    PROVE  LET last == PageOf(k * PageWords + i + Seventh)
           IN  /\ last \in Pages
               /\ \A q \in {k, last} : q \notin ModuleArea
               /\ PageOf(sys_call_table) <= last => Translates(last)
               /\ k = PageOf(sys_call_table) => Translates(k)
<1> DEFINE last == PageOf(k * PageWords + i + Seventh)
           from == PageOf(sys_call_table)
           to == PageOf(sys_call_table + LastEntry)
<1>1. last \in {k, k + 1} /\ last <= to
  BY LastPage
<1>2. k \in Nat /\ k \in Pages /\ from \in Nat /\ k <= from /\ to \in Nat
  BY SearchPlace, TablePlace, PageFacts, SyscallTableAssumption DEF PlaceInv
<1>3. from <= to /\ from .. to \subseteq Pages
  <2>1. sys_call_table + LastEntry \in Nat /\ sys_call_table <= sys_call_table + LastEntry
    BY TablePlace, SyscallTableAssumption
  <2> QED
    BY <2>1, TablePlace, PageGrows DEF TablePages
<1> HIDE DEF last, from, to
<1>4. last \in Pages
  <2>1. to \in Pages
    BY <1>2, <1>3
  <2> QED
    BY <1>1, <1>2, <2>1, TableSearchAssumption DEF Pages
<1>5. \A q \in {k, last} : q \notin ModuleArea
  <2>1. k <= to
    BY <1>2, <1>3
  <2> QED
    BY <1>1, <1>2, <1>4, <2>1, TablePlace DEF to
<1>6. \A q \in from .. to : Translates(q)
  BY DEF MemoryInv, TablePages, from, to
<1>7. from <= last => Translates(last)
  BY <1>1, <1>2, <1>6
<1>8. k = from => Translates(k)
  BY <1>2, <1>3, <1>6
<1> QED
  BY <1>4, <1>5, <1>7, <1>8 DEF last, from

LEMMA ProbePageKeeps == ASSUME MemoryInv, PlaceInv, ProbePage
                        PROVE  PlaceInv'
<1>1. scan = "page" /\ i = 0 /\ k * PageWords + i <= sys_call_table /\ Idle /\ usctm = "out"
  BY DEF ProbePage, PlaceInv
<1>2. Idle' /\ usctm' = "out" /\ UNCHANGED <<sys_call_table, entry, hacked_syscall_tbl>>
  BY <1>1 DEF ProbePage, vars, usctmVars, pesVars, memory, Idle
<1>3. CASE sys_vtpmo(k) = NO_MAP
  <2>1. ~Translates(k) /\ NextPage
    BY <1>3, ProbeIsTranslation, SearchPlace DEF ProbePage
  <2>2. k < PageOf(sys_call_table)
    <3>1. k # PageOf(sys_call_table)
      BY <1>1, <2>1, PagesAreKnown
    <3> QED
      BY <3>1, SearchPlace DEF PlaceInv
  <2>3. /\ scan' = "page" /\ i' = 0 /\ k' \in Start .. PageOf(sys_call_table)
        /\ k' * PageWords + i' <= sys_call_table
    BY <2>1, <2>2, NextPageKeeps
  <2>4. 0 \in 0 .. PageWords - 1
    BY SeventhFacts
  <2> QED
    BY <1>2, <2>3, <2>4 DEF PlaceInv, PageOf
<1>4. CASE sys_vtpmo(k) # NO_MAP
  <2>1. Translates(k) /\ scan' = "second" /\ UNCHANGED <<k, i>>
    BY <1>4, ProbeIsTranslation, SearchPlace DEF ProbePage
  <2>2. Translates(k)'
    BY <1>2, <2>1 DEF Translates, Entry
  <2> QED
    BY <1>1, <1>2, <2>1, <2>2 DEF PlaceInv, PageOf
<1> QED
  BY <1>3, <1>4

LEMMA ProbeSecondKeeps == ASSUME MemoryInv, PlaceInv, ProbeSecond
                          PROVE  PlaceInv'
<1> DEFINE last == PageOf(k * PageWords + i + Seventh)
<1>1. scan = "second" /\ k * PageWords + i <= sys_call_table /\ Idle /\ usctm = "out" /\ Translates(k)
  BY DEF ProbeSecond, PlaceInv
<1>2. Idle' /\ usctm' = "out" /\ UNCHANGED <<sys_call_table, entry, hacked_syscall_tbl>>
  BY <1>1 DEF ProbeSecond, vars, usctmVars, pesVars, memory, Idle
<1>3. last \in Pages /\ last \in {k, k + 1} /\ (PageOf(sys_call_table) <= last => Translates(last))
  BY <1>1, PagesAreKnown, LastPage
<1>4. CASE last = k + 1 /\ sys_vtpmo(last) = NO_MAP
  <2>1. ~Translates(last) /\ NextPage
    BY <1>3, <1>4, ProbeIsTranslation DEF ProbeSecond
  <2>2. k < PageOf(sys_call_table)
    BY <1>3, <1>4, <2>1, SearchPlace
  <2>3. /\ scan' = "page" /\ i' = 0 /\ k' \in Start .. PageOf(sys_call_table)
        /\ k' * PageWords + i' <= sys_call_table
    BY <2>1, <2>2, NextPageKeeps
  <2>4. 0 \in 0 .. PageWords - 1
    BY SeventhFacts
  <2> QED
    BY <1>2, <2>3, <2>4 DEF PlaceInv, PageOf
<1>5. CASE ~(last = k + 1 /\ sys_vtpmo(last) = NO_MAP)
  <2>1. scan' = "match" /\ UNCHANGED <<k, i>>
    BY <1>5 DEF ProbeSecond
  <2>2. Translates(last)
    <3>1. last = k \/ sys_vtpmo(last) # NO_MAP
      BY <1>3, <1>5
    <3> QED
      BY <1>1, <1>3, <3>1, ProbeIsTranslation
  <2>3. Translates(k)' /\ Translates(last)'
    <3>1. UNCHANGED memory
      BY DEF ProbeSecond
    <3>2. last' = last
      BY <2>1 DEF PageOf
    <3> HIDE DEF last
    <3> QED
      BY <1>1, <2>1, <2>2, <3>1, <3>2, MemoryStays
  <2> QED
    BY <1>1, <1>2, <2>1, <2>3 DEF PlaceInv, PageOf
<1> QED
  BY <1>4, <1>5

LEMMA MatchWordKeeps == ASSUME KernelTable, SearchInv, MatchWord
                        PROVE  PlaceInv'
<1> DEFINE a == k * PageWords + i
           last == PageOf(a + Seventh)
<1> USE DEF SearchInv
<1>1. /\ scan = "match" /\ a <= sys_call_table /\ Idle /\ usctm = "out"
      /\ Translates(k) /\ Translates(last)
  BY DEF MatchWord, PlaceInv
<1>2. Idle' /\ usctm' = "out" /\ UNCHANGED memory
  BY <1>1 DEF MatchWord, vars, usctmVars, pesVars, Idle
<1>3. \A m \in MarkersRead(a) : Translates(PageOf(a + m))
  <2> TAKE m \in MarkersRead(a)
  <2>1. m \in 0 .. Seventh
    BY SeventhFacts DEF MarkersRead
  <2>2. PageOf(a + m) \in {k, last}
    BY <1>1, <2>1, LastPage
  <2> HIDE DEF a, last
  <2> QED
    BY <1>1, <2>2
<1>4. a \in Nat /\ sys_call_table \in Nat
  BY SearchPlace, TablePlace
<1>5. Matches(a) <=> a = sys_call_table
  <2> HIDE DEF a
  <2>1. a < sys_call_table \/ a = sys_call_table
    BY <1>1, <1>4
  <2> QED
    BY <1>1, <1>4, <2>1, NoEarlyMatch, MatchAtTable
<1>6. CASE Matches(a)
  <2>1. scan' = "found" /\ hacked_syscall_tbl' = a /\ UNCHANGED <<k, i>>
    BY <1>3, <1>6 DEF MatchWord
  <2>2. hacked_syscall_tbl' = sys_call_table
    BY <1>5, <1>6, <2>1
  <2> QED
    BY <1>2, <2>1, <2>2 DEF PlaceInv, memory, PageOf
<1>7. CASE ~Matches(a) /\ i + 1 < PageWords
  <2>1. scan' = "second" /\ i' = i + 1 /\ UNCHANGED <<k, hacked_syscall_tbl>>
    BY <1>3, <1>7 DEF MatchWord
  <2>2. k * PageWords + (i + 1) <= sys_call_table /\ i + 1 \in 0 .. PageWords - 1
    <3>1. a # sys_call_table
      BY <1>5, <1>7
    <3>2. a + 1 <= sys_call_table
      <4> HIDE DEF a
      <4> QED
        BY <1>1, <1>4, <3>1
    <3>3. k * PageWords + (i + 1) = a + 1
      BY SearchPlace
    <3> QED
      BY <1>7, <3>2, <3>3, SearchPlace, SeventhFacts
  <2>3. Translates(k)'
    BY <1>1, <1>2, <2>1, MemoryStays
  <2> QED
    BY <1>2, <2>1, <2>2, <2>3 DEF PlaceInv, memory, PageOf
<1>8. CASE ~Matches(a) /\ ~(i + 1 < PageWords)
  <2>1. NextPage /\ UNCHANGED hacked_syscall_tbl
    BY <1>3, <1>8 DEF MatchWord
  <2>2. k < PageOf(sys_call_table)
    <3>1. i + 1 = PageWords /\ (k + 1) * PageWords = k * PageWords + PageWords /\ k + 1 \in Nat
      BY <1>8, SearchPlace, SeventhFacts DEF PlaceInv
    <3>2. a + 1 = (k + 1) * PageWords
      BY <3>1, SearchPlace
    <3>3. a + 1 <= sys_call_table
      <4>1. a # sys_call_table
        BY <1>5, <1>8
      <4> HIDE DEF a
      <4> QED
        BY <1>1, <1>4, <4>1
    <3>4. PageOf(a + 1) = k + 1
      <4>1. (k + 1) * PageWords = (k + 1) * PageWords + 0 /\ 0 \in 0 .. PageWords - 1
        BY <3>1, SearchPlace, SeventhFacts
      <4>2. PageOf((k + 1) * PageWords + 0) = k + 1
        BY <3>1, <4>1, PageIs
      <4> QED
        BY <3>2, <4>1, <4>2
    <3>5. k + 1 <= PageOf(sys_call_table)
      <4>1. a + 1 \in Nat
        BY <1>4
      <4> HIDE DEF a
      <4> QED
        BY <1>4, <3>3, <3>4, <4>1, PageGrows
    <3> QED
      BY <3>5, SearchPlace
  <2>3. /\ scan' = "page" /\ i' = 0 /\ k' \in Start .. PageOf(sys_call_table)
        /\ k' * PageWords + i' <= sys_call_table
    BY <2>1, <2>2, NextPageKeeps
  <2>4. 0 \in 0 .. PageWords - 1
    BY SeventhFacts
  <2> QED
    BY <1>2, <2>1, <2>3, <2>4 DEF PlaceInv, PageOf, memory
<1> QED
  BY <1>6, <1>7, <1>8

LEMMA RemapPlaceKeeps == ASSUME MemoryInv, PlaceInv, NEW p \in ModuleArea, RemapModule(p)
                         PROVE  PlaceInv'
<1> DEFINE last == PageOf(k * PageWords + i + Seventh)
<1>1. UNCHANGED <<vars, sys_call_table, filling, searchVars>>
  BY DEF RemapModule
<1>2. UNCHANGED <<pes, usctm, scan, k, i, hacked_syscall_tbl, sys_call_table>>
  BY <1>1 DEF vars, usctmVars, pesVars, searchVars
<1>3. \A q \in Pages \ {p} : Translates(q)' <=> Translates(q)
  BY RemapKeeps
<1>4. last' = last
  BY <1>2 DEF PageOf
<1>5. scan \in {"second", "match"} => Translates(k)'
  <2> SUFFICES ASSUME scan \in {"second", "match"}
               PROVE  Translates(k)'
    OBVIOUS
  <2>1. k * PageWords + i <= sys_call_table /\ Translates(k)
    BY DEF PlaceInv
  <2>2. k \in Pages \ {p}
    BY <2>1, SearchPlace, PagesAreKnown
  <2> QED
    BY <1>2, <1>3, <2>1, <2>2
<1>6. scan = "match" => Translates(last)'
  <2> SUFFICES ASSUME scan = "match"
               PROVE  Translates(last)'
    OBVIOUS
  <2>1. k * PageWords + i <= sys_call_table /\ Translates(last)
    BY DEF PlaceInv
  <2>2. last \in Pages \ {p}
    BY <2>1, PagesAreKnown
  <2> HIDE DEF last
  <2> QED
    BY <1>3, <1>4, <2>1, <2>2
<1> QED
  BY <1>2, <1>5, <1>6 DEF PlaceInv, Idle, PageOf

\* What the search found is the table, and as USCTM knows it.
LEMMA FoundIsRecognised == ASSUME KernelTable, TableInv, NumberInv, usctm = "out"
                           PROVE  Recognised
<1>1. \A m \in Markers : table[m] = NiSyscall
  BY TableFacts
<1>2. First \in Markers
  BY SyscallTableAssumption
<1>3. \A e \in 1 .. First - 1 : table[e] # NiSyscall
  <2> TAKE e \in 1 .. First - 1
  <2>1. e \in 0 .. First - 1
    BY SeventhFacts
  <2>2. e \in Entries /\ table[e] = e
    BY <2>1, TableFacts
  <2> QED
    BY <2>2, HandlersDiffer
<1> QED
  BY <1>1, <1>2, <1>3 DEF Recognised

LEMMA SearchInvInit == SearchInit => SearchInv
<1> SUFFICES ASSUME SearchInit
             PROVE  PlaceInv /\ NumberInv
  BY MemoryInvInit, TableInvInit DEF SearchInit, SearchInv
<1>1. NumberInv
  BY DEF SearchInit, Init, NumberInv
<1>2. Start \in Start .. PageOf(sys_call_table)
  BY MemoryInvInit, TablePlace, TableSearchAssumption DEF Pages
<1>3. 0 \in 0 .. PageWords - 1
  BY SeventhFacts
<1> QED
  BY <1>1, <1>2, <1>3 DEF SearchInit, PlaceInv

\* Every step of the search is a step of SyscallTable or none at all.
LEMMA SearchStep == ASSUME KernelTable, SearchInv, [SearchNext]_<<vars, memory, searchVars>>
                    PROVE  [Next]_vars /\ MemoryInv' /\ PlaceInv'
<1> USE DEF SearchInv
<1>1. CASE StartSearch
  <2>1. UNCHANGED <<vars, memory>> /\ MemoryInv'
    BY <1>1, MemoryStays DEF StartSearch
  <2>2. Start \in Start .. PageOf(sys_call_table) /\ 0 \in 0 .. PageWords - 1
    BY TablePlace, SeventhFacts, TableSearchAssumption DEF Pages
  <2>3. Start * PageWords + 0 <= sys_call_table
    <3> DEFINE x == Start * PageWords
               y == PageOf(sys_call_table) * PageWords
    <3>1. Start \in Nat /\ Start <= PageOf(sys_call_table) /\ PageOf(sys_call_table) \in Nat
      BY SearchPlace, <2>2
    <3>2. x <= y /\ y <= sys_call_table
      BY <3>1, TablePlace, PageFacts, SeventhFacts, ProductGrows
    <3>3. x \in Int /\ y \in Int /\ sys_call_table \in Int
      BY <3>1, TablePlace, SeventhFacts
    <3> HIDE DEF x, y
    <3>4. x + 0 <= sys_call_table
      BY <3>2, <3>3
    <3> QED
      BY <3>4 DEF x
  <2> QED
    BY <1>1, <2>1, <2>2, <2>3
       DEF StartSearch, PlaceInv, vars, usctmVars, pesVars, memory, Idle, PageOf
<1>2. CASE ProbePage
  BY <1>2, MemoryStays, ProbePageKeeps DEF ProbePage
<1>3. CASE ProbeSecond
  BY <1>3, MemoryStays, ProbeSecondKeeps DEF ProbeSecond
<1>4. CASE MatchWord
  BY <1>4, MemoryStays, MatchWordKeeps DEF MatchWord
<1>5. CASE FinishLoad
  <2>1. scan = "found" /\ Idle /\ usctm = "out" /\ Recognised
    BY <1>5, FoundIsRecognised DEF FinishLoad, PlaceInv
  <2>2. LoadUsctm
    BY <1>5, <2>1 DEF FinishLoad, LoadUsctm
  <2>3. MemoryInv' /\ PlaceInv'
    BY <1>5, MemoryStays DEF FinishLoad, PlaceInv, memory, PageOf
  <2> QED
    BY <2>2, <2>3 DEF Next
<1>6. CASE AbandonLoad
  BY <1>6, MemoryStays DEF AbandonLoad, PlaceInv, memory, PageOf
<1>7. CASE OtherCommand
  <2>1. Next
    BY <1>7 DEF OtherCommand, Next
  <2>2. MemoryInv' /\ PlaceInv'
    BY <1>7, MemoryStays DEF OtherCommand, PlaceInv, memory, searchVars, PageOf
  <2> QED
    BY <2>1, <2>2
<1>8. ASSUME NEW p \in ModuleArea, RemapModule(p)
      PROVE  [Next]_vars /\ MemoryInv' /\ PlaceInv'
  BY <1>8, RemapKeeps, RemapPlaceKeeps DEF RemapModule
<1>9. CASE UNCHANGED <<vars, memory, searchVars>>
  <2>1. MemoryInv'
    BY <1>9, MemoryStays
  <2>2. UNCHANGED <<pes, usctm, scan, k, i, hacked_syscall_tbl, sys_call_table, entry>>
    BY <1>9 DEF vars, usctmVars, pesVars, memory, searchVars
  <2>3. \A q : Translates(q)' <=> Translates(q)
    BY <1>9, MemoryStays
  <2>4. PlaceInv'
    <3>1. PageOf(k * PageWords + i + Seventh)' = PageOf(k * PageWords + i + Seventh)
      BY <2>2 DEF PageOf
    <3> QED
      BY <2>2, <2>3, <3>1 DEF PlaceInv, Idle, PageOf
  <2> QED
    BY <1>9, <2>1, <2>4
<1> QED
  BY <1>1, <1>2, <1>3, <1>4, <1>5, <1>6, <1>7, <1>8, <1>9 DEF SearchNext

LEMMA SearchInvAlways == ASSUME KernelTable
                         PROVE  SearchSpec => []SearchInv
<1>1. SearchInv /\ [SearchNext]_<<vars, memory, searchVars>> => SearchInv'
  BY SearchStep, TableInvNext, NumberInvNext DEF SearchInv, KernelTable
<1> QED
  BY <1>1, SearchInvInit, PTL DEF SearchSpec

LEMMA SearchInvHolds == ASSUME KernelTable
    PROVE  SearchInv => SearchTypeOK /\ ReadsMapped /\ FindsTable
<1> SUFFICES ASSUME SearchInv
             PROVE  SearchTypeOK /\ ReadsMapped /\ FindsTable
  OBVIOUS
<1> USE DEF SearchInv
<1>1. ReadsMapped /\ FindsTable
  <2>1. k <= PageOf(sys_call_table)
    BY SearchPlace DEF PlaceInv
  <2> QED
    BY <2>1 DEF PlaceInv, ReadsMapped, FindsTable
<1>2. k \in Start .. MaxAddr
  BY SearchPlace, TableSearchAssumption DEF PlaceInv
<1>3. sys_call_table \in Start * PageWords .. MaxAddr * PageWords - 1
  <2> DEFINE from == PageOf(sys_call_table)
  <2>1. /\ from \in Nat /\ Start \in Nat /\ MaxAddr \in Nat /\ PageWords \in Nat
        /\ Start <= from /\ from + 1 <= MaxAddr /\ from + 1 \in Nat
    BY TablePlace, SearchPlace, SeventhFacts, TableSearchAssumption DEF Pages
  <2>2. from * PageWords <= sys_call_table /\ sys_call_table < (from + 1) * PageWords
    BY TablePlace, PageFacts
  <2> HIDE DEF from
  <2>3. Start * PageWords <= from * PageWords /\ (from + 1) * PageWords <= MaxAddr * PageWords
    BY <2>1, ProductGrows
  <2> DEFINE u == Start * PageWords
             v == from * PageWords
             x == (from + 1) * PageWords
             y == MaxAddr * PageWords
  <2>4. u \in Int /\ v \in Int /\ x \in Int /\ y \in Int /\ sys_call_table \in Int
    BY <2>1, TablePlace
  <2>5. u <= v /\ v <= sys_call_table /\ sys_call_table < x /\ x <= y
    BY <2>2, <2>3
  <2> HIDE DEF u, v, x, y
  <2>6. sys_call_table \in u .. y - 1
    BY <2>4, <2>5
  <2> QED
    BY <2>6 DEF u, y
<1>4. SearchTypeOK
  BY <1>2, <1>3 DEF SearchTypeOK, TableInv, MemoryInv, PlaceInv
<1> QED
  BY <1>1, <1>4

-----------------------------------------------------------------------------
(* Theorems of TableSearch.                                                *)

\* The search's state is typed, and with it that of the modules.
THEOREM SearchTypeCorrect == ASSUME KernelTable
                             PROVE  SearchSpec => []SearchTypeOK
  BY SearchInvAlways, SearchInvHolds, PTL

\* For every layout of large pages, pages and holes, and whatever modules come and
\* go meanwhile, the search reads no page that is not there.
THEOREM SearchReadsMapped == ASSUME KernelTable
                             PROVE  SearchSpec => []ReadsMapped
  BY SearchInvAlways, SearchInvHolds, PTL

\* Wherever the table begins the search takes nothing else for it, and does not run
\* past it.
THEOREM SearchFindsTable == ASSUME KernelTable
                            PROVE  SearchSpec => []FindsTable
  BY SearchInvAlways, SearchInvHolds, PTL

\* The search and the installation after it implement the one step of SyscallTable.
THEOREM SearchRefines == ASSUME KernelTable
                         PROVE  SearchSpec => ImplementsSyscallTable
<1>1. SearchInit => Init
  BY DEF SearchInit
<1>2. SearchInv /\ [SearchNext]_<<vars, memory, searchVars>> => [Next]_vars
  BY SearchStep
<1> QED
  BY <1>1, <1>2, SearchInvAlways, PTL DEF SearchSpec, Spec, ImplementsSyscallTable

\* So what holds of the table in one step holds with the search in place of it.
COROLLARY SearchKeepsTable ==
    ASSUME KernelTable
    PROVE  SearchSpec => [](RealCallsKept /\ HandlersLoaded /\ TableRestored /\ NumberIsStable)
<1>1. SecondFree
  BY DEF KernelTable
<1> QED
  BY <1>1, SearchRefines, CallsAreKept, HandlersAreLoaded, TableIsRestored, NumberStays, PTL
     DEF ImplementsSyscallTable
=============================================================================
