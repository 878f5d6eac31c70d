---------------------------- MODULE SyscallTable ----------------------------
(***************************************************************************)
(* The two kernel modules and the system-call table they share.            *)
(*                                                                         *)
(* USCTM looks for the table by its pattern of entries that hold           *)
(* sys_ni_syscall, exposes the table's address and its free entries,       *)
(* installs a trial call, and on recent kernels makes the dispatcher use   *)
(* the table at all.  PES, given the address, takes the first address that *)
(* the table holds twice for sys_ni_syscall, and installs itself at the    *)
(* first entry that holds it.  The table is write-protected: PES clears    *)
(* CR0.WP of the CPU it is on, and its loader can be moved in between.     *)
(*                                                                         *)
(* One administrator loads and removes the modules, one command at a time. *)
(* A handler is abstracted to its address: an entry's own number for the   *)
(* kernel's handlers, and three more.                                      *)
(***************************************************************************)
EXTENDS Integers, Sequences, FiniteSetsExt

CONSTANTS
    LastEntry,              \* 255, the last entry the modules look at
    NiEntries,              \* the entries the kernel leaves to sys_ni_syscall
    First,                  \* FIRST_NI_SYSCALL
    Markers,                \* FIRST_NI_SYSCALL ... SEVENTH_NI_SYSCALL
    MaxFree,                \* MAX_FREE
    AppNumber,              \* PES, the number compiled into the application
    UsesSwitch,             \* the kernel (from 5.15) does not dispatch through the table
    Cpus

Entries == 0 .. LastEntry
NiSyscall == -1
SysTrial == -2
SysPes == -3
Handlers == Entries \cup {NiSyscall, SysTrial, SysPes}

ASSUME SyscallTableAssumption ==
    /\ LastEntry \in Nat
    /\ NiEntries \subseteq Entries
    /\ First \in Markers /\ Markers \subseteq NiEntries
    /\ \A e \in 1 .. First - 1 : e \notin NiEntries
    /\ MaxFree \in Nat
    /\ AppNumber \in Entries
    /\ UsesSwitch \in BOOLEAN

VARIABLES
    table,                  \* the system-call table
    dispatch,               \* what the dispatcher uses: "switch" or "table"
    usctm,                  \* "out" or "in"
    hacked_ni_syscall,      \* what USCTM will put back
    free_entries,           \* what USCTM exposes
    pes,                    \* "out", "in", or where its loader is
    restore,                \* the entry PES took
    the_ni_syscall,         \* what PES will put back
    cr0,                    \* the WP bit PES saved
    wp,                     \* CR0.WP of each CPU
    cpu                     \* where PES's loader runs

pesVars == <<pes, restore, the_ni_syscall, cr0, wp, cpu>>
usctmVars == <<dispatch, usctm, hacked_ni_syscall, free_entries>>
vars == <<table, usctmVars, pesVars>>

OwnDispatch == IF UsesSwitch THEN "switch" ELSE "table"
Original == [e \in Entries |-> IF e \in NiEntries THEN NiSyscall ELSE e]

\* validate_page: the marked entries hold one handler, which no earlier entry
\* but 0 holds (good_area starts at 1).
Recognised == /\ \A m \in Markers : table[m] = table[First]
              /\ \A e \in 1 .. First - 1 : table[e] # table[First]

\* The n-th lowest of a set of entries.
Nth(S, n) == CHOOSE e \in S : Cardinality({z \in S : z < e}) = n - 1

\* Mutant of FreeEntries: the bound of the exposed array is not looked at.
FreeEntriesUnbounded(ni) ==
    LET all == {e \in Entries : table[e] = ni}
    IN  [n \in 1 .. Cardinality(all) |-> Nth(all, n)]

\* The entries that hold ni, lowest first, as many as the array has room for.
FreeEntries(ni) ==
    LET all == {e \in Entries : table[e] = ni}
    IN  [n \in 1 .. Min({Cardinality(all), MaxFree}) |-> Nth(all, n)]

\* Mutants of Twice: an entry compared with itself; the other entry of a pair.
TwiceOrOnce == {e \in Entries : \E z \in Entries : z >= e /\ table[z] = table[e]}
TwiceLater == {e \in Entries : \E z \in Entries : z < e /\ table[z] = table[e]}

\* get_entries for one entry: the lowest whose handler a later entry holds too.
Twice == {e \in Entries : \E z \in Entries : z > e /\ table[z] = table[e]}

Init ==
    /\ table = Original
    /\ dispatch = OwnDispatch
    /\ usctm = "out"
    /\ hacked_ni_syscall = 0
    /\ free_entries = <<>>
    /\ pes = "out"
    /\ restore = -1
    /\ the_ni_syscall = 0
    /\ cr0 = FALSE
    /\ wp = [c \in Cpus |-> TRUE]
    /\ cpu \in Cpus

Idle == pes \in {"out", "in", "dead"}

-----------------------------------------------------------------------------
(* USCTM.  Its writes are made with preemption disabled.                   *)

\* What insmod the_usctm does with the table: the free entries are collected
\* before the trial call is installed, and the dispatcher is redirected.
InstallTrial ==
    /\ usctm' = "in"
    /\ hacked_ni_syscall' = table[First]
    /\ free_entries' = FreeEntries(table[First])
    /\ table' = [table EXCEPT ![First] = SysTrial]
    /\ dispatch' = "table"
    /\ UNCHANGED pesVars

\* insmod the_usctm, when it finds the table.
LoadUsctm ==
    /\ Idle
    /\ usctm = "out"
    /\ Recognised
    /\ InstallTrial

\* Mutant of UnloadUsctm: the trial entry is left behind.
UnloadUsctmKeepingTrial ==
    /\ Idle
    /\ usctm = "in"
    /\ usctm' = "out"
    /\ hacked_ni_syscall' = 0
    /\ free_entries' = <<>>
    /\ dispatch' = OwnDispatch
    /\ UNCHANGED <<table, pesVars>>

\* rmmod the_usctm: the dispatcher and the trial entry are put back.
UnloadUsctm ==
    /\ Idle
    /\ usctm = "in"
    /\ usctm' = "out"
    /\ hacked_ni_syscall' = 0
    /\ free_entries' = <<>>
    /\ table' = [table EXCEPT ![First] = hacked_ni_syscall]
    /\ dispatch' = OwnDispatch
    /\ UNCHANGED pesVars

-----------------------------------------------------------------------------
(* PES.                                                                    *)

\* make mount reads the table's address from USCTM; get_entries picks the entry,
\* or finds no handler twice and the load fails.
LoadPes ==
    /\ pes = "out"
    /\ usctm = "in"
    /\ Twice # {}
    /\ restore' = Min(Twice)
    /\ the_ni_syscall' = table[Min(Twice)]
    /\ pes' = "found"
    /\ UNCHANGED <<table, usctmVars, cr0, wp, cpu>>

\* unprotect_memory saves the CR0 of this CPU and clears its WP bit.
Unprotect(from, to) ==
    /\ pes = from
    /\ cr0' = wp[cpu]
    /\ wp' = [wp EXCEPT ![cpu] = FALSE]
    /\ pes' = to
    /\ UNCHANGED <<table, usctmVars, restore, the_ni_syscall, cpu>>

\* The write of the entry: on a CPU that still protects the table it faults, the
\* command is killed and the module can neither be used nor removed.
Write(from, to, handler) ==
    /\ pes = from
    /\ \/ /\ ~wp[cpu]
          /\ table' = [table EXCEPT ![restore] = handler]
          /\ pes' = to
       \/ /\ wp[cpu]
          /\ pes' = "dead"
          /\ UNCHANGED table
    /\ UNCHANGED <<usctmVars, restore, the_ni_syscall, cr0, wp, cpu>>

\* protect_memory writes the saved CR0 to the CPU it is on now.
Protect(from, to) ==
    /\ pes = from
    /\ wp' = [wp EXCEPT ![cpu] = cr0]
    /\ pes' = to
    /\ UNCHANGED <<table, usctmVars, restore, the_ni_syscall, cr0, cpu>>

\* insmod the_pte-entry-switcher.
UnprotectLoad == Unprotect("found", "open")
Install == Write("open", "written", SysPes)
ProtectLoad == Protect("written", "in")

\* rmmod the_pte_entry_switcher.  Mutant of Uninstall: the entry is not put back.
UnprotectUnload == Unprotect("in", "closing")
UninstallNothing == Write("closing", "cleared", SysPes)
Uninstall == Write("closing", "cleared", the_ni_syscall)
ProtectUnload == Protect("cleared", "out")

\* The scheduler moves the command to another CPU.
Move(c) ==
    /\ ~Idle
    /\ cpu' = c
    /\ UNCHANGED <<table, usctmVars, pes, restore, the_ni_syscall, cr0, wp>>

-----------------------------------------------------------------------------
Next == \/ LoadUsctm \/ UnloadUsctm
        \/ LoadPes \/ UnprotectLoad \/ Install \/ ProtectLoad
        \/ UnprotectUnload \/ Uninstall \/ ProtectUnload
        \/ \E c \in Cpus : Move(c)

Spec == Init /\ [][Next]_vars

-----------------------------------------------------------------------------
(* Properties.                                                             *)

\* The exposed array is not overrun, and PES's entry is one of the table.
TypeOK ==
    /\ table \in [Entries -> Handlers]
    /\ dispatch \in {"switch", "table"}
    /\ usctm \in {"out", "in"}
    /\ hacked_ni_syscall \in Handlers
    /\ free_entries \in Seq(Entries) /\ Len(free_entries) <= MaxFree
    /\ pes \in {"out", "found", "open", "written", "in", "closing", "cleared", "dead"}
    /\ restore \in Entries \cup {-1}
    /\ the_ni_syscall \in Handlers
    /\ cr0 \in BOOLEAN
    /\ wp \in [Cpus -> BOOLEAN]
    /\ cpu \in Cpus

\* Neither module, in any order of loading and removal, takes an entry the
\* kernel uses: "the same address twice" means sys_ni_syscall.
RealCallsKept == \A e \in Entries \ NiEntries : table[e] = e

\* No entry leads into a module that has been removed, and the dispatcher is
\* redirected only while the trampoline it jumps to is there.
HandlersLoaded ==
    /\ \A e \in Entries : /\ table[e] = SysTrial => usctm = "in"
                          /\ table[e] = SysPes => pes # "out"
    /\ dispatch = "table" /\ UsesSwitch => usctm = "in"

\* With both modules removed the table is the kernel's again, whatever the order
\* in which they came and went: neither puts back what the other installed.
TableRestored == usctm = "out" /\ pes = "out" => table = Original

\* Where the application calls it, PES is: reloading either module does not move
\* it to another number, though the number is found anew at every load.
NumberIsStable == pes = "in" => table[AppNumber] = SysPes
=============================================================================
