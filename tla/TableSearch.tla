----------------------------- MODULE TableSearch -----------------------------
(***************************************************************************)
(* USCTM's search for the system-call table, which SyscallTable takes for  *)
(* one step: the upper part of the kernel's addresses is walked page by    *)
(* page, sys_vtpmo asks the page tables whether a page is there, and every *)
(* word of a page that is there is tried as the beginning of the table.    *)
(*                                                                         *)
(* The kernel's image lies first, with holes, in pages and in large pages; *)
(* then the area where other modules come and go while the search runs.  A *)
(* read of a page that is not there is an oops.                            *)
(*                                                                         *)
(* An address counts in words; a page table has Fan entries and an entry   *)
(* is named by the path of indexes that leads to it.                       *)
(***************************************************************************)
EXTENDS SyscallTable

CONSTANTS
    Fan,                    \* 512, the entries of a page table
    PageWords,              \* 512, the words of a page
    Start, MaxAddr,         \* START and MAX_ADDR, in pages
    Image, ModuleArea,      \* the pages of the kernel's image, and of its modules
    Places,                 \* the words where the table may begin
    Fillings                \* what the rest of the kernel's memory may hold

\* Words that are no handlers: zero, an address of user space, one that is not
\* aligned, and a pointer into the kernel that is found again and again.
Zero == -10
Low == -11
Odd == -12
Datum == -13

\* The pages that an entry of each level maps.
Span == <<Fan * Fan * Fan, Fan * Fan, Fan, 1>>
Pages == Start .. MaxAddr - 1
Seventh == Max(Markers)     \* SEVENTH_NI_SYSCALL
PageOf(a) == a \div PageWords
TablePages(at) == PageOf(at) .. PageOf(at + LastEntry)

ASSUME TableSearchAssumption ==
    /\ Fan \in Nat \ {0, 1} /\ PageWords \in Nat
    /\ Start \in Nat /\ MaxAddr \in Nat /\ MaxAddr <= Fan * Span[1]
    /\ Image \cup ModuleArea \subseteq Pages
    /\ \A p \in Image, q \in ModuleArea : p < q
    /\ First < Seventh /\ Seventh < PageWords
    /\ Places \subseteq Nat
    /\ \A at \in Places : TablePages(at) \subseteq Image
    /\ Fillings \subseteq {Zero, Low, Odd, Datum}

VARIABLES
    entry,                  \* of the page tables: "none", "table" or "page"
    sys_call_table,         \* where the kernel's table begins
    filling,                \* every word outside the table
    scan,                   \* what the search does next
    k, i,                   \* the page it is at, and the word
    hacked_syscall_tbl      \* what it has found

memory == <<entry, sys_call_table, filling>>
searchVars == <<scan, k, i, hacked_syscall_tbl>>

NULL == -1
NO_MAP == -1

-----------------------------------------------------------------------------
(* The page tables.                                                        *)

\* PML4, PDP, PDE, PTE: the index of page p at a level, and the path to there.
Index(level, p) == (p \div Span[level]) % Fan
Path(level, p) == [n \in 1 .. level |-> Index(n, p)]
Entry(level, p) == entry[Path(level, p)]
Paths == UNION {{Path(level, p) : p \in Pages} : level \in 1 .. 4}

\* What the processor makes of them: a page is there when an entry maps it and
\* tables lead to that entry.
Translates(p) == \E level \in 1 .. 4 :
    /\ Entry(level, p) = "page"
    /\ \A above \in 1 .. level - 1 : Entry(above, p) = "table"

\* Mutant of sys_vtpmo: a large page is taken for a table of pages.
sys_vtpmoSmallOnly(p) ==
    IF \A level \in 1 .. 4 : Entry(level, p) # "none" THEN p ELSE NO_MAP

\* VALID at each level, LH_MAPPING at that of the PDE.  The number of the frame,
\* which no caller looks at, is abstracted to the page's.
sys_vtpmo(p) ==
    IF /\ \A level \in 1 .. 3 : Entry(level, p) # "none"
       /\ Entry(3, p) = "page" \/ Entry(4, p) # "none"
    THEN p ELSE NO_MAP

\* The tables for the given large and ordinary pages; entries below none that is
\* a table hold what was left there.
TablesFor(large, small, left) ==
    LET has(path, S) == \E p \in S : Path(Len(path), p) = path
    IN  [path \in Paths |->
            CASE Len(path) < 3 /\ has(path, Image \cup ModuleArea) -> "table"
              [] Len(path) = 3 /\ has(path, large) -> "page"
              [] Len(path) = 3 /\ has(path, small \cup ModuleArea) -> "table"
              [] Len(path) = 4 /\ has(path, small) -> "page"
              [] Len(path) = 4 /\ has(path, large) -> left
              [] OTHER -> "none"]

\* The word at an address.
Word(a) ==
    IF a - sys_call_table \in Entries THEN table[a - sys_call_table] ELSE filling

-----------------------------------------------------------------------------
\* A large page is one of Fan pages that are all of the image; the table is in
\* memory, what else there is of the image may have been given back.
SearchInit ==
    /\ Init
    /\ sys_call_table \in Places
    /\ filling \in Fillings
    /\ \E large, small \in SUBSET Image, left \in {"none", "page"} :
          /\ \A p \in large : {q \in Pages : Path(3, q) = Path(3, p)} \subseteq large
          /\ \A p \in small : {q \in large : Path(3, q) = Path(3, p)} = {}
          /\ TablePages(sys_call_table) \subseteq large \cup small
          /\ entry = TablesFor(large, small, left)
    /\ scan = "idle"
    /\ k = Start
    /\ i = 0
    /\ hacked_syscall_tbl = NULL

\* insmod the_usctm.
StartSearch ==
    /\ scan = "idle"
    /\ Idle
    /\ usctm = "out"
    /\ scan' = "page"
    /\ k' = Start
    /\ i' = 0
    /\ hacked_syscall_tbl' = NULL
    /\ UNCHANGED <<vars, memory>>

\* The next page, up to MAX_ADDR.
NextPage ==
    /\ k' = k + 1
    /\ i' = 0
    /\ scan' = IF k + 1 < MaxAddr THEN "page" ELSE "missed"

\* syscall_table_finder: is the page there?
ProbePage ==
    /\ scan = "page"
    /\ IF sys_vtpmo(k) = NO_MAP THEN NextPage
                                ELSE scan' = "second" /\ UNCHANGED <<k, i>>
    /\ UNCHANGED <<vars, memory, hacked_syscall_tbl>>

\* Mutant of ProbeSecond: the page a table at this word would end in is not
\* asked for.
ProbeSecondNever ==
    /\ scan = "second"
    /\ scan' = "match"
    /\ UNCHANGED <<vars, memory, k, i, hacked_syscall_tbl>>

\* validate_page: when a table that began at this word would end in the next
\* page, is that there?  If not, no later word of this page can be its beginning.
ProbeSecond ==
    /\ scan = "second"
    /\ LET last == PageOf(k * PageWords + i + Seventh)
       IN  IF last = k + 1 /\ sys_vtpmo(last) = NO_MAP
           THEN NextPage
           ELSE scan' = "match" /\ UNCHANGED <<k, i>>
    /\ UNCHANGED <<vars, memory, hacked_syscall_tbl>>

\* good_area, from entry 1 on.
good_area(a) == \A e \in 1 .. First - 1 : Word(a + e) # Word(a + First)

\* The pattern: a kernel's address, aligned, in all the marked entries.
Matches(a) ==
    /\ Word(a + First) \notin {Zero, Low, Odd}
    /\ \A m \in Markers : Word(a + m) = Word(a + First)
    /\ good_area(a)

\* The marked entries that are read before one of them differs.
MarkersRead(a) ==
    {m \in Markers :
        /\ m # First => Word(a + First) \notin {Zero, Low, Odd}
        /\ \A n \in Markers : n < m => Word(a + n) = Word(a + First)}

\* One word tried as the beginning.  (good_area reads between marked entries.)
MatchWord ==
    /\ scan = "match"
    /\ LET a == k * PageWords + i
       IN  IF \E m \in MarkersRead(a) : ~Translates(PageOf(a + m))
           THEN scan' = "oops" /\ UNCHANGED <<k, i, hacked_syscall_tbl>>
           ELSE IF Matches(a)
           THEN scan' = "found" /\ hacked_syscall_tbl' = a /\ UNCHANGED <<k, i>>
           ELSE IF i + 1 < PageWords
           THEN scan' = "second" /\ i' = i + 1 /\ UNCHANGED <<k, hacked_syscall_tbl>>
           ELSE NextPage /\ UNCHANGED hacked_syscall_tbl
    /\ UNCHANGED <<vars, memory>>

\* init_module goes on with the table it has found.
FinishLoad ==
    /\ scan = "found"
    /\ InstallTrial
    /\ scan' = "idle"
    /\ UNCHANGED <<memory, k, i, hacked_syscall_tbl>>

\* Mutant of AbandonLoad: the kprobe is asked for after the trial call is in.
AbandonLoadLate ==
    /\ scan \in {"missed"} \cup (IF UsesSwitch THEN {"found"} ELSE {})
    /\ scan' = "idle"
    /\ table' = [table EXCEPT ![First] = SysTrial]
    /\ UNCHANGED <<usctmVars, pesVars, memory, k, i, hacked_syscall_tbl>>

\* init_module returns -1: no table, or no kprobe on the dispatcher that a
\* kernel from 5.15 needs redirected.
AbandonLoad ==
    /\ scan \in {"missed"} \cup (IF UsesSwitch THEN {"found"} ELSE {})
    /\ scan' = "idle"
    /\ UNCHANGED <<vars, memory, k, i, hacked_syscall_tbl>>

\* Every other command waits for this one.
OtherCommand ==
    /\ scan = "idle"
    /\ \/ UnloadUsctm
       \/ LoadPes \/ UnprotectLoad \/ Install \/ ProtectLoad
       \/ UnprotectUnload \/ Uninstall \/ ProtectUnload
       \/ \E c \in Cpus : Move(c)
    /\ UNCHANGED <<memory, searchVars>>

\* Another module comes or goes, whatever USCTM is doing.
RemapModule(p) ==
    /\ entry' = [entry EXCEPT ![Path(4, p)] = IF @ = "page" THEN "none" ELSE "page"]
    /\ UNCHANGED <<vars, sys_call_table, filling, searchVars>>

-----------------------------------------------------------------------------
SearchNext ==
    \/ StartSearch \/ ProbePage \/ ProbeSecond \/ MatchWord \/ FinishLoad \/ AbandonLoad
    \/ OtherCommand
    \/ \E p \in ModuleArea : RemapModule(p)

SearchSpec == SearchInit /\ [][SearchNext]_<<vars, memory, searchVars>>

-----------------------------------------------------------------------------
(* Properties.                                                             *)

\* The exposed array is not overrun, and the search stays within its limits.
SearchTypeOK ==
    /\ TypeOK
    /\ entry \in [Paths -> {"none", "table", "page"}]
    /\ scan \in {"idle", "page", "second", "match", "found", "missed", "oops"}
    /\ k \in Start .. MaxAddr
    /\ i \in 0 .. PageWords - 1
    /\ hacked_syscall_tbl \in {NULL} \cup (Start * PageWords .. MaxAddr * PageWords - 1)

\* The search reads no page that is not there: not one it skipped or never asked
\* for, nor one that went away after sys_vtpmo had answered.
ReadsMapped == scan # "oops"

\* Wherever in the image the table begins, in one page or across two, the search
\* ends there: not before at other data, and not beyond, where modules come and go.
FindsTable ==
    /\ hacked_syscall_tbl \in {NULL, sys_call_table}
    /\ k <= PageOf(sys_call_table)

\* The search and what follows it are the one step SyscallTable takes, and it is
\* taken only when the table is as USCTM knows it: never half loaded.
ImplementsSyscallTable == Spec
=============================================================================
