------------------------------- MODULE Driver -------------------------------
(***************************************************************************)
(* main: the network is laid out, the metrics file is opened, the epochs   *)
(* are run, the file is closed and the copies of the network are freed.    *)
(*                                                                         *)
(* The layout is MemoryLayout's.  An epoch is a round of ForkJoin, which   *)
(* ParallelTraining implements.  The file is a buffered stream that is     *)
(* open when the workers are forked: each child gets a copy of what the    *)
(* parent has not written yet, and writes it when it calls exit.           *)
(*                                                                         *)
(* The lines of the file are 0 for the header and n for the row of epoch   *)
(* n.  The stream's buffer is taken to hold all of them.                   *)
(***************************************************************************)
EXTENDS MemoryLayout

CONSTANTS
    NWorkers,               \* n_workers
    Epochs                  \* epochs

ASSUME DriverAssumption == NWorkers \in Nat /\ Epochs \in Nat

VARIABLES
    mode, round, started, running,      \* ForkJoin's
    buffer,                 \* what the parent's stream has not written yet
    inherited,              \* and the copy of it in the child of each rank
    file,                   \* the lines of the file
    mapped,                 \* the page-directory entries of the region still mapped
    freed,                  \* main's loop counter over the copies
    state                   \* "running", "freeing", "returned", "exited" or "crashed"

rounds == <<mode, round, started, running>>
stream == <<buffer, inherited, file>>
cleanup == <<mapped, freed, state>>

Ranks == 0 .. NWorkers - 1
FJ == INSTANCE ForkJoin WITH Rounds <- 0 .. Epochs - 1

HeaderLine == 0
Report == <<HeaderLine>> \o [e \in 1 .. Epochs |-> e]
PdesPerSlab == AlignedSize \div PdeSize
Pdes == 0 .. NumNodes * PdesPerSlab - 1

\* The layout has not begun, and with it the rest of main.
DriverInit ==
    /\ Init
    /\ mode = IF Epochs > 0 THEN "open" ELSE "stopped"
    /\ round = 0
    /\ started = {}
    /\ running = {}
    /\ buffer = <<>>
    /\ inherited = [r \in Ranks |-> <<>>]
    /\ file = <<>>
    /\ mapped = {}
    /\ freed = 0
    /\ state = "layout"

\* newNet, init_nn, init_private_workspace.
Layout ==
    /\ state = "layout"
    /\ Next
    /\ UNCHANGED <<rounds, stream, cleanup>>

\* fopen truncates the file; the header stays in the buffer.
Open ==
    /\ state = "layout"
    /\ phase = "ready"
    /\ state' = "running"
    /\ buffer' = <<HeaderLine>>
    /\ file' = <<>>
    /\ mapped' = Pdes
    /\ UNCHANGED <<vars, rounds, inherited, freed>>

-----------------------------------------------------------------------------
(* The epochs.                                                             *)

\* fork copies the stream with the rest of the parent.
Start(r) ==
    /\ state = "running"
    /\ FJ!Start(r)
    /\ inherited' = [inherited EXCEPT ![r] = buffer]
    /\ UNCHANGED <<vars, buffer, file, cleanup>>

\* exit(0), or exit(EXIT_FAILURE) after a failed pes, flushes the copy; the
\* children and the parent share the file's position.
WorkerExits(r) ==
    /\ FJ!End(r)
    /\ file' = file \o inherited[r]
    /\ inherited' = [inherited EXCEPT ![r] = <<>>]
    /\ UNCHANGED <<vars, buffer, cleanup>>

\* A worker that is killed flushes nothing.
WorkerKilled(r) ==
    /\ FJ!End(r)
    /\ inherited' = [inherited EXCEPT ![r] = <<>>]
    /\ UNCHANGED <<vars, buffer, file, cleanup>>

\* parallel_training has waited for every child.
Join ==
    /\ state = "running"
    /\ FJ!Join
    /\ UNCHANGED <<vars, stream, cleanup>>

\* Mutants of WriteRow: the row is of the epoch before; the row gets its place in
\* the file at once, ahead of the lines that are still in the buffer.
WriteRowBefore ==
    /\ state = "running"
    /\ FJ!NextRound
    /\ buffer' = Append(buffer, round)
    /\ UNCHANGED <<vars, inherited, file, cleanup>>
WriteRowAtOnce ==
    /\ state = "running"
    /\ FJ!NextRound
    /\ file' = Append(file, round + 1)
    /\ UNCHANGED <<vars, buffer, inherited, cleanup>>

\* model_test and the row of the epoch.
WriteRow ==
    /\ state = "running"
    /\ FJ!NextRound
    /\ buffer' = Append(buffer, round + 1)
    /\ UNCHANGED <<vars, inherited, file, cleanup>>

\* fork failed: exit(EXIT_FAILURE), with children still running.
ForkFails ==
    /\ state = "running"
    /\ started # Ranks
    /\ FJ!Abandon
    /\ file' = file \o buffer
    /\ buffer' = <<>>
    /\ state' = "exited"
    /\ UNCHANGED <<vars, inherited, mapped, freed>>

-----------------------------------------------------------------------------
(* The cleanup.                                                            *)

\* Mutant of Close: what fclose would write is lost.
CloseUnflushed ==
    /\ state = "running"
    /\ mode = "stopped"
    /\ buffer' = <<>>
    /\ state' = "freeing"
    /\ UNCHANGED <<vars, rounds, inherited, file, mapped, freed>>

\* fclose.
Close ==
    /\ state = "running"
    /\ mode = "stopped"
    /\ file' = file \o buffer
    /\ buffer' = <<>>
    /\ state' = "freeing"
    /\ UNCHANGED <<vars, rounds, inherited, mapped, freed>>

\* Mutant of Free: unmap_nn gives back the whole region.
FreeWhole ==
    /\ state = "freeing"
    /\ freed < NumNodes
    /\ IF freed \in mapped
       THEN mapped' = {} /\ freed' = freed + 1 /\ UNCHANGED state
       ELSE state' = "crashed" /\ UNCHANGED <<mapped, freed>>
    /\ UNCHANGED <<vars, rounds, stream>>

\* unmap_nn of the copy that main takes to be PDE_ALIGN_SIZE further on: it is
\* read there, and what is unmapped is initial_mmap_addr, slab 0 for every copy.
Free ==
    /\ state = "freeing"
    /\ freed < NumNodes
    /\ IF freed \in mapped
       THEN mapped' = mapped \ (0 .. PdesPerSlab - 1) /\ freed' = freed + 1 /\ UNCHANGED state
       ELSE state' = "crashed" /\ UNCHANGED <<mapped, freed>>
    /\ UNCHANGED <<vars, rounds, stream>>

\* return 0.
ReturnFromMain ==
    /\ state = "freeing"
    /\ freed = NumNodes
    /\ state' = "returned"
    /\ UNCHANGED <<vars, rounds, stream, mapped, freed>>

-----------------------------------------------------------------------------
DriverNext ==
    \/ Layout \/ Open
    \/ \E r \in Ranks : Start(r) \/ WorkerExits(r) \/ WorkerKilled(r)
    \/ Join \/ WriteRow \/ ForkFails
    \/ Close \/ Free \/ ReturnFromMain

DriverSpec == DriverInit /\ [][DriverNext]_<<vars, rounds, stream, cleanup>>

-----------------------------------------------------------------------------
(* Properties.                                                             *)

\* The layout is typed, the parent's stream and every child's copy hold a part of
\* the report without gaps, and the free loop's counter stays within the copies.
DriverTypeOK ==
    /\ LayoutTypeOK
    /\ round \in 0 .. Epochs
    /\ running \subseteq started /\ started \subseteq Ranks
    /\ Len(buffer) <= Epochs + 1
    /\ \A r \in Ranks : inherited[r] \in {SubSeq(Report, 1, n) : n \in 0 .. Epochs + 1}
    /\ mapped \subseteq Pdes
    /\ freed \in 0 .. NumNodes
    /\ state \in {"layout", "running", "freeing", "returned", "exited", "crashed"}

\* However the children's copies and the parent's come into the file, it begins
\* with the header and every other line follows the header or the row before it.
LinesFollow ==
    \A n \in 1 .. Len(file) :
        file[n] = HeaderLine \/ (n > 1 /\ file[n] = file[n - 1] + 1)

\* When the file has been closed its end is the whole report, once, in order: no
\* child is left that could write after the parent.
EndsWithReport ==
    state \in {"freeing", "returned"} =>
        /\ Len(file) > Epochs
        /\ SubSeq(file, Len(file) - Epochs, Len(file)) = Report

\* The free loop reads copies that its earlier turns have left mapped, as long
\* as a copy takes one page-directory entry.
FreeLoopReadsMapped == PdesPerSlab = 1 => state # "crashed"

-----------------------------------------------------------------------------
(* What the documentation says, and the program does not do.               *)

\* "train_loss,train_acc,test_loss,test_acc" heads the file, a row per epoch.
ReportOnce ==
    \A n, k \in 1 .. Len(file) : file[n] = file[k] => n = k
=============================================================================
