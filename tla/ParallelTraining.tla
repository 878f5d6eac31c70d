-------------------------- MODULE ParallelTraining --------------------------
(***************************************************************************)
(* main's epoch loop and parallel_training: the parent forks one worker    *)
(* per rank, waits for all of them, averages what they reported and tests  *)
(* the model; every worker pins itself, asks the kernel to switch the      *)
(* page-directory entries of slab 0 and of its node, reads the model       *)
(* structure through the resulting view, trains on its share of the        *)
(* samples in mini-batches, and switches the entries back.                 *)
(*                                                                         *)
(* The model's biases and weights live in memory shared by every process   *)
(* and are updated without a lock: an update is a load and a store, and    *)
(* other processes run in between.  Gradients live in private memory.      *)
(* Numbers are abstracted to their provenance: a gradient accumulator is   *)
(* the set of sample positions it has summed, a cell of the model is the   *)
(* set of updates it holds.                                                *)
(***************************************************************************)
EXTENDS NumaView, FiniteSets

CONSTANTS
    NWorkers,               \* n_workers; 0 is a value the callers use
    TotalSamples,           \* total_samples
    BatchSize,              \* batch_size
    Epochs,                 \* main's epochs
    Optimizer,              \* opt
    Order                   \* what shuffle makes of arr, from the parent's rand() state

ASSUME ParallelTrainingAssumption ==
    /\ NWorkers \in Nat
    /\ TotalSamples \in Nat
    /\ BatchSize \in Nat \ {0}
    /\ Epochs \in Nat \ {0}
    /\ Order \in [0 .. TotalSamples - 1 -> Nat]
    /\ \A p, q \in 0 .. TotalSamples - 1 : Order[p] = Order[q] => p = q

VARIABLES
    ppc,                    \* where the parent is
    epoch,                  \* main's itr
    forked,                 \* iterations of the fork loop done
    waits,                  \* iterations of the wait loop done
    reaped,                 \* ranks wait() has returned so far
    metrics,                \* shared_metrics[rank]
    final,                  \* final_metrics of the last parallel_training
    installed,              \* the PES system call is in the kernel's table
    shared,                 \* shared[frame][cell]: updates held by a model cell
    pc,                     \* where the worker of each rank is
    table,                  \* its page-directory entries for the slabs
    view,                   \* the physical copy local_nn was read from
    i, b,                   \* new_model_train's loop counters
    acc,                    \* db and dw: positions accumulated
    loss,                   \* positions summed into loss_val and correct
    reg                     \* a model cell loaded by a read-modify-write

parent == <<ppc, epoch, forked, waits, reaped, final>>
memory == <<table, view, i, b, acc, loss, reg>>
worker == <<pc, memory>>
vars == <<parent, worker, metrics, installed, shared>>

Ranks == 0 .. NWorkers - 1
Positions == 0 .. TotalSamples - 1

Node(r) == r % NumNodes
SamplesPerWorker == TotalSamples \div NWorkers
Count(r) == IF r = NWorkers - 1
            THEN TotalSamples - r * SamplesPerWorker
            ELSE SamplesPerWorker

\* Mutants of CurBatch: no clamp to the share, a loop that runs once too often,
\* a last batch that is dropped when it is not full.
CurBatchUnclamped(r) == BatchSize
CurBatchInclusive(r) ==
    1 + (IF i[r] + BatchSize > Count(r) THEN Count(r) - i[r] ELSE BatchSize)
CurBatchFullOnly(r) == IF i[r] + BatchSize > Count(r) THEN 0 ELSE BatchSize

CurBatch(r) == IF i[r] + BatchSize > Count(r) THEN Count(r) - i[r] ELSE BatchSize

\* What a rank reports: the positions its mean is of; Zero is the mapped page.
Zero == [nan |-> FALSE, of |-> {}]
Reports == [nan : BOOLEAN, of : SUBSET Positions]

Updates == [epoch : 0 .. Epochs - 1, rank : Ranks, batch : SUBSET Positions]

Alive(r) == pc[r] \notin {"none", "exited", "failed"}

\* Mutants of Ended: a wait that returns only normal exits, one with WNOHANG.
EndedNormally(r) == pc[r] = "exited"
EndedNoHang(r) == TRUE

Ended(r) == pc[r] \in {"exited", "failed"}
Training == {"train", "loadB", "storeB", "loadW", "storeW"}

Init ==
    /\ ppc = "fork"
    /\ epoch = 0
    /\ forked = 0
    /\ waits = 0
    /\ reaped = {}
    /\ metrics = [r \in Ranks |-> Zero]
    /\ final = [nan |-> FALSE, from |-> {}]
    /\ installed \in BOOLEAN
    /\ shared = [f \in Nodes |-> [c \in Cells |-> {}]]
    /\ pc = [r \in Ranks |-> "none"]
    /\ table = [r \in Ranks |-> Absent]
    /\ view = [r \in Ranks |-> 0]
    /\ i = [r \in Ranks |-> 0]
    /\ b = [r \in Ranks |-> 0]
    /\ acc = [r \in Ranks |-> [c \in Cells |-> {}]]
    /\ loss = [r \in Ranks |-> {}]
    /\ reg = [r \in Ranks |-> {}]

-----------------------------------------------------------------------------
(* The parent: main's epoch loop around parallel_training.                 *)

\* One turn of the fork loop.  The kernel either copies the entries of the
\* shared region into the child or leaves them to be faulted in.
Fork(r) ==
    /\ ppc = "fork"
    /\ r = forked
    /\ forked' = forked + 1
    /\ pc' = [pc EXCEPT ![r] = "start"]
    /\ \E t \in {Copied, Absent} : table' = [table EXCEPT ![r] = t]
    /\ UNCHANGED <<ppc, epoch, waits, reaped, final, view, i, b, acc, loss, reg,
                   metrics, installed, shared>>

\* fork() fails: the parent exits and the children already started go on.
ForkFails ==
    /\ ppc = "fork"
    /\ forked < NWorkers
    /\ ppc' = "dead"
    /\ UNCHANGED <<epoch, forked, waits, reaped, final, worker,
                   metrics, installed, shared>>

\* Mutant of EndForkLoop: the loop starts one child too few.
EndForkLoopShort ==
    /\ ppc = "fork"
    /\ forked >= NWorkers - 1
    /\ ppc' = "wait"
    /\ UNCHANGED <<epoch, forked, waits, reaped, final, worker,
                   metrics, installed, shared>>

EndForkLoop ==
    /\ ppc = "fork"
    /\ forked = NWorkers
    /\ ppc' = "wait"
    /\ UNCHANGED <<epoch, forked, waits, reaped, final, worker,
                   metrics, installed, shared>>

\* wait(NULL) returns some child that has ended and was not returned before.
Wait(r) ==
    /\ ppc = "wait"
    /\ waits < NWorkers
    /\ Ended(r)
    /\ r \notin reaped
    /\ reaped' = reaped \cup {r}
    /\ waits' = waits + 1
    /\ UNCHANGED <<ppc, epoch, forked, final, worker, metrics, installed, shared>>

\* Mutant of Reduce: the wait loop counts from 1.
ReduceEarly ==
    /\ ppc = "wait"
    /\ waits >= NWorkers - 1
    /\ final' = [nan |-> FALSE, from |-> {r \in Ranks : metrics[r] # Zero}]
    /\ ppc' = "test"
    /\ UNCHANGED <<epoch, forked, waits, reaped, worker, metrics, installed, shared>>

\* The sums and the two divisions by n_workers: a NaN summand, or 0/0, is NaN.
Reduce ==
    /\ ppc = "wait"
    /\ waits = NWorkers
    /\ final' = [nan |-> NWorkers = 0 \/ \E r \in Ranks : metrics[r].nan,
                 from |-> {r \in Ranks : metrics[r] # Zero}]
    /\ ppc' = "test"
    /\ UNCHANGED <<epoch, forked, waits, reaped, worker, metrics, installed, shared>>

\* model_test reads the model through the parent's own table, then the next
\* epoch calls parallel_training afresh: a new zeroed metrics page, new children.
TestAndContinue ==
    /\ ppc = "test"
    /\ epoch' = epoch + 1
    /\ ppc' = IF epoch' < Epochs THEN "fork" ELSE "done"
    /\ forked' = 0
    /\ waits' = 0
    /\ reaped' = {}
    /\ metrics' = [r \in Ranks |-> Zero]
    /\ pc' = [r \in Ranks |-> "none"]
    /\ UNCHANGED <<final, memory, installed, shared>>

-----------------------------------------------------------------------------
(* A worker: the child's branch of the fork loop.                          *)

\* The process ends and its address space goes with it.
Exit(r, how) ==
    /\ pc' = [pc EXCEPT ![r] = how]
    /\ table' = [table EXCEPT ![r] = Absent]
    /\ view' = [view EXCEPT ![r] = 0]
    /\ i' = [i EXCEPT ![r] = 0]
    /\ b' = [b EXCEPT ![r] = 0]
    /\ acc' = [acc EXCEPT ![r] = [c \in Cells |-> {}]]
    /\ loss' = [loss EXCEPT ![r] = {}]
    /\ reg' = [reg EXCEPT ![r] = {}]

\* Pinning, then printf reads the first word of slab 0.
Begin(r) ==
    /\ pc[r] = "start"
    /\ table' = [table EXCEPT ![r] = Touch(@, 0)]
    /\ pc' = [pc EXCEPT ![r] = "switch"]
    /\ UNCHANGED <<parent, view, i, b, acc, loss, reg, metrics, installed, shared>>

\* pes(base_nn, 0, my_node); without the system call it returns an error.
SwitchIn(r) ==
    /\ pc[r] = "switch"
    /\ \/ /\ installed
          /\ table' = [table EXCEPT ![r] = Switched(@, 0, Node(r))]
          /\ pc' = [pc EXCEPT ![r] = "copy"]
          /\ UNCHANGED <<view, i, b, acc, loss, reg>>
       \/ ~installed /\ Exit(r, "failed")
    /\ UNCHANGED <<parent, metrics, installed, shared>>

\* local_nn = *base_nn and init_private_workspace: fresh zero pages.
CopyModel(r) ==
    /\ pc[r] = "copy"
    /\ table' = [table EXCEPT ![r] = Touch(@, 0)]
    /\ view' = [view EXCEPT ![r] = Frame(table[r], 0)]
    /\ i' = [i EXCEPT ![r] = 0]
    /\ b' = [b EXCEPT ![r] = 0]
    /\ acc' = [acc EXCEPT ![r] = [c \in Cells |-> {}]]
    /\ loss' = [loss EXCEPT ![r] = {}]
    /\ pc' = [pc EXCEPT ![r] = "train"]
    /\ UNCHANGED <<parent, reg, metrics, installed, shared>>

\* One sample: forward, loss and hits, back_propagation_accumulate.
Sample(r) ==
    /\ pc[r] = "train"
    /\ i[r] < Count(r)
    /\ b[r] < CurBatch(r)
    /\ acc' = [acc EXCEPT ![r] = [c \in Cells |-> @[c] \cup {i[r] + b[r]}]]
    /\ loss' = [loss EXCEPT ![r] = @ \cup {i[r] + b[r]}]
    /\ b' = [b EXCEPT ![r] = @ + 1]
    /\ UNCHANGED <<parent, pc, table, view, i, reg, metrics, installed, shared>>

EndBatch(r) ==
    /\ pc[r] = "train"
    /\ i[r] < Count(r)
    /\ b[r] = CurBatch(r)
    /\ pc' = [pc EXCEPT ![r] = "loadB"]
    /\ UNCHANGED <<parent, table, view, i, b, acc, loss, reg,
                   metrics, installed, shared>>

\* update_weights_batch, "nn->b[k][j] -= ..." and "nn->w[k][i][j] -= ...": the
\* cell is read, and written back by a later step.  Only "sgd" and "adam" have
\* a branch; the accumulator is zeroed for every optimizer.
Update(r, c) == [epoch |-> epoch, rank |-> r, batch |-> acc[r][c]]
Home(r, c) == CellFrame(table[r], view[r], c)

\* Mutants of Load and Store: "=" for "-=", and accumulators that are not zeroed.
LoadNothing(r, c) == reg' = [reg EXCEPT ![r] = {}]
StoreKeepingBatch(r, c) ==
    /\ shared' = [shared EXCEPT ![Home(r, c)][c] = reg[r] \cup {Update(r, c)}]
    /\ UNCHANGED acc
    /\ reg' = [reg EXCEPT ![r] = {}]

Load(r, c) == reg' = [reg EXCEPT ![r] = shared[Home(r, c)][c]]
Store(r, c) ==
    /\ shared' = IF Optimizer \in {"sgd", "adam"}
                 THEN [shared EXCEPT ![Home(r, c)][c] = reg[r] \cup {Update(r, c)}]
                 ELSE shared
    /\ acc' = [acc EXCEPT ![r][c] = {}]
    /\ reg' = [reg EXCEPT ![r] = {}]

LoadBias(r) ==
    /\ pc[r] = "loadB"
    /\ Load(r, "b")
    /\ pc' = [pc EXCEPT ![r] = "storeB"]
    /\ UNCHANGED <<parent, table, view, i, b, acc, loss, metrics, installed, shared>>

StoreBias(r) ==
    /\ pc[r] = "storeB"
    /\ Store(r, "b")
    /\ pc' = [pc EXCEPT ![r] = "loadW"]
    /\ UNCHANGED <<parent, table, view, i, b, loss, metrics, installed>>

LoadWeight(r) ==
    /\ pc[r] = "loadW"
    /\ Load(r, "w")
    /\ pc' = [pc EXCEPT ![r] = "storeW"]
    /\ UNCHANGED <<parent, table, view, i, b, acc, loss, metrics, installed, shared>>

\* Mutant of StoreWeight: the batch loop does not advance.
StoreWeightStuck(r) ==
    /\ pc[r] = "storeW"
    /\ Store(r, "w")
    /\ b' = [b EXCEPT ![r] = 0]
    /\ pc' = [pc EXCEPT ![r] = "train"]
    /\ UNCHANGED <<parent, table, view, i, loss, metrics, installed>>

StoreWeight(r) ==
    /\ pc[r] = "storeW"
    /\ Store(r, "w")
    /\ i' = [i EXCEPT ![r] = @ + BatchSize]
    /\ b' = [b EXCEPT ![r] = 0]
    /\ pc' = [pc EXCEPT ![r] = "train"]
    /\ UNCHANGED <<parent, table, view, loss, metrics, installed>>

\* The batch loop is over: loss_val and correct are divided by the count.
Report(r) ==
    /\ pc[r] = "train"
    /\ i[r] >= Count(r)
    /\ metrics' = [metrics EXCEPT ![r] = [nan |-> Count(r) = 0, of |-> loss[r]]]
    /\ pc' = [pc EXCEPT ![r] = "restore"]
    /\ UNCHANGED <<parent, table, view, i, b, acc, loss, reg, installed, shared>>

\* pes(base_nn, my_node, 0) and exit.
SwitchOut(r) ==
    /\ pc[r] = "restore"
    /\ \/ /\ installed
          /\ table' = [table EXCEPT ![r] = Switched(@, Node(r), 0)]
          /\ pc' = [pc EXCEPT ![r] = "exit"]
          /\ UNCHANGED <<view, i, b, acc, loss, reg>>
       \/ ~installed /\ Exit(r, "failed")
    /\ UNCHANGED <<parent, metrics, installed, shared>>

\* exit(0).
Leave(r) ==
    /\ pc[r] = "exit"
    /\ Exit(r, "exited")
    /\ UNCHANGED <<parent, metrics, installed, shared>>

\* A worker is killed by a signal.
Killed(r) ==
    /\ Alive(r)
    /\ Exit(r, "failed")
    /\ UNCHANGED <<parent, metrics, installed, shared>>

\* The administrator removes the PES module (cleanup_module).
Uninstall ==
    /\ installed
    /\ installed' = FALSE
    /\ UNCHANGED <<parent, worker, metrics, shared>>

-----------------------------------------------------------------------------
Parent == \/ \E r \in Ranks : Fork(r) \/ Wait(r)
          \/ EndForkLoop
          \/ Reduce
          \/ TestAndContinue

Worker(r) == \/ Begin(r) \/ SwitchIn(r) \/ CopyModel(r)
             \/ Sample(r) \/ EndBatch(r)
             \/ LoadBias(r) \/ StoreBias(r) \/ LoadWeight(r) \/ StoreWeight(r)
             \/ Report(r) \/ SwitchOut(r) \/ Leave(r)

Next == \/ Parent
        \/ ForkFails
        \/ \E r \in Ranks : Worker(r) \/ Killed(r)
        \/ Uninstall

Spec == Init /\ [][Next]_vars

\* The kernel schedules every runnable process; nothing obliges a process to
\* die, fork to fail or the module to be removed.
Fairness == WF_vars(Parent) /\ \A r \in Ranks : WF_vars(Worker(r))
FairSpec == Spec /\ Fairness

-----------------------------------------------------------------------------
(* Properties.                                                             *)

\* Every variable of the parent and the workers stays within the range the C
\* code indexes with it: ranks, slabs and physical copies, batch counters.
TypeOK ==
    /\ ppc \in {"fork", "wait", "test", "done", "dead"}
    /\ epoch \in 0 .. Epochs
    /\ forked \in 0 .. NWorkers
    /\ waits \in 0 .. NWorkers
    /\ reaped \subseteq Ranks
    /\ metrics \in [Ranks -> Reports]
    /\ final \in [nan : BOOLEAN, from : SUBSET Ranks]
    /\ installed \in BOOLEAN
    /\ shared \in [Nodes -> [Cells -> SUBSET Updates]]
    /\ pc \in [Ranks -> {"none", "start", "switch", "copy", "restore",
                         "exit", "exited", "failed"} \cup Training]
    /\ table \in [Ranks -> Tables]
    /\ view \in [Ranks -> Nodes]
    /\ i \in [Ranks -> Nat]
    /\ b \in [Ranks -> 0 .. BatchSize]
    /\ acc \in [Ranks -> [Cells -> SUBSET Positions]]
    /\ loss \in [Ranks -> SUBSET Positions]
    /\ reg \in [Ranks -> SUBSET Updates]

\* When the parent goes on to test the model, every worker of the epoch has
\* ended: NWorkers calls of wait() return NWorkers different children.
JoinBeforeTest == ppc = "test" => \A r \in Ranks : Ended(r)

\* No call of wait() in the loop is made without a child left to wait for, so
\* none returns early with ECHILD, and none waits for a child already reaped.
EveryWaitHasAChild ==
    ppc = "wait" /\ waits < NWorkers => \E r \in Ranks \ reaped : pc[r] # "none"

\* db and dw hold exactly the samples of the current batch: nothing of the
\* previous batch is left in them and no sample is summed twice, up to the
\* moment their cell is updated; at the end they hold nothing.
AccumulatorIsBatch ==
    \A r \in Ranks :
        /\ pc[r] = "train" =>
              \A c \in Cells : acc[r][c] = i[r] .. i[r] + b[r] - 1
        /\ pc[r] \in {"loadB", "storeB"} =>
              \A c \in Cells : acc[r][c] = i[r] .. i[r] + CurBatch(r) - 1
        /\ pc[r] \in {"loadW", "storeW"} =>
              /\ acc[r]["b"] = {}
              /\ acc[r]["w"] = i[r] .. i[r] + CurBatch(r) - 1
        /\ pc[r] \in {"restore", "exit"} => \A c \in Cells : acc[r][c] = {}

\* Two updates a cell of the model holds from one worker in one epoch come from
\* different samples, all of them in that worker's share: no sample counts twice.
AppliedOnce ==
    \A f \in Nodes, c \in Cells :
        /\ \A u \in shared[f][c] :
              /\ u.batch # {}
              /\ u.batch \subseteq 0 .. Count(u.rank) - 1
        /\ \A u, v \in shared[f][c] :
              u # v /\ u.epoch = v.epoch /\ u.rank = v.rank => u.batch \cap v.batch = {}

\* The epoch's mean is made of whole shares: a worker that counts in it has
\* summed every sample of its share, and one that exited normally counts.
MeanIsOfWholeShares ==
    ppc = "test" =>
        \A r \in Ranks :
            /\ r \in final.from => metrics[r].of = 0 .. Count(r) - 1
            /\ pc[r] = "exited" => r \in final.from

\* Whatever the kernel did to the entries, no worker updates the weights of a
\* copy other than 0, the only one the parent tests; a bias update lands in
\* copy 0 or in the copy of the worker's node.
WeightsReachTestedCopy ==
    \A f \in Nodes :
        /\ f # 0 => shared[f]["w"] = {}
        /\ \A u \in shared[f]["b"] : f \in {0, Node(u.rank)}

\* A worker's dereferences never meet an absent entry once it has read the
\* structure, so no fault rearranges its view in the middle of the training.
NoLateFault ==
    \A r \in Ranks :
        pc[r] \in Training => /\ Present(table[r], view[r])
                              /\ Present(table[r], Frame(table[r], view[r]))

\* After the second pes every entry present maps its own copy again, whether
\* the first one exchanged entries or found one of them absent.
MappingRestored ==
    \A r \in Ranks :
        pc[r] = "exit" => \A s \in Nodes : table[r][s] \in {s, NoFrame}

\* From the last return of wait() to the next call of parallel_training nobody
\* but the parent changes the model or the reported metrics.
ParentWorksAlone ==
    [][ppc = "test" \/ (ppc = "wait" /\ waits = NWorkers) =>
        /\ shared' = shared
        /\ metrics' = metrics \/ ppc' # ppc]_vars

\* Racing workers may lose updates of their own epoch, but what an earlier
\* epoch left in the model stays in it: no worker holds a cell across the join.
EarlierEpochsKept ==
    [][\A f \in Nodes, c \in Cells :
          \A u \in shared[f][c] : u.epoch < epoch => u \in shared'[f][c]]_vars

\* parallel_training implements the fork/join rounds its callers rely on.
Mode == CASE ppc \in {"fork", "wait"} -> "open"
          [] ppc = "test" -> "closed"
          [] OTHER -> "stopped"
FJ == INSTANCE ForkJoin WITH
          Rounds <- 0 .. Epochs - 1,
          mode <- Mode,
          round <- epoch,
          started <- {r \in Ranks : pc[r] # "none"},
          running <- {r \in Ranks : Alive(r)}
ImplementsForkJoin == FJ!Spec

\* main's loop ends, or the parent died on a failed fork; no schedule of the
\* workers, no death of one and no missing system call makes it wait for ever.
EpochsEnd == <>(ppc \in {"done", "dead"})

\* Every worker ends, also the orphans of a parent that died.
WorkersEnd == \A r \in Ranks : Alive(r) ~> ~Alive(r)

-----------------------------------------------------------------------------
(* What the comments of the source say, and the code does not do.          *)

\* "0 = usa tutti i core disponibili": an epoch with no failure trains.
EveryEpochTrains ==
    ppc = "test" => final.from # {} \/ \E r \in Ranks : pc[r] = "failed"

\* "training set partitioning": two workers train on different samples.
Trained(r) == {Order[p] : p \in loss[r]}
SamplesPartitioned ==
    \A r, q \in Ranks : r # q /\ Alive(r) /\ Alive(q) => Trained(r) \cap Trained(q) = {}

\* "pte switch on my_node memory view": a worker trains the copy of its node.
TrainsOwnCopy ==
    \A f \in Nodes, c \in Cells : \A u \in shared[f][c] : f = Node(u.rank)
=============================================================================
