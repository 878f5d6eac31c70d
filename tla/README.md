# A TLA+ model of numa-aware-backpropagation

The program trains a feed-forward network with several worker processes. The
model's weights are kept once per NUMA node in one shared mapping; each worker
asks a kernel module to exchange two page-directory entries, so that it reads the
copy of its own node through the addresses of copy 0. This directory holds
TLA+ modules of that program, TLC configurations that check them on small
instances, and proofs checked by TLAPS.

Paths below are relative to `src/`; `nn.c` is
`backpropagation-parallel/neural_network.c` and `main.c` the file beside it.

## 1. The system

| Component | State | Operations | Talks to |
|---|---|---|---|
| Driver (`main.c`) | network, data sets, metrics stream, epoch counter, learning rate | lay out, load data, open, epoch loop, test, write a row, decay, close, free | calls the layout, the training loop, the file |
| Link-time wrappers (`wrappers.c`) | none | redirect `newNet`, `init_nn`, `model_train`, `free_NN` to the NUMA build | between driver and library |
| Shared model layout (`newNetSharedAlloc`, `setup_numa_model`) | one mapping, a slab per node with absolute pointers into itself | size, walk, initialise | read by every process |
| Training loop (`parallel_training`, `new_model_train`) | parent: loop counters, shared metrics; worker: view, counters, accumulators | fork, wait, average; pin, switch, copy, train, update, report, switch back, exit | processes share the model's cells and the metrics page |
| Private workspace (`init_private_workspace`) | gradients, momenta, activations of one process | allocate | used by the arithmetic |
| Arithmetic (`forward_propagation`, `back_propagation_accumulate`, `update_weights_batch`) | in, out, delta, db, dw, momenta | forward, errors, accumulate, step of four optimizers | reads and writes the shared weights |
| Order (`shuffle`) | the indexes of the samples, the state of `rand()` | exchange | `rand()`'s state is inherited at fork |
| Metrics (`calc_loss`, the loops of `model_train`, `new_model_train`, `model_test`) | loss and hits of the epoch | count a sample | what the outputs are compared with is the data sets |
| PES module (`pte-entry-switcher.c`) | a page directory and the TLBs | exchange two entries, flush | system call of every worker |
| Pinning (`pin_process_to_node`) | CPU affinity | choose a core, set affinity | decides whether a local flush is enough |
| USCTM module (`usctm.c`), `scth.c` | system-call table, dispatcher, CR0.WP | find the table, install and remove entries | shares the table with PES |
| `vtpmo.c` | none | is a kernel address mapped? | used by USCTM's search, reads the kernel's page tables |
| Dataset loading (`read_data.h`) | inputs, labels, one-hot labels | read, scale, normalise | read-only afterwards |
| Serial baseline (`backpropagation-original/`) | one network | the same arithmetic, a step after every sample | none |

What is hard here, and the property that makes each part correct:

- **Training loop.** Processes race on the weights without a lock, may fail at
  several places, be killed, or lose the kernel module half-way. The parent must
  wait exactly as often as there are children, test only when none is left, and
  average only whole shares; no sample may be applied twice; races must not reach
  beyond their epoch; every epoch must end.
- **View.** The kernel may copy a shared region's page-table entries at fork or
  leave them to page faults, and the switch silently does nothing when an entry is
  absent. The slabs' pointers are absolute, so each dereference is translated
  again. Weight updates must reach the copy that is tested, no fault may
  rearrange a view in the middle of training, and the second call must undo the
  first.
- **Switch.** The exchange is done under a read lock, can be preempted between any
  two instructions, and flushes only one CPU's TLB. It must look atomic, lose no
  frame, release its lock on every path and leave no stale translation in use.
- **Search.** USCTM reads kernel memory word by word. It must read only what is
  mapped, while other modules come and go, and must find the table wherever it
  begins: late in a page, in a large page, after unmapped pages.
- **Modules.** Two modules patch one table and find what they patch by pattern.
  They must never take a real system call, leave an entry of a removed module, or
  fail to restore the table.
- **Layout.** Sizes are computed by one function and used up by another, and bias
  vectors are indexed past their own end. No two used cells may overlap.
- **Driver.** A buffered stream is open across fork. The file must keep its order,
  and end with the report.
- **Arithmetic.** Errors must be sums over all paths, and a batch one step of its
  optimizer; the momenta must hold exactly the gradients since they were zeroed.
- **Data, order, metrics.** Both sets must go through one and the same map; the order of an
  epoch must be a permutation whatever `rand()` returns; each sample counts once,
  with the outputs of its own forward pass, though the two builds count it at
  different places.

`PROJECT.json` lists every component with its status and every hazard with its
line and the properties about it.

## 2. The modules

| Module | Models | Composition |
|---|---|---|
| `NumaView` | page-directory entries as a process sees them; pointer chains | operators, used by the next two |
| `ForkJoin` | what `parallel_training` promises: rounds of children | abstract specification |
| `ParallelTraining` | `main`'s epochs, `parallel_training`, `new_model_train` | extends `NumaView`, implements `ForkJoin` |
| `PteSwitch` | `sys_pte_entry_switch` and `pin_process_to_node` | justifies `NumaView!Switched` as one step |
| `SyscallTable` | loading and removal of USCTM and PES, the search as one step | specification of the next |
| `TableSearch` | USCTM's search and `sys_vtpmo`, while modules come and go | extends `SyscallTable` and implements it |
| `MemoryLayout` | shared slabs and private workspace, in bytes | extended by `Driver` |
| `Driver` | `main` with its file and its cleanup | composes `MemoryLayout` and `ForkJoin` |
| `Sums` | sums of a function's values, in a loop's order and in none | operators |
| `Residues` | the numbers of the next three | operators, extends `Sums` |
| `Backprop` | forward and back propagation, accumulation, four optimizers | extended by `TrainAndTest` |
| `Dataset` | reading, scaling and normalising the data sets | extended by `TrainAndTest` |
| `Shuffle` | the order of an epoch's samples | instantiated by `TrainAndTest` |
| `TrainAndTest` | `main` of one process: data, epochs, metrics, test, decay | composes `Backprop`, `Dataset` and `Shuffle` |
| `ParallelTrainingProofs` | proofs about `ParallelTraining` | |
| `PteSwitchProofs`, `ShuffleProofs` | proofs about `PteSwitch` and `Shuffle` | |
| `TableSearchProofs` | proofs about `SyscallTable` and `TableSearch` | |
| `SumProofs` | lemmas about `Sums` | extended by the next three |
| `DriverProofs` | proofs about `MemoryLayout` and `Driver` | |
| `BackpropProofs` | residues, networks, paths: lemmas about `Residues` and `Backprop` | extended by `TrainProofs` |
| `TrainProofs` | proofs about `Backprop`, `Dataset` and `TrainAndTest` | |
| `MC...` | constants of the instances | |

A definition whose comment calls it a *mutant* is a plausible bug in the
definition that follows it. No specification uses it: it is there to show that the
property it is paired with in `PROJECT.json` notices that bug.

### Correspondence with the code

**ParallelTraining.** `ppc`, `forked` and `waits` are the parent's position and loop counters;
`pc[r]`, `i[r]`, `b[r]` those of the worker of rank r. `table[r]` maps the slabs to the
physical copies the worker's page-directory entries name, and `view[r]` is the
copy whose structure it read into `local_nn`. Numbers are replaced by where they
come from: an accumulator is the set of sample positions it has summed, a cell of
the shared model the set of updates it holds, a metric the set of positions it is
the mean of. One bias and one weight stand for all of them. `nn->b[k][j] -= ...` is
two steps, `Load` and `Store`. `Fork` chooses between the two page tables the kernel
may give a child; `ForkFails`, `Killed` and `Uninstall` are the failures.

**PteSwitch.** One action per instruction that touches shared state. `Migrate` may
happen between any two of them while the worker is not pinned, `Access` is a memory
access with its TLB fill and page fault, `Evict` a TLB replacement. One process
calls: the program's workers are single-threaded and each has its own directory.

**SyscallTable.** `LoadUsctm` and `UnloadUsctm` are single steps, as their writes are
made with preemption disabled. PES does not disable it: its load and removal are
`Unprotect`, `Write` and `Protect`, with `Move` in between. A loader that was moved to
a CPU which still protects the table faults; the module is then `"dead"`, neither
usable nor removable. CR0.WP may also stay clear on the CPU the loader left. Both
are what the code does, and the properties are required to hold in spite of it.

**MemoryLayout.** `ptr` is `current_ptr`, then `d_ptr`, as an offset from the start of
its mapping. Each slab is walked as in `newNetSharedAlloc`; `b` and `w` record the
addresses of the data. Alignments that are multiples of 8 already are left out
where they change nothing. `drawn` is the set of addresses that hold a random
weight. (The copies are drawn one after the other from one generator, so the
nodes start from different weights.)

**Driver.** `Layout` runs the steps of `MemoryLayout`, the epochs are steps of
`ForkJoin`, which `ParallelTraining` is shown to implement. `buffer` is what the parent's
stream has not written, `inherited[r]` the copy of it in child r. The stream's buffer
is taken to be large enough for the report: it is 4 KB and a row has about 40
bytes. `main`'s loop over the copies reads the copy at `i * PDE_ALIGN_SIZE` and
unmaps `initial_mmap_addr`, which is slab 0 for all of them, so the other slabs
stay mapped until the process ends.

**TableSearch.** Between the start of a load and its end the module walks `k` over
pages and `i` over the words of a page. `ProbePage`, `ProbeSecond` and `MatchWord` are
separate steps, so that a page may go away after `sys_vtpmo` has answered for it;
`MarkersRead` names the entries that the chain of comparisons reads before it
gives up. A read of a page that is not there is `"oops"`. Page tables are a
function from paths of indexes to entries; `sys_vtpmo` looks at the entries on the
path, `Translates` is what the processor makes of them. The kernel's image is
mapped in pages and large pages, in any mixture that has the table in it; what lies
beneath a large page is whatever was left there. Other modules' pages lie behind
the image. The rest of the kernel's memory holds one word everywhere, of each of
the kinds that the pattern tells apart. `good_area` reads entries between marked ones; a table has at
most two pages, so that no page is read that `MarkersRead` does not name. Commands are
taken to run one after the other, as the scripts run them.

**Residues, Backprop.** In place of doubles the model computes with the residues of
a prime, written next to zero. They form a field, so sums, products, quotients
and powers obey the laws of real arithmetic exactly, and an expression that is
wrong in the reals differs somewhere. There is no rounding, no overflow
and no NaN, and order means little; functions that are not algebraic are
parameters, of which it matters that they tell their arguments apart and that outputs and
roots are positive. `build` selects the program: the serial one takes a step after
every sample, has one more term in a hidden error, and knows four optimizers where the NUMA
build knows two. The last layer's function takes the sums of the whole layer,
since softmax does. The serial step reads the gradient of its one sample directly; the model
gives it a batch of one.

**Dataset.** A file is absent or a sequence of lines, a line a label and pixels. The arrays
come from `malloc` and hold `Garbage` until they are read; a short file leaves their
end so, and its labels are encoded all the same. `Normalize` uses the mean and deviation of the
training set as they are before it changes them, and leaves a dimension alone whose
deviation is not above the threshold of 0.0001 (`Varies`): among 60000 samples, a dimension in which one pixel is 1 and
all others are 0 stays below it and keeps its mean.

**Shuffle, TrainAndTest.** `Exchange` is one turn of `shuffle`. In the NUMA build a worker is forked for
every epoch: `NewWorkspace` gives it zeroed neurons, gradients and momenta, puts
the parent's neurons aside (`idle`, taken back by `StartTest`) and rewinds `next`, for the
child finds `rand()` where the parent left it and the parent never calls it. `drawn` is
what `rand()` has returned so far; the serial build goes on in it. The one worker
trains on the whole share; several are `ParallelTraining`'s subject. `TrainOutput`
counts the sample in the NUMA build, `TrainUpdate` in the serial one. `seen` and `past`
are history: which samples were loaded and what was put out for them, and the
gradients since the momenta were zero. The averages that the metrics end in divide by a constant and are
left out.

## 3. What TLC checks

| Run | Shows |
|---|---|
| `training` | One epoch, two workers on two nodes, every interleaving and failure: the safety of waiting, accumulation, update, view and metrics |
| `epochs` | Two epochs under fairness: rounds implement `ForkJoin`, earlier epochs' updates survive, epochs and workers end |
| `pte_switch` | Calls, faults, migration and failing pinning on two CPUs: atomic, lossless, lock released, no stale translation when pinned |
| `syscall_table` | Every order of loading and removal, with the search step by step: it reads only mapped pages, ends at the table and is one load to the rest (`ImplementsSyscallTable`); no real call is taken, the table is restored, the number stays |
| `driver` | `main` over 117 architectures: sizes exact, used cells disjoint, model initialised, slab s in page-directory entry s, the file in order, the free loop |
| `backprop` | Both builds, four optimizers, two losses, five pairs of files, every order of the samples, two epochs: outputs, errors, momenta, steps, metrics and data sets against their definitions |

Six runs show where the program disagrees with what its documents say. Each checks
one property, which is violated:

| Run | The documents say | The program does |
|---|---|---|
| `workers_zero` | 0 processes means all available cores | starts none, and the metrics are 0/0 |
| `partition` | the training set is partitioned | every worker trains on the same first samples of one order |
| `own_copy` | a worker has its node's memory view | weight updates go to copy 0 |
| `metrics_file` | a header and a row per epoch | each child writes the unflushed lines again (only with workers: with the wrapper's 0 the file is right) |
| `relu_gradient` | gradient of the error function | the derivative is taken at the output, so `relu_d` is always 1 |
| `serial_bias` | weighted sum of the deltas of the next layer | the serial build adds the next layer's biases too |

### Bounds

- `training`: 2 workers and 2 nodes give every pair of racing processes and both
  kinds of view (node 0, whose switch exchanges an entry with itself, and node 1).
  7 samples give shares of 3 and 4 in batches of 2: the remainder, a short last
  batch and a full one. One epoch; a second one only adds what `epochs` covers.
- `epochs`: 2 workers, 1 node, a sample each, 2 epochs: enough for updates of an
  earlier epoch, orphans, and a wait that could hang. Temporal checking
  determines the size.
- `pte_switch`: a directory of 3 entries (two exchanged and a bystander), indexes
  from -1 to 2 on bases 0 to 2, so that each check is met from both sides; 2 CPUs.
- `syscall_table`: 9 entries, 5 of them free: one below the compiled-in number, one
  that the search does not look at; the exposed array holds 4 of 5. The kernel is
  one that does not dispatch through the table. Page tables of 2 entries and pages of 8
  words, so 16 pages: a hole before the image, four pages of image that may be
  large ones, absent or ordinary, and a page of modules right behind. The table begins
  with a page, ends with one, is cut by a page boundary before, between or behind the
  marked entries, or ends with the image, next to the pages that come and go.
- `driver`: all networks of 2 to 4 layers with 1 to 3 neurons; a page-directory entry
  of 1 KB, so that copies of one entry and of two both occur; 2 workers, 2 epochs.
- `backprop`: the prime is 101. Layers 2-2-2-2, so that paths fork and meet behind a hidden
  layer, and no layer is larger than the one before, as the serial allocation
  requires; weights of either sign; 3 samples in batches of 2 and 1, or one by one; two
  epochs, so that momenta, `rand()` and the learning rate meet a second one. `rand()` returns 0 to 2, enough for every
  order of three. Files: absent, empty, short, exact, long; one dimension varies,
  the other one does not or hardly does. Stand-ins for the transcendental functions only have to tell
  their arguments apart. `relu_gradient` and `serial_bias` use weights of -1 and 1 in a 2-2-1
  network with the real `relu`; no number in their counterexamples comes near
  the prime, so they are counterexamples over the integers.

`CHECK_DEADLOCK FALSE` is set where the program ends (training, driver, backprop) and
not for the system call and the modules, which can always go on.

### Fairness

`FairSpec` asks for weak fairness of the parent and of each worker: the kernel runs
every runnable process. `wait` is fair because it is enabled once a child has
ended. Nothing is asked of `ForkFails`, `Killed` and `Uninstall`. The other modules
state safety only.

## 4. What is proved

TLAPS checks the following for every value of the constants, from the modules'
assumptions (positive numbers of nodes and epochs, a positive batch size,
`Order` an injection; for `PteSwitch`, a non-empty list of the node's CPUs; for the
table and the search, what is said of the kernel's table and its places in
`SyscallTableAssumption` and `TableSearchAssumption`; for the arithmetic, those of
the next paragraph). Where a theorem needs more, its statement says so:

- `SecondFree`: the number compiled into the application (`PES`, 156) is the table's
  second free entry and not its last. `get_entries` gives PES the first entry of a
  word that comes twice, and USCTM has taken the first; with another number
  `NumberIsStable` is false.
- `KernelTable`: `SecondFree`, entry 0 is in use, the first free entry is not 1, and the
  application's number is none of the pattern's (134, 174, 182, ...). If it were, the
  search could not recognise the table while PES is loaded.
- `Epochs > 0` for `DriverImplementsForkJoin`: with no epochs `main` closes the file
  without a round.

The arithmetic's assumptions are that the numbers are the residues of an odd prime;
that every layer has a neuron and there are two layers; that the number of samples, the batch size
and 255 are no multiples of the prime, as the reals divide by them without asking; that the functions
in place of the transcendental ones take numbers to numbers, and that what is divided by
is not zero: a root with its epsilon, a deviation above the threshold, 1 - beta^itr for the epochs there are.
The last is where `itr` beginning at 1 matters.

- `ParallelTrainingProofs`. `TypeOK` is not inductive: that a rank about to be forked
  has no process needs to know who has been forked. `RoundInv` says, for each phase
  of the parent, which ranks have a process and that `reaped` counts the waits. From it
  follow `TypeCorrect`, `JoinCorrect` (`JoinBeforeTest`: as many different children have ended as
  there are ranks, so all have), `WaitCorrect`, `ParentAlone` and `Refinement`, where
  each step is mapped to a step of `ForkJoin` or to none.

  About the view: a worker's table is one of two at each point: the parent's with two
  entries exchanged, or only slab 0 present. `ViewInv` says which, and with the lemmas
  on the pointer chains gives `NoLateFaults` and `MappingIsRestored`.

  About the updates: `MemInv` relates the loop counters, the accumulators and the metrics
  sums of a worker to its share; `AccumulatorsHoldBatch` and `MeansAreOfWholeShares`
  follow. `PlaceInv` with `ViewInv` gives `WeightsAreTested`.

  About the races: a lost update is harmless only if what is written back is sound: `CellInv`
  says that a cell, and a copy of it loaded by some worker, hold updates from
  disjoint parts of the prefix their worker has applied (`NoSampleTwice`). `PastInv` says that a
  loaded copy agrees with its cell about the epochs that are over
  (`EarlierEpochsAreKept`).
- `ShuffleProofs`. `ShufflePermutes`: for every length and every random number the
  order stays a permutation. The rounding of the two divisions is the point: the
  quotient by more than a k-th of `RAND_MAX` is below k (`QuotientBound`), so the partner is
  in the array, and an exchange of two places keeps a permutation.
- `PteSwitchProofs`. The invariant is about `View`, the table with a half-done exchange
  undone: it is injective, and closed, so that a fault never installs a frame
  that is mapped elsewhere. With the state of the call and of the TLBs it gives
  `TypeCorrect`, `NoFrameIsTwice`, `LockIsReleased`, `PinnedIsCoherent` and `SwitchAtomic`.
  `CoresSpread` is the arithmetic of pinning: two ranks of one node get different
  cores while there are enough.
- `TableSearchProofs`. About `SyscallTable`: `TableInv` says who holds which entry.
  The first free one is USCTM's or nobody's, PES's is another, and every
  other entry is the kernel's; that PES's entry is its own, the kernel's or in between
  depends on where PES is and whether its loader faulted. `CallsAreKept`,
  `HandlersAreLoaded` and `TableIsRestored` follow, and with `NumberInv`, `NumberStays`. About
  `TableSearch`: the search is never behind the table (`PlaceInv`), the entries of
  the page tables are built as the MMU wants them (`MemoryInv`), so `sys_vtpmo` answers what the
  MMU would (`ProbeIsTranslation`), and modules that come and go do not touch what lies
  before the table's end (`TablePlace`). From these, `SearchReadsMapped` and
  `SearchFindsTable`; `SearchRefines` maps every step to a step of `SyscallTable` or
  to none, so that `SearchKeepsTable` inherits the theorems about it.
- `DriverProofs`. About the file: the parent's buffer and every child's copy of it are
  prefixes of the report (`StreamInv`), and a child is left only when a failed
  fork has ended the epochs (`CourseInv`); hence `FileLinesFollow` and `FileEndsWithReport`.
  `CleanupInv` says which page-directory entries are still mapped, for `FreeReadsMapped`.
  `DriverImplementsForkJoin` and `DriverKeepsLayout` are step simulations. About the layout:
  the pointer is the sum of the sizes walked so far (`WalkInv`), a pointer that is set is the
  address its layer's data begins at (`PointersInv`), and random numbers are in the used
  weights of the nodes that are done (`DrawnInv`). `WalksEndInPlace` then
  is `SharedModelSize` and `PrivateSize` against the two walks, `CellsAreDisjoint` that
  rows, layers and slabs follow one another without overlap, though a bias vector is indexed by
  the size of the next layer. `ModelIsDrawn` is that `init_nn`'s loops reach exactly the used
  cells.
- `SumProofs`. The other modules' sums are taken over layers, neurons, samples, paths
  and past gradients. `SumFacts` and `TotalFacts` unfold the two kinds of sum, `SumIsTotal`
  equates them, and `OverUnion`, `OverImage`, `OverPlus`, `OverScale` and `OverClasses` split,
  rename, add, multiply and sort them. Induction is over the set of the numbers, or of the
  subsets, that a fact holds for.
- `BackpropProofs` and `TrainProofs`: one process, with `main` around it. The invariant has
  four parts.
  - `TrainInv`: every cell holds a number, the loops are in place, `data` is what the phase says
    it is, the order is a permutation, and what the layers up to the one in work have put out is
    what the network as a function puts out (`OutOK`). The type invariant alone is not
    inductive: that a batch is never empty when its mean is taken, and never more than the batch size, needs
    `PlaceOK`, and that no step divides by zero needs the epoch's number. From it,
    `TrainTypeCorrect` and `ForwardComputesNet`.
  - `MetricsInv`: the loss and the hits are those of the samples counted so far (`Counted`: the serial build
    counts a sample after its update, the NUMA build before its errors); hence `MetricsAreExact`. That no sample is
    counted twice is that the order is a permutation (`SeenOnce`), and what the search for the largest output
    finds is `PredictedFacts`.
  - `HistoryInv`: the errors of the layers behind the one in work are sums over paths, the gradients are the sums
    of the batch so far, and the momenta the weighted means of `past`. The recursion over layers is
    `PathSumStep`: the paths from a neuron are sorted by the neuron they go through next, and the
    rests of the paths through one neuron are all the paths from it (`RestFacts`); an edge is a factor of
    all of them. `AverageGrows` is that a moving average takes in one more term and lets
    all others fade by one more factor. Hence `DeltasAreSums`, `MomentsAreAverages` and, as the step
    that a batch ends in is computed from the two, the action property `BatchesAreSteps`.
    `NumaEdgesAreWeights` says that what `serial_bias` refutes does hold when the serial build is
    not among the builds.
  - `FilesOK`: a file that is long enough is in its arrays, scaled or not yet. Hence
    `SetsComeOutComparable`: the slope of the map is a product of two inverses, so it is not
    zero (`UnitsMultiply`), and what is moved by its mean adds up to nothing
    (`CentredAddsUpToNothing`).

Only model-checked: liveness (`EpochsEnd`, `WorkersEnd`), which is beyond the prover, and the
six counterexamples. Every other property of the passing runs is a theorem.

## 5. What is not modelled

- Rounding, overflow and NaN of doubles: softmax's 0/0, and the size of the errors that sums
  in different orders make.
- Parsing of a line of a data file and of the command line, and the text of the metrics' rows.
- `newNet` and `free_NN` of the serial build: one `malloc` and one `free` for each array.
- CET around the writes of USCTM.
- Calls in flight while a module is removed; several threads in one process.
- Code the programs do not reach: `newNetSingleAlloc`, `init_private_workspace_old`,
  the NUMA build's `model_train` and `back_propagation`, `usctm.c.back`.
- Build files and the manual test programs of the kernel modules.

## 6. Plan

Built so far, in this order: training loop with its view and abstract
specification; its proofs; the switch and its proofs; the module table; layout and
driver; arithmetic; the search and its refinement of the module table; data sets, order, optimizers,
metrics and test; the proof about the order.

Then the proofs about the module table, the search, the layout and the driver; and those about the
training of one process, from its loops to its data sets.

Next:

1. The removal of a module with calls in flight, and a directory shared by two threads,
   as variants that show what the code relies on.
2. What holds in place of `relu_gradient`: the errors are the gradient as long as no neuron of
   a `relu` network is switched off.
3. The worker of `ParallelTraining` and the process of `TrainAndTest` under one roof: an update's
   set of samples as the batch whose step it is.
