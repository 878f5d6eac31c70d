------------------------ MODULE ParallelTrainingProofs ------------------------
(***************************************************************************)
(* Proofs about ParallelTraining, for every number of workers, nodes,      *)
(* samples and epochs: the fork/join rounds, where a worker's accesses go, *)
(* what its accumulators and the shared model hold, and what survives the  *)
(* races.                                                                  *)
(***************************************************************************)
EXTENDS ParallelTraining, FiniteSetTheorems, TLAPS

-----------------------------------------------------------------------------
(***************************************************************************)
(* The rounds.  IInv is the inductive invariant of the fork/join rounds:   *)
(* what has been forked and reaped so far decides where the workers can    *)
(* be, and that decides where the parent can be.                           *)
(***************************************************************************)

\* Who has been forked and reaped, in each phase of the parent.
RoundInv ==
    /\ ppc # "done" => epoch < Epochs
    /\ ppc \in {"fork", "dead"} => /\ waits = 0
                                   /\ reaped = {}
                                   /\ \A r \in Ranks : pc[r] = "none" <=> r >= forked
    /\ ppc \in {"wait", "test"} => \A r \in Ranks : pc[r] # "none"
    /\ \A r \in reaped : Ended(r)
    /\ waits = Cardinality(reaped)
    /\ ppc = "test" => waits = NWorkers
    /\ ppc = "done" => \A r \in Ranks : pc[r] = "none"

IInv == TypeOK /\ RoundInv

-----------------------------------------------------------------------------
LEMMA RanksFinite == IsFiniteSet(Ranks) /\ Cardinality(Ranks) = NWorkers
  BY ParallelTrainingAssumption, FS_Interval DEF Ranks

\* The shares are ranges of the positions: no worker runs past total_samples.
LEMMA CountBounds == ASSUME NEW r \in Ranks
                     PROVE Count(r) \in 0 .. TotalSamples
<1> DEFINE S == TotalSamples \div NWorkers
<1>1. NWorkers \in Nat /\ NWorkers > 0 /\ TotalSamples \in Nat /\ r \in 0 .. NWorkers - 1
  BY ParallelTrainingAssumption DEF Ranks
<1>2. S \in Nat /\ NWorkers * S <= TotalSamples
  BY <1>1
<1>3. r * S \in Nat /\ r * S <= TotalSamples /\ S <= TotalSamples
  BY <1>1, <1>2
<1> QED
  BY <1>1, <1>2, <1>3 DEF Count, SamplesPerWorker

LEMMA NodeType == ASSUME NEW r \in Ranks PROVE Node(r) \in Nodes
  BY NumNodesAssumption, ParallelTrainingAssumption DEF Node, Nodes, Ranks

LEMMA FrameType == ASSUME NEW t \in Tables, NEW s \in Nodes
                   PROVE Frame(t, s) \in Nodes /\ Touch(t, s) \in Tables
  BY DEF Frame, Touch, Tables, Nodes, NoFrame

LEMMA SwitchedType == ASSUME NEW t \in Tables, NEW s \in Nodes, NEW q \in Nodes
                      PROVE Switched(t, s, q) \in Tables
  BY DEF Switched, Present, Tables, Nodes, NoFrame

\* A blank memory and a fresh metrics entry are well typed.
LEMMA BlankTypes ==
    /\ Absent \in Tables /\ Copied \in Tables /\ 0 \in Nodes
    /\ [c \in Cells |-> {}] \in [Cells -> SUBSET Positions]
    /\ Zero \in Reports
  BY NumNodesAssumption DEF Absent, Copied, Tables, Nodes, Zero, Reports

\* The next sample is one of the positions, and the counters stay in range.
LEMMA SampleRange == ASSUME TypeOK, NEW r \in Ranks,
                            i[r] < Count(r), b[r] < CurBatch(r)
                     PROVE i[r] + b[r] \in 0 .. Count(r) - 1 /\ b[r] + 1 \in 0 .. BatchSize
<1>1. i[r] \in Nat /\ b[r] \in 0 .. BatchSize /\ BatchSize \in Nat
  BY ParallelTrainingAssumption DEF TypeOK
<1>2. Count(r) \in 0 .. TotalSamples /\ TotalSamples \in Nat
  BY CountBounds, ParallelTrainingAssumption
<1>3. b[r] < BatchSize /\ b[r] < Count(r) - i[r]
  BY <1>1, <1>2 DEF CurBatch
<1> QED
  BY <1>1, <1>2, <1>3

LEMMA HomeType == ASSUME TypeOK, NEW r \in Ranks, NEW c \in Cells
                  PROVE Home(r, c) \in Nodes
  BY FrameType DEF TypeOK, Home, CellFrame, BiasFrame, WeightFrame

\* A worker that is still running belongs to an epoch that is under way.
LEMMA AliveInEpoch == ASSUME IInv, NEW r \in Ranks, Alive(r)
                      PROVE epoch \in 0 .. Epochs - 1
  BY ParallelTrainingAssumption DEF IInv, TypeOK, RoundInv, Alive

LEMMA UpdateType == ASSUME IInv, NEW r \in Ranks, Alive(r), NEW c \in Cells
                    PROVE Update(r, c) \in Updates
  BY AliveInEpoch DEF IInv, TypeOK, Update, Updates

-----------------------------------------------------------------------------
LEMMA InitIInv == Init => IInv
<1> SUFFICES ASSUME Init PROVE IInv
  OBVIOUS
<1>1. TypeOK
  BY BlankTypes, ParallelTrainingAssumption DEF Init, TypeOK
<1>2. RoundInv
  BY ParallelTrainingAssumption, FS_EmptySet DEF Init, RoundInv, Ranks
<1> QED
  BY <1>1, <1>2 DEF IInv

LEMMA StepTypeOK == IInv /\ [Next]_vars => TypeOK'
<1> SUFFICES ASSUME IInv, [Next]_vars PROVE TypeOK'
  OBVIOUS
<1> USE ParallelTrainingAssumption DEF IInv
<1>1. ASSUME NEW r \in Ranks, Fork(r) PROVE TypeOK'
  BY <1>1, BlankTypes DEF Fork, TypeOK, Ranks
<1>2. CASE ForkFails
  BY <1>2 DEF ForkFails, TypeOK, worker, memory
<1>3. CASE EndForkLoop
  BY <1>3 DEF EndForkLoop, TypeOK, worker, memory
<1>4. ASSUME NEW r \in Ranks, Wait(r) PROVE TypeOK'
  BY <1>4 DEF Wait, TypeOK, worker, memory
<1>5. CASE Reduce
  BY <1>5 DEF Reduce, TypeOK, worker, memory
<1>6. CASE TestAndContinue
  BY <1>6, BlankTypes DEF TestAndContinue, TypeOK, RoundInv, memory
<1>7. ASSUME NEW r \in Ranks, Begin(r) PROVE TypeOK'
  BY <1>7, BlankTypes, FrameType DEF Begin, TypeOK, parent
<1>8. ASSUME NEW r \in Ranks, NEW how \in {"exited", "failed"}, Exit(r, how),
             UNCHANGED <<parent, metrics, installed, shared>>
      PROVE TypeOK'
  BY <1>8, BlankTypes DEF Exit, TypeOK, parent
<1>9. ASSUME NEW r \in Ranks, SwitchIn(r) PROVE TypeOK'
  <2>1. CASE installed
    <3>1. Switched(table[r], 0, Node(r)) \in Tables
      BY BlankTypes, NodeType, SwitchedType DEF TypeOK
    <3>2. table' \in [Ranks -> Tables]
      BY <1>9, <2>1, <3>1 DEF SwitchIn, TypeOK
    <3>3. pc' = [pc EXCEPT ![r] = "copy"]
          /\ UNCHANGED <<view, i, b, acc, loss, reg, parent, metrics, installed, shared>>
      BY <1>9, <2>1 DEF SwitchIn
    <3> QED
      BY <3>2, <3>3 DEF TypeOK, parent
  <2>2. CASE ~installed
    BY <1>8, <1>9, <2>2 DEF SwitchIn
  <2> QED
    BY <2>1, <2>2
<1>10. ASSUME NEW r \in Ranks, CopyModel(r) PROVE TypeOK'
  <2>1. Frame(table[r], 0) \in Nodes
    BY BlankTypes, FrameType DEF TypeOK
  <2>2. view' \in [Ranks -> Nodes]
    BY <1>10, <2>1 DEF CopyModel, TypeOK
  <2>3. acc' \in [Ranks -> [Cells -> SUBSET Positions]]
    BY <1>10, BlankTypes DEF CopyModel, TypeOK
  <2>4. /\ i' \in [Ranks -> Nat]
        /\ b' \in [Ranks -> 0 .. BatchSize]
        /\ loss' \in [Ranks -> SUBSET Positions]
    BY <1>10 DEF CopyModel, TypeOK
  <2>5. table' \in [Ranks -> Tables]
    BY <1>10, BlankTypes, FrameType DEF CopyModel, TypeOK
  <2> QED
    BY <1>10, <2>2, <2>3, <2>4, <2>5 DEF CopyModel, TypeOK, parent, Training
<1>11. ASSUME NEW r \in Ranks, Sample(r) PROVE TypeOK'
  <2>1. i[r] + b[r] \in Positions /\ b[r] + 1 \in 0 .. BatchSize
    BY <1>11, SampleRange, CountBounds DEF Sample, Positions
  <2>2. [c \in Cells |-> acc[r][c] \cup {i[r] + b[r]}] \in [Cells -> SUBSET Positions]
    BY <2>1 DEF TypeOK
  <2> QED
    BY <1>11, <2>1, <2>2 DEF Sample, TypeOK, parent
<1>12. ASSUME NEW r \in Ranks, EndBatch(r) PROVE TypeOK'
  BY <1>12 DEF EndBatch, TypeOK, parent, Training
<1>13. ASSUME NEW r \in Ranks, NEW c \in Cells, Alive(r), Load(r, c)
       PROVE reg' \in [Ranks -> SUBSET Updates]
  BY <1>13, HomeType DEF Load, TypeOK
<1>14. ASSUME NEW r \in Ranks, NEW c \in Cells, Alive(r), Store(r, c)
       PROVE /\ shared' \in [Nodes -> [Cells -> SUBSET Updates]]
             /\ acc' \in [Ranks -> [Cells -> SUBSET Positions]]
             /\ reg' \in [Ranks -> SUBSET Updates]
  <2>1. Update(r, c) \in Updates /\ Home(r, c) \in Nodes
    BY <1>14, HomeType, UpdateType
  <2>2. reg[r] \cup {Update(r, c)} \in SUBSET Updates
    BY <2>1 DEF TypeOK
  <2> QED
    BY <1>14, <2>1, <2>2 DEF Store, TypeOK
<1>15. ASSUME NEW r \in Ranks, LoadBias(r) PROVE TypeOK'
  BY <1>13, <1>15 DEF LoadBias, TypeOK, parent, Training, Alive, Cells
<1>16. ASSUME NEW r \in Ranks, StoreBias(r) PROVE TypeOK'
  BY <1>14, <1>16 DEF StoreBias, TypeOK, parent, Training, Alive, Cells
<1>17. ASSUME NEW r \in Ranks, LoadWeight(r) PROVE TypeOK'
  BY <1>13, <1>17 DEF LoadWeight, TypeOK, parent, Training, Alive, Cells
<1>18. ASSUME NEW r \in Ranks, StoreWeight(r) PROVE TypeOK'
  <2>1. /\ shared' \in [Nodes -> [Cells -> SUBSET Updates]]
        /\ acc' \in [Ranks -> [Cells -> SUBSET Positions]]
        /\ reg' \in [Ranks -> SUBSET Updates]
    BY <1>14, <1>18 DEF StoreWeight, Alive, Cells
  <2>2. i' \in [Ranks -> Nat] /\ b' \in [Ranks -> 0 .. BatchSize]
    BY <1>18 DEF StoreWeight, TypeOK
  <2> QED
    BY <1>18, <2>1, <2>2 DEF StoreWeight, TypeOK, parent, Training
<1>19. ASSUME NEW r \in Ranks, Report(r) PROVE TypeOK'
  BY <1>19 DEF Report, TypeOK, parent, Reports
<1>20. ASSUME NEW r \in Ranks, SwitchOut(r) PROVE TypeOK'
  <2>1. CASE installed
    <3>1. Switched(table[r], Node(r), 0) \in Tables
      BY BlankTypes, NodeType, SwitchedType DEF TypeOK
    <3>2. table' \in [Ranks -> Tables]
      BY <1>20, <2>1, <3>1 DEF SwitchOut, TypeOK
    <3>3. pc' = [pc EXCEPT ![r] = "exit"]
          /\ UNCHANGED <<view, i, b, acc, loss, reg, parent, metrics, installed, shared>>
      BY <1>20, <2>1 DEF SwitchOut
    <3> QED
      BY <3>2, <3>3 DEF TypeOK, parent
  <2>2. CASE ~installed
    BY <1>8, <1>20, <2>2 DEF SwitchOut
  <2> QED
    BY <2>1, <2>2
<1>21. ASSUME NEW r \in Ranks, Leave(r) PROVE TypeOK'
  BY <1>8, <1>21 DEF Leave
<1>22. ASSUME NEW r \in Ranks, Killed(r) PROVE TypeOK'
  BY <1>8, <1>22 DEF Killed
<1>23. CASE Uninstall
  BY <1>23 DEF Uninstall, TypeOK, parent, worker, memory
<1>24. CASE UNCHANGED vars
  BY <1>24 DEF TypeOK, vars, parent, worker, memory
<1> QED
  BY <1>1, <1>2, <1>3, <1>4, <1>5, <1>6, <1>7, <1>9, <1>10, <1>11, <1>12, <1>15,
     <1>16, <1>17, <1>18, <1>19, <1>20, <1>21, <1>22, <1>23, <1>24
     DEF Next, Parent, Worker

\* A worker's step, its death included, leaves the parent alone and takes the
\* worker to a place where a forked process can be.
LEMMA WorkerMoves == ASSUME TypeOK, NEW r \in Ranks, Worker(r) \/ Killed(r)
                     PROVE /\ UNCHANGED parent /\ Alive(r)
                           /\ \E s : s # "none" /\ pc' = [pc EXCEPT ![r] = s]
<1>1. UNCHANGED parent /\ Alive(r)
  BY DEF Worker, Killed, Alive, Begin, SwitchIn, CopyModel, Sample, EndBatch,
         LoadBias, StoreBias, LoadWeight, StoreWeight, Report, SwitchOut, Leave
<1>2. CASE Sample(r)
  <2>1. pc' = [pc EXCEPT ![r] = "train"]
    BY <1>2 DEF Sample, TypeOK
  <2> QED
    BY <1>1, <2>1
<1>3. CASE ~Sample(r)
  BY <1>1, <1>3 DEF Worker, Killed, Exit, Begin, SwitchIn, CopyModel, EndBatch,
         LoadBias, StoreBias, LoadWeight, StoreWeight, Report, SwitchOut, Leave
<1> QED
  BY <1>2, <1>3

\* A worker that moves stays among the forked ones, and if it was reaped it
\* had ended and does not move.
LEMMA WorkerRound == ASSUME IInv, NEW r \in Ranks, Alive(r), UNCHANGED parent,
                            NEW s, s # "none", pc' = [pc EXCEPT ![r] = s]
                     PROVE RoundInv'
<1>1. /\ UNCHANGED <<ppc, epoch, forked, waits, reaped>>
      /\ pc \in [Ranks -> {"none", "start", "switch", "copy", "restore",
                           "exit", "exited", "failed"} \cup Training]
      /\ reaped \subseteq Ranks
  BY DEF IInv, TypeOK, parent
<1>2. r \notin reaped
  BY DEF IInv, RoundInv, Ended, Alive
<1>3. pc[r] # "none" /\ ppc # "done"
  BY DEF IInv, RoundInv, Alive
<1>4. \A q \in Ranks : pc'[q] = "none" <=> pc[q] = "none"
  BY <1>1, <1>3
<1>5. \A q \in reaped : Ended(q)'
  BY <1>1, <1>2 DEF IInv, RoundInv, Ended
<1> QED
  BY <1>1, <1>3, <1>4, <1>5 DEF IInv, RoundInv

LEMMA StepRoundInv == IInv /\ [Next]_vars => RoundInv'
<1> SUFFICES ASSUME IInv, [Next]_vars PROVE RoundInv'
  OBVIOUS
<1> USE ParallelTrainingAssumption DEF IInv
<1>1. ASSUME NEW r \in Ranks, Fork(r) PROVE RoundInv'
  BY <1>1 DEF Fork, TypeOK, RoundInv, Ranks, Ended
<1>2. CASE ForkFails
  BY <1>2 DEF ForkFails, RoundInv, Ended, worker
<1>3. CASE EndForkLoop
  BY <1>3 DEF EndForkLoop, RoundInv, Ended, worker, Ranks
<1>4. ASSUME NEW r \in Ranks, Wait(r) PROVE RoundInv'
  <2>1. Cardinality(reaped') = Cardinality(reaped) + 1
    <3>1. IsFiniteSet(reaped)
      BY RanksFinite, FS_Subset DEF TypeOK
    <3> QED
      BY <1>4, <3>1, FS_AddElement DEF Wait
  <2> QED
    BY <1>4, <2>1 DEF Wait, RoundInv, Ended, worker
<1>5. CASE Reduce
  BY <1>5 DEF Reduce, RoundInv, Ended, worker
<1>6. CASE TestAndContinue
  <2>1. epoch' \in Nat /\ (ppc' # "done" => epoch' < Epochs)
    BY <1>6 DEF TestAndContinue, TypeOK
  <2>2. Cardinality(reaped') = 0
    BY <1>6, FS_EmptySet DEF TestAndContinue
  <2> QED
    BY <1>6, <2>1, <2>2 DEF TestAndContinue, RoundInv, Ranks
<1>7. ASSUME NEW r \in Ranks, Worker(r) \/ Killed(r) PROVE RoundInv'
  BY <1>7, WorkerMoves, WorkerRound
<1>8. CASE Uninstall \/ UNCHANGED vars
  BY <1>8 DEF Uninstall, RoundInv, Ended, parent, worker, vars
<1> QED
  BY <1>1, <1>2, <1>3, <1>4, <1>5, <1>6, <1>7, <1>8 DEF Next, Parent

LEMMA IInvariant == Spec => []IInv
<1>1. IInv /\ [Next]_vars => IInv'
  BY StepTypeOK, StepRoundInv DEF IInv
<1> QED
  BY InitIInv, <1>1, PTL DEF Spec

-----------------------------------------------------------------------------
\* Ranks, slabs, copies, counters and the model's contents keep their ranges,
\* for every number of workers, nodes, samples and epochs.
THEOREM TypeCorrect == Spec => []TypeOK
<1>1. IInv => TypeOK
  BY DEF IInv
<1> QED
  BY IInvariant, <1>1, PTL

\* N returns of wait() are N different children.
LEMMA AllReaped == ASSUME IInv, waits = NWorkers
                   PROVE reaped = Ranks /\ \A r \in Ranks : Ended(r)
<1>1. reaped \subseteq Ranks /\ Cardinality(reaped) = Cardinality(Ranks)
  BY RanksFinite DEF IInv, TypeOK, RoundInv
<1>2. reaped = Ranks
  BY <1>1, RanksFinite, FS_Subset
<1> QED
  BY <1>2 DEF IInv, RoundInv

LEMMA AliveNotTest == ASSUME IInv, NEW r \in Ranks, Alive(r)
                      PROVE ppc # "test" /\ ppc # "done"
  BY AllReaped DEF IInv, RoundInv, Ended, Alive

\* The parent tests the model only when every worker of the epoch has ended.
THEOREM JoinCorrect == Spec => []JoinBeforeTest
<1>1. IInv => JoinBeforeTest
  BY AllReaped DEF IInv, RoundInv, JoinBeforeTest
<1> QED
  BY IInvariant, <1>1, PTL

\* No wait() in the loop finds the parent without a child.
THEOREM WaitCorrect == Spec => []EveryWaitHasAChild
<1>1. ASSUME IInv, ppc = "wait", waits < NWorkers
      PROVE \E r \in Ranks \ reaped : pc[r] # "none"
  <2>1. reaped # Ranks
    BY <1>1, RanksFinite DEF IInv, RoundInv, TypeOK
  <2> QED
    BY <1>1, <2>1 DEF IInv, RoundInv, TypeOK
<1>2. IInv => EveryWaitHasAChild
  BY <1>1 DEF EveryWaitHasAChild
<1> QED
  BY IInvariant, <1>2, PTL

-----------------------------------------------------------------------------
\* Between the last wait() and the next round only the parent writes the model
\* and the metrics.
THEOREM ParentAlone == Spec => ParentWorksAlone
<1>1. ASSUME IInv, [Next]_vars, ppc = "test" \/ (ppc = "wait" /\ waits = NWorkers)
      PROVE shared' = shared /\ (metrics' = metrics \/ ppc' # ppc)
  <2>1. \A r \in Ranks : ~Alive(r)
    BY <1>1, AllReaped DEF IInv, RoundInv, Ended, Alive
  <2>2. ASSUME NEW r \in Ranks PROVE ~Worker(r) /\ ~Killed(r)
    BY <2>1 DEF Worker, Killed, Alive, Begin, SwitchIn, CopyModel, Sample, EndBatch,
                LoadBias, StoreBias, LoadWeight, StoreWeight, Report, SwitchOut, Leave
  <2>3. Parent \/ ForkFails \/ Uninstall \/ UNCHANGED vars
    BY <1>1, <2>2 DEF Next
  <2> QED
    BY <1>1, <2>3 DEF Parent, Fork, Wait, EndForkLoop, Reduce, TestAndContinue,
                      ForkFails, Uninstall, vars
<1>2. IInv /\ [Next]_vars =>
        [ppc = "test" \/ (ppc = "wait" /\ waits = NWorkers) =>
            shared' = shared /\ (metrics' = metrics \/ ppc' # ppc)]_vars
  BY <1>1
<1> QED
  BY IInvariant, <1>2, PTL DEF Spec, ParentWorksAlone

-----------------------------------------------------------------------------
\* What a worker's step means to its caller: its child ends, or nothing.
LEMMA WorkerRefines == ASSUME IInv, NEW r \in Ranks, Alive(r), UNCHANGED parent,
                              NEW s, s # "none", pc' = [pc EXCEPT ![r] = s]
                       PROVE FJ!End(r) \/ UNCHANGED FJ!vars
<1>1. /\ UNCHANGED <<ppc, epoch>> /\ Mode' = Mode
      /\ DOMAIN pc = Ranks
  BY DEF IInv, TypeOK, parent, Mode
<1>2. \A q \in Ranks \ {r} : (pc'[q] = "none" <=> pc[q] = "none") /\ (Alive(q)' <=> Alive(q))
  BY <1>1 DEF Alive
<1>3. pc[r] # "none" /\ pc'[r] = s
  BY <1>1 DEF Alive
<1>4. {q \in Ranks : pc[q] # "none"}' = {q \in Ranks : pc[q] # "none"}
  BY <1>2, <1>3
<1>5. CASE s \in {"exited", "failed"}
  <2>1. ~Alive(r)'
    BY <1>3, <1>5 DEF Alive
  <2>2. {q \in Ranks : Alive(q)}' = {q \in Ranks : Alive(q)} \ {r}
    BY <1>2, <2>1
  <2> QED
    BY <1>1, <1>4, <2>2 DEF FJ!End
<1>6. CASE s \notin {"exited", "failed"}
  <2>1. Alive(r)'
    BY <1>3, <1>6 DEF Alive
  <2>2. {q \in Ranks : Alive(q)}' = {q \in Ranks : Alive(q)}
    BY <1>2, <2>1
  <2> QED
    BY <1>1, <1>4, <2>2 DEF FJ!vars
<1> QED
  BY <1>5, <1>6

LEMMA StepRefines == IInv /\ IInv' /\ [Next]_vars => [FJ!Next]_(FJ!vars)
<1> SUFFICES ASSUME IInv, IInv', [Next]_vars PROVE [FJ!Next]_(FJ!vars)
  OBVIOUS
<1> USE ParallelTrainingAssumption DEF IInv
<1>1. ASSUME NEW r \in Ranks, Fork(r) PROVE FJ!Start(r)
  <2>1. pc[r] = "none" /\ pc' = [pc EXCEPT ![r] = "start"] /\ UNCHANGED <<ppc, epoch>>
    BY <1>1 DEF Fork, TypeOK, RoundInv
  <2>2. {q \in Ranks : pc[q] # "none"}' = {q \in Ranks : pc[q] # "none"} \cup {r}
    BY <2>1 DEF TypeOK
  <2>3. {q \in Ranks : Alive(q)}' = {q \in Ranks : Alive(q)} \cup {r}
    BY <2>1 DEF TypeOK, Alive
  <2> QED
    BY <1>1, <2>1, <2>2, <2>3 DEF Fork, FJ!Start, Mode
<1>2. ASSUME ForkFails PROVE FJ!Abandon
  BY <1>2 DEF ForkFails, worker, FJ!Abandon, Mode, Alive
<1>3. ASSUME EndForkLoop \/ \E r \in Ranks : Wait(r) PROVE UNCHANGED FJ!vars
  BY <1>3 DEF EndForkLoop, Wait, worker, FJ!vars, Mode, Alive
<1>4. ASSUME Reduce PROVE FJ!Join
  <2>1. \A r \in Ranks : Ended(r)
    BY <1>4, AllReaped DEF Reduce
  <2> QED
    BY <1>4, <2>1 DEF Reduce, worker, FJ!Join, Mode, Alive, Ended
<1>5. ASSUME TestAndContinue PROVE FJ!NextRound
  <2>1. \A r \in Ranks : Ended(r)
    BY <1>5, AllReaped DEF TestAndContinue, RoundInv
  <2>2. \A r \in Ranks : pc'[r] = "none"
    BY <1>5 DEF TestAndContinue
  <2>3. {r \in Ranks : Alive(r)} = {} /\ {r \in Ranks : Alive(r)}' = {}
    BY <2>1, <2>2 DEF Alive, Ended
  <2>4. epoch' \in 0 .. Epochs - 1 <=> epoch' < Epochs
    BY <1>5 DEF TestAndContinue, TypeOK
  <2>5. Mode = "closed" /\ Mode' = IF epoch' \in 0 .. Epochs - 1 THEN "open" ELSE "stopped"
    BY <1>5, <2>4 DEF TestAndContinue, Mode
  <2> QED
    BY <1>5, <2>2, <2>3, <2>5 DEF TestAndContinue, FJ!NextRound
<1>6. ASSUME NEW r \in Ranks, Worker(r) \/ Killed(r)
      PROVE FJ!End(r) \/ UNCHANGED FJ!vars
  BY <1>6, WorkerMoves, WorkerRefines
<1>7. ASSUME Uninstall \/ UNCHANGED vars PROVE UNCHANGED FJ!vars
  BY <1>7 DEF Uninstall, vars, parent, worker, FJ!vars, Mode, Alive
<1> QED
  BY <1>1, <1>2, <1>3, <1>4, <1>5, <1>6, <1>7 DEF Next, Parent, FJ!Next

\* parallel_training is an implementation of fork/join rounds.
THEOREM Refinement == Spec => ImplementsForkJoin
<1>1. Init => FJ!Init
  BY ParallelTrainingAssumption DEF Init, FJ!Init, Mode, Alive
<1> QED
  BY <1>1, IInvariant, StepRefines, PTL DEF Spec, ImplementsForkJoin, FJ!Spec

-----------------------------------------------------------------------------
(***************************************************************************)
(* Where a worker's loads and stores go.  Each worker's table is one of    *)
(* two: the parent's with the entries of slab 0 and of its node exchanged, *)
(* or, when the kernel left the entries to be faulted in, the entry of     *)
(* slab 0 alone, which pes does not touch.  Under both, the chain of four  *)
(* absolute pointers to a weight ends in physical copy 0.                  *)
(***************************************************************************)

Exchanged(n) == [s \in Nodes |-> IF s = 0 THEN n ELSE IF s = n THEN 0 ELSE s]
Touched == [s \in Nodes |-> IF s = 0 THEN 0 ELSE NoFrame]

ViewInv ==
    \A r \in Ranks :
        /\ pc[r] = "start" => table[r] \in {Copied, Absent}
        /\ pc[r] \in {"switch", "exit"} => table[r] \in {Copied, Touched}
        /\ pc[r] \in Training \cup {"copy", "restore"} =>
              table[r] \in {Exchanged(Node(r)), Touched}
        /\ pc[r] \in Training \cup {"restore"} => view[r] = Frame(table[r], 0)

-----------------------------------------------------------------------------
(* Lemmas about the tables.                                                *)

LEMMA TouchStart == Touch(Copied, 0) = Copied /\ Touch(Absent, 0) = Touched
<1>1. 0 \in Nodes /\ \A s \in Nodes : s # NoFrame
  BY NumNodesAssumption DEF Nodes, NoFrame
<1>2. Touch(Copied, 0) = Copied
  BY <1>1 DEF Touch, Copied
<1>3. Touch(Absent, 0) = [Absent EXCEPT ![0] = 0]
  BY <1>1 DEF Touch, Absent
<1>4. [Absent EXCEPT ![0] = 0] = Touched
  BY <1>1 DEF Absent, Touched
<1> QED
  BY <1>2, <1>3, <1>4

\* The first pes exchanges the two entries, or finds one of them absent.
LEMMA SwitchTo == ASSUME NEW n \in Nodes
                  PROVE /\ Switched(Copied, 0, n) = Exchanged(n)
                        /\ Switched(Touched, 0, n) = Touched
<1>1. 0 \in Nodes /\ \A s \in Nodes : s # NoFrame
  BY NumNodesAssumption DEF Nodes, NoFrame
<1>2. Switched(Copied, 0, n) = [Copied EXCEPT ![0] = n, ![n] = 0]
  BY <1>1 DEF Switched, Present, Copied
<1>3. [Copied EXCEPT ![0] = n, ![n] = 0] = Exchanged(n)
  BY <1>1 DEF Copied, Exchanged
<1>4. Switched(Touched, 0, n) = Touched
  BY <1>1 DEF Switched, Present, Touched
<1> QED
  BY <1>2, <1>3, <1>4

\* The second pes, with its indexes in the other order, undoes the first.
LEMMA SwitchBack == ASSUME NEW n \in Nodes
                    PROVE /\ Switched(Exchanged(n), n, 0) = Copied
                          /\ Switched(Touched, n, 0) = Touched
<1>1. 0 \in Nodes /\ \A s \in Nodes : s # NoFrame
  BY NumNodesAssumption DEF Nodes, NoFrame
<1>2. Switched(Exchanged(n), n, 0) = [Exchanged(n) EXCEPT ![n] = n, ![0] = 0]
  BY <1>1 DEF Switched, Present, Exchanged
<1>3. [Exchanged(n) EXCEPT ![n] = n, ![0] = 0] = Copied
  BY <1>1 DEF Copied, Exchanged
<1>4. Switched(Touched, n, 0) = Touched
  BY <1>1 DEF Switched, Present, Touched
<1> QED
  BY <1>2, <1>3, <1>4

LEMMA ExchangedView == ASSUME NEW n \in Nodes
    PROVE /\ Frame(Exchanged(n), 0) = n
          /\ Frame(Exchanged(n), n) = 0
          /\ BiasFrame(Exchanged(n), n) = n
          /\ WeightFrame(Exchanged(n), n) = 0
          /\ \A s \in Nodes : Present(Exchanged(n), s)
  BY NumNodesAssumption
     DEF Frame, Touch, BiasFrame, WeightFrame, Present, Exchanged, NoFrame, Nodes

LEMMA TouchedView ==
    /\ Frame(Touched, 0) = 0
    /\ BiasFrame(Touched, 0) = 0
    /\ WeightFrame(Touched, 0) = 0
    /\ Present(Touched, 0)
  BY NumNodesAssumption
     DEF Frame, Touch, BiasFrame, WeightFrame, Present, Touched, NoFrame, Nodes

\* Slab 0 is present from the beginning, so reading it changes nothing more.
LEMMA TouchAgain == ASSUME NEW n \in Nodes
                    PROVE /\ Touch(Exchanged(n), 0) = Exchanged(n)
                          /\ Touch(Touched, 0) = Touched
<1>1. 0 \in Nodes /\ \A s \in Nodes : s # NoFrame
  BY NumNodesAssumption DEF Nodes, NoFrame
<1>2. Exchanged(n)[0] # NoFrame /\ Touched[0] # NoFrame
  BY <1>1 DEF Exchanged, Touched
<1> QED
  BY <1>2 DEF Touch

-----------------------------------------------------------------------------
LEMMA InitViewInv == Init => ViewInv
  BY DEF Init, ViewInv, Training

\* A step of worker r that keeps the facts about r keeps them about all.
LEMMA OthersView == ASSUME TypeOK, ViewInv, NEW r \in Ranks,
                           \A q \in Ranks \ {r} : /\ pc'[q] = pc[q]
                                                  /\ table'[q] = table[q]
                                                  /\ view'[q] = view[q],
                           /\ pc'[r] = "start" => table'[r] \in {Copied, Absent}
                           /\ pc'[r] \in {"switch", "exit"} => table'[r] \in {Copied, Touched}
                           /\ pc'[r] \in Training \cup {"copy", "restore"} =>
                                 table'[r] \in {Exchanged(Node(r)), Touched}
                           /\ pc'[r] \in Training \cup {"restore"} =>
                                 view'[r] = Frame(table'[r], 0)
                    PROVE ViewInv'
  BY DEF ViewInv

LEMMA StepViewInv == TypeOK /\ ViewInv /\ [Next]_vars => ViewInv'
<1> SUFFICES ASSUME TypeOK, ViewInv, [Next]_vars PROVE ViewInv'
  OBVIOUS
<1>1. ASSUME NEW r \in Ranks, Fork(r) PROVE ViewInv'
  BY <1>1, OthersView DEF Fork, TypeOK, Training
<1>2. CASE ForkFails \/ EndForkLoop \/ Reduce \/ Uninstall \/ UNCHANGED vars
           \/ \E r \in Ranks : Wait(r)
  BY <1>2 DEF ForkFails, EndForkLoop, Reduce, Uninstall, Wait, vars, worker, memory, ViewInv
<1>3. CASE TestAndContinue
  BY <1>3 DEF TestAndContinue, ViewInv, Training
<1>4. ASSUME NEW r \in Ranks, NEW how \in {"exited", "failed"}, Exit(r, how) PROVE ViewInv'
  BY <1>4, OthersView DEF Exit, TypeOK, Training
<1>5. ASSUME NEW r \in Ranks, Begin(r) PROVE ViewInv'
  BY <1>5, OthersView, TouchStart DEF Begin, TypeOK, ViewInv, Training
<1>6. ASSUME NEW r \in Ranks, SwitchIn(r) PROVE ViewInv'
  <2>1. CASE installed
    <3>1. Switched(table[r], 0, Node(r)) \in {Exchanged(Node(r)), Touched}
      BY <1>6, SwitchTo, NodeType DEF SwitchIn, ViewInv
    <3> QED
      BY <1>6, <2>1, <3>1, OthersView DEF SwitchIn, TypeOK, Training
  <2>2. CASE ~installed
    BY <1>4, <1>6, <2>2 DEF SwitchIn
  <2> QED
    BY <2>1, <2>2
<1>7. ASSUME NEW r \in Ranks, CopyModel(r) PROVE ViewInv'
  <2>1. table[r] \in {Exchanged(Node(r)), Touched}
    BY <1>7 DEF CopyModel, ViewInv
  <2>2. Touch(table[r], 0) = table[r]
    BY <2>1, TouchAgain, NodeType
  <2>3. table' = table
    BY <1>7, <2>2 DEF CopyModel, TypeOK
  <2> QED
    BY <1>7, <2>3, OthersView DEF CopyModel, TypeOK, ViewInv, Training
<1>8. ASSUME NEW r \in Ranks,
             Sample(r) \/ EndBatch(r) \/ LoadBias(r) \/ StoreBias(r) \/ LoadWeight(r)
                \/ StoreWeight(r) \/ Report(r)
      PROVE ViewInv'
  <2>1. /\ pc[r] \in Training /\ pc'[r] \in Training \cup {"restore"}
        /\ UNCHANGED <<table, view>>
        /\ \A q \in Ranks \ {r} : pc'[q] = pc[q]
    BY <1>8 DEF Sample, EndBatch, LoadBias, StoreBias, LoadWeight, StoreWeight, Report,
                TypeOK, Training
  <2>2. pc'[r] \notin {"start", "switch", "exit"}
    BY <2>1 DEF Training
  <2> QED
    BY <2>1, <2>2, OthersView DEF ViewInv
<1>9. ASSUME NEW r \in Ranks, SwitchOut(r) PROVE ViewInv'
  <2>1. CASE installed
    <3>1. Switched(table[r], Node(r), 0) \in {Copied, Touched}
      BY <1>9, SwitchBack, NodeType DEF SwitchOut, ViewInv
    <3> QED
      BY <1>9, <2>1, <3>1, OthersView DEF SwitchOut, TypeOK, Training
  <2>2. CASE ~installed
    BY <1>4, <1>9, <2>2 DEF SwitchOut
  <2> QED
    BY <2>1, <2>2
<1>10. ASSUME NEW r \in Ranks, Leave(r) \/ Killed(r) PROVE ViewInv'
  BY <1>4, <1>10 DEF Leave, Killed
<1> QED
  BY <1>1, <1>2, <1>3, <1>5, <1>6, <1>7, <1>8, <1>9, <1>10 DEF Next, Parent, Worker

LEMMA ViewInvariant == Spec => []ViewInv
<1>1. TypeOK /\ ViewInv /\ [Next]_vars => ViewInv'
  BY StepViewInv
<1> QED
  BY InitViewInv, <1>1, TypeCorrect, PTL DEF Spec

\* Under either table a worker that trains writes weights to copy 0 and biases
\* to copy 0 or to its node's.
LEMMA HomeOfCells == ASSUME ViewInv, NEW r \in Ranks, pc[r] \in Training
                     PROVE /\ Home(r, "w") = 0
                           /\ Home(r, "b") \in {0, Node(r)}
                           /\ Present(table[r], view[r])
                           /\ Present(table[r], Frame(table[r], view[r]))
<1>1. CASE table[r] = Touched
  BY <1>1, TouchedView DEF ViewInv, Home, CellFrame
<1>2. CASE table[r] = Exchanged(Node(r))
  <2>1. view[r] = Node(r)
    BY <1>2, ExchangedView, NodeType DEF ViewInv
  <2>2. 0 \in Nodes /\ Node(r) \in Nodes
    BY NumNodesAssumption, NodeType DEF Nodes
  <2> QED
    BY <1>2, <2>1, <2>2, ExchangedView DEF Home, CellFrame
<1> QED
  BY <1>1, <1>2 DEF ViewInv
-----------------------------------------------------------------------------
\* No access of a training worker faults in an entry behind its back.
THEOREM NoLateFaults == Spec => []NoLateFault
<1>1. ViewInv => NoLateFault
  BY HomeOfCells DEF NoLateFault
<1> QED
  BY ViewInvariant, <1>1, PTL

\* The second pes leaves every present entry mapping its own copy.
THEOREM MappingIsRestored == Spec => []MappingRestored
<1>1. ViewInv => MappingRestored
  BY DEF ViewInv, MappingRestored, Copied, Touched
<1> QED
  BY ViewInvariant, <1>1, PTL

-----------------------------------------------------------------------------
(***************************************************************************)
(* What the private accumulators and the shared model hold.  MemInv says   *)
(* how far a worker has got in its share, and that its accumulators hold   *)
(* the current batch; CellInv says which updates the model and the loaded  *)
(* copies of its cells can hold while the workers race.                    *)
(***************************************************************************)

InUpdate == {"loadB", "storeB", "loadW", "storeW"}

\* Worker r's loop counters against its share, and its private sums.
Mem(r) ==
    /\ pc[r] = "train" =>
          /\ \A c \in Cells : acc[r][c] = i[r] .. i[r] + b[r] - 1
          /\ i[r] < Count(r) => b[r] <= CurBatch(r) /\ loss[r] = 0 .. i[r] + b[r] - 1
          /\ i[r] >= Count(r) => b[r] = 0 /\ loss[r] = 0 .. Count(r) - 1
    /\ pc[r] \in InUpdate =>
          /\ i[r] < Count(r)
          /\ b[r] = CurBatch(r)
          /\ loss[r] = 0 .. i[r] + b[r] - 1
          /\ acc[r]["w"] = i[r] .. i[r] + b[r] - 1
    /\ pc[r] \in {"loadB", "storeB"} => acc[r]["b"] = i[r] .. i[r] + b[r] - 1
    /\ pc[r] \in {"loadW", "storeW"} => acc[r]["b"] = {}
    /\ pc[r] \in {"restore", "exit"} => \A c \in Cells : acc[r][c] = {}

MemInv == \A r \in Ranks : Mem(r)

-----------------------------------------------------------------------------
LEMMA Intervals == ASSUME NEW a \in Nat, NEW k \in Nat
                   PROVE /\ a .. a + 0 - 1 = {}
                         /\ (a .. a + k - 1) \cup {a + k} = a .. a + (k + 1) - 1
                         /\ (0 .. a + k - 1) \cup {a + k} = 0 .. a + (k + 1) - 1
  OBVIOUS

LEMMA CurBatchRange == ASSUME TypeOK, NEW r \in Ranks, i[r] < Count(r)
                       PROVE /\ CurBatch(r) \in 1 .. BatchSize
                             /\ i[r] + CurBatch(r) <= Count(r)
                             /\ i[r] + BatchSize < Count(r) => CurBatch(r) = BatchSize
                             /\ i[r] + BatchSize >= Count(r) => i[r] + CurBatch(r) = Count(r)
<1>1. i[r] \in Nat /\ Count(r) \in Nat /\ BatchSize \in Nat \ {0}
  BY CountBounds, ParallelTrainingAssumption DEF TypeOK
<1> QED
  BY <1>1 DEF CurBatch

LEMMA MemUnchanged == ASSUME NEW q \in Ranks, Mem(q),
                             pc'[q] = pc[q], i'[q] = i[q], b'[q] = b[q],
                             acc'[q] = acc[q], loss'[q] = loss[q]
                      PROVE Mem(q)'
  BY DEF Mem, CurBatch

LEMMA StepMemInv == TypeOK /\ MemInv /\ [Next]_vars => MemInv'
<1> SUFFICES ASSUME TypeOK, MemInv, [Next]_vars PROVE MemInv'
  OBVIOUS
<1> USE ParallelTrainingAssumption
<1>1. ASSUME UNCHANGED <<pc, i, b, acc, loss>> PROVE MemInv'
  BY <1>1, MemUnchanged DEF MemInv
\* A step of worker r touches only r's entries.
<1>2. ASSUME NEW r \in Ranks, NEW q \in Ranks \ {r}, Worker(r) \/ Killed(r) \/ Fork(r)
      PROVE Mem(q)'
  <2>1. /\ pc'[q] = pc[q] /\ i'[q] = i[q] /\ b'[q] = b[q]
        /\ acc'[q] = acc[q] /\ loss'[q] = loss[q]
    BY <1>2 DEF Worker, Killed, Fork, Exit, Begin, SwitchIn, CopyModel, Sample, EndBatch,
                LoadBias, StoreBias, LoadWeight, StoreWeight, Report, SwitchOut, Leave,
                Store, TypeOK
  <2> QED
    BY <2>1, MemUnchanged DEF MemInv
<1>3. ASSUME NEW r \in Ranks, NEW how \in {"exited", "failed"}, Exit(r, how) PROVE Mem(r)'
  BY <1>3 DEF Exit, Mem, TypeOK, InUpdate
<1>4. ASSUME NEW r \in Ranks, Fork(r) PROVE Mem(r)'
  BY <1>4 DEF Fork, Mem, TypeOK, InUpdate
<1>5. ASSUME NEW r \in Ranks, Begin(r) PROVE Mem(r)'
  BY <1>5 DEF Begin, Mem, TypeOK, InUpdate
<1>6. ASSUME NEW r \in Ranks, SwitchIn(r) PROVE Mem(r)'
  <2>1. CASE installed
    BY <1>6, <2>1 DEF SwitchIn, Mem, TypeOK, InUpdate
  <2>2. CASE ~installed
    BY <1>3, <1>6, <2>2 DEF SwitchIn
  <2> QED
    BY <2>1, <2>2
<1>7. ASSUME NEW r \in Ranks, CopyModel(r) PROVE Mem(r)'
  <2>1. /\ pc'[r] = "train" /\ i'[r] = 0 /\ b'[r] = 0 /\ loss'[r] = {}
        /\ \A c \in Cells : acc'[r][c] = {}
    BY <1>7 DEF CopyModel, TypeOK
  <2>2. Count(r) \in Nat /\ 0 .. 0 + 0 - 1 = {} /\ CurBatch(r)' \in Nat
    BY <2>1, CountBounds DEF CurBatch
  <2>3. Count(r) <= 0 => 0 .. Count(r) - 1 = {}
    BY <2>2
  <2> QED
    BY <2>1, <2>2, <2>3 DEF Mem, InUpdate
<1>8. ASSUME NEW r \in Ranks, Sample(r) PROVE Mem(r)'
  <2>1. /\ pc'[r] = "train" /\ i'[r] = i[r] /\ b'[r] = b[r] + 1
        /\ loss'[r] = loss[r] \cup {i[r] + b[r]}
        /\ \A c \in Cells : acc'[r][c] = acc[r][c] \cup {i[r] + b[r]}
    BY <1>8 DEF Sample, TypeOK
  <2>2. i[r] \in Nat /\ b[r] \in Nat /\ CurBatch(r)' = CurBatch(r) /\ CurBatch(r) \in Nat
    BY <1>8, <2>1, CurBatchRange DEF Sample, TypeOK, CurBatch
  <2>3. /\ loss[r] = 0 .. i[r] + b[r] - 1
        /\ \A c \in Cells : acc[r][c] = i[r] .. i[r] + b[r] - 1
    BY <1>8 DEF Sample, MemInv, Mem
  <2>4. /\ loss'[r] = 0 .. i[r] + (b[r] + 1) - 1
        /\ \A c \in Cells : acc'[r][c] = i[r] .. i[r] + (b[r] + 1) - 1
    <3>1. /\ (i[r] .. i[r] + b[r] - 1) \cup {i[r] + b[r]} = i[r] .. i[r] + (b[r] + 1) - 1
          /\ (0 .. i[r] + b[r] - 1) \cup {i[r] + b[r]} = 0 .. i[r] + (b[r] + 1) - 1
      BY <2>2, Intervals
    <3> QED
      BY <2>1, <2>3, <3>1
  <2>5. i[r] < Count(r) /\ b[r] + 1 <= CurBatch(r) /\ Count(r) \in Nat
    BY <1>8, <2>2, CountBounds DEF Sample
  <2>6. /\ i'[r] < Count(r) => b'[r] <= CurBatch(r)' /\ loss'[r] = 0 .. i'[r] + b'[r] - 1
        /\ i'[r] >= Count(r) => b'[r] = 0 /\ loss'[r] = 0 .. Count(r) - 1
    BY <2>1, <2>2, <2>4, <2>5
  <2>7. \A c \in Cells : acc'[r][c] = i'[r] .. i'[r] + b'[r] - 1
    BY <2>1, <2>4
  <2> QED
    BY <2>1, <2>6, <2>7 DEF Mem, InUpdate
<1>9. ASSUME NEW r \in Ranks, EndBatch(r) PROVE Mem(r)'
  BY <1>9 DEF EndBatch, MemInv, Mem, CurBatch, TypeOK, InUpdate, Cells
<1>10. ASSUME NEW r \in Ranks, LoadBias(r) \/ LoadWeight(r) PROVE Mem(r)'
  BY <1>10 DEF LoadBias, LoadWeight, MemInv, Mem, CurBatch, TypeOK, InUpdate
<1>11. ASSUME NEW r \in Ranks, StoreBias(r) PROVE Mem(r)'
  <2>1. /\ pc[r] = "storeB" /\ pc'[r] = "loadW" /\ UNCHANGED <<i, b, loss>>
        /\ acc'[r]["b"] = {} /\ acc'[r]["w"] = acc[r]["w"]
    BY <1>11 DEF StoreBias, Store, TypeOK, Cells
  <2> QED
    BY <2>1 DEF MemInv, Mem, CurBatch, InUpdate
<1>12. ASSUME NEW r \in Ranks, StoreWeight(r) PROVE Mem(r)'
  <2>1. /\ pc[r] = "storeW" /\ pc'[r] = "train" /\ UNCHANGED loss
        /\ i'[r] = i[r] + BatchSize /\ b'[r] = 0
        /\ acc'[r]["b"] = acc[r]["b"] /\ acc'[r]["w"] = {}
    BY <1>12 DEF StoreWeight, Store, TypeOK, Cells
  <2>2. /\ acc[r]["b"] = {} /\ i[r] < Count(r) /\ loss[r] = 0 .. i[r] + CurBatch(r) - 1
    BY <2>1 DEF MemInv, Mem, InUpdate
  <2>3. i[r] \in Nat /\ Count(r) \in Nat
    BY CountBounds DEF TypeOK
  <2>4. \A c \in Cells : acc'[r][c] = i'[r] .. i'[r] + b'[r] - 1
    <3>1. i'[r] \in Nat /\ i'[r] .. i'[r] + 0 - 1 = {}
      BY <2>1, <2>3, Intervals
    <3> QED
      BY <2>1, <2>2, <3>1 DEF Cells
  <2>5. i'[r] < Count(r) => b'[r] <= CurBatch(r)' /\ loss'[r] = 0 .. i'[r] + b'[r] - 1
    BY <2>1, <2>2, <2>3, CurBatchRange DEF CurBatch
  <2>6. i'[r] >= Count(r) => b'[r] = 0 /\ loss'[r] = 0 .. Count(r) - 1
    BY <2>1, <2>2, <2>3, CurBatchRange
  <2> QED
    BY <2>1, <2>4, <2>5, <2>6 DEF Mem, InUpdate
<1>13. ASSUME NEW r \in Ranks, Report(r) PROVE Mem(r)'
  <2>1. /\ pc[r] = "train" /\ pc'[r] = "restore" /\ acc' = acc /\ i[r] >= Count(r)
    BY <1>13 DEF Report, TypeOK
  <2>2. i[r] \in Nat /\ Count(r) \in Nat
    BY CountBounds DEF TypeOK
  <2>3. \A c \in Cells : acc[r][c] = i[r] .. i[r] + 0 - 1
    BY <2>1, <2>2 DEF MemInv, Mem
  <2> QED
    BY <2>1, <2>2, <2>3 DEF Mem, InUpdate
<1>14. ASSUME NEW r \in Ranks, SwitchOut(r) PROVE Mem(r)'
  <2>1. CASE installed
    BY <1>14, <2>1 DEF SwitchOut, MemInv, Mem, TypeOK, InUpdate
  <2>2. CASE ~installed
    BY <1>3, <1>14, <2>2 DEF SwitchOut
  <2> QED
    BY <2>1, <2>2
<1>15. ASSUME NEW r \in Ranks, Leave(r) \/ Killed(r) PROVE Mem(r)'
  BY <1>3, <1>15 DEF Leave, Killed
<1>16. CASE TestAndContinue
  BY <1>16 DEF TestAndContinue, MemInv, Mem, InUpdate
<1>17. ASSUME ForkFails \/ EndForkLoop \/ Reduce \/ Uninstall \/ UNCHANGED vars
             \/ \E r \in Ranks : Wait(r)
       PROVE MemInv'
  BY <1>1, <1>17 DEF ForkFails, EndForkLoop, Reduce, Uninstall, Wait, vars, worker, memory
<1>18. ASSUME NEW r \in Ranks, Worker(r) \/ Killed(r) \/ Fork(r) PROVE MemInv'
  <2>1. Mem(r)'
    BY <1>4, <1>5, <1>6, <1>7, <1>8, <1>9, <1>10, <1>11, <1>12, <1>13, <1>14, <1>15, <1>18
       DEF Worker
  <2> QED
    BY <1>2, <1>18, <2>1 DEF MemInv
<1> QED
  BY <1>16, <1>17, <1>18 DEF Next, Parent

LEMMA MemInvariant == Spec => []MemInv
<1>1. Init => MemInv
  BY DEF Init, MemInv, Mem, InUpdate
<1>2. TypeOK /\ MemInv /\ [Next]_vars => MemInv'
  BY StepMemInv
<1> QED
  BY <1>1, <1>2, TypeCorrect, PTL DEF Spec

\* The accumulators hold exactly the current batch.
THEOREM AccumulatorsHoldBatch == Spec => []AccumulatorIsBatch
<1>1. MemInv => AccumulatorIsBatch
  BY DEF MemInv, Mem, AccumulatorIsBatch, InUpdate, Cells
<1> QED
  BY MemInvariant, <1>1, PTL

-----------------------------------------------------------------------------
(* Whole shares: what a rank's entry of shared_metrics can be.             *)

ReportInv ==
    /\ \A r \in Ranks :
          /\ metrics[r] # Zero => /\ metrics[r].of = 0 .. Count(r) - 1
                                  /\ pc[r] \in {"restore", "exit", "exited", "failed"}
          /\ pc[r] \in {"restore", "exit", "exited"} => metrics[r] # Zero
    /\ ppc = "test" => final.from = {r \in Ranks : metrics[r] # Zero}

\* A mean of a non-empty share and the NaN of an empty one differ from zero.
LEMMA ReportIsNotZero == ASSUME NEW r \in Ranks
                         PROVE [nan |-> Count(r) = 0, of |-> 0 .. Count(r) - 1] # Zero
<1>1. Count(r) \in Nat
  BY CountBounds, ParallelTrainingAssumption
<1>2. Count(r) # 0 => 0 \in 0 .. Count(r) - 1
  BY <1>1
<1>3. CASE Count(r) = 0
  BY <1>3 DEF Zero
<1>4. CASE Count(r) # 0
  BY <1>2, <1>4 DEF Zero
<1> QED
  BY <1>3, <1>4

LEMMA StepReportInv == IInv /\ MemInv /\ ReportInv /\ [Next]_vars => ReportInv'
<1> SUFFICES ASSUME IInv, MemInv, ReportInv, [Next]_vars PROVE ReportInv'
  OBVIOUS
<1> USE DEF IInv
<1>1. ASSUME NEW r \in Ranks, Report(r) PROVE ReportInv'
  <2>1. loss[r] = 0 .. Count(r) - 1
    <3>1. i[r] \in Nat /\ Count(r) \in Nat /\ i[r] >= Count(r) /\ pc[r] = "train"
      BY <1>1, CountBounds, ParallelTrainingAssumption DEF Report, TypeOK
    <3> QED
      BY <3>1 DEF MemInv, Mem
  <2>2. metrics' = [metrics EXCEPT ![r] = [nan |-> Count(r) = 0, of |-> 0 .. Count(r) - 1]]
    BY <1>1, <2>1 DEF Report
  <2>3. metrics'[r] # Zero /\ metrics'[r].of = 0 .. Count(r) - 1
    BY <2>2, ReportIsNotZero DEF TypeOK
  <2>4. ppc' = ppc /\ ppc # "test" /\ pc' = [pc EXCEPT ![r] = "restore"]
    BY <1>1, AliveNotTest DEF Report, parent, Alive
  <2> QED
    BY <2>2, <2>3, <2>4 DEF ReportInv, TypeOK
<1>2. ASSUME NEW r \in Ranks, Worker(r) \/ Killed(r), ~Report(r) PROVE ReportInv'
  <2>1. /\ UNCHANGED <<ppc, final, metrics>>
        /\ \A q \in Ranks \ {r} : pc'[q] = pc[q]
        /\ pc[r] \in {"restore", "exit"} => pc'[r] \in {"exit", "exited", "failed"}
        /\ pc[r] \notin {"restore", "exit"} => pc'[r] \notin {"restore", "exit", "exited"}
        /\ Alive(r)
    BY <1>2 DEF Worker, Killed, Exit, Begin, SwitchIn, CopyModel, Sample, EndBatch,
                LoadBias, StoreBias, LoadWeight, StoreWeight, SwitchOut, Leave,
                parent, TypeOK, Alive
  <2> QED
    BY <2>1 DEF ReportInv, Alive
<1>3. CASE Reduce
  BY <1>3 DEF Reduce, ReportInv, worker
<1>4. CASE TestAndContinue
  BY <1>4 DEF TestAndContinue, ReportInv
<1>5. ASSUME NEW r \in Ranks, Fork(r) PROVE ReportInv'
  BY <1>5 DEF Fork, ReportInv, TypeOK, RoundInv
<1>6. CASE ForkFails \/ EndForkLoop \/ Uninstall \/ UNCHANGED vars \/ \E r \in Ranks : Wait(r)
  BY <1>6 DEF ForkFails, EndForkLoop, Uninstall, Wait, vars, parent, worker, ReportInv
<1> QED
  BY <1>1, <1>2, <1>3, <1>4, <1>5, <1>6 DEF Next, Parent

LEMMA ReportInvariant == Spec => []ReportInv
<1>1. Init => ReportInv
  BY DEF Init, ReportInv
<1>2. IInv /\ MemInv /\ ReportInv /\ [Next]_vars => ReportInv'
  BY StepReportInv
<1> QED
  BY <1>1, <1>2, IInvariant, MemInvariant, PTL DEF Spec

\* An epoch's mean counts whole shares only, and every rank that exited.
THEOREM MeansAreOfWholeShares == Spec => []MeanIsOfWholeShares
<1>1. ReportInv => MeanIsOfWholeShares
  BY DEF ReportInv, MeanIsOfWholeShares
<1> QED
  BY ReportInvariant, <1>1, PTL

-----------------------------------------------------------------------------
(* Where the updates go.                                                   *)

PlaceInv ==
    /\ WeightsReachTestedCopy
    /\ \A r \in Ranks : pc[r] = "storeB" =>
          \A u \in reg[r] : Home(r, "b") \in {0, Node(u.rank)}

LEMMA StepPlaceInv == TypeOK /\ ViewInv /\ PlaceInv /\ [Next]_vars => PlaceInv'
<1> SUFFICES ASSUME TypeOK, ViewInv, PlaceInv, [Next]_vars PROVE PlaceInv'
  OBVIOUS
<1>1. ASSUME NEW r \in Ranks, LoadBias(r) PROVE PlaceInv'
  <2>1. Home(r, "b") \in Nodes
    BY HomeType DEF Cells
  <2>2. /\ shared' = shared /\ \A q \in Ranks : Home(q, "b")' = Home(q, "b")
        /\ \A q \in Ranks \ {r} : pc'[q] = pc[q] /\ reg'[q] = reg[q]
        /\ reg'[r] = shared[Home(r, "b")]["b"]
    BY <1>1 DEF LoadBias, Load, TypeOK, Home
  <2> QED
    BY <2>1, <2>2 DEF PlaceInv, WeightsReachTestedCopy
<1>2. ASSUME NEW r \in Ranks, StoreBias(r) PROVE PlaceInv'
  <2>1. /\ pc[r] = "storeB" /\ pc' = [pc EXCEPT ![r] = "loadW"]
        /\ \A q \in Ranks : Home(q, "b")' = Home(q, "b")
        /\ \A q \in Ranks \ {r} : reg'[q] = reg[q]
    BY <1>2 DEF StoreBias, Store, TypeOK, Home
  <2>2. Home(r, "b") \in Nodes /\ Home(r, "b") \in {0, Node(r)}
    BY <2>1, HomeType, HomeOfCells DEF Cells, Training
  <2>3. Update(r, "b").rank = r
    BY DEF Update
  <2>4. \A u \in reg[r] \cup {Update(r, "b")} : Home(r, "b") \in {0, Node(u.rank)}
    BY <2>1, <2>2, <2>3 DEF PlaceInv
  <2>5. \A f \in Nodes : /\ shared'[f]["w"] = shared[f]["w"]
                         /\ f # Home(r, "b") => shared'[f]["b"] = shared[f]["b"]
    BY <1>2 DEF StoreBias, Store, TypeOK, Cells
  <2>6. \/ shared'[Home(r, "b")]["b"] = reg[r] \cup {Update(r, "b")}
        \/ shared' = shared
    BY <1>2, <2>2 DEF StoreBias, Store, TypeOK, Cells
  <2>7. WeightsReachTestedCopy'
    BY <2>4, <2>5, <2>6 DEF PlaceInv, WeightsReachTestedCopy
  <2> QED
    BY <2>1, <2>7 DEF PlaceInv, TypeOK
<1>3. ASSUME NEW r \in Ranks, StoreWeight(r) PROVE PlaceInv'
  <2>1. /\ pc[r] = "storeW" /\ pc' = [pc EXCEPT ![r] = "train"]
        /\ \A q \in Ranks : Home(q, "b")' = Home(q, "b")
        /\ \A q \in Ranks \ {r} : reg'[q] = reg[q]
    BY <1>3 DEF StoreWeight, Store, TypeOK, Home
  <2>2. Home(r, "w") = 0
    BY <2>1, HomeOfCells DEF Training
  <2>3. \A f \in Nodes : /\ shared'[f]["b"] = shared[f]["b"]
                         /\ f # 0 => shared'[f]["w"] = shared[f]["w"]
    BY <1>3, <2>2 DEF StoreWeight, Store, TypeOK, Cells
  <2> QED
    BY <2>1, <2>3 DEF PlaceInv, WeightsReachTestedCopy, TypeOK
\* No other step writes the model; a step of a worker that is about to store a
\* bias is the store itself or the worker's death.
<1>4. ASSUME NEW r \in Ranks, Worker(r) \/ Killed(r) \/ Fork(r),
             ~LoadBias(r), ~StoreBias(r), ~StoreWeight(r)
      PROVE PlaceInv'
  <2>1. /\ shared' = shared
        /\ pc'[r] # "storeB"
        /\ \A q \in Ranks \ {r} : /\ pc'[q] = pc[q] /\ reg'[q] = reg[q]
                                  /\ table'[q] = table[q] /\ view'[q] = view[q]
    BY <1>4 DEF Worker, Killed, Fork, Exit, Begin, SwitchIn, CopyModel, Sample, EndBatch,
                LoadWeight, Load, Report, SwitchOut, Leave, TypeOK
  <2> QED
    BY <2>1 DEF PlaceInv, WeightsReachTestedCopy, Home
<1>5. CASE TestAndContinue
  BY <1>5 DEF TestAndContinue, PlaceInv, WeightsReachTestedCopy
<1>6. CASE ForkFails \/ EndForkLoop \/ Reduce \/ Uninstall \/ UNCHANGED vars
           \/ \E r \in Ranks : Wait(r)
  BY <1>6 DEF ForkFails, EndForkLoop, Reduce, Uninstall, Wait, vars, worker, memory,
              PlaceInv, WeightsReachTestedCopy, Home
<1> QED
  BY <1>1, <1>2, <1>3, <1>4, <1>5, <1>6 DEF Next, Parent

\* All weights are trained in the copy the parent tests; biases are not.
THEOREM WeightsAreTested == Spec => []WeightsReachTestedCopy
<1>1. Init => PlaceInv
  BY DEF Init, PlaceInv, WeightsReachTestedCopy, Cells
<1>2. TypeOK /\ ViewInv /\ PlaceInv /\ [Next]_vars => PlaceInv'
  BY StepPlaceInv
<1>3. PlaceInv => WeightsReachTestedCopy
  BY DEF PlaceInv
<1> QED
  BY <1>1, <1>2, <1>3, TypeCorrect, ViewInvariant, PTL DEF Spec

-----------------------------------------------------------------------------
(***************************************************************************)
(* What survives the unlocked read-modify-writes of racing workers: a cell *)
(* may lose updates of the running epoch, but it never holds a sample      *)
(* twice and it keeps everything the earlier epochs left in it.            *)
(***************************************************************************)

StorePc(c) == IF c = "b" THEN "storeB" ELSE "storeW"

\* How many samples of its share worker r has already applied to cell c.
Applied(r, c) == IF c = "b" /\ pc[r] \in {"loadW", "storeW"}
                 THEN i[r] + b[r]
                 ELSE i[r]

\* What a set U of updates of cell c, in the model or in a register, can be.
Past(u) == u.epoch < epoch
Fits(u, c) ==
    /\ u.epoch <= epoch
    /\ u.batch # {}
    /\ u.batch \subseteq 0 .. Count(u.rank) - 1
    /\ u.epoch = epoch =>
          /\ pc[u.rank] \in Training \cup {"restore", "exit", "exited", "failed"}
          /\ pc[u.rank] \in Training => u.batch \subseteq 0 .. Applied(u.rank, c) - 1
Disjoint(U) == \A u, v \in U :
    u # v /\ u.epoch = v.epoch /\ u.rank = v.rank => u.batch \cap v.batch = {}
Sound(U, c) == (\A u \in U : Fits(u, c)) /\ Disjoint(U)

CellInv ==
    /\ \A f \in Nodes, c \in Cells : Sound(shared[f][c], c)
    /\ \A r \in Ranks, c \in Cells : pc[r] = StorePc(c) => Sound(reg[r], c)

\* A register agrees with its cell about the epochs that are over.
PastOf(U) == {u \in U : Past(u)}
PastInv ==
    \A r \in Ranks, c \in Cells :
        pc[r] = StorePc(c) => PastOf(reg[r]) = PastOf(shared[Home(r, c)][c])

-----------------------------------------------------------------------------
(* Progress of a worker never makes an update unfit.                       *)

After == {"restore", "exit", "exited", "failed"}

\* From one training step to the next the applied prefix grows, and a worker
\* that has trained never trains again in the same epoch.
LEMMA OwnProgress ==
    ASSUME TypeOK, MemInv, NEW r \in Ranks, Worker(r) \/ Killed(r), NEW c \in Cells
    PROVE /\ pc[r] \in Training \cup After => pc'[r] \in Training \cup After
          /\ pc[r] \in After => pc'[r] \in After
          /\ pc[r] \in Training /\ pc'[r] \in Training => Applied(r, c) <= Applied(r, c)'
<1>0. i[r] \in Nat /\ b[r] \in Nat /\ BatchSize \in Nat
  BY ParallelTrainingAssumption DEF TypeOK
<1>1. CASE Begin(r) \/ SwitchIn(r) \/ CopyModel(r) \/ Report(r) \/ SwitchOut(r)
           \/ Leave(r) \/ Killed(r)
  <2>1. pc'[r] \in After \/ pc[r] \notin Training \cup After
    BY <1>1 DEF Begin, SwitchIn, CopyModel, Report, SwitchOut, Leave, Killed, Exit,
                TypeOK, Training, After
  <2>2. pc[r] \in After => pc'[r] \in After
    BY <1>1 DEF Begin, SwitchIn, CopyModel, Report, SwitchOut, Leave, Killed, Exit,
                TypeOK, Training, After
  <2>3. \A x \in After : x \notin Training
    BY DEF After, Training
  <2> QED
    BY <2>1, <2>2, <2>3
<1>2. CASE Sample(r) \/ EndBatch(r)
  BY <1>0, <1>2 DEF Sample, EndBatch, TypeOK, Training, After, Applied
<1>3. CASE LoadBias(r) \/ StoreBias(r) \/ LoadWeight(r)
  BY <1>0, <1>3 DEF LoadBias, StoreBias, LoadWeight, TypeOK, Training, After, Applied
<1>4. CASE StoreWeight(r)
  <2>1. /\ pc[r] = "storeW" /\ pc'[r] = "train" /\ i'[r] = i[r] + BatchSize
    BY <1>4 DEF StoreWeight, TypeOK
  <2>2. b[r] <= BatchSize
    BY ParallelTrainingAssumption DEF TypeOK
  <2> QED
    BY <1>0, <2>1, <2>2 DEF Training, After, Applied
<1> QED
  BY <1>1, <1>2, <1>3, <1>4 DEF Worker

LEMMA MemTypes == ASSUME TypeOK, NEW r \in Ranks, Worker(r) \/ Killed(r)
                  PROVE i[r] \in Nat /\ b[r] \in Nat /\ i'[r] \in Nat /\ b'[r] \in Nat
<1>1. i[r] \in Nat /\ b[r] \in Nat /\ BatchSize \in Nat
  BY ParallelTrainingAssumption DEF TypeOK
<1> QED
  BY <1>1 DEF Worker, Killed, Exit, Begin, SwitchIn, CopyModel, Sample, EndBatch,
              LoadBias, StoreBias, LoadWeight, StoreWeight, Report, SwitchOut, Leave, TypeOK

LEMMA FitsWorker ==
    ASSUME TypeOK, MemInv, NEW r \in Ranks, Worker(r) \/ Killed(r),
           NEW u \in Updates, NEW c \in Cells, Fits(u, c)
    PROVE Fits(u, c)'
<1>1. epoch' = epoch
  BY WorkerMoves DEF parent
<1>2. CASE u.rank # r
  <2>1. /\ pc'[u.rank] = pc[u.rank] /\ i'[u.rank] = i[u.rank] /\ b'[u.rank] = b[u.rank]
    BY <1>2 DEF Worker, Killed, Exit, Begin, SwitchIn, CopyModel, Sample, EndBatch,
                LoadBias, StoreBias, LoadWeight, StoreWeight, Report, SwitchOut, Leave,
                TypeOK, Updates
  <2> QED
    BY <1>1, <2>1 DEF Fits, Applied
<1>3. CASE u.rank = r /\ u.epoch = epoch
  <2>1. /\ pc'[r] \in Training \cup After
        /\ pc'[r] \in Training => pc[r] \in Training /\ Applied(r, c) <= Applied(r, c)'
    <3>1. \A x \in After : x \notin Training
      BY DEF After, Training
    <3>2. pc[r] \in Training \cup After
      BY <1>3 DEF Fits, After
    <3> QED
      BY <3>1, <3>2, OwnProgress
  <2>2. pc'[r] \in Training => u.batch \subseteq 0 .. Applied(r, c)' - 1
    <3>1. Applied(r, c) \in Nat /\ (pc'[r] \in Training => Applied(r, c)' \in Nat)
      <4>1. i[r] \in Nat /\ b[r] \in Nat /\ i'[r] \in Nat /\ b'[r] \in Nat
        BY <1>3, MemTypes
      <4> QED
        BY <4>1 DEF Applied
    <3> QED
      BY <1>3, <2>1, <3>1 DEF Fits
  <2> QED
    BY <1>1, <1>3, <2>1, <2>2 DEF Fits, After
<1>4. CASE u.epoch # epoch
  BY <1>1, <1>4 DEF Fits
<1> QED
  BY <1>2, <1>3, <1>4

-----------------------------------------------------------------------------
(* The new update of a store.                                              *)

\* Worker r's batch starts where the samples it has applied end.
LEMMA NewUpdate ==
    ASSUME IInv, MemInv, NEW r \in Ranks, NEW c \in Cells, pc[r] = StorePc(c)
    PROVE /\ Update(r, c) \in Updates
          /\ Update(r, c).epoch = epoch /\ Update(r, c).rank = r
          /\ Update(r, c).batch = i[r] .. i[r] + b[r] - 1
          /\ Applied(r, c) = i[r]
          /\ i[r] \in Nat /\ b[r] \in Nat \ {0} /\ i[r] + b[r] <= Count(r)
<1>1. pc[r] \in InUpdate /\ Alive(r)
  BY DEF StorePc, InUpdate, Alive
<1>2. acc[r][c] = i[r] .. i[r] + b[r] - 1
  BY <1>1 DEF MemInv, Mem, StorePc, Cells, InUpdate
<1>3. b[r] = CurBatch(r) /\ i[r] < Count(r)
  BY <1>1 DEF MemInv, Mem
<1>4. i[r] \in Nat /\ b[r] \in Nat \ {0} /\ i[r] + b[r] <= Count(r)
  BY <1>3, CurBatchRange DEF IInv, TypeOK
<1>5. Update(r, c) \in Updates
  BY <1>1, UpdateType
<1>6. Applied(r, c) = i[r]
  BY DEF Applied, StorePc, Cells
<1> QED
  BY <1>2, <1>4, <1>5, <1>6 DEF Update

\* Storing keeps the cell sound: the batch is new to the register.
LEMMA StoreSound ==
    ASSUME IInv, MemInv, NEW r \in Ranks, NEW c \in Cells, pc[r] = StorePc(c),
           Sound(reg[r], c), StoreBias(r) \/ StoreWeight(r),
           \A u \in Updates : Fits(u, c) => Fits(u, c)',
           NEW U, U = reg[r] \cup {Update(r, c)}
    PROVE Sound(U, c)'
<1>0. PICK R, n : R = reg[r] /\ n = Update(r, c)
  OBVIOUS
<1>1. reg[r] \subseteq Updates /\ epoch' = epoch
  BY DEF IInv, TypeOK, StoreBias, StoreWeight, parent
<1>2. \A u \in R : Fits(u, c)'
  BY <1>0, <1>1 DEF Sound
<1>3. Fits(n, c)'
  <2>1. pc'[r] \in Training /\ pc'[r] = (IF c = "b" THEN "loadW" ELSE "train")
    BY DEF StoreBias, StoreWeight, IInv, TypeOK, StorePc, Cells, Training
  <2>2. Applied(r, c)' \in Nat /\ i[r] + b[r] <= Applied(r, c)'
    <3>1. CASE c = "b"
      <4>1. StoreBias(r)
        BY <3>1 DEF StoreWeight, StorePc
      <4>2. pc'[r] = "loadW" /\ i'[r] = i[r] /\ b'[r] = b[r]
        BY <2>1, <3>1, <4>1 DEF StoreBias
      <4> QED
        BY <3>1, <4>2, NewUpdate DEF Applied
    <3>2. CASE c = "w"
      <4>1. StoreWeight(r)
        BY <3>2 DEF StoreBias, StorePc
      <4>2. i'[r] = i[r] + BatchSize /\ b[r] <= BatchSize /\ BatchSize \in Nat
        BY <4>1, ParallelTrainingAssumption DEF StoreWeight, IInv, TypeOK
      <4> QED
        BY <3>2, <4>2, NewUpdate DEF Applied
    <3> QED
      BY <3>1, <3>2 DEF Cells
  <2>3. /\ n.batch # {} /\ n.batch \subseteq 0 .. Count(r) - 1
        /\ n.batch \subseteq 0 .. Applied(r, c)' - 1
    <3>1. i[r] \in i[r] .. i[r] + b[r] - 1
      BY NewUpdate
    <3>2. Count(r) \in Nat
      BY CountBounds, ParallelTrainingAssumption
    <3>3. n.batch = i[r] .. i[r] + b[r] - 1 /\ i[r] \in Nat /\ i[r] + b[r] <= Count(r)
      BY <1>0, NewUpdate
    <3>4. n.batch # {}
      BY <3>1, <3>3
    <3>5. b[r] \in Nat
      BY NewUpdate
    <3> QED
      BY <2>2, <3>2, <3>3, <3>4, <3>5
  <2>4. n.epoch = epoch /\ n.rank = r
    BY <1>0, NewUpdate
  <2>5. epoch \in Nat
    BY DEF IInv, TypeOK
  <2> QED
    BY <1>1, <2>1, <2>3, <2>4, <2>5 DEF Fits
<1>4. ASSUME NEW u \in R, u.epoch = epoch, u.rank = r
      PROVE u.batch \cap n.batch = {}
  <2>1. u.batch \subseteq 0 .. Applied(r, c) - 1
    BY <1>0, <1>4 DEF Sound, Fits, StorePc, Training
  <2>2. n.batch = i[r] .. i[r] + b[r] - 1 /\ Applied(r, c) = i[r] /\ i[r] \in Nat /\ b[r] \in Nat
    BY <1>0, NewUpdate
  <2> QED
    BY <2>1, <2>2
<1>5. Disjoint(U)
  <2>1. U = R \cup {n} /\ n.epoch = epoch /\ n.rank = r /\ Disjoint(R)
    BY <1>0, NewUpdate DEF Sound
  <2> QED
    BY <1>4, <2>1 DEF Disjoint
<1>6. U = R \cup {n}
  BY <1>0
<1> QED
  BY <1>2, <1>3, <1>5, <1>6 DEF Sound, Disjoint

-----------------------------------------------------------------------------
LEMMA StepCellInv == IInv /\ MemInv /\ CellInv /\ [Next]_vars => CellInv'
<1> SUFFICES ASSUME IInv, MemInv, CellInv, [Next]_vars PROVE CellInv'
  OBVIOUS
<1>1. /\ \A f \in Nodes, c \in Cells : shared[f][c] \subseteq Updates
      /\ \A r \in Ranks : reg[r] \subseteq Updates
  BY DEF IInv, TypeOK
\* Where every update stays fit, unchanged sets stay sound.
<1>2. ASSUME NEW U \in SUBSET Updates, NEW c \in Cells, Sound(U, c),
             \A u \in Updates : Fits(u, c) => Fits(u, c)'
      PROVE Sound(U, c)'
  BY <1>2 DEF Sound, Disjoint
<1>3. ASSUME NEW r \in Ranks, Worker(r) \/ Killed(r) PROVE CellInv'
  <2>1. \A c \in Cells : \A u \in Updates : Fits(u, c) => Fits(u, c)'
    BY <1>3, FitsWorker DEF IInv
  <2>2. \A q \in Ranks \ {r} : pc'[q] = pc[q] /\ reg'[q] = reg[q]
    BY <1>3 DEF Worker, Killed, Exit, Begin, SwitchIn, CopyModel, Sample, EndBatch,
                LoadBias, StoreBias, LoadWeight, StoreWeight, Load, Store, Report,
                SwitchOut, Leave, IInv, TypeOK
  <2>3. \A q \in Ranks \ {r}, c \in Cells : pc'[q] = StorePc(c) => Sound(reg[q], c)'
    BY <1>1, <1>2, <2>1, <2>2 DEF CellInv
  <2>4. ASSUME NEW c \in Cells, pc[r] = StorePc(c), StoreBias(r) \/ StoreWeight(r),
               NEW f \in Nodes, NEW d \in Cells
        PROVE Sound(shared[f][d], d)'
    <3>0. PICK U, V : U = reg[r] \cup {Update(r, c)} /\ V = shared[f][d]
      OBVIOUS
    <3>1. Sound(U, c)'
      BY <2>1, <2>4, <3>0, StoreSound DEF CellInv
    <3>2. Store(r, c) /\ Home(r, c) \in Nodes
      BY <2>4, HomeType DEF StoreBias, StoreWeight, StorePc, Cells, IInv
    <3>3. shared'[f][d] = V \/ (d = c /\ shared'[f][d] = U)
      BY <3>0, <3>2 DEF Store, IInv, TypeOK
    <3>4. Sound(V, d)'
      BY <1>1, <1>2, <2>1, <3>0 DEF CellInv
    <3> QED
      BY <3>1, <3>3, <3>4
  <2>5. CASE StoreBias(r) \/ StoreWeight(r)
    <3>1. \A c \in Cells : pc'[r] # StorePc(c)
      BY <2>5 DEF StoreBias, StoreWeight, StorePc, Cells, IInv, TypeOK
    <3>2. \E c \in Cells : pc[r] = StorePc(c)
      BY <2>5 DEF StoreBias, StoreWeight, StorePc, Cells
    <3>3. \A f \in Nodes, d \in Cells : Sound(shared[f][d], d)'
      BY <2>4, <2>5, <3>2
    <3> QED
      BY <2>2, <2>3, <3>1, <3>3 DEF CellInv
  <2>6. CASE ~StoreBias(r) /\ ~StoreWeight(r)
    <3>1. shared' = shared
      BY <1>3, <2>6 DEF Worker, Killed, Begin, SwitchIn, CopyModel, Sample, EndBatch,
                LoadBias, LoadWeight, Report, SwitchOut, Leave
    <3>2. ASSUME NEW f \in Nodes, NEW d \in Cells, NEW V, V = shared[f][d]
          PROVE Sound(V, d)'
      BY <1>1, <1>2, <2>1, <3>2 DEF CellInv
    <3>3. ASSUME NEW c \in Cells, pc'[r] = StorePc(c)
          PROVE Sound(reg[r], c)'
      <4>1. LoadBias(r) \/ LoadWeight(r)
        BY <1>3, <2>6, <3>3 DEF Worker, Killed, Exit, Begin, SwitchIn, CopyModel, Sample,
                EndBatch, Report, SwitchOut, Leave, IInv, TypeOK, StorePc, Cells
      <4>2. reg'[r] = shared[Home(r, c)][c] /\ Home(r, c) \in Nodes
        BY <3>3, <4>1, HomeType DEF LoadBias, LoadWeight, Load, IInv, TypeOK, StorePc, Cells
      <4>3. PICK V : V = shared[Home(r, c)][c]
        OBVIOUS
      <4>4. Sound(V, c)'
        BY <3>2, <4>2, <4>3
      <4> QED
        BY <4>2, <4>3, <4>4
    <3>4. ASSUME NEW f \in Nodes, NEW d \in Cells PROVE Sound(shared[f][d], d)'
      <4>1. PICK V : V = shared[f][d]
        OBVIOUS
      <4> QED
        BY <3>1, <3>2, <4>1
    <3> QED
      BY <2>2, <2>3, <3>3, <3>4 DEF CellInv
  <2> QED
    BY <2>5, <2>6
<1>4. ASSUME NEW r \in Ranks, Fork(r) PROVE CellInv'
  <2>1. /\ shared' = shared /\ reg' = reg /\ epoch' = epoch
        /\ pc[r] = "none" /\ pc' = [pc EXCEPT ![r] = "start"]
    BY <1>4 DEF Fork, IInv, TypeOK, RoundInv
  <2>2. \A c \in Cells : \A u \in Updates : Fits(u, c) => Fits(u, c)'
    <3>1. \A u \in Updates : u.rank \in Ranks
      BY DEF Updates
    <3> QED
      BY <1>4, <2>1, <3>1 DEF Fits, Applied, Fork, IInv, TypeOK, Training
  <2> QED
    BY <1>1, <1>2, <2>1, <2>2 DEF CellInv, StorePc, IInv, TypeOK
<1>5. CASE TestAndContinue
  <2>1. /\ shared' = shared /\ epoch' = epoch + 1 /\ epoch \in Nat
        /\ \A r \in Ranks : pc'[r] = "none"
    BY <1>5 DEF TestAndContinue, IInv, TypeOK
  <2>2. \A c \in Cells : \A u \in Updates : Fits(u, c) => Fits(u, c)'
    <3>1. \A u \in Updates : u.epoch \in Nat
      BY ParallelTrainingAssumption DEF Updates
    <3> QED
      BY <2>1, <3>1 DEF Fits
  <2> QED
    BY <1>1, <1>2, <2>1, <2>2 DEF CellInv, StorePc
<1>6. CASE ForkFails \/ EndForkLoop \/ Reduce \/ Uninstall \/ UNCHANGED vars
           \/ \E r \in Ranks : Wait(r)
  <2>1. UNCHANGED <<shared, reg, epoch, pc, i, b>>
    BY <1>6 DEF ForkFails, EndForkLoop, Reduce, Uninstall, Wait, vars, parent, worker, memory
  <2> QED
    BY <2>1 DEF CellInv, Sound, Fits, Disjoint, Applied
<1> QED
  BY <1>3, <1>4, <1>5, <1>6 DEF Next, Parent

\* No cell of the model ever holds a sample of an epoch twice.
THEOREM NoSampleTwice == Spec => []AppliedOnce
<1>1. Init => CellInv
  BY DEF Init, CellInv, Sound, Disjoint, StorePc, Cells
<1>2. IInv /\ MemInv /\ CellInv /\ [Next]_vars => CellInv'
  BY StepCellInv
<1>3. CellInv => AppliedOnce
  BY DEF CellInv, Sound, Fits, Disjoint, AppliedOnce
<1> QED
  BY <1>1, <1>2, <1>3, IInvariant, MemInvariant, PTL DEF Spec

-----------------------------------------------------------------------------
(* What the past epochs left in the model.                                 *)

\* A store writes back the past it loaded; its own update is of this epoch.
LEMMA StoreKeepsPast ==
    ASSUME IInv, PastInv, NEW r \in Ranks, NEW c \in Cells, pc[r] = StorePc(c), Store(r, c),
           NEW f \in Nodes, NEW d \in Cells, epoch' = epoch
    PROVE PastOf(shared[f][d])' = PastOf(shared[f][d])
<1>1. Home(r, c) \in Nodes /\ epoch \in Nat
  BY HomeType DEF IInv, TypeOK
<1>2. \/ shared'[f][d] = shared[f][d]
      \/ /\ f = Home(r, c) /\ d = c
         /\ shared'[f][d] = reg[r] \cup {Update(r, c)}
  BY <1>1 DEF Store, IInv, TypeOK
<1>3. ~Past(Update(r, c))
  BY <1>1 DEF Past, Update
<1>4. PastOf(reg[r]) = PastOf(shared[Home(r, c)][c])
  BY DEF PastInv
<1>5. CASE shared'[f][d] = shared[f][d]
  BY <1>5 DEF PastOf, Past
<1>6. CASE f = Home(r, c) /\ d = c /\ shared'[f][d] = reg[r] \cup {Update(r, c)}
  <2>1. PastOf(shared[f][d])' = PastOf(reg[r])
    BY <1>3, <1>6 DEF PastOf, Past
  <2> QED
    BY <1>4, <1>6, <2>1
<1> QED
  BY <1>2, <1>5, <1>6

\* So every step of a worker leaves the past of every cell alone.
LEMMA WorkerKeepsPast ==
    ASSUME IInv, PastInv, NEW r \in Ranks, Worker(r) \/ Killed(r),
           NEW f \in Nodes, NEW d \in Cells
    PROVE PastOf(shared[f][d])' = PastOf(shared[f][d])
<1>1. epoch' = epoch
  BY WorkerMoves DEF parent, IInv
<1>2. CASE StoreBias(r) \/ StoreWeight(r)
  <2>1. \E c \in Cells : pc[r] = StorePc(c) /\ Store(r, c)
    BY <1>2 DEF StoreBias, StoreWeight, StorePc, Cells
  <2> QED
    BY <1>1, <2>1, StoreKeepsPast
<1>3. CASE ~StoreBias(r) /\ ~StoreWeight(r)
  <2>1. shared' = shared
    BY <1>3 DEF Worker, Killed, Begin, SwitchIn, CopyModel, Sample, EndBatch,
                LoadBias, LoadWeight, Report, SwitchOut, Leave
  <2> QED
    BY <1>1, <2>1 DEF PastOf, Past
<1> QED
  BY <1>2, <1>3

LEMMA StepPastInv == IInv /\ PastInv /\ [Next]_vars => PastInv'
<1> SUFFICES ASSUME IInv, PastInv, [Next]_vars PROVE PastInv'
  OBVIOUS
<1>1. ASSUME NEW r \in Ranks, Worker(r) \/ Killed(r) PROVE PastInv'
  <2>1. epoch' = epoch
    BY <1>1, WorkerMoves DEF parent, IInv
  <2>2. \A f \in Nodes, d \in Cells : PastOf(shared[f][d])' = PastOf(shared[f][d])
    BY <1>1, WorkerKeepsPast
  <2>3. ASSUME NEW q \in Ranks, NEW c \in Cells, q # r, pc'[q] = StorePc(c)
        PROVE PastOf(reg[q])' = PastOf(shared[Home(q, c)][c])'
    <3>1. /\ pc'[q] = pc[q] /\ reg'[q] = reg[q]
          /\ table'[q] = table[q] /\ view'[q] = view[q]
      BY <1>1, <2>3 DEF Worker, Killed, Exit, Begin, SwitchIn, CopyModel, Sample, EndBatch,
                LoadBias, StoreBias, LoadWeight, StoreWeight, Load, Store, Report,
                SwitchOut, Leave, IInv, TypeOK
    <3>2. Home(q, c)' = Home(q, c) /\ Home(q, c) \in Nodes
      BY <3>1, HomeType DEF Home, IInv
    <3>3. PastOf(reg[q])' = PastOf(reg[q])
      BY <2>1, <3>1 DEF PastOf, Past
    <3>4. PastOf(shared[Home(q, c)][c])' = PastOf(shared[Home(q, c)][c])
      <4>1. PICK f \in Nodes : f = Home(q, c)
        BY <3>2
      <4>2. PastOf(shared[f][c])' = PastOf(shared[f][c])
        BY <2>2
      <4> QED
        BY <3>2, <4>1, <4>2 DEF PastOf, Past
    <3> QED
      BY <2>3, <3>1, <3>3, <3>4 DEF PastInv
  <2>4. ASSUME NEW c \in Cells, pc'[r] = StorePc(c)
        PROVE PastOf(reg[r])' = PastOf(shared[Home(r, c)][c])'
    <3>1. LoadBias(r) \/ LoadWeight(r)
      BY <1>1, <2>4 DEF Worker, Killed, Exit, Begin, SwitchIn, CopyModel, Sample,
              EndBatch, StoreBias, StoreWeight, Report, SwitchOut, Leave,
              IInv, TypeOK, StorePc, Cells
    <3>2. /\ shared' = shared /\ reg'[r] = shared[Home(r, c)][c]
          /\ Home(r, c)' = Home(r, c)
      BY <2>4, <3>1 DEF LoadBias, LoadWeight, Load, Home, IInv, TypeOK, StorePc, Cells
    <3> QED
      BY <3>2 DEF PastOf
  <2> QED
    BY <2>3, <2>4 DEF PastInv
<1>2. ASSUME NEW r \in Ranks, Fork(r) PROVE PastInv'
  <2>1. /\ shared' = shared /\ reg' = reg /\ epoch' = epoch /\ view' = view
        /\ \A q \in Ranks \ {r} : pc'[q] = pc[q] /\ table'[q] = table[q]
        /\ pc'[r] = "start"
    BY <1>2 DEF Fork, IInv, TypeOK
  <2> QED
    BY <2>1 DEF PastInv, PastOf, Past, Home, StorePc
<1>3. CASE TestAndContinue
  BY <1>3 DEF TestAndContinue, PastInv, StorePc
<1>4. CASE ForkFails \/ EndForkLoop \/ Reduce \/ Uninstall \/ UNCHANGED vars
           \/ \E r \in Ranks : Wait(r)
  <2>1. UNCHANGED <<shared, reg, epoch, pc, table, view>>
    BY <1>4 DEF ForkFails, EndForkLoop, Reduce, Uninstall, Wait, vars, parent, worker, memory
  <2> QED
    BY <2>1 DEF PastInv, PastOf, Past, Home
<1> QED
  BY <1>1, <1>2, <1>3, <1>4 DEF Next, Parent

\* Nothing an earlier epoch left in the model is ever lost to a race.
THEOREM EarlierEpochsAreKept == Spec => EarlierEpochsKept
<1>1. Init => PastInv
  BY DEF Init, PastInv, StorePc
<1>2. IInv /\ PastInv /\ [Next]_vars => PastInv'
  BY StepPastInv
<1>3. ASSUME IInv, PastInv, [Next]_vars, NEW f \in Nodes, NEW c \in Cells,
             NEW u \in shared[f][c], u.epoch < epoch
      PROVE u \in shared'[f][c]
  <2>1. CASE \E r \in Ranks : Worker(r) \/ Killed(r)
    <3>1. PastOf(shared[f][c])' = PastOf(shared[f][c])
      BY <1>3, <2>1, WorkerKeepsPast
    <3>2. u \in PastOf(shared[f][c])
      BY <1>3 DEF PastOf, Past
    <3> QED
      BY <3>1, <3>2 DEF PastOf
  <2>2. CASE Parent \/ ForkFails \/ Uninstall \/ UNCHANGED vars
    BY <1>3, <2>2 DEF Parent, Fork, Wait, EndForkLoop, Reduce, TestAndContinue, ForkFails,
                      Uninstall, vars
  <2> QED
    BY <1>3, <2>1, <2>2 DEF Next
<1>4. IInv /\ PastInv /\ [Next]_vars =>
        [\A f \in Nodes, c \in Cells :
            \A u \in shared[f][c] : u.epoch < epoch => u \in shared'[f][c]]_vars
  BY <1>3
<1> QED
  BY <1>1, <1>2, <1>4, IInvariant, PTL DEF Spec, EarlierEpochsKept
=============================================================================
