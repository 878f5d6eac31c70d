---------------------------- MODULE DriverProofs ----------------------------
(***************************************************************************)
(* The layout of the copies and the course of main, for every network,     *)
(* every number of nodes, workers and epochs and every size of a           *)
(* page-directory entry.                                                   *)
(***************************************************************************)
EXTENDS Driver, SumProofs

\* Sums of multiples of 8 are multiples of 8, and do not shrink.
LEMMA SumOfWords ==
    ASSUME NEW f, NEW n \in Nat, \A m \in 1 .. n : f[m] \in Nat /\ f[m] % 8 = 0
    PROVE  /\ \A m \in 0 .. n : Sum(f, m) \in Nat /\ Sum(f, m) % 8 = 0
           /\ \A l, m \in 0 .. n : l <= m => Sum(f, l) <= Sum(f, m)
<1> DEFINE T == {m \in Nat : m <= n => Sum(f, m) \in Nat /\ Sum(f, m) % 8 = 0}
<1>1. 0 \in T
  BY SumFacts
<1>2. \A m \in Nat : m \in T => m + 1 \in T
  <2> SUFFICES ASSUME NEW m \in Nat, m \in T, m + 1 <= n
               PROVE  Sum(f, m + 1) \in Nat /\ Sum(f, m + 1) % 8 = 0
    OBVIOUS
  <2>1. Sum(f, m) \in Nat /\ Sum(f, m) % 8 = 0 /\ m + 1 \in 1 .. n
    OBVIOUS
  <2>2. f[m + 1] \in Nat /\ f[m + 1] % 8 = 0
    BY <2>1
  <2>3. Sum(f, m + 1) = Sum(f, m) + f[m + 1]
    BY SumFacts
  <2>4. \A x, y \in Nat : x % 8 = 0 /\ y % 8 = 0 => (x + y) % 8 = 0 /\ x + y \in Nat
    OBVIOUS
  <2> QED
    BY <2>1, <2>2, <2>3, <2>4
<1>3. \A m \in Nat : m \in T
  <2> HIDE DEF T
  <2> QED
    BY <1>1, <1>2, SetInduction
<1>4. \A m \in 0 .. n : Sum(f, m) \in Nat /\ Sum(f, m) % 8 = 0
  BY <1>3
<1>5. ASSUME NEW l \in 0 .. n
      PROVE  \A m \in 0 .. n : l <= m => Sum(f, l) <= Sum(f, m)
  <2> DEFINE U == {m \in Nat : l <= m /\ m <= n => Sum(f, l) <= Sum(f, m)}
  <2>1. 0 \in U
    BY <1>4
  <2>2. \A m \in Nat : m \in U => m + 1 \in U
    <3> SUFFICES ASSUME NEW m \in Nat, m \in U, l <= m + 1, m + 1 <= n
                 PROVE  Sum(f, l) <= Sum(f, m + 1)
      OBVIOUS
    <3>1. CASE l = m + 1
      BY <1>4, <3>1
    <3>2. CASE l <= m
      <4>1. Sum(f, l) <= Sum(f, m) /\ m \in 0 .. n /\ m + 1 \in 1 .. n
        BY <3>2
      <4>2. Sum(f, m + 1) = Sum(f, m) + f[m + 1]
        BY SumFacts
      <4> QED
        BY <1>4, <4>1, <4>2
    <3> QED
      BY <3>1, <3>2
  <2>3. \A m \in Nat : m \in U
    <3> HIDE DEF U
    <3> QED
      BY <2>1, <2>2, SetInduction
  <2> QED
    BY <2>3
<1> QED
  BY <1>4, <1>5

-----------------------------------------------------------------------------
(* The course of main, and the file.                                       *)

\* The header and the rows of the first epochs: what a stream can hold.
Lines(n) == [m \in 1 .. n |-> m - 1]

\* Where main is in the rounds: only a failed fork leaves them early, and only
\* then is a child left that runs on.
CourseInv ==
    /\ mode \in {"open", "closed", "stopped"}
    /\ round \in 0 .. Epochs
    /\ running \subseteq started /\ started \subseteq Ranks
    /\ state \in {"layout", "running", "freeing", "returned", "exited", "crashed"}
    /\ mode # "stopped" => round < Epochs /\ state \in {"layout", "running"}
    /\ mode = "stopped" => round = Epochs \/ state = "exited"
    /\ mode = "open" \/ state = "exited" \/ running = {}
    /\ state = "layout" => round = 0 /\ mode # "closed" /\ running = {}

\* The parent's stream and every child's copy of it.
CopiesInv ==
    /\ buffer = IF state = "running" THEN Lines(round + 1) ELSE <<>>
    /\ DOMAIN inherited = Ranks
    /\ \A r \in Ranks : \E n \in 0 .. Epochs + 1 : inherited[r] = Lines(n)
StreamInv == CopiesInv /\ file \in Seq(0 .. Epochs)

\* What the free loop has still to read.
CleanupInv ==
    /\ mapped \subseteq Pdes
    /\ freed \in 0 .. NumNodes
    /\ state \in {"layout", "running"} => freed = 0
    /\ state = "running" => mapped = Pdes
    /\ PdesPerSlab = 1 /\ state = "freeing" => freed .. NumNodes - 1 \subseteq mapped

DriverInv == CourseInv /\ StreamInv /\ CleanupInv

driverVars == <<vars, rounds, stream, cleanup>>

LEMMA LinesAreLines ==
    ASSUME NEW n \in 0 .. Epochs + 1
    PROVE  /\ Lines(n) \in Seq(0 .. Epochs) /\ Len(Lines(n)) = n
           /\ \A m \in 1 .. n : Lines(n)[m] = m - 1
BY DriverAssumption DEF Lines

LEMMA LinesGrow ==
    ASSUME NEW n \in 0 .. Epochs
    PROVE  Append(Lines(n), n) = Lines(n + 1)
BY DriverAssumption DEF Lines

LEMMA ReportIsLines == Report = Lines(Epochs + 1)
<1>1. [e \in 1 .. Epochs |-> e] \in Seq(Nat) /\ Len([e \in 1 .. Epochs |-> e]) = Epochs
  BY DriverAssumption
<1>2. Report \in Seq(Nat) /\ Len(Report) = Epochs + 1
  BY <1>1, DriverAssumption DEF Report, HeaderLine
<1>3. \A m \in 1 .. Epochs + 1 : Report[m] = m - 1
  BY <1>1, DriverAssumption DEF Report, HeaderLine
<1> QED
  BY <1>2, <1>3, DriverAssumption DEF Lines

LEMMA PartsOfReport == {SubSeq(Report, 1, n) : n \in 0 .. Epochs + 1} = {Lines(n) : n \in 0 .. Epochs + 1}
<1> SUFFICES ASSUME NEW n \in 0 .. Epochs + 1
             PROVE  SubSeq(Lines(Epochs + 1), 1, n) = Lines(n)
  BY ReportIsLines
<1> QED
  BY DriverAssumption DEF Lines

\* A step of main after the layout leaves the layout and its sizes alone.
LEMMA SizesStay == ASSUME UNCHANGED net
                   PROVE  PdesPerSlab' = PdesPerSlab /\ Pdes' = Pdes
BY DEF PdesPerSlab, Pdes, AlignedSize, SharedModelSize, NLayers, Layers, NIn, NOut

LEMMA NetStays == ASSUME [DriverNext]_driverVars
                  PROVE  UNCHANGED net
BY DEF DriverNext, driverVars, vars, Layout, Next, Header, Rows, Data, Check, InitNN, PrivateLayer,
       PrivateActivations, Open, Start, WorkerExits, WorkerKilled, Join, WriteRow, ForkFails,
       Close, Free, ReturnFromMain

LEMMA DriverInvInit == DriverInit => DriverInv
<1> SUFFICES ASSUME DriverInit
             PROVE  DriverInv
  OBVIOUS
<1>1. CourseInv
  BY DriverAssumption DEF DriverInit, CourseInv
<1>2. StreamInv
  <2>1. \A r \in Ranks : inherited[r] = Lines(0)
    BY DEF DriverInit, Lines
  <2> QED
    BY <2>1, DriverAssumption DEF DriverInit, StreamInv, CopiesInv
<1>3. CleanupInv
  BY LayoutAssumption DEF DriverInit, CleanupInv
<1> QED
  BY <1>1, <1>2, <1>3 DEF DriverInv

LEMMA CourseStep == ASSUME CourseInv, [DriverNext]_driverVars
                    PROVE  CourseInv'
<1> USE DriverAssumption DEF CourseInv, rounds, cleanup
<1>1. CASE Layout
  BY <1>1 DEF Layout
<1>2. CASE Open
  BY <1>2 DEF Open
<1>3. ASSUME NEW r \in Ranks, Start(r)
      PROVE  CourseInv'
  BY <1>3 DEF Start, FJ!Start
<1>4. ASSUME NEW r \in Ranks, WorkerExits(r) \/ WorkerKilled(r)
      PROVE  CourseInv'
  BY <1>4 DEF WorkerExits, WorkerKilled, FJ!End
<1>5. CASE Join
  BY <1>5 DEF Join, FJ!Join
<1>6. CASE WriteRow
  BY <1>6 DEF WriteRow, FJ!NextRound
<1>7. CASE ForkFails
  BY <1>7 DEF ForkFails, FJ!Abandon
<1>8. CASE Close \/ Free \/ ReturnFromMain
  BY <1>8 DEF Close, Free, ReturnFromMain
<1>9. CASE UNCHANGED driverVars
  BY <1>9 DEF driverVars
<1> QED
  BY <1>1, <1>2, <1>3, <1>4, <1>5, <1>6, <1>7, <1>8, <1>9 DEF DriverNext

\* What a step does to the file: it adds part of a report to its end, at most.
LEMMA FileStep == ASSUME CourseInv, StreamInv, [DriverNext]_driverVars
                  PROVE  \/ file' = file \/ file' = <<>>
                         \/ \E n \in 0 .. Epochs + 1 : file' = file \o Lines(n)
<1> USE DEF stream
<1>1. CASE Layout \/ Join \/ Free \/ ReturnFromMain \/ UNCHANGED driverVars
  BY <1>1 DEF Layout, Join, Free, ReturnFromMain, driverVars
<1>2. CASE Open
  BY <1>2 DEF Open
<1>3. ASSUME NEW r \in Ranks, Start(r) \/ WorkerExits(r) \/ WorkerKilled(r)
      PROVE  file' = file \/ \E n \in 0 .. Epochs + 1 : file' = file \o Lines(n)
  BY <1>3 DEF Start, WorkerExits, WorkerKilled, StreamInv, CopiesInv
<1>4. CASE WriteRow
  BY <1>4 DEF WriteRow
<1>5. CASE ForkFails \/ Close
  <2>1. file' = file \o Lines(round + 1) /\ round + 1 \in 0 .. Epochs + 1
    BY <1>5, DriverAssumption DEF ForkFails, Close, CourseInv, StreamInv, CopiesInv
  <2> QED
    BY <2>1
<1> QED
  BY <1>1, <1>2, <1>3, <1>4, <1>5 DEF DriverNext

LEMMA StreamStep == ASSUME CourseInv, StreamInv, [DriverNext]_driverVars
                    PROVE  StreamInv'
<1>0. file' \in Seq(0 .. Epochs)
  <2>1. file \in Seq(0 .. Epochs)
    BY DEF StreamInv
  <2>2. \A n \in 0 .. Epochs + 1 : file \o Lines(n) \in Seq(0 .. Epochs)
    BY <2>1, LinesAreLines
  <2>3. <<>> \in Seq(0 .. Epochs)
    OBVIOUS
  <2> QED
    BY <2>1, <2>2, <2>3, FileStep
<1> USE DEF stream, cleanup, rounds, CopiesInv
<1>1. CopiesInv'
  <2>1. CASE Layout
    BY <2>1 DEF Layout, StreamInv
  <2>2. CASE Open
    <3>1. Lines(1) = <<HeaderLine>>
      BY DEF Lines, HeaderLine
    <3>2. round' + 1 = 1
      BY <2>2 DEF Open, CourseInv
    <3> QED
      BY <2>2, <3>1, <3>2 DEF Open, StreamInv
  <2>3. ASSUME NEW r \in Ranks, Start(r)
        PROVE  CopiesInv'
    <3>1. buffer = Lines(round + 1) /\ round + 1 \in 0 .. Epochs + 1
      BY <2>3, DriverAssumption DEF Start, CourseInv, StreamInv
    <3>2. UNCHANGED <<buffer, state, round>> /\ inherited' = [inherited EXCEPT ![r] = buffer]
      BY <2>3 DEF Start, FJ!Start
    <3> QED
      BY <2>3, <3>1, <3>2 DEF StreamInv
  <2>4. ASSUME NEW r \in Ranks, WorkerExits(r) \/ WorkerKilled(r)
        PROVE  CopiesInv'
    <3>1. UNCHANGED <<buffer, state, round>> /\ inherited' = [inherited EXCEPT ![r] = <<>>]
      BY <2>4 DEF WorkerExits, WorkerKilled, FJ!End
    <3>2. <<>> = Lines(0) /\ 0 \in 0 .. Epochs + 1
      BY DriverAssumption DEF Lines
    <3> QED
      BY <2>4, <3>1, <3>2 DEF StreamInv
  <2>5. CASE Join
    BY <2>5 DEF Join, FJ!Join, StreamInv
  <2>6. CASE WriteRow
    <3>1. buffer' = Append(Lines(round + 1), round + 1) /\ round + 1 \in 0 .. Epochs
      BY <2>6, DriverAssumption DEF WriteRow, FJ!NextRound, CourseInv, StreamInv
    <3>2. state' = "running" /\ round' = round + 1 /\ UNCHANGED inherited
      BY <2>6 DEF WriteRow, FJ!NextRound
    <3>3. Append(Lines(round + 1), round + 1) = Lines(round + 1 + 1)
      BY <3>1, LinesGrow
    <3> QED
      BY <3>1, <3>2, <3>3 DEF StreamInv
  <2>7. CASE ForkFails \/ Close
    BY <2>7 DEF ForkFails, Close, StreamInv
  <2>8. CASE Free \/ ReturnFromMain
    BY <2>8 DEF Free, ReturnFromMain, StreamInv
  <2>9. CASE UNCHANGED driverVars
    BY <2>9 DEF driverVars, StreamInv
  <2> QED
    BY <2>1, <2>2, <2>3, <2>4, <2>5, <2>6, <2>7, <2>8, <2>9 DEF DriverNext
<1> QED
  BY <1>0, <1>1 DEF StreamInv

LEMMA CleanupStep == ASSUME CourseInv, CleanupInv, [DriverNext]_driverVars
                     PROVE  CleanupInv'
<1> USE LayoutAssumption DEF CleanupInv, cleanup
<1>0. PdesPerSlab' = PdesPerSlab /\ Pdes' = Pdes
  BY NetStays, SizesStay
<1>1. CASE UNCHANGED cleanup
  <2>1. mapped' = mapped /\ freed' = freed /\ state' = state
    BY <1>1
  <2> QED
    BY <1>0, <2>1
<1>2. CASE Open
  BY <1>0, <1>2 DEF Open
<1>3. CASE \/ Layout \/ Join \/ WriteRow \/ UNCHANGED driverVars
           \/ \E r \in Ranks : Start(r) \/ WorkerExits(r) \/ WorkerKilled(r)
  <2>1. UNCHANGED cleanup
    BY <1>3 DEF Layout, Join, WriteRow, Start, WorkerExits, WorkerKilled, driverVars
  <2> QED
    BY <1>1, <2>1
<1>4. CASE ForkFails
  BY <1>0, <1>4 DEF ForkFails
<1>5. CASE Close
  BY <1>0, <1>5 DEF Close, Pdes
<1>6. CASE Free
  BY <1>0, <1>6 DEF Free
<1>7. CASE ReturnFromMain
  BY <1>0, <1>7 DEF ReturnFromMain
<1> QED
  BY <1>1, <1>2, <1>3, <1>4, <1>5, <1>6, <1>7 DEF DriverNext

LEMMA DriverInvariant == DriverSpec => []DriverInv
<1>1. DriverInv /\ [DriverNext]_driverVars => DriverInv'
  BY CourseStep, StreamStep, CleanupStep DEF DriverInv
<1> QED
  BY <1>1, DriverInvInit, PTL DEF DriverSpec, driverVars

-----------------------------------------------------------------------------
(* The file.                                                               *)

LEMMA ConcatFacts ==
    ASSUME NEW S, NEW s \in Seq(S), NEW t \in Seq(S)
    PROVE  /\ s \o t \in Seq(S)
           /\ Len(s \o t) = Len(s) + Len(t)
           /\ \A m \in 1 .. Len(s) : (s \o t)[m] = s[m]
           /\ \A m \in 1 .. Len(t) : (s \o t)[m + Len(s)] = t[m]
           /\ SubSeq(s \o t, Len(s) + 1, Len(s) + Len(t)) = t
<1>1. s \o t \in Seq(S) /\ Len(s \o t) = Len(s) + Len(t)
  OBVIOUS
<1>2. \A m \in 1 .. Len(t) : (s \o t)[m + Len(s)] = t[m]
  OBVIOUS
<1> DEFINE u == SubSeq(s \o t, Len(s) + 1, Len(s) + Len(t))
<1>3. u \in Seq(S) /\ Len(u) = Len(t)
  BY <1>1
<1>4. \A m \in 1 .. Len(t) : u[m] = t[m]
  BY <1>1, <1>2
<1>5. u = t
  <2> HIDE DEF u
  <2> QED
    BY <1>3, <1>4
<1> QED
  BY <1>1, <1>2, <1>5

LEMMA FollowsConcat ==
    ASSUME file \in Seq(0 .. Epochs), LinesFollow,
           NEW n \in 0 .. Epochs + 1, file' = file \o Lines(n)
    PROVE  LinesFollow'
<1>1. /\ Lines(n) \in Seq(0 .. Epochs) /\ Len(Lines(n)) = n
      /\ \A m \in 1 .. n : Lines(n)[m] = m - 1
  BY LinesAreLines
<1> SUFFICES ASSUME NEW m \in 1 .. Len(file')
             PROVE  file'[m] = HeaderLine \/ (m > 1 /\ file'[m] = file'[m - 1] + 1)
  BY DEF LinesFollow
<1>2. Len(file') = Len(file) + n /\ Len(file) \in Nat
  <2>1. Len(file \o Lines(n)) = Len(file) + Len(Lines(n))
    BY <1>1, ConcatFacts
  <2> QED
    BY <1>1, <2>1
<1>3. CASE m <= Len(file)
  <2>1. file'[m] = file[m] /\ (m > 1 => file'[m - 1] = file[m - 1])
    BY <1>1, <1>2, <1>3, DriverAssumption
  <2> QED
    BY <1>2, <1>3, <2>1 DEF LinesFollow
<1>4. CASE m = Len(file) + 1
  <2>1. file'[m] = Lines(n)[1] /\ 1 \in 1 .. n
    BY <1>1, <1>2, <1>4, DriverAssumption
  <2> QED
    BY <1>1, <2>1 DEF HeaderLine
<1>5. CASE m > Len(file) + 1
  <2> DEFINE l == m - Len(file)
  <2>1. l \in 2 .. n /\ l - 1 \in 1 .. n
    BY <1>2, <1>5, DriverAssumption
  <2>2. file'[m] = Lines(n)[l] /\ file'[m - 1] = Lines(n)[l - 1]
    BY <1>1, <1>2, <1>5, DriverAssumption
  <2> QED
    BY <1>1, <1>2, <2>1, <2>2, DriverAssumption
<1> QED
  BY <1>2, <1>3, <1>4, <1>5, DriverAssumption

\* However the copies of the stream that the children flush and the parent's own
\* come into the file, every line is a header or follows the row before it.
THEOREM FileLinesFollow == DriverSpec => []LinesFollow
<1>1. DriverInit => LinesFollow
  BY DEF DriverInit, LinesFollow
<1>2. LinesFollow /\ DriverInv /\ [DriverNext]_driverVars => LinesFollow'
  <2> SUFFICES ASSUME LinesFollow, DriverInv, [DriverNext]_driverVars
               PROVE  LinesFollow'
    OBVIOUS
  <2>1. CourseInv /\ StreamInv /\ file \in Seq(0 .. Epochs)
    BY DEF DriverInv, StreamInv
  <2>2. CASE file' = file
    BY <2>2 DEF LinesFollow
  <2>3. CASE file' = <<>>
    BY <2>3 DEF LinesFollow
  <2>4. ASSUME NEW n \in 0 .. Epochs + 1, file' = file \o Lines(n)
        PROVE  LinesFollow'
    BY <2>1, <2>4, FollowsConcat
  <2> QED
    BY <2>1, <2>2, <2>3, <2>4, FileStep
<1> QED
  BY <1>1, <1>2, DriverInvariant, PTL DEF DriverSpec, driverVars

LEMMA CloseWritesReport ==
    ASSUME CourseInv, StreamInv, Close
    PROVE  Len(file') > Epochs /\ SubSeq(file', Len(file') - Epochs, Len(file')) = Report
<1>1. file' = file \o Report
  <2>1. round + 1 = Epochs + 1
    BY DEF Close, CourseInv
  <2> QED
    BY <2>1, ReportIsLines DEF Close, StreamInv, CopiesInv
<1>2. /\ Report \in Seq(0 .. Epochs) /\ Len(Report) = Epochs + 1 /\ Epochs \in Nat
      /\ file \in Seq(0 .. Epochs)
  BY ReportIsLines, LinesAreLines, DriverAssumption DEF StreamInv
<1> HIDE DEF Report
<1>3. /\ Len(file') = Len(file) + (Epochs + 1)
      /\ SubSeq(file', Len(file) + 1, Len(file) + (Epochs + 1)) = Report
  <2>1. /\ Len(file \o Report) = Len(file) + Len(Report)
        /\ SubSeq(file \o Report, Len(file) + 1, Len(file) + Len(Report)) = Report
    BY <1>2, ConcatFacts
  <2> QED
    BY <1>1, <1>2, <2>1
<1>4. /\ Len(file) \in Nat
      /\ Len(file') - Epochs = Len(file) + 1
  BY <1>2, <1>3
<1> QED
  BY <1>2, <1>3, <1>4

\* Main closes the file when no child is left, so that what it closes ends with
\* the whole report and stays like that.
THEOREM FileEndsWithReport == DriverSpec => []EndsWithReport
<1>1. DriverInit => EndsWithReport
  BY DEF DriverInit, EndsWithReport
<1>2. EndsWithReport /\ DriverInv /\ [DriverNext]_driverVars => EndsWithReport'
  <2> SUFFICES ASSUME EndsWithReport, DriverInv, [DriverNext]_driverVars,
                      state' \in {"freeing", "returned"}
               PROVE  (Len(file) > Epochs /\ SubSeq(file, Len(file) - Epochs, Len(file)) = Report)'
    BY DEF EndsWithReport
  <2>1. CourseInv /\ StreamInv
    BY DEF DriverInv
  <2>2. CASE Close
    <3>1. Report' = Report
      BY DEF Report
    <3> QED
      BY <2>1, <2>2, <3>1, CloseWritesReport
  <2>3. CASE ~Close
    <3>1. UNCHANGED file /\ state \in {"freeing", "returned"}
      <4>1. CASE Layout \/ Open \/ Join \/ WriteRow \/ ForkFails
        BY <2>1, <4>1 DEF Layout, Open, Join, WriteRow, ForkFails, cleanup
      <4>2. CASE \E r \in Ranks : Start(r)
        BY <4>2 DEF Start, cleanup
      <4>3. CASE \E r \in Ranks : WorkerExits(r) \/ WorkerKilled(r)
        BY <2>1, <4>3 DEF WorkerExits, WorkerKilled, FJ!End, CourseInv, cleanup
      <4>4. CASE Free \/ ReturnFromMain \/ UNCHANGED driverVars
        BY <4>4 DEF Free, ReturnFromMain, driverVars, stream, cleanup
      <4> QED
        BY <2>3, <4>1, <4>2, <4>3, <4>4 DEF DriverNext
    <3> QED
      BY <3>1 DEF EndsWithReport, Report
  <2> QED
    BY <2>2, <2>3
<1> QED
  BY <1>1, <1>2, DriverInvariant, PTL DEF DriverSpec, driverVars

-----------------------------------------------------------------------------
(* The rounds and the cleanup.                                             *)

\* Every turn of the free loop reads a copy that is still mapped, when a copy
\* takes one page-directory entry.
THEOREM FreeReadsMapped == DriverSpec => []FreeLoopReadsMapped
<1>1. DriverInit => FreeLoopReadsMapped
  BY DEF DriverInit, FreeLoopReadsMapped
<1>2. FreeLoopReadsMapped /\ DriverInv /\ [DriverNext]_driverVars => FreeLoopReadsMapped'
  <2> SUFFICES ASSUME FreeLoopReadsMapped, DriverInv, [DriverNext]_driverVars,
                      PdesPerSlab' = 1, state' = "crashed"
               PROVE  FALSE
    BY DEF FreeLoopReadsMapped
  <2>1. PdesPerSlab = 1 /\ state # "crashed"
    BY NetStays, SizesStay DEF FreeLoopReadsMapped
  <2>2. Free
    BY <2>1 DEF DriverNext, Layout, Open, Start, WorkerExits, WorkerKilled, Join, WriteRow,
                ForkFails, Close, ReturnFromMain, driverVars, cleanup
  <2>3. freed \in mapped
    BY <2>1, <2>2, LayoutAssumption DEF Free, DriverInv, CleanupInv
  <2> QED
    BY <2>1, <2>2, <2>3 DEF Free
<1> QED
  BY <1>1, <1>2, DriverInvariant, PTL DEF DriverSpec, driverVars

\* Main's part of the rounds is what ForkJoin promises, with the file and the
\* cleanup around it.
THEOREM DriverImplementsForkJoin ==
    ASSUME Epochs > 0
    PROVE  DriverSpec => FJ!Spec
<1>1. DriverInit => FJ!Init
  BY DEF DriverInit, FJ!Init
<1>2. [DriverNext]_driverVars => [FJ!Next]_(FJ!vars)
  <2> SUFFICES ASSUME [DriverNext]_driverVars
               PROVE  [FJ!Next]_(FJ!vars)
    OBVIOUS
  <2> USE DEF rounds, FJ!vars
  <2>1. CASE \E r \in Ranks : Start(r) \/ WorkerExits(r) \/ WorkerKilled(r)
    BY <2>1 DEF Start, WorkerExits, WorkerKilled, FJ!Next
  <2>2. CASE Join \/ WriteRow \/ ForkFails
    BY <2>2 DEF Join, WriteRow, ForkFails, FJ!Next
  <2>3. CASE Layout \/ Open \/ Close \/ Free \/ ReturnFromMain \/ UNCHANGED driverVars
    BY <2>3 DEF Layout, Open, Close, Free, ReturnFromMain, driverVars
  <2> QED
    BY <2>1, <2>2, <2>3 DEF DriverNext
<1> QED
  BY <1>1, <1>2, PTL DEF DriverSpec, FJ!Spec, driverVars

\* Main lays the copies out as MemoryLayout does, and leaves them where they are.
THEOREM DriverKeepsLayout == DriverSpec => Spec
<1>1. DriverInit => Init
  BY DEF DriverInit
<1>2. [DriverNext]_driverVars => [Next]_vars
  <2> SUFFICES ASSUME [DriverNext]_driverVars
               PROVE  Next \/ UNCHANGED vars
    OBVIOUS
  <2>1. CASE Layout
    BY <2>1 DEF Layout
  <2>2. CASE ~Layout
    BY <2>2 DEF DriverNext, Open, Start, WorkerExits, WorkerKilled, Join, WriteRow,
                ForkFails, Close, Free, ReturnFromMain, driverVars
  <2> QED
    BY <2>1, <2>2
<1> QED
  BY <1>1, <1>2, PTL DEF DriverSpec, Spec, driverVars

-----------------------------------------------------------------------------
(* The geometry of the mapping.                                            *)

\* The structure and the arrays of pointers; the loops' contributions.
Top == Align8(Align8(StructSize) + NLayers * IntSize) + ((NLayers - 1) * 8 + NLayers * 3) * Pointer
RowBytes == [k \in Layers |-> NIn(k) * 4 * Pointer]
DataBytes == [k \in Layers |-> (NIn(k) + NIn(k) * NOut(k)) * Double]
PrivateBytes ==
    [k \in Layers |-> NIn(k) * 3 * Pointer + NOut(k) * 3 * Double + NIn(k) * NOut(k) * 3 * Double]
ActivationBytes == [l \in 1 .. NLayers |-> (net[l] + 1) * 3 * Double]

\* Where the data of layer k of copy s begins, and the rows of its weights.
DataAt(s, k) == Slab(s) + (Top + Sum(RowBytes, NLayers - 1) + Sum(DataBytes, k - 1))
RowsAt(s, k) == DataAt(s, k) + NIn(k) * Double

LEMMA NetFacts ==
    ASSUME net \in Nets
    PROVE  /\ NLayers \in Nat /\ NLayers >= 2
           /\ \A l \in 1 .. NLayers : net[l] \in Nat /\ net[l] >= 1
           /\ \A k \in Layers : /\ k \in 1 .. NLayers /\ k + 1 \in 1 .. NLayers
                                /\ NIn(k) \in Nat /\ NOut(k) \in Nat
                                /\ NIn(k) = net[k] + 1 /\ NOut(k) = net[k + 1] + 1
                                /\ NIn(k) * NOut(k) \in Nat
<1>1. net \in Seq(Nat \ {0}) /\ Len(net) >= 2
  BY LayoutAssumption
<1>2. NLayers \in Nat /\ NLayers >= 2 /\ \A l \in 1 .. NLayers : net[l] \in Nat /\ net[l] >= 1
  BY <1>1 DEF NLayers
<1>3. ASSUME NEW k \in Layers
      PROVE  /\ k \in 1 .. NLayers /\ k + 1 \in 1 .. NLayers
             /\ NIn(k) \in Nat /\ NOut(k) \in Nat
             /\ NIn(k) = net[k] + 1 /\ NOut(k) = net[k + 1] + 1
  <2>1. k \in 1 .. NLayers /\ k + 1 \in 1 .. NLayers
    BY <1>2 DEF Layers
  <2> QED
    BY <1>2, <2>1 DEF NIn, NOut
<1>4. \A x, y \in Nat : x * y \in Nat
  OBVIOUS
<1> QED
  BY <1>2, <1>3, <1>4

LEMMA WordFacts ==
    /\ \A x \in Nat : x * 8 \in Nat /\ (x * 8) % 8 = 0
    /\ \A x, y \in Nat : x % 8 = 0 /\ y % 8 = 0 => (x + y) % 8 = 0
    /\ \A x \in Nat : x % 8 = 0 => Align8(x) = x
    /\ \A x \in Nat : Align8(x) \in Nat /\ Align8(x) % 8 = 0 /\ Align8(x) >= x
    /\ \A x, y \in Nat : x % 8 = 0 => Align8(x + y) = x + Align8(y)
BY DEF Align8

LEMMA BytesAreWords ==
    ASSUME net \in Nets
    PROVE  /\ \A k \in 1 .. NLayers - 1 : /\ RowBytes[k] \in Nat /\ RowBytes[k] % 8 = 0
                                          /\ DataBytes[k] \in Nat /\ DataBytes[k] % 8 = 0
                                          /\ PrivateBytes[k] \in Nat /\ PrivateBytes[k] % 8 = 0
           /\ \A l \in 1 .. NLayers : ActivationBytes[l] \in Nat /\ ActivationBytes[l] % 8 = 0
<1>1. \A x, y, p \in Nat : /\ x * 4 * 8 = (x * 4) * 8 /\ x * 3 * 8 = (x * 3) * 8
                           /\ x * 4 \in Nat /\ x * 3 \in Nat /\ x + y \in Nat
                           /\ (x * 3) * 8 + (y * 3) * 8 + (p * 3) * 8 = (x * 3 + y * 3 + p * 3) * 8
                           /\ x * 3 + y * 3 + p * 3 \in Nat
  OBVIOUS
<1>2. ASSUME NEW k \in 1 .. NLayers - 1
      PROVE  /\ RowBytes[k] \in Nat /\ RowBytes[k] % 8 = 0
             /\ DataBytes[k] \in Nat /\ DataBytes[k] % 8 = 0
             /\ PrivateBytes[k] \in Nat /\ PrivateBytes[k] % 8 = 0
  <2> DEFINE x == NIn(k)
             y == NOut(k)
             p == NIn(k) * NOut(k)
  <2>0. k \in Layers
    BY DEF Layers
  <2>1. x \in Nat /\ y \in Nat /\ p \in Nat
    BY <2>0, NetFacts
  <2>2. /\ RowBytes[k] = x * 4 * 8
        /\ DataBytes[k] = (x + p) * 8
        /\ PrivateBytes[k] = x * 3 * 8 + y * 3 * 8 + p * 3 * 8
    BY <2>0 DEF RowBytes, DataBytes, PrivateBytes, Pointer, Double
  <2> HIDE DEF x, y, p
  <2> QED
    BY <1>1, <2>1, <2>2, WordFacts
<1>3. ASSUME NEW l \in 1 .. NLayers
      PROVE  ActivationBytes[l] \in Nat /\ ActivationBytes[l] % 8 = 0
  <2> DEFINE x == net[l] + 1
  <2>1. x \in Nat
    BY NetFacts
  <2>2. ActivationBytes[l] = x * 3 * 8
    BY DEF ActivationBytes, Double
  <2> HIDE DEF x
  <2>3. ActivationBytes[l] = (x * 3) * 8 /\ x * 3 \in Nat
    BY <2>1, <2>2
  <2> QED
    BY <2>3, WordFacts
<1> QED
  BY <1>2, <1>3

\* What the loops add up to, layer by layer.
LEMMA LayoutSums ==
    ASSUME net \in Nets
    PROVE  /\ \A k \in 0 .. NLayers - 1 : /\ Sum(RowBytes, k) \in Nat /\ Sum(RowBytes, k) % 8 = 0
                                          /\ Sum(DataBytes, k) \in Nat /\ Sum(DataBytes, k) % 8 = 0
                                          /\ Sum(PrivateBytes, k) \in Nat
           /\ \A k, m \in 0 .. NLayers - 1 : k <= m => Sum(DataBytes, k) <= Sum(DataBytes, m)
           /\ Sum(ActivationBytes, NLayers) \in Nat
           /\ Sum(RowBytes, 0) = 0 /\ Sum(DataBytes, 0) = 0 /\ Sum(PrivateBytes, 0) = 0
           /\ \A k \in Layers :
                 /\ Sum(RowBytes, k) = Sum(RowBytes, k - 1) + NIn(k) * 4 * 8
                 /\ Sum(DataBytes, k) = Sum(DataBytes, k - 1) + (NIn(k) + NIn(k) * NOut(k)) * 8
                 /\ Sum(PrivateBytes, k) = Sum(PrivateBytes, k - 1)
                                           + (NIn(k) * 3 * 8 + NOut(k) * 3 * 8 + NIn(k) * NOut(k) * 3 * 8)
<1>1. NLayers \in Nat /\ NLayers - 1 \in Nat /\ NLayers \in 0 .. NLayers
  BY NetFacts
<1>2. /\ \A k \in 0 .. NLayers - 1 : Sum(RowBytes, k) \in Nat /\ Sum(RowBytes, k) % 8 = 0
      /\ \A k \in 0 .. NLayers - 1 : Sum(DataBytes, k) \in Nat /\ Sum(DataBytes, k) % 8 = 0
      /\ \A k, m \in 0 .. NLayers - 1 : k <= m => Sum(DataBytes, k) <= Sum(DataBytes, m)
      /\ \A k \in 0 .. NLayers - 1 : Sum(PrivateBytes, k) \in Nat
      /\ Sum(ActivationBytes, NLayers) \in Nat
  <2>1. /\ \A k \in 1 .. NLayers - 1 : RowBytes[k] \in Nat /\ RowBytes[k] % 8 = 0
        /\ \A k \in 1 .. NLayers - 1 : DataBytes[k] \in Nat /\ DataBytes[k] % 8 = 0
        /\ \A k \in 1 .. NLayers - 1 : PrivateBytes[k] \in Nat /\ PrivateBytes[k] % 8 = 0
        /\ \A k \in 1 .. NLayers : ActivationBytes[k] \in Nat /\ ActivationBytes[k] % 8 = 0
    BY BytesAreWords
  <2>2. \A k \in 0 .. NLayers - 1 : Sum(RowBytes, k) \in Nat /\ Sum(RowBytes, k) % 8 = 0
    BY <1>1, <2>1, SumOfWords
  <2>3. /\ \A k \in 0 .. NLayers - 1 : Sum(DataBytes, k) \in Nat /\ Sum(DataBytes, k) % 8 = 0
        /\ \A k, m \in 0 .. NLayers - 1 : k <= m => Sum(DataBytes, k) <= Sum(DataBytes, m)
    BY <1>1, <2>1, SumOfWords
  <2>4. \A k \in 0 .. NLayers - 1 : Sum(PrivateBytes, k) \in Nat
    BY <1>1, <2>1, SumOfWords
  <2>5. \A k \in 0 .. NLayers : Sum(ActivationBytes, k) \in Nat
    BY <1>1, <2>1, SumOfWords
  <2> QED
    BY <1>1, <2>2, <2>3, <2>4, <2>5
<1>3. ASSUME NEW k \in Layers
      PROVE  /\ Sum(RowBytes, k) = Sum(RowBytes, k - 1) + NIn(k) * 4 * 8
             /\ Sum(DataBytes, k) = Sum(DataBytes, k - 1) + (NIn(k) + NIn(k) * NOut(k)) * 8
             /\ Sum(PrivateBytes, k) = Sum(PrivateBytes, k - 1)
                                       + (NIn(k) * 3 * 8 + NOut(k) * 3 * 8 + NIn(k) * NOut(k) * 3 * 8)
  <2>1. k - 1 \in Nat /\ (k - 1) + 1 = k
    BY <1>1 DEF Layers
  <2>2. /\ Sum(RowBytes, k) = Sum(RowBytes, k - 1) + RowBytes[k]
        /\ Sum(DataBytes, k) = Sum(DataBytes, k - 1) + DataBytes[k]
        /\ Sum(PrivateBytes, k) = Sum(PrivateBytes, k - 1) + PrivateBytes[k]
    BY <2>1, SumFacts
  <2> QED
    BY <2>2 DEF RowBytes, DataBytes, PrivateBytes, Pointer, Double
<1> QED
  BY <1>2, <1>3, SumFacts

LEMMA TopFacts == ASSUME net \in Nets
                  PROVE  Top \in Nat /\ Top % 8 = 0
<1>1. \A n \in Nat : n >= 2 => /\ Align8(152) + n * 4 \in Nat
                               /\ (n - 1) * 8 + n * 3 \in Nat
  BY DEF Align8
<1> DEFINE x == Align8(Align8(StructSize) + NLayers * IntSize)
           y == (NLayers - 1) * 8 + NLayers * 3
<1>2. x \in Nat /\ x % 8 = 0 /\ y \in Nat
  BY <1>1, NetFacts, WordFacts DEF StructSize, IntSize
<1>3. Top = x + y * 8
  BY DEF Top, Pointer
<1> HIDE DEF x, y
<1> QED
  BY <1>2, <1>3, WordFacts

\* The size that is computed beforehand, in whole words.
LEMMA SharedSize ==
    ASSUME net \in Nets
    PROVE  /\ SharedModelSize = Top + Sum(RowBytes, NLayers - 1) + Sum(DataBytes, NLayers - 1)
           /\ SharedModelSize \in Nat /\ SharedModelSize % 8 = 0 /\ SharedModelSize > 0
<1>1. SharedModelSize = Align8(Top) + Sum(RowBytes, NLayers - 1) + Sum(DataBytes, NLayers - 1)
  BY DEF SharedModelSize, Top, RowBytes, DataBytes
<1>2. Align8(Top) = Top /\ Top \in Nat /\ Top % 8 = 0
  BY TopFacts, WordFacts
<1>3. NLayers - 1 \in 0 .. NLayers - 1
  BY NetFacts
<1>4. Top > 0
  <2>1. \A n \in Nat : n >= 2 => /\ Align8(152) + n * 4 \in Nat
                                 /\ ((n - 1) * 8 + n * 3) * 8 > 0
                                 /\ ((n - 1) * 8 + n * 3) * 8 \in Nat
    BY DEF Align8
  <2>2. Align8(Align8(StructSize) + NLayers * IntSize) \in Nat
    BY <2>1, NetFacts, WordFacts DEF StructSize, IntSize
  <2> QED
    BY <2>1, <2>2, NetFacts DEF Top, Pointer
<1> DEFINE x == Sum(RowBytes, NLayers - 1)
           y == Sum(DataBytes, NLayers - 1)
<1>5. x \in Nat /\ x % 8 = 0 /\ y \in Nat /\ y % 8 = 0
  BY <1>3, LayoutSums
<1>6. SharedModelSize = Top + x + y
  BY <1>1, <1>2
<1> HIDE DEF x, y
<1>7. SharedModelSize \in Nat /\ SharedModelSize % 8 = 0 /\ SharedModelSize > 0
  BY <1>2, <1>4, <1>5, <1>6
<1> QED
  BY <1>6, <1>7 DEF x, y

LEMMA RoundUp ==
    ASSUME NEW x \in Nat, x > 0, NEW p \in Nat \ {0}, p % 8 = 0
    PROVE  LET a == ((x + p - 1) \div p) * p IN
           a \in Nat /\ a % 8 = 0 /\ a >= x /\ (x <= p => a = p)
<1> DEFINE q == (x + p - 1) \div p
<1>1. q \in Nat /\ q * p <= x + p - 1 /\ x + p - 1 < q * p + p
  OBVIOUS
<1>2. q * p \in Nat
  BY <1>1
<1>3. (q * p) % 8 = 0
  <2> DEFINE m == p \div 8
  <2>1. m \in Nat /\ p = m * 8
    OBVIOUS
  <2> HIDE DEF m, q
  <2>2. q * p = (q * m) * 8 /\ q * m \in Nat
    BY <1>1, <2>1
  <2> QED
    BY <1>1, <2>2, WordFacts
<1>4. x <= p => q * p = p
  <2> SUFFICES ASSUME x <= p
               PROVE  q = 1
    OBVIOUS
  <2> QED
    OBVIOUS
<1> QED
  BY <1>1, <1>2, <1>3, <1>4

\* A slab takes whole words, holds what is put in it, and is one page-directory
\* entry when that fits one.
LEMMA SlabFacts ==
    ASSUME net \in Nets
    PROVE  /\ AlignedSize \in Nat /\ AlignedSize >= SharedModelSize
           /\ SharedModelSize <= PdeSize => AlignedSize = PdeSize
           /\ \A s \in Nat : /\ Slab(s) \in Nat /\ Slab(s) % 8 = 0
                             /\ Slab(s + 1) = Slab(s) + AlignedSize
           /\ \A s, t \in Nat : s < t => Slab(s + 1) <= Slab(t)
           /\ Slab(0) = 0
<1> DEFINE a == AlignedSize
<1>1. a \in Nat /\ a % 8 = 0 /\ a >= SharedModelSize /\ (SharedModelSize <= PdeSize => a = PdeSize)
  BY SharedSize, RoundUp, LayoutAssumption DEF AlignedSize
<1>2. ASSUME NEW s \in Nat
      PROVE  s * a \in Nat /\ (s * a) % 8 = 0 /\ (s + 1) * a = s * a + a
  <2> DEFINE m == a \div 8
  <2> HIDE DEF a
  <2>1. m \in Nat /\ a = m * 8
    BY <1>1
  <2>2. s * a = (s * m) * 8 /\ s * m \in Nat
    BY <2>1
  <2>3. (s + 1) * a = s * a + a
    BY <1>1
  <2> HIDE DEF m
  <2> QED
    BY <1>1, <2>2, <2>3, WordFacts
<1>3. ASSUME NEW s \in Nat, NEW t \in Nat, s < t
      PROVE  (s + 1) * a <= t * a
  <2> HIDE DEF a
  <2> QED
    BY <1>1, <1>3
<1>4. 0 * a = 0
  <2> HIDE DEF a
  <2> QED
    BY <1>1
<1> QED
  BY <1>1, <1>2, <1>3, <1>4 DEF Slab

-----------------------------------------------------------------------------
(* The walk.                                                               *)

\* The layers of copy s whose data has its place; whether copy s has been drawn.
Filled(s) == IF phase \in {"init", "private", "ready"} \/ s < node THEN NLayers - 1
             ELSE IF s = node /\ phase = "data" THEN layer - 1 ELSE 0
Drawn(s) == phase \in {"private", "ready"} \/ (phase = "init" /\ s < node)

CountersInv ==
    /\ net \in Nets
    /\ phase \in {"header", "rows", "data", "init", "private", "ready"}
    /\ node \in Nodes
    /\ layer \in 1 .. NLayers
    /\ ptr \in Nat

\* The pointer is what the loops so far add up to.
WalkInv ==
    /\ phase = "rows" => ptr = Slab(node) + (Top + Sum(RowBytes, layer - 1))
    /\ phase = "data" => ptr = DataAt(node, layer)
    /\ phase = "private" => ptr = Sum(PrivateBytes, layer - 1)
    /\ phase = "ready" => ptr = Sum(PrivateBytes, NLayers - 1) + Sum(ActivationBytes, NLayers)

\* The pointers that are set lead to the data of their copy and layer.
Biases(s, n) == [k \in 1 .. n |-> DataAt(s, k)]
WeightRows(s, k) == [i \in 0 .. net[k] |-> RowsAt(s, k) + i * NOut(k) * Double]
Weights(s, n) == [k \in 1 .. n |-> WeightRows(s, k)]
PointersInv ==
    /\ b = [s \in Nodes |-> Biases(s, Filled(s))]
    /\ w = [s \in Nodes |-> Weights(s, Filled(s))]

\* Random numbers are in the used weights of the copies that init_nn is done with.
WeightCells(s) ==
    UNION {{RowsAt(s, k) + (i * NOut(k) + j) * Double : i \in 1 .. net[k], j \in 1 .. net[k + 1]}
           : k \in Layers}
DrawnInv == drawn = UNION {WeightCells(s) : s \in {t \in Nodes : Drawn(t)}}

LEMMA GeometryStays ==
    ASSUME UNCHANGED net
    PROVE  /\ NLayers' = NLayers /\ Layers' = Layers
           /\ AlignedSize' = AlignedSize /\ SharedModelSize' = SharedModelSize /\ PrivateSize' = PrivateSize
           /\ Top' = Top /\ RowBytes' = RowBytes /\ DataBytes' = DataBytes
           /\ PrivateBytes' = PrivateBytes /\ ActivationBytes' = ActivationBytes
           /\ \A s : Slab(s)' = Slab(s)
           /\ \A s, k : DataAt(s, k)' = DataAt(s, k) /\ RowsAt(s, k)' = RowsAt(s, k)
           /\ \A s, n : Biases(s, n)' = Biases(s, n) /\ Weights(s, n)' = Weights(s, n)
           /\ \A s : WeightCells(s)' = WeightCells(s)
<1>1. /\ NLayers' = NLayers /\ Layers' = Layers
      /\ \A k : NIn(k)' = NIn(k) /\ NOut(k)' = NOut(k)
  BY DEF NLayers, Layers, NIn, NOut
<1>2. AlignedSize' = AlignedSize /\ SharedModelSize' = SharedModelSize /\ PrivateSize' = PrivateSize
  BY DEF AlignedSize, SharedModelSize, PrivateSize, NLayers, Layers, NIn, NOut
<1>3. /\ Top' = Top /\ RowBytes' = RowBytes /\ DataBytes' = DataBytes
      /\ PrivateBytes' = PrivateBytes /\ ActivationBytes' = ActivationBytes
  BY <1>1 DEF Top, RowBytes, DataBytes, PrivateBytes, ActivationBytes
<1>4. \A s : Slab(s)' = Slab(s)
  BY <1>2 DEF Slab
<1>5. \A s, k : DataAt(s, k)' = DataAt(s, k) /\ RowsAt(s, k)' = RowsAt(s, k)
  BY <1>1, <1>3, <1>4 DEF DataAt, RowsAt
<1>6. \A s, n : Biases(s, n)' = Biases(s, n) /\ Weights(s, n)' = Weights(s, n)
  BY <1>1, <1>5 DEF Biases, Weights, WeightRows
<1>7. \A s : WeightCells(s)' = WeightCells(s)
  BY <1>1, <1>5 DEF WeightCells
<1> QED
  BY <1>1, <1>2, <1>3, <1>4, <1>5, <1>6, <1>7

\* Where the data of a layer is: past its own slab's beginning, on a word, and
\* followed by the next layer's, or by nothing, in the same slab.
LEMMA DataFacts ==
    ASSUME net \in Nets, NEW s \in Nat
    PROVE  /\ \A k \in 1 .. NLayers : /\ DataAt(s, k) \in Nat /\ DataAt(s, k) % 8 = 0
                                      /\ DataAt(s, k) >= Slab(s)
           /\ DataAt(s, 1) = Slab(s) + (Top + Sum(RowBytes, NLayers - 1))
           /\ DataAt(s, NLayers) = Slab(s) + SharedModelSize
           /\ DataAt(s, NLayers) <= Slab(s + 1)
           /\ \A k, m \in 1 .. NLayers : k <= m => DataAt(s, k) <= DataAt(s, m)
           /\ \A k \in Layers : /\ DataAt(s, k + 1) = DataAt(s, k) + (NIn(k) + NIn(k) * NOut(k)) * 8
                                /\ RowsAt(s, k) = DataAt(s, k) + NIn(k) * 8
                                /\ RowsAt(s, k) \in Nat /\ RowsAt(s, k) % 8 = 0
<1> DEFINE B == Top + Sum(RowBytes, NLayers - 1)
           D(k) == Sum(DataBytes, k - 1)
<1>1. NLayers \in Nat /\ NLayers >= 2 /\ Slab(s) \in Nat /\ Slab(s) % 8 = 0
  BY NetFacts, SlabFacts
<1>2. B \in Nat /\ B % 8 = 0
  <2>1. NLayers - 1 \in 0 .. NLayers - 1
    BY <1>1
  <2> DEFINE x == Sum(RowBytes, NLayers - 1)
  <2>2. x \in Nat /\ x % 8 = 0 /\ Top \in Nat /\ Top % 8 = 0
    BY <2>1, TopFacts, LayoutSums
  <2>3. B = Top + x
    OBVIOUS
  <2> HIDE DEF x, B
  <2> QED
    BY <2>2, <2>3, WordFacts
<1>3. \A k \in 1 .. NLayers : D(k) \in Nat /\ D(k) % 8 = 0
  <2> SUFFICES ASSUME NEW k \in 1 .. NLayers
               PROVE  D(k) \in Nat /\ D(k) % 8 = 0
    OBVIOUS
  <2>1. k - 1 \in 0 .. NLayers - 1
    BY <1>1
  <2> QED
    BY <2>1, LayoutSums
<1>4. \A k, m \in 1 .. NLayers : k <= m => D(k) <= D(m)
  <2> SUFFICES ASSUME NEW k \in 1 .. NLayers, NEW m \in 1 .. NLayers, k <= m
               PROVE  D(k) <= D(m)
    OBVIOUS
  <2>1. k - 1 \in 0 .. NLayers - 1 /\ m - 1 \in 0 .. NLayers - 1 /\ k - 1 <= m - 1
    BY <1>1
  <2> QED
    BY <2>1, LayoutSums
<1>5. D(1) = 0 /\ D(NLayers) = Sum(DataBytes, NLayers - 1)
  BY LayoutSums
<1>6. \A k \in Layers : D(k + 1) = D(k) + (NIn(k) + NIn(k) * NOut(k)) * 8
  <2> SUFFICES ASSUME NEW k \in Layers
               PROVE  D(k + 1) = D(k) + (NIn(k) + NIn(k) * NOut(k)) * 8
    OBVIOUS
  <2>1. (k + 1) - 1 = k
    BY <1>1 DEF Layers
  <2> QED
    BY <2>1, LayoutSums
<1>7. \A k : DataAt(s, k) = Slab(s) + (B + D(k))
  BY DEF DataAt
<1>8. B + D(NLayers) = SharedModelSize
  BY <1>5, SharedSize
<1> HIDE DEF B, D
<1>9. \A k \in 1 .. NLayers : /\ DataAt(s, k) \in Nat /\ DataAt(s, k) % 8 = 0
                              /\ DataAt(s, k) >= Slab(s)
  BY <1>1, <1>2, <1>3, <1>7
<1>10. DataAt(s, 1) = Slab(s) + B
  BY <1>1, <1>2, <1>5, <1>7
<1>11. DataAt(s, NLayers) = Slab(s) + SharedModelSize
  BY <1>7, <1>8
<1>12. DataAt(s, NLayers) <= Slab(s + 1)
  <2>1. /\ Slab(s + 1) = Slab(s) + AlignedSize /\ AlignedSize \in Nat
        /\ AlignedSize >= SharedModelSize /\ SharedModelSize \in Nat
    BY SlabFacts, SharedSize
  <2> QED
    BY <1>1, <1>11, <2>1
<1>13. \A k, m \in 1 .. NLayers : k <= m => DataAt(s, k) <= DataAt(s, m)
  BY <1>1, <1>2, <1>3, <1>4, <1>7
<1>14. ASSUME NEW k \in Layers
       PROVE  /\ DataAt(s, k + 1) = DataAt(s, k) + (NIn(k) + NIn(k) * NOut(k)) * 8
              /\ RowsAt(s, k) = DataAt(s, k) + NIn(k) * 8
              /\ RowsAt(s, k) \in Nat /\ RowsAt(s, k) % 8 = 0
  <2>1. /\ k \in 1 .. NLayers /\ NIn(k) \in Nat /\ NOut(k) \in Nat /\ NIn(k) * NOut(k) \in Nat
    BY NetFacts
  <2>2. RowsAt(s, k) = DataAt(s, k) + NIn(k) * 8
    BY DEF RowsAt, Double
  <2>3. RowsAt(s, k) \in Nat /\ RowsAt(s, k) % 8 = 0
    <3> DEFINE d == DataAt(s, k)
               x == NIn(k) * 8
    <3>1. d \in Nat /\ d % 8 = 0 /\ x \in Nat /\ x % 8 = 0
      BY <1>9, <2>1, WordFacts
    <3> HIDE DEF d, x
    <3>2. d + x \in Nat /\ (d + x) % 8 = 0
      BY <3>1, WordFacts
    <3> QED
      BY <2>2, <3>2 DEF d, x
  <2>4. D(k + 1) = D(k) + (NIn(k) + NIn(k) * NOut(k)) * 8
    BY <1>6
  <2>5. (NIn(k) + NIn(k) * NOut(k)) * 8 \in Nat
    <3> DEFINE p == NIn(k) * NOut(k)
    <3> HIDE DEF p
    <3> QED
      BY <2>1 DEF p
  <2>6. D(k) \in Nat
    BY <1>3, <2>1
  <2>7. DataAt(s, k + 1) = DataAt(s, k) + (NIn(k) + NIn(k) * NOut(k)) * 8
    BY <1>1, <1>2, <1>7, <2>4, <2>5, <2>6
  <2> QED
    BY <2>2, <2>3, <2>7
<1> QED
  BY <1>9, <1>10, <1>11, <1>12, <1>13, <1>14 DEF B

\* The cells of a layer, among the layer's bytes: the bias's cells lie before row 1
\* of the weights, though past the bias's own numbers perhaps, and the used
\* weights from there on.
LEMMA CellPlaces ==
    ASSUME net \in Nets, NEW s \in Nat, NEW k \in Layers
    PROVE  LET row1 == RowsAt(s, k) + NOut(k) * 8 IN
           /\ \A i \in 1 .. net[k] : DataAt(s, k) + i * 8 \in DataAt(s, k) .. RowsAt(s, k) - 8
           /\ \A j \in 1 .. net[k + 1] : DataAt(s, k) + j * 8 \in DataAt(s, k) .. row1 - 8
           /\ \A i \in 1 .. net[k], j \in 1 .. net[k + 1] :
                 RowsAt(s, k) + (i * NOut(k) + j) * 8 \in row1 .. DataAt(s, k + 1) - 8
           /\ RowsAt(s, k) <= row1 /\ row1 <= DataAt(s, k + 1)
           /\ row1 \in Nat /\ DataAt(s, k) \in Nat /\ RowsAt(s, k) \in Nat /\ DataAt(s, k + 1) \in Nat
<1> DEFINE d == DataAt(s, k)
           r == RowsAt(s, k)
           e == DataAt(s, k + 1)
           x == NIn(k)
           y == NOut(k)
<1>1. /\ x \in Nat /\ y \in Nat /\ x * y \in Nat /\ x = net[k] + 1 /\ y = net[k + 1] + 1
      /\ net[k] \in Nat /\ net[k + 1] \in Nat /\ net[k] >= 1 /\ net[k + 1] >= 1
      /\ k \in 1 .. NLayers /\ k + 1 \in 1 .. NLayers
  BY NetFacts
<1>2. d \in Nat /\ r \in Nat /\ e \in Nat /\ r = d + x * 8 /\ e = d + (x + x * y) * 8
  BY <1>1, DataFacts
<1> HIDE DEF d, r, e, x, y
<1>3. x * y >= y
  BY <1>1
<1>4. /\ r <= r + y * 8 /\ r + y * 8 <= e /\ r + y * 8 \in Nat
  BY <1>1, <1>2, <1>3
<1>5. ASSUME NEW i \in 1 .. net[k]
      PROVE  d + i * 8 \in d .. r - 8
  BY <1>1, <1>2
<1>6. ASSUME NEW j \in 1 .. net[k + 1]
      PROVE  d + j * 8 \in d .. r + y * 8 - 8
  BY <1>1, <1>2
<1>7. ASSUME NEW i \in 1 .. net[k], NEW j \in 1 .. net[k + 1]
      PROVE  r + (i * y + j) * 8 \in r + y * 8 .. e - 8
  <2>1. /\ i * y \in Nat /\ i * y >= y /\ (i + 1) * y = i * y + y
        /\ (i + 1) * y <= x * y
    BY <1>1
  <2> DEFINE p == i * y
             q == x * y
  <2>2. p \in Nat /\ p >= y /\ p + y <= q /\ q \in Nat
    BY <1>1, <2>1
  <2>3. e = d + (x + q) * 8
    BY <1>2
  <2> HIDE DEF p, q
  <2>4. r + (p + j) * 8 \in r + y * 8 .. e - 8
    BY <1>1, <1>2, <2>2, <2>3
  <2> QED
    BY <2>4 DEF p
<1> QED
  BY <1>1, <1>2, <1>4, <1>5, <1>6, <1>7 DEF d, r, e, y

\* The bytes of a layer belong to no other layer of any copy.
LEMMA BlocksApart ==
    ASSUME net \in Nets, NEW s \in Nat, NEW t \in Nat, NEW k \in Layers, NEW m \in Layers, NEW a \in Nat,
           DataAt(s, k) <= a, a < DataAt(s, k + 1), DataAt(t, m) <= a, a < DataAt(t, m + 1)
    PROVE  s = t /\ k = m
<1>1. /\ k \in 1 .. NLayers /\ k + 1 \in 1 .. NLayers
      /\ m \in 1 .. NLayers /\ m + 1 \in 1 .. NLayers
      /\ NLayers \in 1 .. NLayers
  BY NetFacts
<1>2. \A u \in Nat : \A l \in 1 .. NLayers : /\ Slab(u) <= DataAt(u, l) /\ DataAt(u, l) <= Slab(u + 1)
                                             /\ Slab(u) \in Nat /\ Slab(u + 1) \in Nat
                                             /\ DataAt(u, l) \in Nat
  <2> SUFFICES ASSUME NEW u \in Nat, NEW l \in 1 .. NLayers
               PROVE  /\ Slab(u) <= DataAt(u, l) /\ DataAt(u, l) <= Slab(u + 1)
                      /\ Slab(u) \in Nat /\ Slab(u + 1) \in Nat
                      /\ DataAt(u, l) \in Nat
    OBVIOUS
  <2>1. Slab(u) \in Nat /\ Slab(u + 1) \in Nat
    <3>1. u + 1 \in Nat
      OBVIOUS
    <3>2. \A v \in Nat : Slab(v) \in Nat
      BY SlabFacts
    <3> QED
      BY <3>1, <3>2
  <2>2. /\ \A n \in 1 .. NLayers : DataAt(u, n) \in Nat /\ DataAt(u, n) >= Slab(u)
        /\ DataAt(u, NLayers) <= Slab(u + 1)
        /\ \A n, p \in 1 .. NLayers : n <= p => DataAt(u, n) <= DataAt(u, p)
    BY DataFacts
  <2>3. l <= NLayers
    OBVIOUS
  <2> QED
    BY <1>1, <2>1, <2>2, <2>3
<1>3. ~(s < t) /\ ~(t < s)
  <2>1. \A u, v \in Nat : u < v => Slab(u + 1) <= Slab(v)
    BY SlabFacts
  <2>2. /\ Slab(s) <= DataAt(s, k) /\ DataAt(s, k + 1) <= Slab(s + 1)
        /\ Slab(t) <= DataAt(t, m) /\ DataAt(t, m + 1) <= Slab(t + 1)
    BY <1>1, <1>2
  <2>3. /\ Slab(s) \in Nat /\ Slab(t) \in Nat /\ Slab(s + 1) \in Nat /\ Slab(t + 1) \in Nat
        /\ DataAt(s, k) \in Nat /\ DataAt(s, k + 1) \in Nat
        /\ DataAt(t, m) \in Nat /\ DataAt(t, m + 1) \in Nat
    BY <1>1, <1>2
  <2>4. s < t => Slab(s + 1) <= Slab(t)
    BY <2>1
  <2>5. t < s => Slab(t + 1) <= Slab(s)
    BY <2>1
  <2> QED
    BY <2>2, <2>3, <2>4, <2>5
<1>4. s = t
  BY <1>3
<1>5. \A l, n \in 1 .. NLayers : l <= n => DataAt(s, l) <= DataAt(s, n)
  BY DataFacts
<1>6. ~(k < m)
  <2> SUFFICES ASSUME k < m
               PROVE  FALSE
    OBVIOUS
  <2>1. k + 1 <= m
    BY <1>1
  <2> QED
    BY <1>1, <1>2, <1>4, <1>5, <2>1
<1>7. ~(m < k)
  <2> SUFFICES ASSUME m < k
               PROVE  FALSE
    OBVIOUS
  <2>1. m + 1 <= k
    BY <1>1
  <2> QED
    BY <1>1, <1>2, <1>4, <1>5, <2>1
<1> QED
  BY <1>1, <1>4, <1>6, <1>7

LEMMA WeightCellsFacts ==
    ASSUME net \in Nets, NEW s \in Nat, NEW a \in WeightCells(s)
    PROVE  \E k \in Layers : /\ a \in Nat /\ a >= RowsAt(s, k) + NOut(k) * 8
                             /\ a >= DataAt(s, k) /\ a + 8 <= DataAt(s, k + 1)
<1>0. PICK k \in Layers :
         a \in {RowsAt(s, k) + (i * NOut(k) + j) * Double : i \in 1 .. net[k], j \in 1 .. net[k + 1]}
  BY DEF WeightCells
<1>1. PICK i \in 1 .. net[k], j \in 1 .. net[k + 1] :
         a = RowsAt(s, k) + (i * NOut(k) + j) * 8
  BY <1>0 DEF Double
<1> DEFINE row1 == RowsAt(s, k) + NOut(k) * 8
<1>2. /\ a \in row1 .. DataAt(s, k + 1) - 8 /\ RowsAt(s, k) <= row1 /\ row1 \in Nat
      /\ DataAt(s, k) \in Nat /\ RowsAt(s, k) \in Nat /\ DataAt(s, k + 1) \in Nat
  BY <1>1, CellPlaces
<1>3. DataAt(s, k) <= RowsAt(s, k)
  <2>1. RowsAt(s, k) = DataAt(s, k) + NIn(k) * 8 /\ NIn(k) \in Nat
    BY DataFacts, NetFacts
  <2> QED
    BY <1>2, <2>1
<1> HIDE DEF row1
<1>4. /\ a \in Nat /\ a >= row1 /\ a >= DataAt(s, k) /\ a + 8 <= DataAt(s, k + 1)
  BY <1>2, <1>3
<1> QED
  BY <1>4 DEF row1

-----------------------------------------------------------------------------
(* The layout's invariant.                                                 *)

LayoutInv == CountersInv /\ WalkInv /\ PointersInv /\ DrawnInv

LEMMA LayoutInit == Init => LayoutInv
<1> SUFFICES ASSUME Init
             PROVE  LayoutInv
  OBVIOUS
<1>1. CountersInv
  <2>1. net \in Nets
    BY DEF Init
  <2> QED
    BY <2>1, NetFacts, LayoutAssumption DEF Init, CountersInv, Nodes
<1>2. WalkInv
  BY DEF Init, WalkInv
<1>3. PointersInv
  <2>1. \A s \in Nodes : Filled(s) = 0
    BY LayoutAssumption DEF Init, Filled, Nodes
  <2>2. \A s \in Nodes : Biases(s, 0) = <<>> /\ Weights(s, 0) = <<>>
    BY DEF Biases, Weights
  <2> QED
    BY <2>1, <2>2 DEF Init, PointersInv
<1>4. DrawnInv
  BY DEF Init, DrawnInv, Drawn
<1> QED
  BY <1>1, <1>2, <1>3, <1>4 DEF LayoutInv

\* The parts of the invariant that a step leaves alone.
LEMMA PointersStay ==
    ASSUME PointersInv, UNCHANGED <<net, b, w>>, \A s \in Nodes : Filled(s)' = Filled(s)
    PROVE  PointersInv'
<1>1. \A s, n : Biases(s, n)' = Biases(s, n) /\ Weights(s, n)' = Weights(s, n)
  BY GeometryStays
<1>2. b' = [s \in Nodes |-> Biases(s, Filled(s))] /\ w' = [s \in Nodes |-> Weights(s, Filled(s))]
  BY DEF PointersInv
<1>3. \A s \in Nodes : Biases(s, Filled(s))' = Biases(s, Filled(s)) /\ Weights(s, Filled(s))' = Weights(s, Filled(s))
  BY <1>1 DEF Biases, Weights, WeightRows
<1>4. Nodes' = Nodes
  BY DEF Nodes
<1> QED
  BY <1>2, <1>3, <1>4 DEF PointersInv

LEMMA DrawnStay ==
    ASSUME DrawnInv, UNCHANGED <<net, drawn>>, \A s \in Nodes : Drawn(s)' = Drawn(s)
    PROVE  DrawnInv'
<1>1. \A s : WeightCells(s)' = WeightCells(s)
  BY GeometryStays
<1>2. {t \in Nodes : Drawn(t)}' = {t \in Nodes : Drawn(t)}
  BY DEF Nodes
<1> QED
  BY <1>1, <1>2 DEF DrawnInv

\* What the walk aligns step by step is aligned when it starts on a word.
LEMMA AlignedOnce ==
    ASSUME NEW z \in Nat, NEW n \in Nat, NEW p \in Nat, z % 8 = 0, p % 8 = 0
    PROVE  Align8(Align8(Align8(z + 152) + n) + p) = z + (Align8(Align8(152) + n) + p)
<1>1. Align8(152) \in Nat /\ Align8(z + 152) = z + Align8(152)
  BY WordFacts
<1> DEFINE x == Align8(152) + n
<1>2. x \in Nat /\ Align8(z + 152) + n = z + x
  BY <1>1
<1> HIDE DEF x
<1>3. Align8(x) \in Nat /\ Align8(x) % 8 = 0 /\ Align8(z + x) = z + Align8(x)
  BY <1>2, WordFacts
<1> DEFINE y == Align8(x)
<1>4. y \in Nat /\ y % 8 = 0
  BY <1>3
<1> HIDE DEF y
<1>5. z + (y + p) \in Nat /\ (z + (y + p)) % 8 = 0 /\ (z + y) + p = z + (y + p)
  BY <1>4
<1>6. Align8(z + (y + p)) = z + (y + p)
  BY <1>5, WordFacts
<1>7. Align8(Align8(z + x) + p) = z + (y + p)
  BY <1>3, <1>5, <1>6 DEF y
<1> QED
  BY <1>2, <1>7 DEF x, y

LEMMA HeaderStep == ASSUME LayoutInv, Header
                    PROVE  LayoutInv'
<1> USE DEF Header
<1>0. CountersInv /\ WalkInv /\ PointersInv /\ DrawnInv /\ net \in Nets /\ UNCHANGED net
  BY DEF LayoutInv, CountersInv
<1>1. node \in Nat /\ Slab(node) \in Nat /\ Slab(node) % 8 = 0 /\ Top \in Nat /\ NLayers \in Nat
  BY <1>0, SlabFacts, TopFacts, NetFacts, LayoutAssumption DEF CountersInv, Nodes
<1>2. ptr' = Slab(node) + Top
  <2> DEFINE z == Slab(node)
             n == NLayers * 4
             p == ((NLayers - 1) * 8 + NLayers * 3) * 8
  <2>1. ptr' = Align8(Align8(Align8(z + 152) + n) + p)
    BY DEF StructSize, IntSize, Pointer
  <2>2. Top = Align8(Align8(152) + n) + p
    BY DEF Top, StructSize, IntSize, Pointer
  <2>3. n \in Nat /\ p \in Nat /\ z \in Nat /\ z % 8 = 0 /\ p % 8 = 0
    <3>1. (NLayers - 1) * 8 + NLayers * 3 \in Nat
      BY <1>0, NetFacts
    <3> QED
      BY <1>1, <3>1, WordFacts
  <2> HIDE DEF z, n, p
  <2>4. Align8(Align8(Align8(z + 152) + n) + p) = z + (Align8(Align8(152) + n) + p)
    BY <2>3, AlignedOnce
  <2> QED
    BY <2>1, <2>2, <2>4 DEF z
<1>3. NLayers' = NLayers /\ Top' = Top /\ RowBytes' = RowBytes /\ Slab(node)' = Slab(node)
  BY <1>0, GeometryStays DEF Slab
<1>4. CountersInv'
  BY <1>0, <1>1, <1>2, <1>3, NetFacts DEF CountersInv, Nodes
<1>5. WalkInv'
  <2>1. Sum(RowBytes, 0) = 0 /\ (layer - 1)' = 0
    BY SumFacts
  <2>2. ptr' = Slab(node) + (Top + Sum(RowBytes, 0))
    BY <1>1, <1>2, <2>1
  <2> QED
    BY <1>3, <2>1, <2>2 DEF WalkInv
<1>6. PointersInv'
  <2>1. \A s \in Nodes : Filled(s)' = Filled(s)
    BY <1>3 DEF Filled
  <2> QED
    BY <1>0, <2>1, PointersStay
<1>7. DrawnInv'
  <2>1. \A s \in Nodes : Drawn(s)' = Drawn(s)
    BY DEF Drawn
  <2> QED
    BY <1>0, <2>1, DrawnStay
<1> QED
  BY <1>4, <1>5, <1>6, <1>7 DEF LayoutInv

LEMMA RowsStep == ASSUME LayoutInv, Rows
                  PROVE  LayoutInv'
<1> USE DEF Rows
<1>0. /\ CountersInv /\ WalkInv /\ PointersInv /\ DrawnInv
      /\ net \in Nets /\ phase = "rows" /\ UNCHANGED <<net, node, b, w, drawn>>
  BY DEF LayoutInv, CountersInv
<1>1. /\ node \in Nat /\ Slab(node) \in Nat /\ Slab(node) % 8 = 0 /\ Top \in Nat
      /\ NLayers \in Nat /\ NLayers >= 2 /\ layer \in 1 .. NLayers /\ ptr \in Nat
  <2>1. node \in Nat /\ layer \in 1 .. NLayers /\ ptr \in Nat
    BY <1>0, LayoutAssumption DEF CountersInv, Nodes
  <2> QED
    BY <1>0, <2>1, SlabFacts, TopFacts, NetFacts
<1>2. /\ NLayers' = NLayers /\ Top' = Top /\ RowBytes' = RowBytes /\ Slab(node)' = Slab(node)
      /\ \A k : DataAt(node, k)' = DataAt(node, k)
  BY <1>0, GeometryStays DEF Slab, DataAt
<1>3. ptr = Slab(node) + (Top + Sum(RowBytes, layer - 1))
  BY <1>0 DEF WalkInv
<1>4. CASE layer < NLayers
  <2>1. layer \in Layers /\ NIn(layer) \in Nat
    <3>1. layer \in Layers
      BY <1>1, <1>4 DEF Layers
    <3> QED
      BY <1>0, <3>1, NetFacts
  <2>2. /\ Sum(RowBytes, layer) = Sum(RowBytes, layer - 1) + NIn(layer) * 4 * 8
        /\ Sum(RowBytes, layer - 1) \in Nat
    <3>1. layer - 1 \in 0 .. NLayers - 1
      BY <1>1
    <3> QED
      BY <1>0, <2>1, <3>1, LayoutSums
  <2>3. ptr' = ptr + 4 * NIn(layer) * 8 /\ layer' = layer + 1 /\ phase' = phase
    BY <1>0, <1>4 DEF Pointer
  <2>4. ptr' \in Nat /\ ptr' = Slab(node) + (Top + Sum(RowBytes, layer))
    BY <1>1, <1>3, <2>1, <2>2, <2>3
  <2>5. CountersInv'
    BY <1>0, <1>1, <1>2, <1>4, <2>3, <2>4 DEF CountersInv, Nodes
  <2>6. WalkInv'
    <3>1. (layer - 1)' = layer
      BY <1>1, <2>3
    <3> QED
      BY <1>0, <1>2, <2>3, <2>4, <3>1 DEF WalkInv
  <2>7. PointersInv'
    <3>1. \A s \in Nodes : Filled(s)' = Filled(s)
      BY <1>0, <1>2, <2>3 DEF Filled
    <3> QED
      BY <1>0, <3>1, PointersStay
  <2>8. DrawnInv'
    <3>1. \A s \in Nodes : Drawn(s)' = Drawn(s)
      BY <1>0, <2>3 DEF Drawn
    <3> QED
      BY <1>0, <3>1, DrawnStay
  <2> QED
    BY <2>5, <2>6, <2>7, <2>8 DEF LayoutInv
<1>5. CASE layer = NLayers
  <2>1. ptr' = Align8(ptr) /\ layer' = 1 /\ phase' = "data"
    BY <1>0, <1>1, <1>5
  <2>2. ptr = DataAt(node, 1)
    BY <1>0, <1>1, <1>3, <1>5, DataFacts
  <2>3. ptr' = DataAt(node, 1) /\ ptr' \in Nat
    <3>1. 1 \in 1 .. NLayers
      BY <1>1
    <3>2. DataAt(node, 1) % 8 = 0
      BY <1>0, <1>1, <3>1, DataFacts
    <3> QED
      BY <1>1, <2>1, <2>2, <3>2, WordFacts
  <2>4. CountersInv'
    BY <1>0, <1>1, <1>2, <2>1, <2>3 DEF CountersInv, Nodes
  <2>5. WalkInv'
    BY <1>0, <1>2, <2>1, <2>3 DEF WalkInv
  <2>6. PointersInv'
    <3>1. \A s \in Nodes : Filled(s)' = Filled(s)
      BY <1>0, <1>2, <2>1 DEF Filled
    <3> QED
      BY <1>0, <3>1, PointersStay
  <2>7. DrawnInv'
    <3>1. \A s \in Nodes : Drawn(s)' = Drawn(s)
      BY <1>0, <2>1 DEF Drawn
    <3> QED
      BY <1>0, <3>1, DrawnStay
  <2> QED
    BY <2>4, <2>5, <2>6, <2>7 DEF LayoutInv
<1> QED
  BY <1>1, <1>4, <1>5

LEMMA PointersGrow ==
    ASSUME NEW s, NEW n \in Nat
    PROVE  /\ Append(Biases(s, n), DataAt(s, n + 1)) = Biases(s, n + 1)
           /\ Append(Weights(s, n), WeightRows(s, n + 1)) = Weights(s, n + 1)
<1>1. \A k \in 1 .. n + 1 : k \in 1 .. n \/ k = n + 1
  OBVIOUS
<1> QED
  BY <1>1 DEF Biases, Weights

LEMMA DataStep == ASSUME LayoutInv, Data
                  PROVE  LayoutInv'
<1>0. /\ CountersInv /\ WalkInv /\ PointersInv /\ DrawnInv
      /\ net \in Nets /\ phase = "data" /\ layer < NLayers
      /\ layer' = layer + 1 /\ UNCHANGED <<net, phase, node, drawn>>
  BY DEF LayoutInv, CountersInv, Data
<1>1. /\ node \in Nat /\ node \in Nodes /\ layer \in 1 .. NLayers /\ ptr = DataAt(node, layer)
      /\ NLayers \in Nat
  BY <1>0, LayoutAssumption, NetFacts DEF CountersInv, WalkInv, Nodes
<1>2. /\ layer \in Layers /\ layer + 1 \in 1 .. NLayers
      /\ NIn(layer) \in Nat /\ NIn(layer) * NOut(layer) \in Nat
  <2>1. layer \in Layers
    BY <1>0, <1>1 DEF Layers
  <2> QED
    BY <1>0, <2>1, NetFacts
<1> DEFINE rows == Align8(ptr + NIn(layer) * Double)
<1>3. rows = RowsAt(node, layer)
  <2>1. /\ RowsAt(node, layer) = DataAt(node, layer) + NIn(layer) * 8
        /\ RowsAt(node, layer) \in Nat /\ RowsAt(node, layer) % 8 = 0
    BY <1>0, <1>1, <1>2, DataFacts
  <2>2. Align8(RowsAt(node, layer)) = RowsAt(node, layer)
    BY <2>1, WordFacts
  <2> QED
    BY <1>1, <2>1, <2>2 DEF Double
<1>4. ptr' = DataAt(node, layer + 1) /\ ptr' \in Nat
  <2>1. ptr' = Align8(rows + NIn(layer) * NOut(layer) * 8)
    BY DEF Data, Double
  <2>2. /\ DataAt(node, layer + 1) = DataAt(node, layer) + (NIn(layer) + NIn(layer) * NOut(layer)) * 8
        /\ RowsAt(node, layer) = DataAt(node, layer) + NIn(layer) * 8
        /\ DataAt(node, layer) \in Nat
        /\ DataAt(node, layer + 1) \in Nat /\ DataAt(node, layer + 1) % 8 = 0
    BY <1>0, <1>1, <1>2, DataFacts
  <2>3. rows + NIn(layer) * NOut(layer) * 8 = DataAt(node, layer + 1)
    <3> DEFINE p == NIn(layer) * NOut(layer)
               x == NIn(layer)
    <3>1. /\ DataAt(node, layer + 1) = DataAt(node, layer) + (x + p) * 8
          /\ rows = DataAt(node, layer) + x * 8
          /\ x \in Nat /\ p \in Nat
      BY <1>2, <1>3, <2>2
    <3> HIDE DEF x, p, rows
    <3>2. rows + p * 8 = DataAt(node, layer + 1)
      BY <2>2, <3>1
    <3> QED
      BY <3>2 DEF p
  <2>4. Align8(DataAt(node, layer + 1)) = DataAt(node, layer + 1)
    BY <2>2, WordFacts
  <2> QED
    BY <2>1, <2>2, <2>3, <2>4
<1>5. /\ NLayers' = NLayers
      /\ \A s, k : DataAt(s, k)' = DataAt(s, k)
      /\ \A s, n : Biases(s, n)' = Biases(s, n) /\ Weights(s, n)' = Weights(s, n)
  BY <1>0, GeometryStays
<1>6. CountersInv'
  BY <1>0, <1>1, <1>2, <1>4, <1>5 DEF CountersInv, Nodes
<1>7. WalkInv'
  <2>1. DataAt(node, layer)' = DataAt(node, layer + 1)
    BY <1>0 DEF DataAt, Slab, Top, RowBytes, DataBytes, AlignedSize, SharedModelSize,
                NLayers, Layers, NIn, NOut
  <2> QED
    BY <1>0, <1>4, <2>1 DEF WalkInv
<1>8. PointersInv'
  <2> DEFINE f(s) == IF s = node THEN layer ELSE Filled(s)
  <2>1. Filled(node) = layer - 1 /\ \A s \in Nodes : Filled(s)' = f(s)
    BY <1>0, <1>1, <1>5 DEF Filled, Nodes
  <2>2. /\ b' = [b EXCEPT ![node] = Append(@, DataAt(node, layer))]
        /\ w' = [w EXCEPT ![node] = Append(@, WeightRows(node, layer))]
    BY <1>1, <1>3 DEF Data, WeightRows
  <2>3. /\ Append(Biases(node, layer - 1), DataAt(node, layer)) = Biases(node, layer)
        /\ Append(Weights(node, layer - 1), WeightRows(node, layer)) = Weights(node, layer)
    <3>1. layer - 1 \in Nat /\ (layer - 1) + 1 = layer
      BY <1>1
    <3> QED
      BY <3>1, PointersGrow
  <2>4. /\ b' = [s \in Nodes |-> Biases(s, f(s))]
        /\ w' = [s \in Nodes |-> Weights(s, f(s))]
    <3>1. /\ b[node] = Biases(node, layer - 1) /\ DOMAIN b = Nodes
          /\ w[node] = Weights(node, layer - 1) /\ DOMAIN w = Nodes
          /\ \A s \in Nodes : b[s] = Biases(s, Filled(s)) /\ w[s] = Weights(s, Filled(s))
      BY <1>0, <1>1, <2>1 DEF PointersInv
    <3>2. \A s \in Nodes : s # node => f(s) = Filled(s)
      OBVIOUS
    <3>3. f(node) = layer
      OBVIOUS
    <3> HIDE DEF f
    <3> QED
      BY <1>1, <2>2, <2>3, <3>1, <3>2, <3>3
  <2>6. \A s \in Nodes : /\ Biases(s, Filled(s))' = Biases(s, f(s))
                         /\ Weights(s, Filled(s))' = Weights(s, f(s))
    <3> HIDE DEF f
    <3>1. \A s, n : /\ [k \in 1 .. n |-> DataAt(s, k)'] = Biases(s, n)
                    /\ [k \in 1 .. n |-> WeightRows(s, k)'] = Weights(s, n)
      BY <1>5 DEF Biases, Weights
    <3> QED
      BY <2>1, <3>1 DEF Biases, Weights
  <2>7. Nodes' = Nodes
    BY DEF Nodes
  <2> HIDE DEF f
  <2> QED
    BY <2>4, <2>6, <2>7 DEF PointersInv
<1>9. DrawnInv'
  <2>1. \A s \in Nodes : Drawn(s)' = Drawn(s)
    BY <1>0 DEF Drawn
  <2> QED
    BY <1>0, <2>1, DrawnStay
<1> QED
  BY <1>6, <1>7, <1>8, <1>9 DEF LayoutInv

LEMMA CheckStep == ASSUME LayoutInv, Check
                   PROVE  LayoutInv'
<1>0. /\ CountersInv /\ WalkInv /\ PointersInv /\ DrawnInv
      /\ net \in Nets /\ phase = "data" /\ layer = NLayers
      /\ UNCHANGED <<net, layer, b, w, drawn>>
  BY DEF LayoutInv, CountersInv, Check
<1>1. /\ node \in Nat /\ node \in Nodes /\ layer \in 1 .. NLayers /\ ptr \in Nat
      /\ ptr = DataAt(node, layer)
  BY <1>0, LayoutAssumption DEF CountersInv, WalkInv, Nodes
<1>2. ~(ptr - Slab(node) > AlignedSize)
  <2>1. ptr = Slab(node) + SharedModelSize
    BY <1>0, <1>1, DataFacts
  <2>2. /\ Slab(node) \in Nat /\ SharedModelSize \in Nat
        /\ AlignedSize \in Nat /\ AlignedSize >= SharedModelSize
    BY <1>0, <1>1, SlabFacts, SharedSize
  <2> QED
    BY <2>1, <2>2
<1>3. \/ phase' = "header" /\ node' = node + 1 /\ node + 1 \in Nodes /\ UNCHANGED ptr
      \/ phase' = "init" /\ node' = 0 /\ node = NumNodes - 1 /\ UNCHANGED ptr
  BY <1>1, <1>2, LayoutAssumption DEF Check, Nodes
<1>4. NLayers' = NLayers
  BY <1>0, GeometryStays
<1>5. CountersInv'
  BY <1>0, <1>1, <1>3, <1>4, LayoutAssumption DEF CountersInv, Nodes
<1>6. WalkInv'
  BY <1>3 DEF WalkInv
<1>7. PointersInv'
  <2>1. \A s \in Nodes : Filled(s)' = Filled(s)
    <3> SUFFICES ASSUME NEW s \in Nodes
                 PROVE  Filled(s)' = Filled(s)
      OBVIOUS
    <3>1. s \in Nat /\ s < NumNodes
      BY LayoutAssumption DEF Nodes
    <3> QED
      BY <1>0, <1>1, <1>3, <1>4, <3>1, LayoutAssumption DEF Filled
  <2> QED
    BY <1>0, <2>1, PointersStay
<1>8. DrawnInv'
  <2>1. \A s \in Nodes : Drawn(s)' = Drawn(s)
    BY <1>0, <1>3, LayoutAssumption DEF Drawn, Nodes
  <2> QED
    BY <1>0, <2>1, DrawnStay
<1> QED
  BY <1>5, <1>6, <1>7, <1>8 DEF LayoutInv

\* The workspace is walked last; nothing of the copies changes any more.
LEMMA PrivateStep == ASSUME LayoutInv, PrivateLayer \/ PrivateActivations
                     PROVE  LayoutInv'
<1>0. /\ CountersInv /\ WalkInv /\ PointersInv /\ DrawnInv
      /\ net \in Nets /\ phase = "private" /\ phase' \in {"private", "ready"}
      /\ UNCHANGED <<net, node, b, w, drawn>>
  BY DEF LayoutInv, CountersInv, PrivateLayer, PrivateActivations
<1>1. /\ layer \in 1 .. NLayers /\ ptr \in Nat /\ ptr = Sum(PrivateBytes, layer - 1)
      /\ NLayers \in Nat /\ NLayers >= 2
  BY <1>0, NetFacts DEF CountersInv, WalkInv
<1>2. /\ NLayers' = NLayers /\ PrivateBytes' = PrivateBytes /\ ActivationBytes' = ActivationBytes
  BY <1>0, GeometryStays
<1>3. PointersInv'
  <2>1. \A s \in Nodes : Filled(s)' = Filled(s)
    BY <1>0, <1>2 DEF Filled
  <2> QED
    BY <1>0, <2>1, PointersStay
<1>4. DrawnInv'
  <2>1. \A s \in Nodes : Drawn(s)' = Drawn(s)
    BY <1>0 DEF Drawn
  <2> QED
    BY <1>0, <2>1, DrawnStay
<1>5. CASE PrivateLayer
  <2>0. layer < NLayers /\ layer' = layer + 1 /\ phase' = "private"
    BY <1>0, <1>5 DEF PrivateLayer
  <2>1. layer \in Layers
    BY <1>1, <2>0 DEF Layers
  <2>2. ptr' = Sum(PrivateBytes, layer) /\ ptr' \in Nat
    <3> DEFINE x == NIn(layer)
               y == NOut(layer)
               p == NIn(layer) * NOut(layer)
    <3>1. x \in Nat /\ y \in Nat /\ p \in Nat
      BY <1>0, <2>1, NetFacts
    <3>2. Sum(PrivateBytes, layer) = Sum(PrivateBytes, layer - 1) + (x * 3 * 8 + y * 3 * 8 + p * 3 * 8)
      BY <1>0, <2>1, LayoutSums
    <3>3. ptr' = ptr + 3 * x * 8 + 3 * x * y * 8 + 3 * y * 8
      BY <1>5 DEF PrivateLayer, Pointer, Double
    <3>4. 3 * x * y = 3 * p
      BY <3>1
    <3> HIDE DEF x, y, p
    <3>5. ptr' = ptr + 3 * x * 8 + 3 * p * 8 + 3 * y * 8
      BY <3>3, <3>4
    <3> QED
      BY <1>1, <3>1, <3>2, <3>5
  <2>3. CountersInv'
    BY <1>0, <1>1, <1>2, <2>0, <2>2 DEF CountersInv, Nodes
  <2>4. WalkInv'
    <3>1. (layer - 1)' = layer
      BY <1>1, <2>0
    <3> QED
      BY <1>2, <2>0, <2>2, <3>1 DEF WalkInv
  <2> QED
    BY <1>3, <1>4, <2>3, <2>4 DEF LayoutInv
<1>6. CASE PrivateActivations
  <2>0. layer = NLayers /\ layer' = layer /\ phase' = "ready"
    BY <1>0, <1>6 DEF PrivateActivations
  <2>1. [l \in 1 .. NLayers |-> 3 * (net[l] + 1) * Double] = ActivationBytes
    <3>1. \A l \in 1 .. NLayers : 3 * (net[l] + 1) * Double = (net[l] + 1) * 3 * Double
      BY <1>0, NetFacts DEF Double
    <3> QED
      BY <3>1 DEF ActivationBytes
  <2>2. ptr' = Sum(PrivateBytes, NLayers - 1) + Sum(ActivationBytes, NLayers)
    BY <1>1, <1>6, <2>0, <2>1 DEF PrivateActivations
  <2>3. ptr' \in Nat
    <3>1. Sum(ActivationBytes, NLayers) \in Nat /\ Sum(PrivateBytes, NLayers - 1) \in Nat
      BY <1>0, <1>1, <2>0, LayoutSums
    <3> QED
      BY <2>2, <3>1
  <2>4. CountersInv'
    BY <1>0, <1>1, <1>2, <2>0, <2>3 DEF CountersInv, Nodes
  <2>5. WalkInv'
    BY <1>2, <2>0, <2>2 DEF WalkInv
  <2> QED
    BY <1>3, <1>4, <2>4, <2>5 DEF LayoutInv
<1> QED
  BY <1>5, <1>6

\* What init_nn draws is what it finds behind the pointers, and it zeroes nothing
\* that has been drawn.
LEMMA InitDraws ==
    ASSUME LayoutInv, InitNN
    PROVE  drawn' = drawn \cup WeightCells(node)
<1>0. /\ CountersInv /\ PointersInv /\ DrawnInv /\ net \in Nets /\ phase = "init"
      /\ node \in Nodes /\ node \in Nat
  BY LayoutAssumption DEF LayoutInv, CountersInv, InitNN, Nodes
<1>1. NLayers \in Nat /\ NLayers >= 2
  BY <1>0, NetFacts
<1>2. Filled(node) = NLayers - 1
  BY <1>0 DEF Filled
<1> DEFINE zeroed == UNION {{b[node][k] + i * Double : i \in 1 .. net[k]} : k \in Layers}
           random == UNION {{w[node][k][i] + j * Double : j \in 1 .. net[k + 1], i \in 1 .. net[k]}
                            : k \in Layers}
<1>3. drawn' = (drawn \ zeroed) \cup random
  BY DEF InitNN
<1>4. ASSUME NEW k \in Layers
      PROVE  /\ b[node][k] = DataAt(node, k)
             /\ \A i \in 1 .. net[k], j \in 1 .. net[k + 1] :
                    w[node][k][i] + j * Double = RowsAt(node, k) + (i * NOut(k) + j) * Double
  <2>1. k \in 1 .. NLayers - 1
    BY DEF Layers
  <2>2. b[node][k] = DataAt(node, k) /\ w[node][k] = WeightRows(node, k)
    BY <1>0, <1>2, <2>1 DEF PointersInv, Biases, Weights
  <2>3. ASSUME NEW i \in 1 .. net[k], NEW j \in 1 .. net[k + 1]
        PROVE  w[node][k][i] + j * Double = RowsAt(node, k) + (i * NOut(k) + j) * Double
    <3> DEFINE p == i * NOut(k)
               r == RowsAt(node, k)
    <3>1. net[k] \in Nat /\ net[k + 1] \in Nat /\ NOut(k) \in Nat /\ i \in Nat /\ j \in Nat
      BY <1>0, NetFacts
    <3>2. i \in 0 .. net[k] /\ p \in Nat
      BY <3>1
    <3>3. r \in Nat
      BY <1>0, DataFacts
    <3>4. w[node][k][i] = r + p * 8
      BY <2>2, <3>2 DEF WeightRows, Double
    <3> HIDE DEF p, r
    <3>5. w[node][k][i] + j * 8 = r + (p + j) * 8
      BY <3>1, <3>2, <3>3, <3>4
    <3> QED
      BY <3>5 DEF p, r, Double
  <2> QED
    BY <2>2, <2>3
<1>5. random = WeightCells(node)
  <2>1. \A k \in Layers :
           {w[node][k][i] + j * Double : j \in 1 .. net[k + 1], i \in 1 .. net[k]}
         = {RowsAt(node, k) + (i * NOut(k) + j) * Double : i \in 1 .. net[k], j \in 1 .. net[k + 1]}
    BY <1>4
  <2> QED
    BY <2>1 DEF WeightCells
<1>6. ASSUME NEW a \in drawn, a \in zeroed
      PROVE  FALSE
  <2>1. PICK s \in Nodes : s < node /\ a \in WeightCells(s)
    BY <1>0, <1>6 DEF DrawnInv, Drawn
  <2>2. s \in Nat
    BY LayoutAssumption DEF Nodes
  <2>3. PICK k \in Layers : a \in Nat /\ a + 8 <= DataAt(s, k + 1)
    BY <1>0, <2>1, <2>2, WeightCellsFacts
  <2>4. PICK m \in Layers : \E i \in 1 .. net[m] : a = b[node][m] + i * Double
    BY <1>6
  <2>5. PICK i \in 1 .. net[m] : a = DataAt(node, m) + i * 8
    BY <1>4, <2>4 DEF Double
  <2>6. a >= Slab(node) /\ Slab(node) \in Nat
    <3>1. m \in 1 .. NLayers /\ net[m] \in Nat
      BY <1>0, NetFacts
    <3>2. DataAt(node, m) \in Nat /\ DataAt(node, m) >= Slab(node) /\ Slab(node) \in Nat
      BY <1>0, <3>1, DataFacts, SlabFacts
    <3> QED
      BY <2>5, <3>1, <3>2
  <2>7. /\ DataAt(s, k + 1) <= DataAt(s, NLayers) /\ DataAt(s, NLayers) <= Slab(s + 1)
        /\ DataAt(s, k + 1) \in Nat /\ DataAt(s, NLayers) \in Nat
    <3>1. k + 1 \in 1 .. NLayers /\ NLayers \in 1 .. NLayers /\ k + 1 <= NLayers
      BY <1>0, <1>1, NetFacts
    <3> QED
      BY <1>0, <2>2, <3>1, DataFacts
  <2>8. Slab(s + 1) <= Slab(node) /\ Slab(s + 1) \in Nat
    <3>1. s + 1 \in Nat
      BY <2>2
    <3>2. \A u \in Nat : Slab(u) \in Nat
      BY <1>0, SlabFacts
    <3>3. Slab(s + 1) <= Slab(node)
      BY <1>0, <2>1, <2>2, SlabFacts
    <3> QED
      BY <3>1, <3>2, <3>3
  <2> QED
    BY <2>3, <2>6, <2>7, <2>8
<1> HIDE DEF zeroed, random
<1> QED
  BY <1>3, <1>5, <1>6

LEMMA InitNNStep == ASSUME LayoutInv, InitNN
                    PROVE  LayoutInv'
<1>0. /\ CountersInv /\ PointersInv /\ DrawnInv
      /\ net \in Nets /\ phase = "init" /\ UNCHANGED <<net, b, w>>
      /\ node \in Nodes /\ layer \in 1 .. NLayers /\ ptr \in Nat
  BY DEF LayoutInv, CountersInv, InitNN
<1>1. NLayers \in Nat /\ NLayers >= 2 /\ 1 \in 1 .. NLayers
  BY <1>0, NetFacts
<1>2. \/ node' = node + 1 /\ node + 1 \in Nodes /\ phase' = "init" /\ UNCHANGED <<layer, ptr>>
      \/ node' = 0 /\ node = NumNodes - 1 /\ phase' = "private" /\ layer' = 1 /\ ptr' = 0
  BY <1>0, LayoutAssumption DEF InitNN, Nodes
<1>3. NLayers' = NLayers /\ PrivateBytes' = PrivateBytes /\ \A s : WeightCells(s)' = WeightCells(s)
  BY <1>0, GeometryStays
<1>4. CountersInv'
  BY <1>0, <1>1, <1>2, <1>3, LayoutAssumption DEF CountersInv, Nodes
<1>5. WalkInv'
  <2>1. CASE phase' = "init"
    BY <2>1 DEF WalkInv
  <2>2. CASE phase' = "private" /\ layer' = 1 /\ ptr' = 0
    <3>1. Sum(PrivateBytes, 0) = 0 /\ (layer - 1)' = 0
      BY <2>2, SumFacts
    <3> QED
      BY <1>3, <2>2, <3>1 DEF WalkInv
  <2> QED
    BY <1>2, <2>1, <2>2
<1>6. PointersInv'
  <2>1. \A s \in Nodes : Filled(s)' = Filled(s)
    BY <1>0, <1>2, <1>3 DEF Filled
  <2> QED
    BY <1>0, <2>1, PointersStay
<1>7. DrawnInv'
  <2>1. drawn' = drawn \cup WeightCells(node)
    BY InitDraws
  <2>2. {t \in Nodes : Drawn(t)}' = {t \in Nodes : Drawn(t)} \cup {node}
    BY <1>0, <1>2, LayoutAssumption DEF Drawn, Nodes
  <2>3. UNION {WeightCells(s) : s \in {t \in Nodes : Drawn(t)} \cup {node}}
          = (UNION {WeightCells(s) : s \in {t \in Nodes : Drawn(t)}}) \cup WeightCells(node)
    OBVIOUS
  <2>4. drawn' = UNION {WeightCells(s) : s \in {t \in Nodes : Drawn(t)}'}
    BY <1>0, <2>1, <2>2, <2>3 DEF DrawnInv
  <2> QED
    BY <1>3, <2>4 DEF DrawnInv
<1> QED
  BY <1>4, <1>5, <1>6, <1>7 DEF LayoutInv

LEMMA LayoutStep == ASSUME LayoutInv, [Next]_vars
                    PROVE  LayoutInv'
<1>1. CASE UNCHANGED vars
  <2>1. UNCHANGED <<net, b, w>> /\ UNCHANGED <<net, drawn>> /\ UNCHANGED <<phase, node, layer, ptr>>
    BY <1>1 DEF vars
  <2>2. NLayers' = NLayers
    BY <2>1, GeometryStays
  <2>3. CountersInv'
    BY <2>1, <2>2 DEF LayoutInv, CountersInv, Nodes
  <2>4. WalkInv'
    BY <2>1 DEF LayoutInv, WalkInv, DataAt, Slab, Top, RowBytes, DataBytes, PrivateBytes,
                ActivationBytes, AlignedSize, SharedModelSize, NLayers, Layers, NIn, NOut
  <2>5. PointersInv'
    <3>1. \A s \in Nodes : Filled(s)' = Filled(s)
      BY <2>1, <2>2 DEF Filled
    <3> QED
      BY <2>1, <3>1, PointersStay DEF LayoutInv
  <2>6. DrawnInv'
    <3>1. \A s \in Nodes : Drawn(s)' = Drawn(s)
      BY <2>1 DEF Drawn
    <3> QED
      BY <2>1, <3>1, DrawnStay DEF LayoutInv
  <2> QED
    BY <2>3, <2>4, <2>5, <2>6 DEF LayoutInv
<1> QED
  BY <1>1, HeaderStep, RowsStep, DataStep, CheckStep, InitNNStep, PrivateStep DEF Next

LEMMA LayoutInvariant == Spec => []LayoutInv
BY LayoutInit, LayoutStep, PTL DEF Spec

-----------------------------------------------------------------------------
(* What the layout guarantees.                                             *)

\* The counters, the addresses and the size of what is drawn; the sanity check
\* never ends the program.
LEMMA LayoutTyped == LayoutInv => LayoutTypeOK
<1> SUFFICES ASSUME LayoutInv
             PROVE  LayoutTypeOK
  OBVIOUS
<1> DEFINE Bytes == 0 .. NumNodes * AlignedSize - 1
<1>0. CountersInv /\ PointersInv /\ DrawnInv /\ net \in Nets
  BY DEF LayoutInv, CountersInv
<1>1. NLayers \in Nat /\ NLayers >= 2 /\ NLayers \in 1 .. NLayers
  BY <1>0, NetFacts
<1>2. ASSUME NEW s \in Nodes, NEW k \in Layers
      PROVE  /\ DataAt(s, k) \in Nat /\ DataAt(s, k + 1) \in Nat /\ DataAt(s, k) + 8 <= DataAt(s, k + 1)
             /\ DataAt(s, k + 1) <= NumNodes * AlignedSize /\ NumNodes * AlignedSize \in Nat
  <2>1. s \in Nat /\ s + 1 \in Nat /\ s + 1 <= NumNodes /\ NumNodes \in Nat
    BY LayoutAssumption DEF Nodes
  <2>2. /\ k \in 1 .. NLayers /\ k + 1 \in 1 .. NLayers /\ k + 1 <= NLayers
        /\ NIn(k) \in Nat /\ NIn(k) >= 1 /\ NIn(k) * NOut(k) \in Nat
    BY <1>0, <1>1, NetFacts
  <2>3. /\ \A l \in 1 .. NLayers : DataAt(s, l) \in Nat
        /\ DataAt(s, k + 1) <= DataAt(s, NLayers) /\ DataAt(s, NLayers) <= Slab(s + 1)
        /\ DataAt(s, k + 1) = DataAt(s, k) + (NIn(k) + NIn(k) * NOut(k)) * 8
    BY <1>0, <1>1, <2>1, <2>2, DataFacts
  <2>4. Slab(s + 1) <= Slab(NumNodes) /\ Slab(s + 1) \in Nat /\ Slab(NumNodes) \in Nat
    <3>1. \A u \in Nat : Slab(u) \in Nat
      BY <1>0, SlabFacts
    <3>2. s + 1 = NumNodes \/ s + 1 < NumNodes
      BY <2>1
    <3>3. s < NumNodes
      BY <2>1
    <3>4. Slab(s + 1) <= Slab(NumNodes)
      BY <1>0, <2>1, <3>3, SlabFacts
    <3> QED
      BY <2>1, <3>1, <3>4
  <2>5. DataAt(s, k) + 8 <= DataAt(s, k + 1)
    <3> DEFINE x == NIn(k)
               p == NIn(k) * NOut(k)
    <3>1. x \in Nat /\ x >= 1 /\ p \in Nat /\ DataAt(s, k + 1) = DataAt(s, k) + (x + p) * 8
      BY <2>2, <2>3
    <3>2. DataAt(s, k) \in Nat
      BY <2>2, <2>3
    <3> HIDE DEF x, p
    <3> QED
      BY <3>1, <3>2
  <2>6. DataAt(s, k + 1) <= Slab(NumNodes)
    BY <1>1, <2>2, <2>3, <2>4
  <2> QED
    BY <2>2, <2>3, <2>4, <2>5, <2>6 DEF Slab
<1>3. ASSUME NEW s \in Nodes
      PROVE  b[s] \in Seq(Bytes) /\ Len(b[s]) < NLayers /\ Len(w[s]) = Len(b[s])
  <2>1. b[s] = Biases(s, Filled(s)) /\ w[s] = Weights(s, Filled(s))
    BY <1>0 DEF PointersInv
  <2>2. Filled(s) \in 0 .. NLayers - 1
    BY <1>0, <1>1 DEF Filled, CountersInv
  <2>3. \A k \in 1 .. Filled(s) : DataAt(s, k) \in Bytes
    <3> SUFFICES ASSUME NEW k \in 1 .. Filled(s)
                 PROVE  DataAt(s, k) \in Bytes
      OBVIOUS
    <3>1. k \in Layers
      BY <1>1, <2>2 DEF Layers
    <3> DEFINE top == NumNodes * AlignedSize
    <3>2. /\ DataAt(s, k) \in Nat /\ DataAt(s, k + 1) \in Nat /\ DataAt(s, k) + 8 <= DataAt(s, k + 1)
          /\ DataAt(s, k + 1) <= top /\ top \in Nat
      BY <1>2, <3>1
    <3>3. Bytes = 0 .. top - 1
      OBVIOUS
    <3> HIDE DEF top, Bytes
    <3> QED
      BY <3>2, <3>3
  <2> HIDE DEF Bytes
  <2>4. Biases(s, Filled(s)) \in Seq(Bytes) /\ Len(Biases(s, Filled(s))) = Filled(s)
    BY <1>1, <2>2, <2>3 DEF Biases
  <2>5. Len(Weights(s, Filled(s))) = Filled(s)
    BY <1>1, <2>2 DEF Weights
  <2> QED
    BY <1>1, <2>1, <2>2, <2>4, <2>5
<1>4. ASSUME NEW a \in drawn
      PROVE  a \in Bytes
  <2>1. PICK s \in Nodes : a \in WeightCells(s)
    BY <1>0 DEF DrawnInv
  <2>2. s \in Nat
    BY LayoutAssumption DEF Nodes
  <2>3. PICK k \in Layers : a \in Nat /\ a + 8 <= DataAt(s, k + 1)
    BY <1>0, <2>1, <2>2, WeightCellsFacts
  <2> DEFINE top == NumNodes * AlignedSize
  <2>4. DataAt(s, k + 1) \in Nat /\ DataAt(s, k + 1) <= top /\ top \in Nat
    BY <1>2
  <2>5. Bytes = 0 .. top - 1
    OBVIOUS
  <2> HIDE DEF top, Bytes
  <2> QED
    BY <2>3, <2>4, <2>5
<1> HIDE DEF Bytes
<1> QED
  BY <1>0, <1>3, <1>4 DEF LayoutTypeOK, CountersInv, Bytes

THEOREM LayoutTypeCorrect == Spec => []LayoutTypeOK
BY LayoutInvariant, LayoutTyped, PTL

\* The walks end where the size computed beforehand says: to the byte in a slab, and
\* in the workspace with room for the numbers of targets.
THEOREM WalksEndInPlace == Spec => []SizesAreExact
<1>1. LayoutInv => SizesAreExact
  <2> SUFFICES ASSUME LayoutInv
               PROVE  SizesAreExact
    OBVIOUS
  <2>0. CountersInv /\ WalkInv /\ net \in Nets /\ node \in Nat
    BY LayoutAssumption DEF LayoutInv, CountersInv, Nodes
  <2>1. ASSUME phase = "data", layer = NLayers
        PROVE  ptr = Slab(node) + SharedModelSize
    BY <2>0, <2>1, DataFacts DEF WalkInv
  <2>2. ASSUME phase = "ready"
        PROVE  ptr + (net[NLayers] + 1) * Double <= PrivateSize
    <3> DEFINE x == Sum(PrivateBytes, NLayers - 1)
               y == Sum(ActivationBytes, NLayers)
               z == (net[NLayers] + 1) * 8
               u == (NLayers - 1) * 3 * 8
               v == NLayers * 3 * 8
    <3>1. ptr = x + y
      BY <2>0, <2>2 DEF WalkInv
    <3>2. PrivateSize = u + v + x + y + z
      BY DEF PrivateSize, PrivateBytes, ActivationBytes, Pointer, Double
    <3>3. x \in Nat /\ y \in Nat /\ u \in Nat /\ v \in Nat /\ z \in Nat
      <4>1. NLayers \in Nat /\ NLayers >= 2 /\ NLayers \in 1 .. NLayers /\ NLayers - 1 \in 0 .. NLayers - 1
        BY <2>0, NetFacts
      <4>2. net[NLayers] \in Nat
        BY <2>0, <4>1, NetFacts
      <4> QED
        BY <2>0, <4>1, <4>2, LayoutSums
    <3> HIDE DEF x, y, z, u, v
    <3>4. ptr + z <= PrivateSize
      BY <3>1, <3>2, <3>3
    <3> QED
      BY <3>4 DEF z, Double
  <2> QED
    BY <2>1, <2>2 DEF SizesAreExact
<1> QED
  BY <1>1, LayoutInvariant, PTL

\* Where the used cells are, once every pointer is set.
LEMMA CellAddress ==
    ASSUME LayoutInv, phase \in {"init", "private", "ready"}, NEW s \in Nodes, NEW c \in UsedCells(s)
    PROVE  \E k \in Layers :
              \/ \E j \in 1 .. net[k + 1] :
                    c = <<s, "b", k, 0, j>> /\ Address(c) = DataAt(s, k) + j * 8
              \/ \E i \in 1 .. net[k], j \in 1 .. net[k + 1] :
                    c = <<s, "w", k, i, j>> /\ Address(c) = RowsAt(s, k) + (i * NOut(k) + j) * 8
<1>0. /\ CountersInv /\ PointersInv /\ net \in Nets /\ s \in Nat
      /\ Filled(s) = NLayers - 1
  BY LayoutAssumption DEF LayoutInv, CountersInv, Nodes, Filled
<1>1. PICK k \in Layers : c \in {<<s, "b", k, 0, j>> : j \in 1 .. net[k + 1]}
                              \cup {<<s, "w", k, i, j>> : i \in 1 .. net[k], j \in 1 .. net[k + 1]}
  BY DEF UsedCells
<1>2. b[s][k] = DataAt(s, k) /\ w[s][k] = WeightRows(s, k)
  <2>1. k \in 1 .. NLayers - 1
    BY DEF Layers
  <2> QED
    BY <1>0, <2>1 DEF PointersInv, Biases, Weights
<1>3. ASSUME NEW j \in 1 .. net[k + 1], c = <<s, "b", k, 0, j>>
      PROVE  Address(c) = DataAt(s, k) + j * 8
  BY <1>2, <1>3 DEF Address, Double
<1>4. ASSUME NEW i \in 1 .. net[k], NEW j \in 1 .. net[k + 1], c = <<s, "w", k, i, j>>
      PROVE  Address(c) = RowsAt(s, k) + (i * NOut(k) + j) * 8
  <2>1. Address(c) = w[s][k][i] + j * 8
    BY <1>4 DEF Address, Double
  <2> DEFINE p == i * NOut(k)
             r == RowsAt(s, k)
  <2>2. net[k] \in Nat /\ net[k + 1] \in Nat /\ NOut(k) \in Nat /\ i \in Nat /\ j \in Nat
    BY <1>0, NetFacts
  <2>3. i \in 0 .. net[k] /\ p \in Nat
    BY <2>2
  <2>4. r \in Nat
    BY <1>0, DataFacts
  <2>5. w[s][k][i] = r + p * 8
    BY <1>2, <2>3 DEF WeightRows, Double
  <2> HIDE DEF p, r
  <2>6. Address(c) = r + (p + j) * 8
    BY <2>1, <2>2, <2>3, <2>4, <2>5
  <2> QED
    BY <2>6 DEF p, r
<1> QED
  BY <1>1, <1>3, <1>4

LEMMA DivideByRow ==
    ASSUME NEW y \in Nat, NEW i \in Nat, NEW j \in 1 .. y - 1, NEW g \in Nat, NEW h \in 1 .. y - 1,
           i * y + j = g * y + h
    PROVE  i = g /\ j = h
<1>1. ~(i < g)
  <2> SUFFICES ASSUME i < g
               PROVE  FALSE
    OBVIOUS
  <2>1. (i + 1) * y <= g * y /\ (i + 1) * y = i * y + y
    OBVIOUS
  <2> QED
    BY <2>1
<1>2. ~(g < i)
  <2> SUFFICES ASSUME g < i
               PROVE  FALSE
    OBVIOUS
  <2>1. (g + 1) * y <= i * y /\ (g + 1) * y = g * y + y
    OBVIOUS
  <2> QED
    BY <2>1
<1>3. i = g
  BY <1>1, <1>2
<1> QED
  BY <1>3

LEMMA CellBlock ==
    ASSUME LayoutInv, phase \in {"init", "private", "ready"}, NEW s \in Nodes, NEW c \in UsedCells(s)
    PROVE  \E k \in Layers :
              /\ Address(c) \in Nat /\ Address(c) >= DataAt(s, k) /\ Address(c) + 8 <= DataAt(s, k + 1)
              /\ DataAt(s, k) \in Nat /\ DataAt(s, k + 1) \in Nat
              /\ RowsAt(s, k) + NOut(k) * 8 \in Nat
              /\ \/ /\ Address(c) < RowsAt(s, k) + NOut(k) * 8
                    /\ \E j \in 1 .. net[k + 1] :
                          c = <<s, "b", k, 0, j>> /\ Address(c) = DataAt(s, k) + j * 8
                 \/ /\ Address(c) >= RowsAt(s, k) + NOut(k) * 8
                    /\ \E i \in 1 .. net[k], j \in 1 .. net[k + 1] :
                          c = <<s, "w", k, i, j>> /\ Address(c) = RowsAt(s, k) + (i * NOut(k) + j) * 8
<1>0. net \in Nets /\ s \in Nat
  BY LayoutAssumption DEF LayoutInv, CountersInv, Nodes
<1>1. PICK k \in Layers :
         \/ \E j \in 1 .. net[k + 1] :
               c = <<s, "b", k, 0, j>> /\ Address(c) = DataAt(s, k) + j * 8
         \/ \E i \in 1 .. net[k], j \in 1 .. net[k + 1] :
               c = <<s, "w", k, i, j>> /\ Address(c) = RowsAt(s, k) + (i * NOut(k) + j) * 8
  BY CellAddress
<1> DEFINE d == DataAt(s, k)
           e == DataAt(s, k + 1)
           row1 == RowsAt(s, k) + NOut(k) * 8
           a == Address(c)
<1>2. /\ d \in Nat /\ e \in Nat /\ row1 \in Nat /\ d <= row1 /\ row1 <= e
      /\ \A j \in 1 .. net[k + 1] : d + j * 8 \in d .. row1 - 8
      /\ \A i \in 1 .. net[k], j \in 1 .. net[k + 1] :
            RowsAt(s, k) + (i * NOut(k) + j) * 8 \in row1 .. e - 8
  <2>1. d <= RowsAt(s, k)
    <3>1. RowsAt(s, k) = DataAt(s, k) + NIn(k) * 8 /\ NIn(k) \in Nat /\ k \in 1 .. NLayers
      BY <1>0, DataFacts, NetFacts
    <3>2. DataAt(s, k) \in Nat
      BY <1>0, <3>1, DataFacts
    <3> QED
      BY <3>1, <3>2
  <2>2. /\ d \in Nat /\ e \in Nat /\ row1 \in Nat /\ RowsAt(s, k) \in Nat
        /\ RowsAt(s, k) <= row1 /\ row1 <= e
        /\ \A j \in 1 .. net[k + 1] : d + j * 8 \in d .. row1 - 8
        /\ \A i \in 1 .. net[k], j \in 1 .. net[k + 1] :
              RowsAt(s, k) + (i * NOut(k) + j) * 8 \in row1 .. e - 8
    BY <1>0, CellPlaces
  <2> HIDE DEF d, e, row1
  <2> QED
    BY <2>1, <2>2
<1>3. CASE \E j \in 1 .. net[k + 1] : c = <<s, "b", k, 0, j>> /\ a = d + j * 8
  <2>1. PICK j \in 1 .. net[k + 1] : c = <<s, "b", k, 0, j>> /\ a = d + j * 8
    BY <1>3
  <2>2. a \in d .. row1 - 8
    BY <1>2, <2>1
  <2> HIDE DEF d, e, row1, a
  <2>3. a \in Nat /\ a >= d /\ a + 8 <= e /\ a < row1
    BY <1>2, <2>2
  <2> QED
    BY <1>2, <2>1, <2>3 DEF d, e, row1, a
<1>4. CASE \E i \in 1 .. net[k], j \in 1 .. net[k + 1] :
              c = <<s, "w", k, i, j>> /\ a = RowsAt(s, k) + (i * NOut(k) + j) * 8
  <2>1. a \in row1 .. e - 8
    BY <1>2, <1>4
  <2> HIDE DEF d, e, row1
  <2>2. a \in Nat /\ a >= d /\ a + 8 <= e /\ a >= row1
    BY <1>2, <2>1
  <2> QED
    BY <1>2, <1>4, <2>2 DEF d, e, row1
<1> QED
  BY <1>1, <1>3, <1>4

\* No two cells have the same address.
LEMMA CellsApart ==
    ASSUME LayoutInv, phase \in {"init", "private", "ready"}, NEW s \in Nodes, NEW t \in Nodes,
           NEW c \in UsedCells(s), NEW d \in UsedCells(t), Address(c) = Address(d)
    PROVE  c = d
<1>0. net \in Nets /\ s \in Nat /\ t \in Nat
  BY LayoutAssumption DEF LayoutInv, CountersInv, Nodes
<1> DEFINE Bias(u, k, x) == /\ Address(x) < RowsAt(u, k) + NOut(k) * 8
                            /\ \E j \in 1 .. net[k + 1] :
                                  x = <<u, "b", k, 0, j>> /\ Address(x) = DataAt(u, k) + j * 8
           Weight(u, k, x) == /\ Address(x) >= RowsAt(u, k) + NOut(k) * 8
                              /\ \E i \in 1 .. net[k], j \in 1 .. net[k + 1] :
                                    /\ x = <<u, "w", k, i, j>>
                                    /\ Address(x) = RowsAt(u, k) + (i * NOut(k) + j) * 8
           Block(u, k, x) == /\ Address(x) \in Nat
                             /\ Address(x) >= DataAt(u, k) /\ Address(x) + 8 <= DataAt(u, k + 1)
                             /\ DataAt(u, k) \in Nat /\ DataAt(u, k + 1) \in Nat
                             /\ RowsAt(u, k) + NOut(k) * 8 \in Nat
<1>1. PICK k \in Layers : Block(s, k, c) /\ (Bias(s, k, c) \/ Weight(s, k, c))
  BY CellBlock
<1>2. PICK m \in Layers : Block(t, m, d) /\ (Bias(t, m, d) \/ Weight(t, m, d))
  BY CellBlock
<1>3. s = t /\ k = m
  <2> DEFINE a == Address(c)
  <2>1. /\ a \in Nat /\ DataAt(s, k) <= a /\ a < DataAt(s, k + 1)
        /\ DataAt(t, m) <= a /\ a < DataAt(t, m + 1)
    BY <1>1, <1>2
  <2> HIDE DEF a
  <2> QED
    BY <1>0, <2>1, BlocksApart
<1>4. ~(Bias(s, k, c) /\ Weight(t, m, d)) /\ ~(Weight(s, k, c) /\ Bias(t, m, d))
  BY <1>1, <1>3
<1>5. CASE Bias(s, k, c) /\ Bias(t, m, d)
  <2>1. PICK j \in 1 .. net[k + 1] : c = <<s, "b", k, 0, j>> /\ Address(c) = DataAt(s, k) + j * 8
    BY <1>5
  <2>2. PICK h \in 1 .. net[k + 1] : d = <<s, "b", k, 0, h>> /\ Address(d) = DataAt(s, k) + h * 8
    BY <1>3, <1>5
  <2>3. net[k + 1] \in Nat /\ j \in Nat /\ h \in Nat /\ DataAt(s, k) \in Nat
    BY <1>0, <1>1, NetFacts
  <2>4. j = h
    <3> DEFINE x == DataAt(s, k)
    <3>1. x + j * 8 = x + h * 8 /\ x \in Nat
      BY <2>1, <2>2, <2>3
    <3> HIDE DEF x
    <3> QED
      BY <2>3, <3>1
  <2> QED
    BY <2>1, <2>2, <2>4
<1>6. CASE Weight(s, k, c) /\ Weight(t, m, d)
  <2>1. PICK i \in 1 .. net[k], j \in 1 .. net[k + 1] :
           c = <<s, "w", k, i, j>> /\ Address(c) = RowsAt(s, k) + (i * NOut(k) + j) * 8
    BY <1>6
  <2>2. PICK g \in 1 .. net[k], h \in 1 .. net[k + 1] :
           d = <<s, "w", k, g, h>> /\ Address(d) = RowsAt(s, k) + (g * NOut(k) + h) * 8
    BY <1>3, <1>6
  <2>3. /\ net[k] \in Nat /\ net[k + 1] \in Nat /\ NOut(k) \in Nat /\ NOut(k) = net[k + 1] + 1
        /\ i \in Nat /\ g \in Nat /\ j \in 1 .. NOut(k) - 1 /\ h \in 1 .. NOut(k) - 1
    BY <1>0, NetFacts
  <2>4. RowsAt(s, k) \in Nat
    BY <1>0, DataFacts
  <2>5. i * NOut(k) + j = g * NOut(k) + h
    <3> DEFINE p == i * NOut(k)
               q == g * NOut(k)
               r == RowsAt(s, k)
    <3>1. p \in Nat /\ q \in Nat /\ j \in Nat /\ h \in Nat /\ r \in Nat
      BY <2>3, <2>4
    <3>2. r + (p + j) * 8 = r + (q + h) * 8
      BY <2>1, <2>2
    <3> HIDE DEF p, q, r
    <3>3. p + j = q + h
      BY <3>1, <3>2
    <3> QED
      BY <3>3 DEF p, q
  <2>6. i = g /\ j = h
    BY <2>3, <2>5, DivideByRow
  <2> QED
    BY <2>1, <2>2, <2>6
<1> QED
  BY <1>1, <1>2, <1>4, <1>5, <1>6

LEMMA OnePde ==
    ASSUME NEW p \in Nat \ {0}, NEW s \in Nat, NEW a \in Nat, s * p <= a, a + 8 <= s * p + p
    PROVE  a \div p = s
<1> DEFINE q == a \div p
<1>1. q \in Nat /\ q * p <= a /\ a < q * p + p
  OBVIOUS
<1> HIDE DEF q
<1>2. ~(q < s)
  <2> SUFFICES ASSUME q < s
               PROVE  FALSE
    OBVIOUS
  <2>1. (q + 1) * p <= s * p /\ (q + 1) * p = q * p + p
    BY <1>1
  <2> QED
    BY <1>1, <2>1
<1>3. ~(s < q)
  <2> SUFFICES ASSUME s < q
               PROVE  FALSE
    OBVIOUS
  <2>1. (s + 1) * p <= q * p /\ (s + 1) * p = s * p + p
    BY <1>1
  <2> QED
    BY <1>1, <2>1
<1> QED
  BY <1>1, <1>2, <1>3 DEF q

\* The cells that the training uses share no address and lie in their slab, on any
\* network, although biases are indexed past their end; slab s of a network that fits
\* one page-directory entry is in entry s.
THEOREM CellsAreDisjoint == Spec => []UsedCellsDisjoint
<1>1. LayoutInv => UsedCellsDisjoint
  <2> SUFFICES ASSUME LayoutInv, phase = "init"
               PROVE  LET cells == UNION {UsedCells(s) : s \in Nodes} IN
                      /\ IsInjective([c \in cells |-> Address(c)])
                      /\ \A c \in cells : Address(c) \in Slab(c[1]) .. Slab(c[1] + 1) - Double
                      /\ SharedModelSize <= PdeSize => \A c \in cells : Address(c) \div PdeSize = c[1]
    BY DEF UsedCellsDisjoint
  <2> DEFINE cells == UNION {UsedCells(s) : s \in Nodes}
  <2>0. net \in Nets
    BY DEF LayoutInv, CountersInv
  <2>1. IsInjective([c \in cells |-> Address(c)])
    BY CellsApart DEF IsInjective
  <2>2. ASSUME NEW c \in cells
        PROVE  /\ c[1] \in Nat /\ Address(c) \in Nat
               /\ Slab(c[1]) <= Address(c) /\ Address(c) + 8 <= Slab(c[1] + 1)
               /\ Slab(c[1]) \in Nat /\ Slab(c[1] + 1) \in Nat
    <3>1. PICK s \in Nodes : c \in UsedCells(s)
      OBVIOUS
    <3>2. s \in Nat /\ s + 1 \in Nat
      BY LayoutAssumption DEF Nodes
    <3>3. PICK k \in Layers :
             /\ Address(c) \in Nat /\ Address(c) >= DataAt(s, k) /\ Address(c) + 8 <= DataAt(s, k + 1)
             /\ DataAt(s, k) \in Nat /\ DataAt(s, k + 1) \in Nat
             /\ \/ \E j \in 1 .. net[k + 1] : c = <<s, "b", k, 0, j>>
                \/ \E i \in 1 .. net[k], j \in 1 .. net[k + 1] : c = <<s, "w", k, i, j>>
      BY <3>1, CellBlock
    <3>4. c[1] = s
      BY <3>3
    <3>5. /\ k \in 1 .. NLayers /\ k + 1 \in 1 .. NLayers /\ NLayers \in 1 .. NLayers
          /\ k + 1 <= NLayers
      BY <2>0, NetFacts
    <3>6. /\ Slab(s) <= DataAt(s, k) /\ DataAt(s, k + 1) <= DataAt(s, NLayers)
          /\ DataAt(s, NLayers) <= Slab(s + 1) /\ DataAt(s, NLayers) \in Nat
      BY <2>0, <3>2, <3>5, DataFacts
    <3>7. Slab(s) \in Nat /\ Slab(s + 1) \in Nat
      <4>1. \A u \in Nat : Slab(u) \in Nat
        BY <2>0, SlabFacts
      <4> QED
        BY <3>2, <4>1
    <3> QED
      BY <3>2, <3>3, <3>4, <3>6, <3>7
  <2>3. \A c \in cells : Address(c) \in Slab(c[1]) .. Slab(c[1] + 1) - Double
    BY <2>2 DEF Double
  <2>4. ASSUME SharedModelSize <= PdeSize, NEW c \in cells
        PROVE  Address(c) \div PdeSize = c[1]
    <3>1. AlignedSize = PdeSize /\ PdeSize \in Nat \ {0}
      BY <2>0, <2>4, SlabFacts, LayoutAssumption
    <3>2. Slab(c[1]) = c[1] * PdeSize /\ Slab(c[1] + 1) = c[1] * PdeSize + PdeSize
      BY <2>0, <2>2, <3>1, SlabFacts DEF Slab
    <3>3. /\ c[1] \in Nat /\ Address(c) \in Nat
          /\ c[1] * PdeSize <= Address(c) /\ Address(c) + 8 <= c[1] * PdeSize + PdeSize
      BY <2>2, <3>2
    <3> QED
      BY <3>1, <3>3, OnePde
  <2> QED
    BY <2>1, <2>3, <2>4
<1> QED
  BY <1>1, LayoutInvariant, PTL

\* When the training starts every used weight has been drawn and no used bias has,
\* on any network and for any number of copies.
THEOREM ModelIsDrawn == Spec => []ModelIsInitialised
<1>1. LayoutInv => ModelIsInitialised
  <2> SUFFICES ASSUME LayoutInv, phase \in {"private", "ready"}, NEW s \in Nodes, NEW c \in UsedCells(s)
               PROVE  Address(c) \in drawn <=> c[2] = "w"
    BY DEF ModelIsInitialised
  <2>0. net \in Nets /\ s \in Nat /\ phase \in {"init", "private", "ready"}
    BY LayoutAssumption DEF LayoutInv, CountersInv, Nodes
  <2>1. drawn = UNION {WeightCells(t) : t \in Nodes}
    BY DEF LayoutInv, DrawnInv, Drawn
  <2> DEFINE a == Address(c)
  <2>2. PICK k \in Layers :
           /\ a \in Nat /\ a >= DataAt(s, k) /\ a + 8 <= DataAt(s, k + 1)
           /\ DataAt(s, k) \in Nat /\ DataAt(s, k + 1) \in Nat
           /\ RowsAt(s, k) + NOut(k) * 8 \in Nat
           /\ \/ /\ a < RowsAt(s, k) + NOut(k) * 8
                 /\ \E j \in 1 .. net[k + 1] : c = <<s, "b", k, 0, j>>
              \/ \E i \in 1 .. net[k], j \in 1 .. net[k + 1] :
                    c = <<s, "w", k, i, j>> /\ a = RowsAt(s, k) + (i * NOut(k) + j) * 8
    BY <2>0, CellBlock
  <2>3. CASE \E i \in 1 .. net[k], j \in 1 .. net[k + 1] :
                c = <<s, "w", k, i, j>> /\ a = RowsAt(s, k) + (i * NOut(k) + j) * 8
    <3>1. a \in WeightCells(s)
      BY <2>3 DEF WeightCells, Double
    <3>2. c[2] = "w"
      BY <2>3
    <3> HIDE DEF a
    <3> QED
      BY <2>1, <3>1, <3>2 DEF a
  <2>4. CASE a < RowsAt(s, k) + NOut(k) * 8 /\ \E j \in 1 .. net[k + 1] : c = <<s, "b", k, 0, j>>
    <3>1. c[2] = "b"
      BY <2>4
    <3>2. ASSUME a \in drawn
          PROVE  FALSE
      <4>1. PICK t \in Nodes : a \in WeightCells(t)
        BY <2>1, <3>2
      <4>2. t \in Nat
        BY LayoutAssumption DEF Nodes
      <4>3. PICK m \in Layers : /\ a \in Nat /\ a >= RowsAt(t, m) + NOut(m) * 8
                                /\ a >= DataAt(t, m) /\ a + 8 <= DataAt(t, m + 1)
        BY <2>0, <4>1, <4>2, WeightCellsFacts
      <4>4. DataAt(t, m) \in Nat /\ DataAt(t, m + 1) \in Nat
        <5>1. m \in 1 .. NLayers /\ m + 1 \in 1 .. NLayers
          BY <2>0, NetFacts
        <5> QED
          BY <2>0, <4>2, <5>1, DataFacts
      <4> HIDE DEF a
      <4>5. s = t /\ k = m
        <5>1. /\ DataAt(s, k) <= a /\ a < DataAt(s, k + 1)
              /\ DataAt(t, m) <= a /\ a < DataAt(t, m + 1)
          BY <2>2, <4>3, <4>4
        <5> QED
          BY <2>0, <2>2, <4>2, <5>1, BlocksApart
      <4> QED
        BY <2>2, <2>4, <4>3, <4>5
    <3> QED
      BY <3>1, <3>2
  <2> QED
    BY <2>2, <2>3, <2>4
<1> QED
  BY <1>1, LayoutInvariant, PTL

-----------------------------------------------------------------------------
(* Main, with the layout it starts from.                                   *)

\* The layout stays typed while main runs, the streams hold parts of the report
\* without gaps, and the free loop stays within the copies.
THEOREM DriverTypeCorrect == DriverSpec => []DriverTypeOK
<1>1. DriverInv /\ LayoutTypeOK => DriverTypeOK
  <2> SUFFICES ASSUME DriverInv, LayoutTypeOK
               PROVE  DriverTypeOK
    OBVIOUS
  <2> USE DEF DriverInv
  <2>1. Len(buffer) <= Epochs + 1
    <3>1. CASE state = "running"
      <4>1. buffer = Lines(round + 1) /\ round + 1 \in 0 .. Epochs + 1 /\ round + 1 <= Epochs + 1
        BY <3>1, DriverAssumption DEF CourseInv, StreamInv, CopiesInv
      <4> QED
        BY <4>1, LinesAreLines
    <3>2. CASE state # "running"
      BY <3>2, DriverAssumption DEF StreamInv, CopiesInv
    <3> QED
      BY <3>1, <3>2
  <2>2. \A r \in Ranks : inherited[r] \in {SubSeq(Report, 1, n) : n \in 0 .. Epochs + 1}
    BY PartsOfReport DEF StreamInv, CopiesInv
  <2> QED
    BY <2>1, <2>2 DEF DriverTypeOK, CourseInv, CleanupInv
<1> QED
  BY <1>1, DriverInvariant, DriverKeepsLayout, LayoutTypeCorrect, PTL

\* Main keeps what the layout guarantees.
COROLLARY DriverKeepsCells ==
    DriverSpec => [](SizesAreExact /\ UsedCellsDisjoint /\ ModelIsInitialised)
BY DriverKeepsLayout, WalksEndInPlace, CellsAreDisjoint, ModelIsDrawn, PTL
=============================================================================
