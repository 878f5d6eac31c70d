------------------------------ MODULE Dataset ------------------------------
(***************************************************************************)
(* Reading and pre-processing: read_csv_file, scale_data, normalize_data,  *)
(* in the order main calls them.                                           *)
(*                                                                         *)
(* A file is absent (NoFile) or a sequence of lines; the first is taken    *)
(* for the header.  The arrays come from malloc, and a file that is too    *)
(* short leaves their end as it was.                                       *)
(***************************************************************************)
EXTENDS Residues, Sequences

CONSTANTS
    NSamples, NTestSamples, NDims, NClasses,
    NoFile,
    Files,                  \* the contents of the two files: [train, test]
    Garbage,                \* what malloc's memory may hold: [pixel, label]
    Deviation(_),           \* sqrt, of a variance
    Varies(_)               \* whether the deviation is above the threshold, 0.0001

ASSUME DatasetAssumption ==
    /\ {NSamples, NTestSamples, NDims, NClasses} \subseteq 1 .. Prime - 1
    /\ Prime # 3 /\ Prime # 5 /\ Prime # 17
    /\ LET Content == Seq([pixels : [1 .. NDims -> Int], label : Int])
       IN  Files \subseteq [{"train", "test"} -> Content \cup {NoFile}]
    /\ Garbage \subseteq [pixel : Int, label : Int]
    \* A deviation above the threshold is not zero.
    /\ \A v \in Values : Varies(v) => Deviation(v) \in Int /\ Deviation(v) % Prime # 0

VARIABLES
    file,                   \* mnist_train.csv, mnist_test.csv
    X, y, y_temp,           \* of either set: the inputs, the one-hot labels, the labels
    stage                   \* the call that main is at

datasetVars == <<file, X, y, y_temp, stage>>

Sets == {"train", "test"}
Size == [train |-> NSamples, test |-> NTestSamples]
Rows(s) == 1 .. Size[s]

DatasetInit ==
    /\ file \in Files
    /\ \E g \in Garbage :
          /\ X = [s \in Sets |-> [i \in Rows(s) |-> [d \in 1 .. NDims |-> g.pixel]]]
          /\ y = [s \in Sets |-> [i \in Rows(s) |-> [j \in 1 .. NClasses |-> g.pixel]]]
          /\ y_temp = [s \in Sets |-> [i \in Rows(s) |-> g.label]]
    /\ stage = "read train"

OneHot(label) == [j \in 1 .. NClasses |-> IF label = j - 1 THEN 1 ELSE 0]

\* Mutant of Line: the header is read for the first sample.
LineWithHeader(s, i) == file[s][i]

\* The line of sample i.
Line(s, i) == file[s][i + 1]
HasLine(s, i) == i < Len(file[s])

\* The header is skipped; lines beyond the array's end are not read.
Read(s) ==
    /\ file[s] \notin {NoFile, <<>>}
    /\ X' = [X EXCEPT ![s] = [i \in Rows(s) |-> IF HasLine(s, i) THEN Line(s, i).pixels ELSE @[i]]]
    /\ y_temp' = [y_temp EXCEPT ![s] = [i \in Rows(s) |-> IF HasLine(s, i) THEN Line(s, i).label ELSE @[i]]]
    /\ y' = [y EXCEPT ![s] = [i \in Rows(s) |-> OneHot(y_temp'[s][i])]]

\* exit(1): no file, or no header in it.
ReadFails(s) ==
    /\ file[s] \in {NoFile, <<>>}
    /\ stage' = "exited"
    /\ UNCHANGED <<file, X, y, y_temp>>

ReadTrain ==
    /\ stage = "read train"
    /\ \/ ReadFails("train")
       \/ Read("train") /\ stage' = "scale train" /\ UNCHANGED file
ReadTest ==
    /\ stage = "read test"
    /\ \/ ReadFails("test")
       \/ Read("test") /\ stage' = "scale test" /\ UNCHANGED file

Scaled(s) == [i \in Rows(s) |-> [d \in 1 .. NDims |-> Quotient(X[s][i][d], 255)]]

ScaleTrain ==
    /\ stage = "scale train"
    /\ X' = [X EXCEPT !["train"] = Scaled("train")]
    /\ stage' = "read test"
    /\ UNCHANGED <<file, y, y_temp>>
ScaleTest ==
    /\ stage = "scale test"
    /\ X' = [X EXCEPT !["test"] = Scaled("test")]
    /\ stage' = "normalize"
    /\ UNCHANGED <<file, y, y_temp>>

\* Of the training set, for both.
Dimension(d) == [i \in Rows("train") |-> X["train"][i][d]]
Mean(x) == Quotient(Sum(x, NSamples), NSamples)
Variance(x) ==
    LET distance == [i \in Rows("train") |-> x[i] - Mean(x)]
    IN  Quotient(Sum([i \in Rows("train") |-> distance[i] * distance[i]], NSamples), NSamples)

\* A dimension that hardly varies is left as it is.
Normalized(s, i, d) ==
    LET x == Dimension(d)
    IN  IF Varies(Variance(x)) THEN Quotient(X[s][i][d] - Mean(x), Deviation(Variance(x)))
                               ELSE X[s][i][d]

Normalize ==
    /\ stage = "normalize"
    /\ X' = [s \in Sets |-> [i \in Rows(s) |-> [d \in 1 .. NDims |-> Normalized(s, i, d)]]]
    /\ stage' = "ready"
    /\ UNCHANGED <<file, y, y_temp>>

DatasetNext == ReadTrain \/ ScaleTrain \/ ReadTest \/ ScaleTest \/ Normalize

DatasetSpec == DatasetInit /\ [][DatasetNext]_datasetVars

-----------------------------------------------------------------------------
(* Properties.                                                             *)

\* Every sample has the label of its line, and every dimension has gone through one
\* and the same straight map, of slope not zero, in both sets.  A dimension whose
\* pixels vary enough in the training set has mean zero there.
Comparable ==
    /\ \A s \in Sets : \A i \in Rows(s) :
          /\ y_temp[s][i] = file[s][i + 1].label
          /\ \A j \in 1 .. NClasses : y[s][i][j] = 1 <=> file[s][i + 1].label = j - 1
    /\ \A d \in 1 .. NDims :
          /\ \E slope \in 1 .. Prime - 1, at \in 0 .. Prime - 1 :
                \A s \in Sets : \A i \in Rows(s) :
                    X[s][i][d] = Num(slope * file[s][i + 1].pixels[d] + at)
          /\ Varies(Variance([i \in Rows("train") |-> Quotient(file["train"][i + 1].pixels[d], 255)]))
                => Num(Total(Dimension(d))) = 0

\* Two files that are long enough become comparable sets: what tells samples of the
\* training set apart tells those of the test set apart.
SetsAreComparable ==
    [][stage' = "ready" /\ stage # "ready" /\ (\A s \in Sets : Len(file[s]) > Size[s])
           => Comparable']_datasetVars
=============================================================================
