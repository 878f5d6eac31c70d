----------------------------- MODULE TrainProofs -----------------------------
(***************************************************************************)
(* Theorems about TrainAndTest: for every network and prime, all files,    *)
(* samples and epochs, every optimizer and loss, and all functions in      *)
(* place of the parameters.                                                *)
(***************************************************************************)
EXTENDS TrainAndTest, BackpropProofs

OrderProofs == INSTANCE ShuffleProofs WITH N <- NSamples, i <- place

-----------------------------------------------------------------------------
(* The data sets.                                                          *)

SetsOK ==
    /\ file \in Files
    /\ X = [s \in Sets |-> X[s]] /\ y = [s \in Sets |-> y[s]] /\ y_temp = [s \in Sets |-> y_temp[s]]
    /\ \A s \in Sets : /\ X[s] \in [Rows(s) -> [1 .. NDims -> Int]]
                       /\ y[s] \in [Rows(s) -> [1 .. NClasses -> Int]]
                       /\ y_temp[s] \in [Rows(s) -> Int]

LEMMA SizeFacts ==
    /\ NSamples \in Nat /\ NSamples >= 1 /\ NSamples % Prime # 0
    /\ NTestSamples \in Nat /\ NTestSamples >= 1
    /\ Rows("train") = 1 .. NSamples /\ Rows("test") = 1 .. NTestSamples
  BY DatasetAssumption, PrimeAssumption DEF Rows, Size

\* The brightest pixel is no multiple of the prime.
LEMMA BrightestPixel == 255 % Prime # 0
<1> SUFFICES ASSUME 255 % Prime = 0
             PROVE  FALSE
  OBVIOUS
<1> DEFINE q == 255 \div Prime
<1>0. Prime \in Nat /\ Prime > 2 /\ \A d \in 2 .. Prime - 1 : Prime % d # 0
  BY PrimeAssumption
<1>1. q \in Int /\ 255 = Prime * q
  <2>1. 255 \in Int
    OBVIOUS
  <2>2. q \in Int /\ 255 = Prime * q + (255 % Prime)
    BY <2>1, Division, Zenon
  <2> HIDE DEF q
  <2> QED
    BY <1>0, <2>2
<1> HIDE DEF q
<1>2. q >= 1 /\ q <= 85
  BY <1>0, <1>1
<1>3. Prime \notin {15, 51, 85, 255}
  <2>1. 15 % 3 = 0 /\ 51 % 3 = 0 /\ 85 % 5 = 0 /\ 255 % 3 = 0
    OBVIOUS
  <2> QED
    BY <1>0, <2>1
<1>4. Prime \notin {3, 5, 17}
  BY DatasetAssumption
<1>5. CASE q <= 15
  <2>1. q \in {1, 2, 3, 4, 5, 6, 7, 8, 9, 10, 11, 12, 13, 14, 15}
    BY <1>1, <1>2, <1>5
  <2> QED
    BY <1>0, <1>1, <1>3, <1>4, <2>1
<1>6. CASE q >= 16
  <2>1. Prime <= 15
    BY <1>0, <1>1, <1>6
  <2>2. Prime \in {3, 4, 5, 6, 7, 8, 9, 10, 11, 12, 13, 14, 15}
    BY <1>0, <2>1
  <2>3. \A p \in {4, 6, 7, 8, 9, 10, 11, 12, 13, 14} : 255 % p # 0
    OBVIOUS
  <2>4. Prime \in {4, 6, 7, 8, 9, 10, 11, 12, 13, 14}
    BY <1>3, <1>4, <2>2
  <2>5. 255 % Prime # 0
    BY <2>3, <2>4, Zenon
  <2> QED
    BY <2>5, Zenon
<1> QED
  BY <1>1, <1>5, <1>6

LEMMA MeanType ==
    ASSUME NEW x \in [Rows("train") -> Int]
    PROVE  Mean(x) \in Int /\ Variance(x) \in Values /\ Variance(x) \in Int
<1> DEFINE distance == [i \in Rows("train") |-> x[i] - Mean(x)]
           g == [i \in Rows("train") |-> distance[i] * distance[i]]
<1>1. \A i \in 1 .. NSamples : x[i] \in Int
  BY SizeFacts
<1>2. NSamples \in Int /\ NSamples % Prime # 0 /\ NSamples \in Nat
  BY SizeFacts
<1>3. Sum(x, NSamples) \in Int
  BY <1>1, <1>2, SumIsInt
<1>4. Mean(x) \in Int
  BY <1>2, <1>3, QuotientFacts DEF Mean
<1>5. \A i \in Rows("train") : distance[i] \in Int
  BY <1>4
<1> HIDE DEF distance
<1>6. \A i \in 1 .. NSamples : g[i] \in Int
  BY <1>5, SizeFacts
<1> HIDE DEF g
<1>7. Sum(g, NSamples) \in Int
  BY <1>2, <1>6, SumIsInt
<1>8. Quotient(Sum(g, NSamples), NSamples) \in Values /\ Quotient(Sum(g, NSamples), NSamples) \in Int
  BY <1>2, <1>7, QuotientFacts
<1> QED
  BY <1>4, <1>8 DEF Variance, g, distance

LEMMA DimensionType == ASSUME SetsOK, NEW d \in 1 .. NDims
                       PROVE  Dimension(d) \in [Rows("train") -> Int]
<1>1. \A i \in Rows("train") : X["train"][i] \in [1 .. NDims -> Int]
  BY DEF SetsOK, Sets
<1>2. \A i \in Rows("train") : X["train"][i][d] \in Int
  BY <1>1
<1> QED
  BY <1>2 DEF Dimension

LEMMA NormalizedType ==
    ASSUME SetsOK, NEW s \in Sets, NEW i \in Rows(s), NEW d \in 1 .. NDims
    PROVE  Normalized(s, i, d) \in Int
<1> DEFINE x == Dimension(d)
           v == Variance(x)
<1>1. X[s][i][d] \in Int
  <2>1. X[s][i] \in [1 .. NDims -> Int]
    BY DEF SetsOK
  <2> QED
    BY <2>1
<1>2. Mean(x) \in Int /\ v \in Values
  BY DimensionType, MeanType
<1>3. CASE Varies(v)
  <2>1. Deviation(v) \in Int /\ Deviation(v) % Prime # 0
    BY <1>2, <1>3, DatasetAssumption
  <2>2. X[s][i][d] - Mean(x) \in Int
    BY <1>1, <1>2
  <2>3. Quotient(X[s][i][d] - Mean(x), Deviation(v)) \in Int
    BY <2>1, <2>2, QuotientFacts
  <2> QED
    BY <1>3, <2>3 DEF Normalized
<1>4. CASE ~Varies(v)
  BY <1>1, <1>4 DEF Normalized
<1> QED
  BY <1>3, <1>4

LEMMA FileType == ASSUME SetsOK, NEW s \in Sets, file[s] # NoFile
                  PROVE  file[s] \in Seq([pixels : [1 .. NDims -> Int], label : Int])
<1> DEFINE Row == [pixels : [1 .. NDims -> Int], label : Int]
<1>1. Files \subseteq [{"train", "test"} -> Seq(Row) \cup {NoFile}]
  BY DatasetAssumption
<1>2. file \in [{"train", "test"} -> Seq(Row) \cup {NoFile}]
  BY <1>1 DEF SetsOK
<1> HIDE DEF Row
<1>3. file[s] \in Seq(Row)
  BY <1>2 DEF Sets
<1> QED
  BY <1>3 DEF Row

LEMMA LineType ==
    ASSUME SetsOK, NEW s \in Sets, file[s] # NoFile, NEW i \in Rows(s), HasLine(s, i)
    PROVE  Line(s, i).pixels \in [1 .. NDims -> Int] /\ Line(s, i).label \in Int
<1> DEFINE Row == [pixels : [1 .. NDims -> Int], label : Int]
<1>1. file[s] \in Seq(Row)
  BY FileType
<1>2. i \in Nat /\ i >= 1
  BY SizeFacts DEF Sets
<1>3. i + 1 \in 1 .. Len(file[s])
  BY <1>1, <1>2 DEF HasLine
<1>4. file[s][i + 1] \in Row
  <2> HIDE DEF Row
  <2> QED
    BY <1>1, <1>3
<1> QED
  BY <1>4 DEF Line

LEMMA ReadType ==
    ASSUME SetsOK, NEW s \in Sets, Read(s), UNCHANGED file
    PROVE  SetsOK'
<1>1. file[s] # NoFile
  BY DEF Read
<1>2. \A i \in Rows(s) : HasLine(s, i) => Line(s, i).pixels \in [1 .. NDims -> Int] /\ Line(s, i).label \in Int
  BY <1>1, LineType
<1> DEFINE pixels == [i \in Rows(s) |-> IF HasLine(s, i) THEN Line(s, i).pixels ELSE X[s][i]]
           labels == [i \in Rows(s) |-> IF HasLine(s, i) THEN Line(s, i).label ELSE y_temp[s][i]]
           hot == [i \in Rows(s) |-> OneHot(y_temp'[s][i])]
<1>3. pixels \in [Rows(s) -> [1 .. NDims -> Int]] /\ labels \in [Rows(s) -> Int]
  BY <1>2 DEF SetsOK
<1>4. hot \in [Rows(s) -> [1 .. NClasses -> Int]]
  BY DEF OneHot
<1>5. X' = [X EXCEPT ![s] = pixels] /\ y_temp' = [y_temp EXCEPT ![s] = labels] /\ y' = [y EXCEPT ![s] = hot]
  BY DEF Read
<1> HIDE DEF pixels, labels, hot
<1>6. \A t \in Sets : /\ X'[t] = IF t = s THEN pixels ELSE X[t]
                      /\ y_temp'[t] = IF t = s THEN labels ELSE y_temp[t]
                      /\ y'[t] = IF t = s THEN hot ELSE y[t]
  BY <1>5 DEF SetsOK
<1>7. X' = [t \in Sets |-> X'[t]] /\ y' = [t \in Sets |-> y'[t]] /\ y_temp' = [t \in Sets |-> y_temp'[t]]
  BY <1>5 DEF SetsOK
<1> QED
  BY <1>3, <1>4, <1>6, <1>7 DEF SetsOK

LEMMA ScaledType ==
    ASSUME SetsOK, NEW s \in Sets
    PROVE  Scaled(s) \in [Rows(s) -> [1 .. NDims -> Int]]
<1>1. ASSUME NEW i \in Rows(s), NEW d \in 1 .. NDims
      PROVE  Quotient(X[s][i][d], 255) \in Int
  <2>1. X[s][i][d] \in Int
    <3>1. X[s][i] \in [1 .. NDims -> Int]
      BY DEF SetsOK
    <3> QED
      BY <3>1
  <2> QED
    BY <2>1, BrightestPixel, QuotientFacts
<1> QED
  BY <1>1 DEF Scaled

LEMMA SetsKeep == ASSUME SetsOK, DatasetNext
                  PROVE  SetsOK'
<1>1. ASSUME NEW s \in Sets, ReadFails(s)
      PROVE  SetsOK'
  BY <1>1 DEF ReadFails, SetsOK
<1>2. CASE ReadTrain
  BY <1>1, <1>2, ReadType DEF ReadTrain, Sets
<1>3. CASE ReadTest
  BY <1>1, <1>3, ReadType DEF ReadTest, Sets
<1>4. ASSUME NEW s \in Sets, X' = [X EXCEPT ![s] = Scaled(s)], UNCHANGED <<file, y, y_temp>>
      PROVE  SetsOK'
  BY <1>4, ScaledType DEF SetsOK
<1>5. CASE ScaleTrain
  BY <1>4, <1>5 DEF ScaleTrain, Sets
<1>6. CASE ScaleTest
  BY <1>4, <1>6 DEF ScaleTest, Sets
<1>7. CASE Normalize
  <2>1. \A s \in Sets : [i \in Rows(s) |-> [d \in 1 .. NDims |-> Normalized(s, i, d)]] \in [Rows(s) -> [1 .. NDims -> Int]]
    BY NormalizedType
  <2>2. X' = [s \in Sets |-> [i \in Rows(s) |-> [d \in 1 .. NDims |-> Normalized(s, i, d)]]]
    BY <1>7 DEF Normalize
  <2>3. \A s \in Sets : X'[s] \in [Rows(s) -> [1 .. NDims -> Int]]
    BY <2>1, <2>2
  <2>4. X' = [s \in Sets |-> X'[s]]
    BY <2>2
  <2> QED
    BY <1>7, <2>3, <2>4 DEF Normalize, SetsOK
<1> QED
  BY <1>2, <1>3, <1>5, <1>6, <1>7 DEF DatasetNext

\* What a set holds are samples.
LEMMA SamplesOfSets ==
    ASSUME SetsOK, NEW s \in Sets, NEW n \in Rows(s)
    PROVE  SampleOf(s, n) \in Sample
<1>1. NDims = Net[1] /\ NClasses = Net[Last]
  BY TrainAssumption
<1>2. X[s][n] \in [Neurons(1) -> Int]
  BY <1>1 DEF SetsOK, Neurons
<1>3. y[s][n] \in [Neurons(Last) -> Int] /\ y_temp[s][n] \in Int
  BY <1>1 DEF SetsOK, Neurons
<1> QED
  BY <1>2, <1>3 DEF SampleOf, Sample

-----------------------------------------------------------------------------
(* What becomes of the files.                                              *)

ReadBy(s) == IF s = "train" THEN {"scale train", "read test", "scale test", "normalize"}
                            ELSE {"scale test", "normalize"}
ScaledBy(s) == IF s = "train" THEN {"read test", "scale test", "normalize"} ELSE {"normalize"}

\* A file that is long enough is in its arrays.
FileHeld(s, scaled) ==
    /\ file[s] # NoFile
    /\ Len(file[s]) > Size[s] => \A i \in Rows(s) :
          /\ y_temp[s][i] = Line(s, i).label
          /\ y[s][i] = OneHot(Line(s, i).label)
          /\ \A d \in 1 .. NDims :
                X[s][i][d] = IF scaled THEN Quotient(Line(s, i).pixels[d], 255) ELSE Line(s, i).pixels[d]

FilesOK == \A s \in Sets : stage \in ReadBy(s) => FileHeld(s, stage \in ScaledBy(s))

LEMMA FilesStart == ASSUME DatasetInit
                    PROVE  FilesOK
<1>1. stage = "read train"
  BY DEF DatasetInit
<1>2. \A s \in Sets : stage \notin ReadBy(s)
  BY <1>1 DEF ReadBy
<1> QED
  BY <1>2 DEF FilesOK

LEMMA ReadFollows ==
    ASSUME SetsOK, NEW s \in Sets, Read(s), UNCHANGED file
    PROVE  /\ file[s] # NoFile
           /\ \A t \in Sets \ {s} : X'[t] = X[t] /\ y'[t] = y[t] /\ y_temp'[t] = y_temp[t]
           /\ Len(file[s]) > Size[s] => \A i \in Rows(s) :
                 /\ y_temp'[s][i] = Line(s, i).label
                 /\ y'[s][i] = OneHot(Line(s, i).label)
                 /\ \A d \in 1 .. NDims : X'[s][i][d] = Line(s, i).pixels[d]
<1>1. file[s] # NoFile
  BY DEF Read
<1>2. \A t \in Sets \ {s} : X'[t] = X[t] /\ y'[t] = y[t] /\ y_temp'[t] = y_temp[t]
  BY DEF Read, SetsOK
<1>3. ASSUME Len(file[s]) > Size[s], NEW i \in Rows(s)
      PROVE  y_temp'[s][i] = Line(s, i).label /\ X'[s][i] = Line(s, i).pixels
  <2>1. HasLine(s, i)
    <3>1. file[s] \in Seq([pixels : [1 .. NDims -> Int], label : Int])
      BY <1>1, FileType
    <3>2. Len(file[s]) \in Nat
      BY <3>1
    <3>3. i \in Nat /\ Size[s] \in Nat /\ i <= Size[s]
      BY SizeFacts DEF Sets, Size, Rows
    <3> QED
      BY <1>3, <3>2, <3>3 DEF HasLine
  <2> QED
    BY <2>1 DEF Read, SetsOK
<1>4. \A i \in Rows(s) : y'[s][i] = OneHot(y_temp'[s][i])
  BY DEF Read, SetsOK
<1> QED
  BY <1>1, <1>2, <1>3, <1>4

\* Scaling divides what is there by 255.
LEMMA ScaleFollows ==
    ASSUME SetsOK, NEW s \in Sets, FileHeld(s, FALSE),
           X' = [X EXCEPT ![s] = Scaled(s)], UNCHANGED <<file, y, y_temp>>
    PROVE  FileHeld(s, TRUE)' /\ \A t \in Sets \ {s} : X'[t] = X[t]
<1>1. X'[s] = Scaled(s) /\ \A t \in Sets \ {s} : X'[t] = X[t]
  BY DEF SetsOK
<1>2. \A i \in Rows(s), d \in 1 .. NDims : X'[s][i][d] = Quotient(X[s][i][d], 255)
  <2>1. \A i \in Rows(s), d \in 1 .. NDims : Scaled(s)[i][d] = Quotient(X[s][i][d], 255)
    BY DEF Scaled
  <2> QED
    BY <1>1, <2>1, Zenon
<1> QED
  BY <1>1, <1>2 DEF FileHeld, Line

LEMMA FilesKeep == ASSUME SetsOK, FilesOK, DatasetNext
                   PROVE  FilesOK'
<1>1. CASE stage' \in {"exited", "ready"}
  <2>1. \A s \in Sets : stage' \notin ReadBy(s)
    BY <1>1 DEF ReadBy
  <2> QED
    BY <2>1 DEF FilesOK
<1>2. ASSUME ReadTrain, stage' # "exited"
      PROVE  FilesOK'
  <2>1. Read("train") /\ stage' = "scale train" /\ UNCHANGED file /\ "train" \in Sets
    BY <1>2 DEF ReadTrain, ReadFails, Sets
  <2>2. FileHeld("train", FALSE)'
    BY <2>1, ReadFollows DEF FileHeld, Line, Rows
  <2>3. ASSUME NEW s \in Sets, stage' \in ReadBy(s)
        PROVE  s = "train" /\ stage' \notin ScaledBy(s)
    BY <2>1, <2>3 DEF ReadBy, ScaledBy, Sets
  <2> QED
    BY <2>2, <2>3 DEF FilesOK, FileHeld
<1>3. ASSUME ReadTest, stage' # "exited"
      PROVE  FilesOK'
  <2>1. /\ stage = "read test" /\ Read("test") /\ stage' = "scale test" /\ UNCHANGED file
        /\ "train" \in Sets /\ "test" \in Sets
    BY <1>3 DEF ReadTest, ReadFails, Sets
  <2>2. FileHeld("test", FALSE)'
    BY <2>1, ReadFollows DEF FileHeld, Line, Rows
  <2>3. FileHeld("train", TRUE)
    <3>1. stage \in ReadBy("train") /\ stage \in ScaledBy("train")
      BY <2>1 DEF ReadBy, ScaledBy
    <3> QED
      BY <2>1, <3>1 DEF FilesOK, FileHeld
  <2>4. FileHeld("train", TRUE)'
    <3>1. X'["train"] = X["train"] /\ y'["train"] = y["train"] /\ y_temp'["train"] = y_temp["train"]
      BY <2>1, ReadFollows
    <3> QED
      BY <2>1, <2>3, <3>1 DEF FileHeld, Line
  <2>5. /\ stage' \in ScaledBy("train") /\ stage' \notin ScaledBy("test")
        /\ \A s \in Sets : s = "train" \/ s = "test"
    BY <2>1 DEF ScaledBy, Sets
  <2> QED
    BY <2>2, <2>4, <2>5 DEF FilesOK, FileHeld
<1>4. CASE ScaleTrain
  <2>1. /\ stage = "scale train" /\ stage' = "read test" /\ "train" \in Sets
        /\ X' = [X EXCEPT !["train"] = Scaled("train")] /\ UNCHANGED <<file, y, y_temp>>
    BY <1>4 DEF ScaleTrain, Sets
  <2>2. FileHeld("train", FALSE)
    <3>1. stage \in ReadBy("train") /\ stage \notin ScaledBy("train")
      BY <2>1 DEF ReadBy, ScaledBy
    <3> QED
      BY <2>1, <3>1 DEF FilesOK, FileHeld
  <2>3. FileHeld("train", TRUE)'
    BY <2>1, <2>2, ScaleFollows
  <2>4. ASSUME NEW s \in Sets, stage' \in ReadBy(s)
        PROVE  s = "train" /\ stage' \in ScaledBy(s)
    BY <2>1, <2>4 DEF ReadBy, ScaledBy, Sets
  <2> QED
    BY <2>3, <2>4 DEF FilesOK, FileHeld
<1>5. CASE ScaleTest
  <2>1. /\ stage = "scale test" /\ stage' = "normalize" /\ "train" \in Sets /\ "test" \in Sets
        /\ X' = [X EXCEPT !["test"] = Scaled("test")] /\ UNCHANGED <<file, y, y_temp>>
    BY <1>5 DEF ScaleTest, Sets
  <2>2. FileHeld("test", FALSE) /\ FileHeld("train", TRUE)
    <3>1. /\ stage \in ReadBy("test") /\ stage \notin ScaledBy("test")
          /\ stage \in ReadBy("train") /\ stage \in ScaledBy("train")
      BY <2>1 DEF ReadBy, ScaledBy
    <3> QED
      BY <2>1, <3>1 DEF FilesOK, FileHeld
  <2>3. FileHeld("test", TRUE)' /\ X'["train"] = X["train"]
    BY <2>1, <2>2, ScaleFollows
  <2>4. FileHeld("train", TRUE)'
    <3>1. y' = y /\ y_temp' = y_temp /\ file' = file
      BY <2>1
    <3> QED
      BY <2>2, <2>3, <3>1 DEF FileHeld, Line
  <2>5. /\ stage' \in ScaledBy("train") /\ stage' \in ScaledBy("test")
        /\ \A s \in Sets : s = "train" \/ s = "test"
    BY <2>1 DEF ScaledBy, Sets
  <2> QED
    BY <2>3, <2>4, <2>5 DEF FilesOK, FileHeld
<1>6. CASE Normalize
  BY <1>1, <1>6 DEF Normalize
<1> QED
  BY <1>1, <1>2, <1>3, <1>4, <1>5, <1>6 DEF DatasetNext

\* Numbers of one remainder.
LEMMA NumOfRemainder == ASSUME NEW x \in Int
                        PROVE  x % Prime \in 0 .. Prime - 1 /\ Num(x % Prime) = Num(x)
<1> DEFINE q == x \div Prime
           r == x % Prime
<1>1. Prime \in Nat /\ Prime > 0
  BY PrimeAssumption
<1>2. q \in Int /\ r \in 0 .. Prime - 1 /\ x = Prime * q + r
  BY <1>1, Division
<1> HIDE DEF q, r
<1>3. x = r + Prime * q /\ r \in Int
  BY <1>1, <1>2
<1>4. Num(r + Prime * q) = Num(r)
  BY <1>2, <1>3, NumShift
<1> QED
  BY <1>2, <1>3, <1>4 DEF r

LEMMA OneIsNotZero == Num(1) # Num(0)
<1> SUFFICES ASSUME Num(1) = Num(0)
             PROVE  FALSE
  OBVIOUS
<1>1. PICK k \in Int : 1 = 0 + Prime * k
  BY NumSame
<1>2. Prime \in Nat /\ Prime > 2
  BY PrimeAssumption
<1> QED
  BY <1>1, <1>2

\* What has an inverse is no multiple of the prime, and no more is a product of two.
LEMMA UnitsMultiply ==
    ASSUME NEW a \in Int, NEW p \in Int, Num(p * a) = Num(1),
           NEW c \in Int, NEW q \in Int, Num(q * c) = Num(1)
    PROVE  a % Prime # 0 /\ (a * c) % Prime # 0
<1>1. ASSUME NEW x \in Int, NEW z \in Int, Num(z * x) = Num(1)
      PROVE  x % Prime # 0
  <2> SUFFICES ASSUME x % Prime = 0
               PROVE  FALSE
    OBVIOUS
  <2>1. Num(x) = Num(0) /\ z * 0 = 0 /\ 0 \in Int
    BY NumOfRemainder
  <2>2. Num(x * z) = Num(0 * z)
    BY <2>1, NumTimesSame, Zenon
  <2>3. x * z = z * x /\ 0 * z = 0
    OBVIOUS
  <2> QED
    BY <1>1, <2>2, <2>3, OneIsNotZero
<1> DEFINE m == p * a
           n == q * c
           x == a * c
           z == p * q
<1>2. m \in Int /\ n \in Int /\ x \in Int /\ z \in Int /\ z * x = m * n /\ Num(m) = Num(1) /\ Num(n) = Num(1)
  OBVIOUS
<1> HIDE DEF m, n, x, z
<1>3. Num(m * n) = Num(1 * 1) /\ 1 * 1 = 1
  BY <1>2, NumTimes
<1>4. x % Prime # 0
  BY <1>1, <1>2, <1>3
<1> QED
  BY <1>1, <1>4 DEF x

\* A straight map, of a slope that is not zero.
LEMMA StraightMap ==
    ASSUME NEW a \in Int, a % Prime # 0, NEW c \in Int
    PROVE  /\ a % Prime \in 1 .. Prime - 1 /\ c % Prime \in 0 .. Prime - 1
           /\ \A p \in Int : Num((a % Prime) * p + (c % Prime)) = Num(a * p + c)
<1> DEFINE m == a % Prime
           n == c % Prime
<1>1. m \in 0 .. Prime - 1 /\ n \in 0 .. Prime - 1 /\ Num(m) = Num(a) /\ Num(n) = Num(c) /\ m # 0
  BY NumOfRemainder
<1>2. Prime \in Nat
  BY PrimeAssumption
<1> HIDE DEF m, n
<1>3. m \in Int /\ n \in Int /\ m \in 1 .. Prime - 1
  BY <1>1, <1>2
<1>4. ASSUME NEW p \in Int
      PROVE  Num(m * p + n) = Num(a * p + c)
  <2> DEFINE u == m * p
             v == a * p
  <2>1. Num(u) = Num(v)
    <3>1. Num(m * p) = Num(a * p)
      BY <1>1, <1>3, NumTimesSame, Zenon
    <3> QED
      BY <3>1
  <2>2. u \in Int /\ v \in Int
    BY <1>3
  <2> HIDE DEF u, v
  <2>3. Num(u + n) = Num(v + c)
    BY <1>1, <1>3, <2>1, <2>2, NumPlus
  <2> QED
    BY <2>3 DEF u, v
<1> QED
  BY <1>1, <1>3, <1>4 DEF m, n

LEMMA SumOfSame == ASSUME NEW f, NEW k \in Int, NEW n \in Nat, \A m \in 1 .. n : f[m] = k
                   PROVE  Sum(f, n) = n * k
<1> DEFINE T == {m \in Nat : m <= n => Sum(f, m) = m * k}
<1>1. 0 \in T
  <2>1. Sum(f, 0) = 0 /\ 0 * k = 0
    BY SumFacts
  <2> QED
    BY <2>1
<1>2. \A m \in Nat : m \in T => m + 1 \in T
  <2> SUFFICES ASSUME NEW m \in Nat, m \in T, m + 1 <= n
               PROVE  Sum(f, m + 1) = (m + 1) * k
    OBVIOUS
  <2>1. Sum(f, m) = m * k /\ f[m + 1] = k
    OBVIOUS
  <2>2. Sum(f, m + 1) = Sum(f, m) + f[m + 1]
    BY SumFacts
  <2>3. (m + 1) * k = m * k + k
    OBVIOUS
  <2> QED
    BY <2>1, <2>2, <2>3
<1>3. n \in T
  <2> HIDE DEF T
  <2> QED
    BY <1>1, <1>2, SetInduction
<1> QED
  BY <1>3

\* A whole number of means is the sum they were taken of.
LEMMA MeansAddUp ==
    ASSUME NEW n \in Int, n % Prime # 0, NEW t \in Int
    PROVE  Quotient(t, n) \in Int /\ Num(n * Quotient(t, n)) = Num(t)
<1> DEFINE k == Inverses[n % Prime]
<1>1. k \in Int /\ Num(n * k) = Num(1) /\ Quotient(t, n) \in Int
  BY QuotientFacts
<1>2. Quotient(t, n) = Num(t * k)
  BY DEF Quotient
<1> HIDE DEF k
<1> DEFINE u == t * k
           m == n * k
<1>3. u \in Int /\ m \in Int
  BY <1>1
<1>4. n * u = m * t
  BY <1>1
<1>5. Num(n * Num(u)) = Num(n * u)
  <2> HIDE DEF u
  <2> QED
    BY <1>3, NumInProduct
<1>6. Num(m * t) = Num(1 * t) /\ 1 * t = t
  <2>1. Num(m) = Num(1) /\ 1 \in Int
    BY <1>1
  <2> HIDE DEF m
  <2>2. Num(m * t) = Num(1 * t)
    BY <1>3, <2>1, NumTimesSame
  <2> QED
    BY <2>2
<1> QED
  BY <1>1, <1>2, <1>4, <1>5, <1>6

\* Numbers that were moved by their mean, and scaled, add up to nothing.
LEMMA CentredAddsUpToNothing ==
    ASSUME NEW x \in [Rows("train") -> Int], NEW c \in Int, c % Prime # 0,
           NEW z, \A i \in Rows("train") : z[i] = Quotient(x[i] - Mean(x), c)
    PROVE  /\ \A i \in Rows("train") : z[i] \in Int
           /\ Num(Over(z, Rows("train"))) = 0
<1> DEFINE D == 1 .. NSamples
           m == Mean(x)
           v == Inverses[c % Prime]
           neg == [i \in D |-> 0 - m]
           g == [i \in D |-> x[i] - m]
           h == [i \in D |-> v * (x[i] - m)]
<1>0. Rows("train") = D /\ NSamples \in Nat /\ NSamples \in Int /\ NSamples % Prime # 0 /\ IsFiniteSet(D)
  BY SizeFacts, FS_Interval
<1>1. m \in Int /\ v \in Int
  BY MeanType, QuotientFacts
<1>2. \A i \in D : x[i] \in Int
  BY <1>0
<1>3. m = Quotient(Sum(x, NSamples), NSamples)
  BY DEF Mean
<1> HIDE DEF m, v
<1>4. \A i \in D : x[i] - m \in Int /\ v * (x[i] - m) \in Int
  <2> TAKE i \in D
  <2> DEFINE a == x[i] - m
  <2>1. a \in Int
    BY <1>1, <1>2
  <2> HIDE DEF a
  <2>2. v * a \in Int
    BY <1>1, <2>1
  <2> QED
    BY <2>1, <2>2 DEF a
<1>5. \A i \in D : z[i] \in Int /\ h[i] \in Int /\ Num(z[i]) = Num(h[i])
  <2> TAKE i \in D
  <2> DEFINE a == x[i] - m
             e == v * a
  <2>1. a \in Int /\ e \in Int /\ h[i] = e
    BY <1>4
  <2>2. z[i] = Num(a * v)
    BY <1>0 DEF Quotient, m, v
  <2> HIDE DEF a
  <2>3. a * v = e
    BY <1>1, <2>1
  <2> HIDE DEF e, h
  <2>4. Num(Num(e)) = Num(e) /\ Num(e) \in Int
    BY <2>1, NumType, NumOfNum
  <2> QED
    BY <2>1, <2>2, <2>3, <2>4
<1>6. Num(Over(z, D)) = Num(Over(h, D))
  <2> HIDE DEF h, D
  <2> QED
    BY <1>0, <1>5, NumOver
<1>7. Over(h, D) = v * Over(g, D)
  <2>1. \A i \in D : g[i] \in Int /\ h[i] = v * g[i]
    BY <1>4
  <2> HIDE DEF g, h, D
  <2> QED
    BY <1>0, <1>1, <2>1, OverScale
<1>8. Over(g, D) = Over(x, D) + Over(neg, D)
  <2>1. \A i \in D : x[i] \in Int /\ neg[i] \in Int /\ g[i] = x[i] + neg[i]
    BY <1>1, <1>2
  <2> HIDE DEF g, neg, D
  <2> QED
    BY <1>0, <2>1, OverPlus
<1> DEFINE t == Over(x, D)
           k == 0 - m
<1>9. Over(neg, D) = NSamples * k
  <2>1. k \in Int /\ \A i \in 1 .. NSamples : neg[i] = k
    BY <1>1
  <2> HIDE DEF neg, k
  <2>2. Sum(neg, NSamples) = NSamples * k
    BY <1>0, <2>1, SumOfSame
  <2>3. Sum(neg, NSamples) = Over(neg, 1 .. NSamples)
    BY <1>0, <2>1, SumIsTotal
  <2> QED
    BY <2>2, <2>3
<1>10. t \in Int /\ t = Sum(x, NSamples) /\ t = Over(x, D)
  <2>1. Sum(x, NSamples) \in Int /\ Sum(x, NSamples) = Over(x, 1 .. NSamples)
    BY <1>0, <1>2, SumIsInt, SumIsTotal
  <2> QED
    BY <2>1
<1> HIDE DEF t, neg, g, h, D
<1>11. Num(NSamples * m) = Num(t) /\ m \in Int
  BY <1>0, <1>3, <1>10, MeansAddUp
<1> DEFINE w0 == NSamples * m
           s == Over(g, D)
<1>12. w0 \in Int /\ Over(g, D) = t - w0
  <2>1. NSamples * k = 0 - w0 /\ w0 \in Int
    BY <1>0, <1>1
  <2> HIDE DEF w0, k
  <2> QED
    BY <1>8, <1>9, <1>10, <2>1
<1> HIDE DEF w0, k
<1>13. Num(t - w0) = 0
  <2>1. Num(t) = Num(w0)
    BY <1>11 DEF w0
  <2> QED
    BY <1>10, <1>12, <2>1, NumOfNoDifference
<1>14. s \in Int /\ Num(s) = Num(0) /\ Over(h, D) = v * s
  BY <1>7, <1>10, <1>12, <1>13, ZeroIsNum
<1> HIDE DEF s
<1>15. Num(s * v) = Num(0 * v) /\ s * v = v * s /\ 0 * v = 0
  <2>1. Num(s * v) = Num(0 * v)
    <3>1. s \in Int /\ 0 \in Int /\ v \in Int /\ Num(s) = Num(0)
      BY <1>1, <1>14
    <3> QED
      BY <3>1, NumTimesSame, Zenon
  <2>2. s * v = v * s /\ 0 * v = 0
    BY <1>1, <1>14
  <2> QED
    BY <2>1, <2>2
<1>16. Num(Over(z, D)) = 0
  BY <1>6, <1>14, <1>15, ZeroIsNum
<1> QED
  BY <1>0, <1>5, <1>16

\* What normalizing makes of a pixel.
LEMMA NormalizedIs ==
    ASSUME SetsOK, NEW d \in 1 .. NDims, Normalize
    PROVE  LET x == Dimension(d)
               v == Variance(x)
           IN  /\ x \in [Rows("train") -> Int] /\ Mean(x) \in Int
               /\ Varies(v) => Deviation(v) \in Int /\ Deviation(v) % Prime # 0
               /\ \A s \in Sets : \A i \in Rows(s) :
                     X'[s][i][d] = IF Varies(v) THEN Quotient(X[s][i][d] - Mean(x), Deviation(v))
                                                ELSE X[s][i][d]
<1> DEFINE x == Dimension(d)
           v == Variance(x)
<1>1. x \in [Rows("train") -> Int] /\ Mean(x) \in Int /\ v \in Values
  BY DimensionType, MeanType
<1>2. Varies(v) => Deviation(v) \in Int /\ Deviation(v) % Prime # 0
  BY <1>1, DatasetAssumption
<1>3. \A s \in Sets : \A i \in Rows(s) : X'[s][i][d] = Normalized(s, i, d)
  BY DEF Normalize
<1>4. \A s, i : Normalized(s, i, d) = IF Varies(v) THEN Quotient(X[s][i][d] - Mean(x), Deviation(v))
                                                  ELSE X[s][i][d]
  BY DEF Normalized
<1> QED
  BY <1>1, <1>2, <1>3, <1>4, Zenon

\* One map for both sets.
LEMMA MapIsStraight ==
    ASSUME SetsOK, NEW d \in 1 .. NDims, Normalize,
           \A s \in Sets : FileHeld(s, TRUE) /\ Len(file[s]) > Size[s]
    PROVE  \E slope \in 1 .. Prime - 1, at \in 0 .. Prime - 1 :
               \A s \in Sets : \A i \in Rows(s) :
                   X'[s][i][d] = Num(slope * file[s][i + 1].pixels[d] + at)
<1> DEFINE x == Dimension(d)
           v == Variance(x)
           m == Mean(x)
           k == Inverses[255 % Prime]
           e == Inverses[Deviation(v) % Prime]
           px(s, i) == file[s][i + 1].pixels[d]
<1>1. \A s \in Sets : \A i \in Rows(s) : px(s, i) \in Int /\ X[s][i][d] = Num(px(s, i) * k)
  <2> TAKE s \in Sets
  <2> TAKE i \in Rows(s)
  <2>1. file[s] # NoFile /\ X[s][i][d] = Quotient(px(s, i), 255)
    BY DEF FileHeld, Line
  <2>2. px(s, i) \in Int
    <3>1. file[s] \in Seq([pixels : [1 .. NDims -> Int], label : Int])
      BY <2>1, FileType
    <3>2. HasLine(s, i)
      <4>1. Len(file[s]) \in Nat
        BY <3>1
      <4>2. i \in Nat /\ Size[s] \in Nat /\ i <= Size[s]
        BY SizeFacts DEF Sets, Size, Rows
      <4>3. Len(file[s]) > Size[s]
        OBVIOUS
      <4> QED
        BY <4>1, <4>2, <4>3 DEF HasLine
    <3>3. Line(s, i).pixels \in [1 .. NDims -> Int]
      BY <2>1, <3>2, LineType
    <3> QED
      BY <3>3 DEF Line
  <2> QED
    BY <2>1, <2>2 DEF Quotient
<1>2. k \in Int /\ Num(255 * k) = Num(1) /\ 255 \in Int
  BY BrightestPixel, QuotientFacts
<1>3. m \in Int /\ \A s \in Sets : \A i \in Rows(s) :
          X'[s][i][d] = IF Varies(v) THEN Quotient(X[s][i][d] - m, Deviation(v)) ELSE X[s][i][d]
  BY NormalizedIs, Zenon
<1>4. Varies(v) => Deviation(v) \in Int /\ e \in Int /\ Num(Deviation(v) * e) = Num(1)
  <2>1. Varies(v) => Deviation(v) \in Int /\ Deviation(v) % Prime # 0
    BY NormalizedIs, Zenon
  <2> QED
    BY <2>1, QuotientFacts
<1>5. CASE Varies(v)
  <2> DEFINE a == k * e
             c == 0 - m * e
  <2>1. e \in Int /\ a \in Int /\ c \in Int /\ a % Prime # 0
    <3>1. e \in Int /\ Deviation(v) \in Int /\ Num(Deviation(v) * e) = Num(1)
      BY <1>4, <1>5
    <3> DEFINE f == Deviation(v)
    <3> HIDE DEF e, k, m, f
    <3>2. (k * e) % Prime # 0
      BY <1>2, <3>1, UnitsMultiply DEF f
    <3>3. k * e \in Int /\ 0 - m * e \in Int
      BY <1>2, <1>3, <3>1
    <3> QED
      BY <3>1, <3>2, <3>3
  <2>2. \A s \in Sets : \A i \in Rows(s) : X'[s][i][d] = Num(a * px(s, i) + c)
    <3> TAKE s \in Sets
    <3> TAKE i \in Rows(s)
    <3> DEFINE p == px(s, i)
               q == p * k
    <3>1. X'[s][i][d] = Num((Num(q) - m) * e) /\ p \in Int
      <4>1. X'[s][i][d] = Quotient(X[s][i][d] - m, Deviation(v))
        BY <1>3, <1>5
      <4>2. X[s][i][d] = Num(q) /\ p \in Int
        BY <1>1
      <4> QED
        BY <4>1, <4>2 DEF Quotient
    <3> HIDE DEF p, k, e, m
    <3>2. q \in Int /\ (q - m) * e = a * p + c
      BY <1>2, <1>3, <2>1, <3>1
    <3> HIDE DEF q, a, c
    <3>3. Num(q) \in Int /\ Num(Num(q)) = Num(q)
      BY <3>2, NumType, NumOfNum
    <3> DEFINE y1 == Num(q) - m
               y2 == q - m
    <3>4. Num(y1) = Num(y2) /\ y1 \in Int /\ y2 \in Int
      <4>1. Num(Num(q) - m) = Num(q - m)
        BY <1>3, <3>2, <3>3, NumMinusSame, Zenon
      <4>2. Num(q) - m \in Int /\ q - m \in Int
        BY <1>3, <3>2, <3>3
      <4> QED
        BY <4>1, <4>2
    <3> HIDE DEF y1, y2
    <3>5. Num(y1 * e) = Num(y2 * e)
      BY <2>1, <3>4, NumTimesSame
    <3> QED
      BY <3>1, <3>2, <3>5 DEF y1, y2, p
  <2> HIDE DEF a, c, px
  <2>3. /\ a % Prime \in 1 .. Prime - 1 /\ c % Prime \in 0 .. Prime - 1
        /\ \A p \in Int : Num((a % Prime) * p + (c % Prime)) = Num(a * p + c)
    BY <2>1, StraightMap
  <2>4. \A s \in Sets : \A i \in Rows(s) : X'[s][i][d] = Num((a % Prime) * px(s, i) + (c % Prime))
    BY <1>1, <2>2, <2>3, Zenon
  <2> QED
    BY <2>3, <2>4 DEF px
<1>6. CASE ~Varies(v)
  <2> HIDE DEF k, px
  <2>1. k % Prime # 0
    BY <1>2, UnitsMultiply
  <2>2. /\ k % Prime \in 1 .. Prime - 1 /\ 0 % Prime \in 0 .. Prime - 1
        /\ \A p \in Int : Num((k % Prime) * p + (0 % Prime)) = Num(k * p + 0)
    BY <1>2, <2>1, StraightMap
  <2>3. ASSUME NEW s \in Sets, NEW i \in Rows(s)
        PROVE  X'[s][i][d] = Num((k % Prime) * px(s, i) + (0 % Prime))
    <3> DEFINE p == px(s, i)
    <3>1. p \in Int /\ X'[s][i][d] = Num(p * k)
      BY <1>1, <1>3, <1>6
    <3> HIDE DEF p
    <3>2. p * k = k * p + 0
      BY <1>2, <3>1
    <3>3. Num((k % Prime) * p + (0 % Prime)) = Num(k * p + 0)
      BY <2>2, <3>1, Zenon
    <3> QED
      BY <3>1, <3>2, <3>3 DEF p
  <2> QED
    BY <2>2, <2>3 DEF px
<1> QED
  BY <1>5, <1>6

LEMMA SetsBecomeComparable ==
    ASSUME SetsOK, FilesOK, Normalize, \A s \in Sets : Len(file[s]) > Size[s]
    PROVE  Comparable'
<1>1. stage = "normalize" /\ UNCHANGED <<file, y, y_temp>>
  BY DEF Normalize
<1>2. \A s \in Sets : FileHeld(s, TRUE)
  BY <1>1 DEF FilesOK, ReadBy, ScaledBy, FileHeld
<1>3. ASSUME NEW s \in Sets, NEW i \in Rows(s)
      PROVE  /\ y_temp'[s][i] = file'[s][i + 1].label
             /\ \A j \in 1 .. NClasses : y'[s][i][j] = 1 <=> file'[s][i + 1].label = j - 1
  <2>1. y_temp[s][i] = Line(s, i).label /\ y[s][i] = OneHot(Line(s, i).label)
    BY <1>2 DEF FileHeld
  <2> QED
    BY <1>1, <2>1 DEF Line, OneHot
<1>4. ASSUME NEW d \in 1 .. NDims
      PROVE  \E slope \in 1 .. Prime - 1, at \in 0 .. Prime - 1 :
                 \A s \in Sets : \A i \in Rows(s) :
                     X'[s][i][d] = Num(slope * file'[s][i + 1].pixels[d] + at)
  <2>1. file' = file
    BY <1>1
  <2> QED
    BY <1>2, <2>1, MapIsStraight
<1>5. ASSUME NEW d \in 1 .. NDims,
             Varies(Variance([i \in Rows("train") |-> Quotient(file'["train"][i + 1].pixels[d], 255)]))
      PROVE  Num(Total(Dimension(d)')) = 0
  <2> DEFINE x == Dimension(d)
             z == Dimension(d)'
  <2>1. x = [i \in Rows("train") |-> Quotient(file'["train"][i + 1].pixels[d], 255)]
    <3>1. \A i \in Rows("train") : X["train"][i][d] = Quotient(file["train"][i + 1].pixels[d], 255)
      BY <1>2 DEF FileHeld, Line, Sets
    <3> QED
      BY <1>1, <3>1 DEF Dimension
  <2>2. Varies(Variance(x))
    BY <1>5, <2>1
  <2> DEFINE c == Deviation(Variance(x))
  <2>3. x \in [Rows("train") -> Int] /\ c \in Int /\ c % Prime # 0
    BY <2>2, NormalizedIs, Zenon
  <2>4. \A i \in Rows("train") : X'["train"][i][d] = Quotient(X["train"][i][d] - Mean(x), c)
    <3>1. \A s \in Sets : \A i \in Rows(s) : X'[s][i][d] = Quotient(X[s][i][d] - Mean(x), c)
      BY <2>2, NormalizedIs, Zenon
    <3> QED
      BY <3>1 DEF Sets
  <2>5. z = [i \in Rows("train") |-> X'["train"][i][d]] /\ x = [i \in Rows("train") |-> X["train"][i][d]]
    BY DEF Dimension
  <2>6. \A i \in Rows("train") : z[i] = Quotient(x[i] - Mean(x), c)
    BY <2>4, <2>5
  <2> HIDE DEF x, z, c
  <2>7. (\A i \in Rows("train") : z[i] \in Int) /\ Num(Over(z, Rows("train"))) = 0
    BY <2>3, <2>6, CentredAddsUpToNothing
  <2>8. z \in [Rows("train") -> Int]
    BY <2>5, <2>7
  <2>9. Over(z, Rows("train")) = Total(z)
    BY <2>8, OverAll
  <2> QED
    BY <2>7, <2>9 DEF z
<1> QED
  BY <1>3, <1>4, <1>5 DEF Comparable

-----------------------------------------------------------------------------
(* The epochs.                                                             *)

TrainingData == [n \in 1 .. Trained |-> SampleOf("train", arr[n - 1] + 1)]
TestData == [n \in Rows("test") |-> SampleOf("test", n)]

PhaseOK ==
    /\ phase \in {"read", "epoch", "shuffle", "train", "test"}
    /\ itr \in 1 .. Epochs + 1
    /\ phase \in {"shuffle", "train", "test"} => itr <= Epochs
    /\ phase \in {"read", "epoch", "shuffle"} => pc = "load" /\ batch = 0
    /\ phase = "test" => pc \in {"load", "forward", "output"} /\ batch = 0 /\ data = TestData
    /\ phase = "train" => data = TrainingData

OrderOK ==
    /\ Order!IsPermutation /\ place \in Nat
    /\ drawn \in Seq(Nat) /\ next \in 0 .. Len(drawn)

TrainInv == BackInv /\ SetsOK /\ OrderOK /\ PhaseOK /\ NeuronsOK(idle[1], idle[2], idle[3])

LEMMA BackInvStutters == ASSUME BackInv, UNCHANGED vars
                         PROVE  BackInv'
  BY DEF BackInv, SettingsOK, NumbersOK, Numbers, NeuronsOK, DataOK, PlaceOK, Batch, OutOK, RefOut,
         vars, settings, neurons, gradients, moments

LEMMA OrderStutters == ASSUME OrderOK, UNCHANGED order
                       PROVE  OrderOK'
  BY DEF OrderOK, order, Order!IsPermutation, Order!Indexes

LEMMA SetsStutter == ASSUME SetsOK, UNCHANGED datasetVars
                     PROVE  SetsOK'
  BY DEF SetsOK, datasetVars

LEMMA EpochFacts ==
    /\ Epochs \in Nat /\ RandMax \in Nat /\ Trained \in Nat /\ Trained <= NSamples
    /\ Rows("test") = 1 .. NTestSamples /\ NTestSamples \in Nat
  BY TrainAssumption, SizeFacts

LEMMA CorrectionIsOK == ASSUME SettingsOK, itr \in 1 .. Epochs
                        PROVE  CorrectionOK
<1> SUFFICES ASSUME opt = "adam", NEW k \in {beta_1, beta_2}
             PROVE  Power(k, itr) \in Int /\ (1 - Power(k, itr)) % Prime # 0
  BY DEF CorrectionOK
<1>1. k \in Int /\ itr \in Nat
  BY BackpropAssumption, EpochFacts
<1>2. Power(k, itr) \in Int
  BY <1>1, PowerFacts
<1>3. "adam" \in Optimizers
  BY DEF SettingsOK
<1>4. (1 - Power(k, itr)) % Prime # 0
  BY <1>3, TrainAssumption
<1> QED
  BY <1>2, <1>4

LEMMA TrainStarts == TrainInit => TrainInv
<1> SUFFICES ASSUME TrainInit
             PROVE  TrainInv
  OBVIOUS
<1>1. SettingsOK
  BY BackpropAssumption DEF TrainInit, InitNet, SettingsOK
<1>2. NumbersOK /\ NeuronsOK(idle[1], idle[2], idle[3])
  BY BackpropAssumption DEF TrainInit, InitNet, NumbersOK, Numbers, NeuronsOK, Zeroes, neurons
<1>3. DataOK
  BY DEF TrainInit, DataOK
<1>4. PlaceOK /\ OutOK
  <2>1. Batch \in Nat /\ Batch >= 1 /\ Last \in Nat /\ Last >= 1
    BY <1>1, BatchFacts, NetFacts
  <2> QED
    BY <2>1 DEF TrainInit, InitNet, PlaceOK, OutOK
<1>5. SetsOK
  <2>1. PICK g \in Garbage :
            /\ X = [s \in Sets |-> [i \in Rows(s) |-> [d \in 1 .. NDims |-> g.pixel]]]
            /\ y = [s \in Sets |-> [i \in Rows(s) |-> [j \in 1 .. NClasses |-> g.pixel]]]
            /\ y_temp = [s \in Sets |-> [i \in Rows(s) |-> g.label]]
    BY DEF TrainInit, DatasetInit
  <2>2. g.pixel \in Int /\ g.label \in Int
    BY DatasetAssumption
  <2>3. file \in Files
    BY DEF TrainInit, DatasetInit
  <2> QED
    BY <2>1, <2>2, <2>3 DEF SetsOK
<1>6. OrderOK
  BY SizeFacts DEF TrainInit, OrderOK, Order!ShuffleInit, Order!IsPermutation, Order!InOrder, Order!Indexes
<1>7. PhaseOK
  BY EpochFacts DEF TrainInit, InitNet, PhaseOK
<1> QED
  BY <1>1, <1>2, <1>3, <1>4, <1>5, <1>6, <1>7 DEF TrainInv, BackInv

LEMMA ReadKeeps == ASSUME TrainInv, ReadData
                   PROVE  TrainInv'
<1>1. BackInv' /\ OrderOK' /\ SetsOK' /\ NeuronsOK(idle[1], idle[2], idle[3])'
  BY BackInvStutters, OrderStutters, SetsKeep DEF TrainInv, ReadData, NeuronsOK
<1>2. PhaseOK'
  BY DEF TrainInv, ReadData, PhaseOK, vars, settings
<1> QED
  BY <1>1, <1>2 DEF TrainInv

LEMMA EpochStartKeeps == ASSUME TrainInv, StartEpoch
                         PROVE  TrainInv'
<1>1. SettingsOK' /\ DataOK' /\ PlaceOK'
  BY DEF TrainInv, BackInv, StartEpoch, SettingsOK, DataOK, PlaceOK, Batch, settings
<1>2. NumbersOK' /\ NeuronsOK(idle[1], idle[2], idle[3])'
  <2>1. CASE build = "numa"
    <3>1. in' = Zeroes(NeuronCells) /\ out' = Zeroes(NeuronCells) /\ delta' = Zeroes(NeuronCells)
      BY <2>1 DEF StartEpoch, NewWorkspace
    <3>2. dw' = Zeroes(WeightCells) /\ db' = Zeroes(BiasCells)
      BY <2>1 DEF StartEpoch, NewWorkspace
    <3>3. momentum' = Zeroes(Cells) /\ momentum2' = Zeroes(Cells)
      BY <2>1 DEF StartEpoch, NewWorkspace
    <3>4. w' = w /\ b' = b
      BY DEF StartEpoch
    <3>5. idle' = neurons
      BY <2>1 DEF StartEpoch, NewWorkspace
    <3>6. idle'[1] = in /\ idle'[2] = out /\ idle'[3] = delta
      BY <3>5 DEF neurons
    <3>7. NumbersOK'
      BY <3>1, <3>2, <3>3, <3>4 DEF TrainInv, BackInv, NumbersOK, Numbers, NeuronsOK, Zeroes
    <3>8. NeuronsOK(idle[1], idle[2], idle[3])'
      BY <3>6 DEF TrainInv, BackInv, NumbersOK, NeuronsOK
    <3> QED
      BY <3>7, <3>8
  <2>2. CASE build # "numa"
    BY <2>2 DEF TrainInv, BackInv, StartEpoch, NumbersOK, Numbers, NeuronsOK, neurons, gradients, moments
  <2> QED
    BY <2>1, <2>2
<1>3. OutOK' /\ PhaseOK'
  <2>1. pc' = "load" /\ batch' = 0 /\ phase' = "shuffle" /\ itr' = itr /\ itr <= Epochs
    BY DEF TrainInv, StartEpoch, PhaseOK, settings
  <2> QED
    BY <2>1 DEF TrainInv, PhaseOK, OutOK
<1>4. SetsOK'
  BY SetsStutter DEF TrainInv, StartEpoch
<1>5. OrderOK'
  BY SizeFacts DEF TrainInv, StartEpoch, NewWorkspace, OrderOK, Order!IsPermutation, Order!InOrder,
                   Order!Indexes
<1> QED
  BY <1>1, <1>2, <1>3, <1>4, <1>5 DEF TrainInv, BackInv

LEMMA ExchangeKeeps == ASSUME TrainInv, NEW r \in 0 .. RandMax, Exchange(r)
                       PROVE  TrainInv'
<1>1. BackInv' /\ SetsOK' /\ NeuronsOK(idle[1], idle[2], idle[3])'
  BY BackInvStutters, SetsStutter DEF TrainInv, Exchange, NeuronsOK
<1>2. PhaseOK'
  BY DEF TrainInv, Exchange, PhaseOK, vars, settings
<1>3. Order!IsPermutation'
  <2>1. OrderProofs!IsPermutation /\ place \in Nat /\ ~OrderProofs!Shuffled
    BY DEF TrainInv, OrderOK, Exchange, Order!IsPermutation, Order!Indexes, Order!Swap, Order!Shuffled,
           OrderProofs!IsPermutation, OrderProofs!Indexes, OrderProofs!Shuffled
  <2>2. OrderProofs!ShuffleAssumption
    BY SizeFacts, EpochFacts DEF OrderProofs!ShuffleAssumption
  <2>3. OrderProofs!Partner(r) \in place .. NSamples - 1
    BY <2>1, <2>2, OrderProofs!PartnerInArray
  <2>4. place \in OrderProofs!Indexes /\ OrderProofs!Partner(r) \in OrderProofs!Indexes
    BY <2>1, <2>3, SizeFacts DEF OrderProofs!Indexes, OrderProofs!Shuffled
  <2>5. arr' = [arr EXCEPT ![place] = arr[OrderProofs!Partner(r)], ![OrderProofs!Partner(r)] = arr[place]]
    BY DEF Exchange, Order!Swap, Order!Partner, OrderProofs!Partner
  <2>6. OrderProofs!IsPermutation'
    BY <2>1, <2>4, <2>5, OrderProofs!ExchangeKeeps
  <2> QED
    BY <2>6 DEF Order!IsPermutation, OrderProofs!IsPermutation, Order!Indexes, OrderProofs!Indexes
<1>4. OrderOK'
  <2>1. place' \in Nat
    BY DEF TrainInv, OrderOK, Exchange, Order!Swap
  <2>2. drawn' \in Seq(Nat) /\ next' \in 0 .. Len(drawn')
    BY EpochFacts DEF TrainInv, OrderOK, Exchange, Draw
  <2> QED
    BY <1>3, <2>1, <2>2 DEF OrderOK
<1> QED
  BY <1>1, <1>2, <1>4 DEF TrainInv

LEMMA TrainingStartKeeps == ASSUME TrainInv, StartTraining
                            PROVE  TrainInv'
<1>1. \A n \in 1 .. Trained : SampleOf("train", arr[n - 1] + 1) \in Sample
  <2> SUFFICES ASSUME NEW n \in 1 .. Trained
               PROVE  SampleOf("train", arr[n - 1] + 1) \in Sample
    OBVIOUS
  <2>1. n - 1 \in Order!Indexes
    BY EpochFacts, SizeFacts DEF Order!Indexes
  <2>2. arr[n - 1] + 1 \in Rows("train")
    BY <2>1, SizeFacts DEF TrainInv, OrderOK, Order!IsPermutation, Order!Indexes
  <2> QED
    BY <2>2, SamplesOfSets DEF TrainInv, Sets
<1>2. data' = TrainingData /\ DataOK' /\ Len(data') = Trained
  <2>1. data' = TrainingData
    BY DEF StartTraining, TrainingData
  <2>2. TrainingData \in Seq(Sample) /\ Len(TrainingData) = Trained
    <3>1. TrainingData \in [1 .. Trained -> Sample]
      BY <1>1 DEF TrainingData
    <3>2. DOMAIN TrainingData = 1 .. Trained
      BY DEF TrainingData
    <3> HIDE DEF TrainingData
    <3> QED
      BY <3>1, <3>2, EpochFacts
  <2> QED
    BY <2>1, <2>2 DEF DataOK
<1>3. pc = "load" /\ batch = 0 /\ itr <= Epochs
  BY DEF TrainInv, PhaseOK, StartTraining
<1>4. SettingsOK' /\ NumbersOK' /\ NeuronsOK(idle[1], idle[2], idle[3])'
  BY DEF TrainInv, BackInv, StartTraining, SettingsOK, NumbersOK, Numbers, NeuronsOK,
         settings, neurons, gradients, moments
<1>5. PlaceOK' /\ OutOK'
  <2>1. Batch \in Nat /\ Batch >= 1 /\ Batch' = Batch
    BY BatchFacts DEF TrainInv, BackInv, StartTraining, Batch, settings
  <2>2. pc' = "load" /\ batch' = 0 /\ sample' = 1 /\ layer' = layer /\ layer \in 1 .. Last
    BY <1>3 DEF TrainInv, BackInv, PlaceOK, StartTraining
  <2> QED
    BY <1>2, <2>1, <2>2, EpochFacts DEF PlaceOK, OutOK
<1>6. OrderOK' /\ SetsOK'
  BY OrderStutters, SetsStutter DEF TrainInv, StartTraining
<1>7. PhaseOK'
  <2>1. TrainingData' = TrainingData
    BY DEF StartTraining, TrainingData, SampleOf, datasetVars, order
  <2> QED
    BY <1>2, <1>3, <2>1 DEF TrainInv, PhaseOK, StartTraining, settings
<1> QED
  BY <1>2, <1>4, <1>5, <1>6, <1>7 DEF TrainInv, BackInv

LEMMA TestStartKeeps == ASSUME TrainInv, StartTest
                        PROVE  TrainInv'
<1>1. data' = TestData /\ DataOK' /\ Len(data') = NTestSamples
  <2>1. data' = TestData
    BY DEF StartTest, TestData
  <2>2. TestData \in Seq(Sample) /\ Len(TestData) = NTestSamples
    <3>1. \A n \in 1 .. NTestSamples : SampleOf("test", n) \in Sample
      BY SamplesOfSets, EpochFacts DEF TrainInv, Sets
    <3>2. TestData = [n \in 1 .. NTestSamples |-> SampleOf("test", n)]
      BY EpochFacts DEF TestData
    <3>3. TestData \in [1 .. NTestSamples -> Sample]
      BY <3>1, <3>2
    <3>4. DOMAIN TestData = 1 .. NTestSamples
      BY <3>2
    <3> QED
      BY <3>3, <3>4, EpochFacts
  <2> QED
    BY <2>1, <2>2 DEF DataOK
<1>2. pc = "load" /\ batch = 0 /\ itr <= Epochs
  <2>1. pc = "load" /\ sample > Len(data) /\ sample \in 1 .. Len(data) + 1 /\ batch \in 0 .. Batch
    BY DEF TrainInv, BackInv, PlaceOK, StartTest, AllTaken
  <2>2. Len(data) \in Nat /\ Batch \in Nat
    BY DataFacts, BatchFacts DEF TrainInv, BackInv
  <2>3. batch > 0 => sample <= Len(data)
    BY <2>1 DEF TrainInv, BackInv, PlaceOK
  <2> QED
    BY <2>1, <2>2, <2>3 DEF TrainInv, PhaseOK, StartTest
<1>3. SettingsOK' /\ NeuronsOK(idle[1], idle[2], idle[3])'
  BY DEF TrainInv, BackInv, StartTest, SettingsOK, NeuronsOK, settings
<1>4. NumbersOK'
  <2>1. NeuronsOK(in, out, delta)'
    BY DEF TrainInv, BackInv, NumbersOK, StartTest, NeuronsOK, neurons
  <2> QED
    BY <2>1 DEF TrainInv, BackInv, StartTest, NumbersOK, Numbers, gradients, moments
<1>5. PlaceOK' /\ OutOK'
  <2>1. Batch \in Nat /\ Batch >= 1 /\ Batch' = Batch
    BY BatchFacts DEF TrainInv, BackInv, StartTest, Batch, settings
  <2>2. pc' = "load" /\ batch' = 0 /\ sample' = 1 /\ layer' = layer /\ layer \in 1 .. Last
    BY <1>2 DEF TrainInv, BackInv, PlaceOK, StartTest
  <2> QED
    BY <1>1, <2>1, <2>2, EpochFacts DEF PlaceOK, OutOK
<1>6. OrderOK' /\ SetsOK'
  BY OrderStutters, SetsStutter DEF TrainInv, StartTest
<1>7. PhaseOK'
  <2>1. TestData' = TestData
    BY DEF StartTest, TestData, SampleOf, datasetVars
  <2> QED
    BY <1>1, <1>2, <2>1 DEF TrainInv, PhaseOK, StartTest, settings
<1> QED
  BY <1>1, <1>3, <1>4, <1>5, <1>6, <1>7 DEF TrainInv, BackInv

\* A step of the loops of one process, in a phase that leaves the rest alone.
LEMMA LoopKeeps ==
    ASSUME TrainInv, UNCHANGED epochVars, UNCHANGED data, UNCHANGED settings,
           NumbersOK', PlaceOK', OutOK',
           phase \in {"train", "test"},
           phase = "test" => pc' \in {"load", "forward", "output"} /\ batch' = batch
    PROVE  TrainInv'
<1>1. SettingsOK' /\ DataOK' /\ NeuronsOK(idle[1], idle[2], idle[3])'
  BY DEF TrainInv, BackInv, epochVars, SettingsOK, DataOK, NeuronsOK, settings
<1>2. OrderOK' /\ SetsOK'
  BY OrderStutters, SetsStutter DEF TrainInv, epochVars
<1>3. PhaseOK'
  <2>1. TestData' = TestData /\ TrainingData' = TrainingData
    BY DEF epochVars, TestData, TrainingData, SampleOf, datasetVars, order
  <2> QED
    BY <2>1 DEF TrainInv, PhaseOK, epochVars, settings
<1> QED
  BY <1>1, <1>2, <1>3 DEF TrainInv, BackInv

LEMMA TrainStepsKeep == ASSUME TrainInv, TrainLoad \/ TrainOutput \/ TrainOther \/ TrainUpdate
                        PROVE  TrainInv'
<1>1. BackInv /\ phase = "train" /\ UNCHANGED epochVars
  BY DEF TrainInv, TrainLoad, TrainOutput, TrainOther, TrainUpdate
<1>2. CASE Load
  BY <1>1, <1>2, LoadKeeps, LoopKeeps DEF Load
<1>3. CASE Forward
  BY <1>1, <1>3, ForwardKeeps, LoopKeeps DEF Forward
<1>4. CASE OutputDelta
  BY <1>1, <1>4, OutputDeltaKeeps, LoopKeeps DEF OutputDelta
<1>5. CASE HiddenDelta
  BY <1>1, <1>5, HiddenDeltaKeeps, LoopKeeps DEF HiddenDelta
<1>6. CASE Accumulate
  BY <1>1, <1>6, AccumulateKeeps, LoopKeeps DEF Accumulate
<1>7. CASE Update
  <2>1. CorrectionOK
    BY <1>1, EpochFacts, CorrectionIsOK DEF TrainInv, BackInv, PhaseOK
  <2> QED
    BY <1>1, <1>7, <2>1, UpdateKeeps, LoopKeeps DEF Update
<1> QED
  BY <1>2, <1>3, <1>4, <1>5, <1>6, <1>7 DEF TrainLoad, TrainOutput, TrainOther, TrainUpdate

LEMMA TestStepsKeep == ASSUME TrainInv, TestStep \/ TestCount
                       PROVE  TrainInv'
<1>1. BackInv /\ phase = "test" /\ UNCHANGED epochVars
  BY DEF TrainInv, TestStep, TestCount
<1>2. CASE Load
  BY <1>1, <1>2, LoadKeeps, LoopKeeps DEF Load
<1>3. CASE Forward
  BY <1>1, <1>3, ForwardKeeps, LoopKeeps DEF Forward
<1>4. CASE TestCount
  <2>1. UNCHANGED <<data, settings, batch>> /\ pc' = "load"
    BY <1>4 DEF TestCount
  <2>2. NumbersOK' /\ OutOK'
    BY <1>1, <1>4 DEF BackInv, TestCount, NumbersOK, Numbers, NeuronsOK, OutOK, neurons, gradients, moments
  <2>3. PlaceOK'
    <3>1. Batch' = Batch /\ sample' = sample + 1 /\ layer' = layer
      BY <1>4 DEF TestCount, Batch, settings
    <3>2. Len(data) \in Nat /\ Batch \in Nat /\ Batch >= 1 /\ batch = 0 /\ pc = "output"
      BY <1>1, <1>4, DataFacts, BatchFacts DEF TrainInv, BackInv, PhaseOK, TestCount
    <3>3. sample \in 1 .. Len(data) /\ layer \in 1 .. Last
      BY <1>1, <3>2 DEF BackInv, PlaceOK
    <3> QED
      BY <2>1, <3>1, <3>2, <3>3 DEF PlaceOK
  <2> QED
    BY <1>1, <2>1, <2>2, <2>3, LoopKeeps
<1> QED
  BY <1>2, <1>3, <1>4 DEF TestStep

LEMMA EpochEndKeeps == ASSUME TrainInv, EndEpoch
                       PROVE  TrainInv'
<1>1. itr \in 1 .. Epochs /\ pc = "load" /\ batch = 0
  BY EpochFacts DEF TrainInv, PhaseOK, EndEpoch, AllTaken
<1>2. SettingsOK'
  <2>1. InitLR \in Int /\ Decay(itr) \in Int
    BY <1>1, TrainAssumption
  <2>2. InitLR * Decay(itr) \in Int
    BY <2>1
  <2>3. rate' \in Int
    BY <2>2, NumType DEF EndEpoch
  <2> QED
    BY <1>1, <2>3, EpochFacts DEF TrainInv, BackInv, SettingsOK, EndEpoch
<1>3. NumbersOK' /\ DataOK' /\ PlaceOK' /\ NeuronsOK(idle[1], idle[2], idle[3])'
  BY DEF TrainInv, BackInv, EndEpoch, NumbersOK, Numbers, NeuronsOK, DataOK, PlaceOK, Batch,
         neurons, gradients, moments
<1>4. OutOK' /\ PhaseOK'
  BY <1>1, EpochFacts DEF EndEpoch, OutOK, PhaseOK
<1>5. OrderOK' /\ SetsOK'
  BY OrderStutters, SetsStutter DEF TrainInv, EndEpoch
<1> QED
  BY <1>2, <1>3, <1>4, <1>5 DEF TrainInv, BackInv

LEMMA TrainInvKeeps == TrainInv /\ [TrainNext]_trainVars => TrainInv'
<1> SUFFICES ASSUME TrainInv, [TrainNext]_trainVars
             PROVE  TrainInv'
  OBVIOUS
<1>1. CASE UNCHANGED trainVars
  <2>1. BackInv' /\ OrderOK' /\ SetsOK' /\ NeuronsOK(idle[1], idle[2], idle[3])'
    BY <1>1, BackInvStutters, OrderStutters, SetsStutter DEF TrainInv, trainVars, NeuronsOK
  <2>2. PhaseOK'
    BY <1>1 DEF TrainInv, PhaseOK, TestData, TrainingData, SampleOf, trainVars, vars, settings,
                datasetVars, order
  <2> QED
    BY <2>1, <2>2 DEF TrainInv
<1>2. CASE TrainNext
  BY <1>2, ReadKeeps, EpochStartKeeps, ExchangeKeeps, TrainingStartKeeps, TestStartKeeps, EpochEndKeeps,
     TrainStepsKeep, TestStepsKeep DEF TrainNext
<1> QED
  BY <1>1, <1>2

-----------------------------------------------------------------------------
(* The metrics.                                                            *)

\* ErrorOf, of a given loss function.
ErrorTerms(ls, o, t) ==
    [j \in Neurons(Last) |-> IF ls = "mse" THEN (o[j] - t[j]) * (o[j] - t[j]) ELSE 0 - t[j] * Log(o[j])]
ErrorUnder(ls, o, t) == Sum(ErrorTerms(ls, o, t), Net[Last])

\* What the loss and the hits of the first k samples of d are, for the outputs outs.
LossOf(ls, outs, d, k) == Total([n \in 1 .. k |-> ErrorUnder(ls, outs[n], d[n].y)])
Hits(outs, d, k) == {n \in 1 .. k : Predicted(outs[n]) = d[n].label}

\* The samples that are counted so far, and the outputs they are counted with.
Counted ==
    IF phase = "test" THEN sample - 1
    ELSE IF build = "serial" THEN sample - 1 - batch
    ELSE IF pc \in {"hidden", "accumulate"} THEN sample ELSE sample - 1
Outs == IF phase = "train" THEN [n \in 1 .. Len(seen) |-> seen[n].out]
                           ELSE [n \in 1 .. Len(data) |-> RefOut(n)[Last]]

CountOK ==
    /\ loss_val = LossOf(loss, Outs, data, Counted)
    /\ correct = Cardinality(Hits(Outs, data, Counted))

Puts == [Neurons(Last) -> Values]
SeenOK ==
    /\ seen \in Seq([index : Int, out : Puts])
    /\ Len(seen) = IF pc \in {"load", "update"} THEN sample - 1 ELSE sample
    /\ \A n \in 1 .. Len(seen) : seen[n].index = arr[n - 1]
    /\ pc \in {"forward", "output", "hidden", "accumulate"} => seen[sample].out = RefOut(sample)[Last]
    /\ pc = "update" => seen[sample - 1].out = OutOfNet

MetricsInv ==
    /\ phase = "train" => SeenOK
    /\ IF phase \in {"train", "test"} THEN CountOK ELSE correct \in 0 .. Len(data)

LEMMA ErrorType ==
    ASSUME NEW ls, NEW o \in Puts, NEW t \in [Neurons(Last) -> Int]
    PROVE  ErrorUnder(ls, o, t) \in Int
<1>1. Last \in 1 .. Last
  BY NetFacts
<1> DEFINE f == ErrorTerms(ls, o, t)
<1>2. ASSUME NEW j \in Neurons(Last)
      PROVE  f[j] \in Int
  <2>1. o[j] \in Values /\ t[j] \in Int
    BY DEF Puts
  <2>2. o[j] \in Int /\ Log(o[j]) \in Int
    BY <2>1, NumOfValue, TrainAssumption
  <2>3. f[j] = IF ls = "mse" THEN (o[j] - t[j]) * (o[j] - t[j]) ELSE 0 - t[j] * Log(o[j])
    BY DEF ErrorTerms
  <2> HIDE DEF f
  <2> DEFINE m == o[j]
             n == t[j]
             k == Log(o[j])
  <2>4. m \in Int /\ n \in Int /\ k \in Int /\ f[j] = IF ls = "mse" THEN (m - n) * (m - n) ELSE 0 - n * k
    BY <2>1, <2>2, <2>3
  <2> HIDE DEF m, n, k
  <2>5. (m - n) * (m - n) \in Int /\ 0 - n * k \in Int
    BY <2>4
  <2> QED
    BY <2>4, <2>5
<1> HIDE DEF f
<1>3. Sum(f, Net[Last]) \in Int
  BY <1>1, <1>2, LayerSum
<1> QED
  BY <1>3 DEF ErrorUnder, f

\* What the first k samples count for depends on the first k outputs only.
LEMMA CountAgrees ==
    ASSUME NEW ls, NEW f, NEW g, NEW d, NEW k \in Nat, \A n \in 1 .. k : f[n] = g[n]
    PROVE  LossOf(ls, f, d, k) = LossOf(ls, g, d, k) /\ Hits(f, d, k) = Hits(g, d, k)
<1>1. [n \in 1 .. k |-> ErrorUnder(ls, f[n], d[n].y)] = [n \in 1 .. k |-> ErrorUnder(ls, g[n], d[n].y)]
  OBVIOUS
<1>2. LossOf(ls, f, d, k) = LossOf(ls, g, d, k)
  BY <1>1, Zenon DEF LossOf
<1>3. \A n \in 1 .. k : Predicted(f[n]) = Predicted(g[n])
  OBVIOUS
<1>4. Hits(f, d, k) = Hits(g, d, k)
  BY <1>3 DEF Hits
<1> QED
  BY <1>2, <1>4

LEMMA HitsFacts == ASSUME NEW f, NEW d, NEW k \in Nat
                   PROVE  /\ IsFiniteSet(Hits(f, d, k)) /\ Cardinality(Hits(f, d, k)) \in 0 .. k
                          /\ Hits(f, d, 0) = {}
<1>1. IsFiniteSet(1 .. k) /\ Cardinality(1 .. k) = k
  BY FS_Interval
<1>2. Hits(f, d, k) \subseteq 1 .. k
  BY DEF Hits
<1>3. IsFiniteSet(Hits(f, d, k)) /\ Cardinality(Hits(f, d, k)) <= k
  BY <1>1, <1>2, FS_Subset
<1>4. Cardinality(Hits(f, d, k)) \in Nat
  BY <1>3, FS_CardinalityType
<1>5. Hits(f, d, 0) = {}
  BY DEF Hits
<1> QED
  BY <1>3, <1>4, <1>5

\* One more sample.
LEMMA CountOneMore ==
    ASSUME NEW ls, NEW f, NEW d, NEW k \in Nat,
           \A n \in 1 .. k + 1 : f[n] \in Puts /\ d[n].y \in [Neurons(Last) -> Int]
    PROVE  /\ LossOf(ls, f, d, k + 1) = LossOf(ls, f, d, k) + ErrorUnder(ls, f[k + 1], d[k + 1].y)
           /\ Cardinality(Hits(f, d, k + 1)) =
                  Cardinality(Hits(f, d, k)) + IF Predicted(f[k + 1]) = d[k + 1].label THEN 1 ELSE 0
<1> DEFINE g == [n \in 1 .. k + 1 |-> ErrorUnder(ls, f[n], d[n].y)]
<1>1. \A n \in 1 .. k + 1 : g[n] \in Int
  BY ErrorType
<1>2. IsFiniteSet(1 .. k + 1) /\ k + 1 \in 1 .. k + 1 /\ (1 .. k + 1) \ {k + 1} = 1 .. k
  BY FS_Interval
<1>3. /\ LossOf(ls, f, d, k + 1) = Over(g, 1 .. k + 1)
      /\ LossOf(ls, f, d, k) = Over(g, 1 .. k)
      /\ g[k + 1] = ErrorUnder(ls, f[k + 1], d[k + 1].y)
  <2>1. [n \in 1 .. k + 1 |-> ErrorUnder(ls, f[n], d[n].y)] = [n \in 1 .. k + 1 |-> g[n]]
    OBVIOUS
  <2>2. [n \in 1 .. k |-> ErrorUnder(ls, f[n], d[n].y)] = [n \in 1 .. k |-> g[n]]
    OBVIOUS
  <2>3. LossOf(ls, f, d, k + 1) = Over(g, 1 .. k + 1)
    BY <2>1, Zenon DEF LossOf, Over
  <2>4. LossOf(ls, f, d, k) = Over(g, 1 .. k)
    BY <2>2, Zenon DEF LossOf, Over
  <2> QED
    BY <1>2, <2>3, <2>4
<1> HIDE DEF g
<1>4. Over(g, 1 .. k + 1) = g[k + 1] + Over(g, 1 .. k)
  <2> DEFINE S == 1 .. k + 1
             m == k + 1
  <2>1. IsFiniteSet(S) /\ m \in S /\ \A n \in S : g[n] \in Int
    BY <1>1, <1>2
  <2>2. S \ {m} = 1 .. k
    BY <1>2
  <2> HIDE DEF S, m
  <2>3. Over(g, S) = g[m] + Over(g, S \ {m})
    BY <2>1, OverFacts
  <2>4. Over(g, S) = g[m] + Over(g, 1 .. k)
    BY <2>2, <2>3
  <2> QED
    BY <2>4 DEF S, m
<1>5. g[k + 1] \in Int /\ Over(g, 1 .. k) \in Int
  <2>1. IsFiniteSet(1 .. k)
    BY FS_Interval
  <2>2. \A n \in 1 .. k : g[n] \in Int
    BY <1>1
  <2>3. Over(g, 1 .. k) \in Int
    BY <2>1, <2>2, OverFacts
  <2> QED
    BY <1>1, <1>2, <2>3
<1>6. Cardinality(Hits(f, d, k + 1)) =
          Cardinality(Hits(f, d, k)) + IF Predicted(f[k + 1]) = d[k + 1].label THEN 1 ELSE 0
  <2>1. IsFiniteSet(Hits(f, d, k)) /\ Cardinality(Hits(f, d, k)) \in Nat
    BY HitsFacts
  <2>4. k + 1 \notin Hits(f, d, k) /\ \A n \in 1 .. k + 1 : n \in 1 .. k \/ n = k + 1
    BY DEF Hits
  <2>2. CASE Predicted(f[k + 1]) = d[k + 1].label
    <3>1. Hits(f, d, k + 1) = Hits(f, d, k) \cup {k + 1}
      BY <2>2, <2>4 DEF Hits
    <3> QED
      BY <2>1, <2>2, <2>4, <3>1, FS_AddElement
  <2>3. CASE Predicted(f[k + 1]) # d[k + 1].label
    <3>1. Hits(f, d, k + 1) = Hits(f, d, k)
      BY <2>3, <2>4 DEF Hits
    <3> QED
      BY <2>1, <2>3, <3>1
  <2> QED
    BY <2>2, <2>3
<1> QED
  BY <1>3, <1>4, <1>5, <1>6

LEMMA CountStays ==
    ASSUME CountOK, Counted \in Nat, Counted' = Counted, UNCHANGED <<loss, data, tally>>,
           \A n \in 1 .. Counted : Outs'[n] = Outs[n]
    PROVE  CountOK'
<1> DEFINE k == Counted
           f == Outs
           g == Outs'
           ls == loss
           d == data
<1>1. LossOf(ls, g, d, k) = LossOf(ls, f, d, k) /\ Hits(g, d, k) = Hits(f, d, k)
  <2>1. k \in Nat /\ \A n \in 1 .. k : g[n] = f[n]
    OBVIOUS
  <2> HIDE DEF k, f, g, ls, d
  <2> QED
    BY <2>1, CountAgrees
<1>2. loss_val' = loss_val /\ correct' = correct
  BY DEF tally
<1> QED
  BY <1>1, <1>2 DEF CountOK

LEMMA CountGrows ==
    ASSUME CountOK, Counted \in Nat, Counted' = Counted + 1, UNCHANGED <<loss, data>>, DataOK,
           Counted + 1 \in 1 .. Len(data), Tally(Counted + 1),
           \A n \in 1 .. Counted : Outs'[n] = Outs[n], Outs'[Counted + 1] = OutOfNet,
           \A n \in 1 .. Counted + 1 : Outs'[n] \in Puts
    PROVE  CountOK'
<1> DEFINE k == Counted
           f == Outs
           g == Outs'
           ls == loss
           d == data
<1>1. /\ loss_val' = loss_val + ErrorUnder(ls, g[k + 1], d[k + 1].y)
      /\ correct' = correct + IF Predicted(g[k + 1]) = d[k + 1].label THEN 1 ELSE 0
  BY DEF Tally, ErrorOf, ErrorUnder, ErrorTerms
<1>2. k \in Nat /\ (\A n \in 1 .. k : g[n] = f[n]) /\ \A n \in 1 .. k + 1 : g[n] \in Puts
  OBVIOUS
<1>3. \A n \in 1 .. k + 1 : d[n].y \in [Neurons(Last) -> Int]
  BY DataFacts
<1>4. loss_val = LossOf(ls, f, d, k) /\ correct = Cardinality(Hits(f, d, k))
  BY DEF CountOK
<1>5. Counted' = k + 1 /\ Outs' = g /\ loss' = ls /\ data' = d
  OBVIOUS
<1> HIDE DEF k, f, g, ls, d
<1>6. LossOf(ls, g, d, k) = LossOf(ls, f, d, k) /\ Hits(g, d, k) = Hits(f, d, k)
  BY <1>2, CountAgrees
<1>7. /\ LossOf(ls, g, d, k + 1) = LossOf(ls, g, d, k) + ErrorUnder(ls, g[k + 1], d[k + 1].y)
      /\ Cardinality(Hits(g, d, k + 1)) =
             Cardinality(Hits(g, d, k)) + IF Predicted(g[k + 1]) = d[k + 1].label THEN 1 ELSE 0
  <2>1. \A n \in 1 .. k + 1 : g[n] \in Puts /\ d[n].y \in [Neurons(Last) -> Int]
    BY <1>2, <1>3
  <2>2. k \in Nat
    BY <1>2
  <2>3. LossOf(ls, g, d, k + 1) = LossOf(ls, g, d, k) + ErrorUnder(ls, g[k + 1], d[k + 1].y)
    BY <2>1, <2>2, CountOneMore
  <2>4. Cardinality(Hits(g, d, k + 1)) =
             Cardinality(Hits(g, d, k)) + IF Predicted(g[k + 1]) = d[k + 1].label THEN 1 ELSE 0
    BY <2>1, <2>2, CountOneMore
  <2> QED
    BY <2>3, <2>4
<1>8. loss_val' = LossOf(ls, g, d, k + 1) /\ correct' = Cardinality(Hits(g, d, k + 1))
  BY <1>1, <1>4, <1>6, <1>7
<1> QED
  BY <1>5, <1>8 DEF CountOK

LEMMA NothingCounted == ASSUME NEW ls, NEW f, NEW d
                        PROVE  LossOf(ls, f, d, 0) = 0 /\ Cardinality(Hits(f, d, 0)) = 0
<1> DEFINE g == [n \in 1 .. 0 |-> ErrorUnder(ls, f[n], d[n].y)]
<1>1. IsFiniteSet(1 .. 0) /\ 1 .. 0 = {} /\ \A n \in 1 .. 0 : g[n] \in Int
  BY FS_EmptySet
<1>2. g \in [1 .. 0 -> Int]
  BY <1>1
<1> HIDE DEF g
<1>3. Total(g) = Over(g, 1 .. 0)
  BY <1>2, OverAll
<1>4. Over(g, 1 .. 0) = 0
  BY <1>1, OverFacts
<1>5. LossOf(ls, f, d, 0) = 0
  BY <1>3, <1>4 DEF LossOf, g
<1>6. Cardinality(Hits(f, d, 0)) = 0
  BY HitsFacts, FS_EmptySet
<1> QED
  BY <1>5, <1>6

\* The counted samples are some that have been loaded.
LEMMA CountedFacts ==
    ASSUME TrainInv, phase \in {"train", "test"}
    PROVE  /\ Counted \in Nat /\ Counted <= Len(data)
           /\ phase = "train" /\ SeenOK => Counted <= Len(seen)
<1>1. /\ sample \in 1 .. Len(data) + 1 /\ Len(data) \in Nat /\ batch \in Nat /\ batch < sample
      /\ pc \in {"hidden", "accumulate"} => sample <= Len(data)
  BY DataFacts, BatchFacts DEF TrainInv, BackInv, PlaceOK
<1>2. Counted \in Nat /\ Counted <= Len(data)
  BY <1>1 DEF Counted
<1>3. ASSUME phase = "train", SeenOK
      PROVE  Counted <= Len(seen)
  <2>1. Len(seen) = IF pc \in {"load", "update"} THEN sample - 1 ELSE sample
    BY <1>3 DEF SeenOK
  <2> QED
    BY <1>1, <1>3, <2>1 DEF Counted
<1> QED
  BY <1>2, <1>3

\* The network puts out what the function does, once it is through.
LEMMA OutOfNetIsRef ==
    ASSUME TrainInv, pc \in {"output", "hidden", "accumulate"}
    PROVE  sample \in 1 .. Len(data) /\ OutOfNet = RefOut(sample)[Last] /\ OutOfNet \in Puts
<1>1. sample \in 1 .. Len(data)
  BY DataFacts DEF TrainInv, BackInv, PlaceOK
<1>2. Last \in 2 .. Last /\ Last \in 1 .. Last
  BY NetFacts
<1>3. RefOut(sample)[Last] \in [Neurons(Last) -> Values]
  BY <1>1, <1>2, RefOutFacts DEF TrainInv, BackInv, NumbersOK
<1>4. \A j \in Neurons(Last) : out[<<Last, j>>] = RefOut(sample)[Last][j]
  BY <1>2, NeuronFacts DEF TrainInv, BackInv, OutOK
<1>5. OutOfNet = RefOut(sample)[Last]
  <2> DEFINE f == RefOut(sample)[Last]
  <2> HIDE DEF f
  <2>1. f \in [Neurons(Last) -> Values] /\ \A j \in Neurons(Last) : out[<<Last, j>>] = f[j]
    BY <1>3, <1>4 DEF f
  <2>2. OutOfNet = f
    BY <2>1 DEF OutOfNet
  <2> QED
    BY <2>2 DEF f
<1> QED
  BY <1>1, <1>3, <1>5 DEF Puts

\* Outside of training and testing the metrics are those of the last epoch.
LEMMA QuietKeeps ==
    ASSUME TrainInv, MetricsInv, phase \notin {"train", "test"}, phase' \notin {"train", "test"},
           UNCHANGED <<correct, data>>
    PROVE  MetricsInv'
  BY DEF MetricsInv

LEMMA MetricsStart == TrainInit => MetricsInv
  BY DEF TrainInit, MetricsInv

LEMMA TrainingStartCounts == ASSUME TrainInv, StartTraining
                             PROVE  MetricsInv'
<1>1. pc' = "load" /\ batch' = 0 /\ sample' = 1 /\ phase' = "train" /\ seen' = <<>>
  BY DEF TrainInv, PhaseOK, StartTraining
<1>2. Counted' = 0
  BY <1>1 DEF Counted
<1>3. SeenOK'
  BY <1>1 DEF SeenOK
<1>4. loss_val' = 0 /\ correct' = 0
  BY DEF StartTraining
<1>5. CountOK'
  BY <1>2, <1>4, NothingCounted DEF CountOK
<1> QED
  BY <1>1, <1>3, <1>5 DEF MetricsInv

LEMMA TestStartCounts == ASSUME TrainInv, StartTest
                         PROVE  MetricsInv'
<1>1. sample' = 1 /\ phase' = "test" /\ loss_val' = 0 /\ correct' = 0
  BY DEF StartTest
<1>2. Counted' = 0
  BY <1>1 DEF Counted
<1>3. CountOK'
  BY <1>1, <1>2, NothingCounted DEF CountOK
<1> QED
  BY <1>1, <1>3 DEF MetricsInv

\* With the weights and the samples, the function stays what it is.
LEMMA RefOutStays == ASSUME UNCHANGED <<w, b, data>>
                     PROVE  \A s : RefOut(s)' = RefOut(s)
  BY DEF RefOut

LEMMA SeenFacts ==
    ASSUME TrainInv, SeenOK, phase = "train"
    PROVE  /\ Len(seen) \in Nat
           /\ \A n \in 1 .. Len(seen) : Outs[n] = seen[n].out /\ seen[n].out \in Puts
<1> DEFINE Entry == [index : Int, out : Puts]
<1>1. Len(seen) \in Nat /\ \A n \in 1 .. Len(seen) : seen[n] \in Entry
  <2>1. seen \in Seq(Entry)
    BY DEF SeenOK
  <2> HIDE DEF Entry
  <2> QED
    BY <2>1
<1> QED
  BY <1>1 DEF Outs

LEMMA TrainLoadCounts == ASSUME TrainInv, MetricsInv, TrainLoad
                         PROVE  MetricsInv'
<1>1. phase = "train" /\ phase' = "train" /\ SeenOK /\ CountOK /\ pc = "load" /\ pc' = "forward"
  BY DEF MetricsInv, TrainLoad, Load, epochVars
<1>2. /\ sample \in 1 .. Len(data) /\ Len(data) \in Nat /\ Len(seen) = sample - 1 /\ Len(seen) \in Nat
      /\ UNCHANGED <<w, b, data, settings, sample, batch, arr, tally>>
  BY <1>1, DataFacts, SeenFacts DEF TrainInv, BackInv, TrainLoad, Load, SeenOK, PlaceOK, epochVars, order
<1> DEFINE e == [index |-> arr[sample - 1], out |-> RefOut(sample)[Last]]
<1>3. e.index \in Int /\ e.out \in Puts /\ e \in [index : Int, out : Puts]
  <2>1. data = TrainingData /\ Len(data) = Trained
    <3>1. data = TrainingData
      BY <1>1 DEF TrainInv, PhaseOK
    <3>2. DOMAIN TrainingData = 1 .. Trained
      BY DEF TrainingData
    <3>3. DOMAIN data = 1 .. Len(data)
      BY DEF TrainInv, BackInv, DataOK
    <3>4. 1 .. Len(data) = 1 .. Trained
      BY <3>1, <3>2, <3>3
    <3> QED
      BY <1>2, <3>1, <3>4, EpochFacts
  <2>2. sample - 1 \in Order!Indexes
    BY <1>2, <2>1, EpochFacts, SizeFacts DEF Order!Indexes
  <2>3. arr[sample - 1] \in Int
    BY <2>2, SizeFacts DEF TrainInv, OrderOK, Order!IsPermutation, Order!Indexes
  <2>4. Last \in 2 .. Last
    BY NetFacts
  <2>5. RefOut(sample)[Last] \in Puts
    BY <1>2, <2>4, RefOutFacts DEF TrainInv, BackInv, NumbersOK, Puts
  <2> QED
    BY <2>3, <2>5
<1>4. seen' = Append(seen, e)
  BY DEF TrainLoad
<1>5. seen \in Seq([index : Int, out : Puts])
  BY <1>1 DEF SeenOK
<1> HIDE DEF e
<1>6. /\ seen' \in Seq([index : Int, out : Puts]) /\ Len(seen') = sample /\ seen'[sample] = e
      /\ \A n \in 1 .. sample - 1 : seen'[n] = seen[n]
  BY <1>2, <1>3, <1>4, <1>5
<1>7. SeenOK'
  <2>1. \A n \in 1 .. sample : seen'[n].index = arr[n - 1]
    <3>1. \A n \in 1 .. sample - 1 : seen'[n].index = arr[n - 1]
      BY <1>1, <1>2, <1>6 DEF SeenOK
    <3>2. seen'[sample].index = arr[sample - 1]
      BY <1>6 DEF e
    <3> QED
      BY <1>2, <3>1, <3>2
  <2>2. seen'[sample].out = RefOut(sample)'[Last]
    BY <1>2, <1>6, RefOutStays DEF e
  <2> QED
    BY <1>1, <1>2, <1>6, <2>1, <2>2 DEF SeenOK
<1>8. CountOK'
  <2>1. Counted' = Counted /\ loss' = loss
    BY <1>1, <1>2 DEF Counted, settings
  <2>2. Counted \in Nat /\ Counted <= Len(seen)
    BY <1>1, CountedFacts
  <2>3. \A n \in 1 .. Counted : n \in 1 .. sample - 1 /\ n \in 1 .. Len(seen')
    BY <1>2, <1>6, <2>2
  <2>4. \A n \in 1 .. Counted : Outs'[n] = Outs[n]
    BY <1>1, <1>2, <1>6, <2>3 DEF Outs
  <2> QED
    BY <1>1, <1>2, <2>1, <2>2, <2>4, CountStays
<1> QED
  BY <1>1, <1>7, <1>8 DEF MetricsInv

LEMMA TrainOutputCounts == ASSUME TrainInv, MetricsInv, TrainOutput
                           PROVE  MetricsInv'
<1>1. phase = "train" /\ phase' = "train" /\ SeenOK /\ CountOK /\ pc = "output" /\ pc' = "hidden"
  BY DEF MetricsInv, TrainOutput, OutputDelta, epochVars
<1>2. UNCHANGED <<w, b, data, settings, sample, batch, arr, seen, out>>
  BY DEF TrainOutput, OutputDelta, epochVars, order, history
<1>3. /\ sample \in 1 .. Len(data) /\ OutOfNet = RefOut(sample)[Last] /\ OutOfNet \in Puts
      /\ Len(data) \in Nat /\ Len(seen) = sample /\ seen[sample].out = RefOut(sample)[Last]
  BY <1>1, OutOfNetIsRef, DataFacts DEF TrainInv, BackInv, SeenOK
<1>4. SeenOK'
  BY <1>1, <1>2, <1>3, RefOutStays DEF SeenOK
<1>5. \A n \in 1 .. sample : Outs[n] = seen[n].out /\ Outs'[n] = Outs[n] /\ Outs[n] \in Puts
  <2>1. \A n \in 1 .. sample : Outs[n] = seen[n].out /\ Outs[n] \in Puts
    BY <1>1, <1>3, SeenFacts
  <2>2. \A n \in 1 .. sample : Outs'[n] = seen[n].out
    BY <1>1, <1>2, <1>3 DEF Outs
  <2> QED
    BY <2>1, <2>2
<1>6. Counted \in Nat /\ Counted <= sample /\ DataOK
  BY <1>1, <1>3, CountedFacts DEF TrainInv, BackInv
<1>7. CASE build = "numa"
  <2>1. Counted = sample - 1 /\ Counted' = Counted + 1 /\ Tally(Counted + 1) /\ Counted + 1 = sample
    BY <1>1, <1>2, <1>3, <1>7 DEF Counted, TrainOutput, settings
  <2>2. /\ \A n \in 1 .. Counted : Outs'[n] = Outs[n]
        /\ Outs'[Counted + 1] = OutOfNet
        /\ \A n \in 1 .. Counted + 1 : Outs'[n] \in Puts
        /\ Counted + 1 \in 1 .. Len(data)
    BY <1>3, <1>5, <2>1
  <2>3. CountOK'
    BY <1>1, <1>2, <1>6, <2>1, <2>2, CountGrows DEF settings
  <2> QED
    BY <1>1, <1>4, <2>3 DEF MetricsInv
<1>8. CASE build # "numa"
  <2>1. build = "serial"
    BY <1>8, BackpropAssumption DEF TrainInv, BackInv, SettingsOK
  <2>2. Counted' = Counted /\ UNCHANGED tally
    BY <1>1, <1>2, <2>1 DEF Counted, TrainOutput, settings
  <2>3. \A n \in 1 .. Counted : Outs'[n] = Outs[n]
    BY <1>3, <1>5, <1>6
  <2>4. CountOK'
    BY <1>1, <1>2, <1>6, <2>2, <2>3, CountStays DEF settings
  <2> QED
    BY <1>1, <1>4, <2>4 DEF MetricsInv
<1> QED
  BY <1>7, <1>8

LEMMA TrainUpdateCounts == ASSUME TrainInv, MetricsInv, TrainUpdate
                           PROVE  MetricsInv'
<1>1. phase = "train" /\ phase' = "train" /\ SeenOK /\ CountOK /\ pc = "update" /\ pc' = "load" /\ batch' = 0
  BY DEF MetricsInv, TrainUpdate, Update, epochVars
<1>2. UNCHANGED <<data, settings, sample, arr, seen, out>>
  BY DEF TrainUpdate, Update, epochVars, order, neurons
<1>3. /\ sample \in 2 .. Len(data) + 1 /\ Len(data) \in Nat /\ Len(seen) = sample - 1
      /\ seen[sample - 1].out = OutOfNet /\ batch >= 1 /\ batch \in Nat
  BY <1>1, DataFacts, BatchFacts DEF TrainInv, BackInv, SeenOK, PlaceOK
<1>4. SeenOK'
  BY <1>1, <1>2, <1>3 DEF SeenOK
<1>5. \A n \in 1 .. sample - 1 : Outs[n] = seen[n].out /\ Outs'[n] = Outs[n] /\ Outs[n] \in Puts
  <2>1. \A n \in 1 .. sample - 1 : Outs[n] = seen[n].out /\ Outs[n] \in Puts
    BY <1>1, <1>3, SeenFacts
  <2>2. \A n \in 1 .. sample - 1 : Outs'[n] = seen[n].out
    BY <1>1, <1>2, <1>3 DEF Outs
  <2> QED
    BY <2>1, <2>2
<1>6. Counted \in Nat /\ Counted <= sample - 1 /\ DataOK
  BY <1>1, <1>3, CountedFacts DEF TrainInv, BackInv
<1>7. CASE build = "serial"
  <2>1. batch = 1
    BY <1>3, <1>7 DEF TrainInv, BackInv, PlaceOK, Batch
  <2>2. Counted = sample - 2 /\ Counted' = Counted + 1 /\ Tally(Counted + 1) /\ Counted + 1 = sample - 1
    <3>1. Counted = sample - 2
      BY <1>1, <1>3, <1>7, <2>1 DEF Counted
    <3>2. Counted' = sample - 1
      BY <1>1, <1>2, <1>3, <1>7 DEF Counted, settings
    <3>3. Tally(sample - 1)
      BY <1>7 DEF TrainUpdate
    <3>4. Counted + 1 = sample - 1
      BY <1>3, <3>1
    <3> QED
      BY <3>1, <3>2, <3>3, <3>4
  <2>3. /\ \A n \in 1 .. Counted : Outs'[n] = Outs[n]
        /\ Outs'[Counted + 1] = OutOfNet
        /\ \A n \in 1 .. Counted + 1 : Outs'[n] \in Puts
        /\ Counted + 1 \in 1 .. Len(data)
    BY <1>3, <1>5, <2>2
  <2>4. CountOK'
    BY <1>1, <1>2, <1>6, <2>2, <2>3, CountGrows DEF settings
  <2> QED
    BY <1>1, <1>4, <2>4 DEF MetricsInv
<1>8. CASE build # "serial"
  <2>1. Counted' = Counted /\ UNCHANGED tally
    BY <1>1, <1>2, <1>8 DEF Counted, TrainUpdate, settings
  <2>2. \A n \in 1 .. Counted : Outs'[n] = Outs[n]
    BY <1>3, <1>5, <1>6
  <2>3. CountOK'
    BY <1>1, <1>2, <1>6, <2>1, <2>2, CountStays DEF settings
  <2> QED
    BY <1>1, <1>4, <2>3 DEF MetricsInv
<1> QED
  BY <1>7, <1>8

LEMMA TrainOtherCounts == ASSUME TrainInv, MetricsInv, TrainOther
                          PROVE  MetricsInv'
<1>1. /\ phase = "train" /\ phase' = "train" /\ SeenOK /\ CountOK
      /\ pc \in {"forward", "hidden", "accumulate"}
  BY DEF MetricsInv, TrainOther, Forward, HiddenDelta, Accumulate, epochVars
<1>2. UNCHANGED <<w, b, data, settings, arr, seen, tally>>
  BY DEF TrainOther, Forward, HiddenDelta, Accumulate, epochVars, order, history
<1>3. /\ sample \in 1 .. Len(data) /\ Len(data) \in Nat /\ Len(seen) = sample
      /\ seen[sample].out = RefOut(sample)[Last] /\ batch \in Nat /\ batch < sample
  BY <1>1, DataFacts, BatchFacts DEF TrainInv, BackInv, SeenOK, PlaceOK
<1>4. Counted \in Nat /\ Counted <= sample
  BY <1>1, <1>3, CountedFacts
<1>5. \A n \in 1 .. Counted : Outs'[n] = Outs[n]
  BY <1>1, <1>2, <1>3, <1>4 DEF Outs
<1>6. CASE Forward \/ HiddenDelta
  <2>1. /\ sample' = sample /\ batch' = batch
        /\ pc' \in {"forward", "output", "hidden", "accumulate"}
        /\ pc \in {"hidden", "accumulate"} <=> pc' \in {"hidden", "accumulate"}
    BY <1>6 DEF Forward, HiddenDelta
  <2>2. SeenOK'
    BY <1>1, <1>2, <1>3, <2>1, RefOutStays DEF SeenOK
  <2>3. Counted' = Counted
    BY <1>1, <1>2, <2>1 DEF Counted, settings
  <2>4. CountOK'
    BY <1>1, <1>2, <1>4, <1>5, <2>3, CountStays DEF settings
  <2> QED
    BY <1>1, <2>2, <2>4 DEF MetricsInv
<1>7. CASE Accumulate
  <2>1. pc = "accumulate" /\ sample' = sample + 1 /\ batch' = batch + 1 /\ pc' \in {"update", "load"} /\ out' = out
    BY <1>7 DEF Accumulate, neurons
  <2>2. OutOfNet = RefOut(sample)[Last]
    BY <2>1, OutOfNetIsRef
  <2>3. OutOfNet' = OutOfNet
    BY <2>1 DEF OutOfNet
  <2>4. SeenOK'
    <3>1. sample' - 1 = sample
      BY <1>3, <2>1
    <3> QED
      BY <1>1, <1>2, <1>3, <2>1, <2>2, <2>3, <3>1 DEF SeenOK
  <2>5. Counted' = Counted
    BY <1>1, <1>2, <1>3, <2>1 DEF Counted, settings
  <2>6. CountOK'
    BY <1>1, <1>2, <1>4, <1>5, <2>5, CountStays DEF settings
  <2> QED
    BY <1>1, <2>4, <2>6 DEF MetricsInv
<1> QED
  BY <1>6, <1>7 DEF TrainOther

LEMMA TestCounts == ASSUME TrainInv, MetricsInv, TestStep \/ TestCount
                    PROVE  MetricsInv'
<1>1. phase = "test" /\ phase' = "test" /\ CountOK
  BY DEF MetricsInv, TestStep, TestCount, epochVars
<1>2. UNCHANGED <<w, b, data, settings>>
  BY DEF TestStep, TestCount, Load, Forward
<1>3. Counted \in Nat /\ Counted <= Len(data) /\ Len(data) \in Nat /\ Counted = sample - 1
  BY <1>1, CountedFacts, DataFacts DEF TrainInv, BackInv, Counted
<1>4. \A n \in 1 .. Len(data) : Outs'[n] = Outs[n] /\ Outs[n] = RefOut(n)[Last] /\ Outs[n] \in Puts
  <2>1. Last \in 2 .. Last
    BY NetFacts
  <2>2. \A n \in 1 .. Len(data) : RefOut(n)[Last] \in Puts
    BY <2>1, RefOutFacts DEF TrainInv, BackInv, NumbersOK, Puts
  <2>3. \A n \in 1 .. Len(data) : Outs[n] = RefOut(n)[Last]
    BY <1>1 DEF Outs
  <2>4. \A n \in 1 .. Len(data) : Outs'[n] = RefOut(n)'[Last]
    BY <1>1, <1>2 DEF Outs
  <2>5. \A n \in 1 .. Len(data) : RefOut(n)' = RefOut(n)
    BY <1>2, RefOutStays
  <2> QED
    BY <2>2, <2>3, <2>4, <2>5
<1>5. CASE TestStep
  <2>1. sample' = sample /\ UNCHANGED tally
    BY <1>5 DEF TestStep, Load, Forward
  <2>2. Counted' = Counted
    BY <1>1, <2>1 DEF Counted
  <2>3. \A n \in 1 .. Counted : Outs'[n] = Outs[n]
    BY <1>3, <1>4
  <2>4. CountOK'
    BY <1>1, <1>2, <1>3, <2>1, <2>2, <2>3, CountStays DEF settings
  <2> QED
    BY <1>1, <2>4 DEF MetricsInv
<1>6. CASE TestCount
  <2>1. sample' = sample + 1 /\ Tally(sample) /\ pc = "output"
    BY <1>6 DEF TestCount
  <2>2. sample \in 1 .. Len(data) /\ OutOfNet = RefOut(sample)[Last]
    BY <2>1, OutOfNetIsRef
  <2>3. Counted + 1 = sample /\ Counted' = Counted + 1
    BY <1>1, <1>3, <2>1, <2>2 DEF Counted
  <2>4. /\ \A n \in 1 .. Counted : Outs'[n] = Outs[n]
        /\ Outs'[Counted + 1] = OutOfNet
        /\ \A n \in 1 .. Counted + 1 : Outs'[n] \in Puts
        /\ Counted + 1 \in 1 .. Len(data) /\ Tally(Counted + 1)
    BY <1>3, <1>4, <2>1, <2>2, <2>3
  <2>5. CountOK'
    BY <1>1, <1>2, <1>3, <2>3, <2>4, CountGrows DEF TrainInv, BackInv, settings
  <2> QED
    BY <1>1, <2>5 DEF MetricsInv
<1> QED
  BY <1>5, <1>6

LEMMA EpochEndCounts == ASSUME TrainInv, MetricsInv, EndEpoch
                        PROVE  MetricsInv'
<1>1. phase = "test" /\ phase' = "epoch" /\ CountOK /\ UNCHANGED <<correct, data>>
  BY DEF MetricsInv, EndEpoch, tally
<1>2. Counted \in Nat /\ Counted <= Len(data) /\ Len(data) \in Nat
  BY <1>1, CountedFacts, DataFacts DEF TrainInv, BackInv
<1>3. correct \in 0 .. Counted
  <2> DEFINE f == Outs
             d == data
             k == Counted
  <2>1. correct = Cardinality(Hits(f, d, k)) /\ k \in Nat
    BY <1>1, <1>2 DEF CountOK
  <2> HIDE DEF f, d, k
  <2>2. correct \in 0 .. k
    BY <2>1, HitsFacts
  <2> QED
    BY <2>2 DEF k
<1>4. correct' \in 0 .. Len(data')
  BY <1>1, <1>2, <1>3
<1> QED
  BY <1>1, <1>4 DEF MetricsInv

LEMMA MetricsKeep == TrainInv /\ MetricsInv /\ [TrainNext]_trainVars => MetricsInv'
<1> SUFFICES ASSUME TrainInv, MetricsInv, [TrainNext]_trainVars
             PROVE  MetricsInv'
  OBVIOUS
<1>1. CASE UNCHANGED trainVars
  <2>1. \A n : RefOut(n)' = RefOut(n)
    BY <1>1, RefOutStays DEF trainVars, vars
  <2>2. UNCHANGED <<phase, pc, sample, batch, data, loss, build, arr, seen, out, loss_val, correct>>
    BY <1>1 DEF trainVars, vars, settings, neurons, order, tally, history
  <2>3. Outs' = Outs
    BY <2>1, <2>2 DEF Outs
  <2>4. Counted' = Counted
    BY <2>2 DEF Counted
  <2>5. OutOfNet' = OutOfNet
    BY <2>2 DEF OutOfNet
  <2>6. CountOK => CountOK'
    BY <2>2, <2>3, <2>4 DEF CountOK
  <2>7. SeenOK => SeenOK'
    BY <2>1, <2>2, <2>5 DEF SeenOK
  <2> QED
    BY <2>2, <2>6, <2>7 DEF MetricsInv
<1>2. CASE ReadData
  BY <1>2, QuietKeeps DEF ReadData, vars, tally
<1>3. CASE StartEpoch
  BY <1>3, QuietKeeps DEF StartEpoch, tally
<1>4. ASSUME NEW r \in 0 .. RandMax, Exchange(r)
      PROVE  MetricsInv'
  BY <1>4, QuietKeeps DEF Exchange, vars, tally
<1>5. CASE TrainNext
  BY <1>2, <1>3, <1>4, <1>5, TrainingStartCounts, TestStartCounts, EpochEndCounts, TrainLoadCounts,
     TrainOutputCounts, TrainOtherCounts, TrainUpdateCounts, TestCounts DEF TrainNext
<1> QED
  BY <1>1, <1>5

\* The first of the largest outputs.
Best(o, j) == \A k \in Neurons(Last) : o[k] <= o[j] /\ (k < j => o[k] < o[j])

LEMMA BestExists == ASSUME NEW o \in [Neurons(Last) -> Int]
                    PROVE  \E j \in Neurons(Last) : Best(o, j)
<1> DEFINE top(m, j) == \A k \in 1 .. m : o[k] <= o[j] /\ (k < j => o[k] < o[j])
           T == {m \in Nat : m + 1 <= Net[Last] => \E j \in 1 .. m + 1 : top(m + 1, j)}
<1>1. Net[Last] \in Nat /\ Net[Last] >= 1 /\ Neurons(Last) = 1 .. Net[Last]
  BY NetFacts
<1>2. \A k \in 1 .. Net[Last] : o[k] \in Int
  BY <1>1
<1>3. 0 \in T
  <2>1. 1 <= Net[Last] => top(1, 1)
    BY <1>1, <1>2
  <2>2. 1 \in 1 .. 0 + 1 /\ 0 + 1 = 1
    OBVIOUS
  <2> QED
    BY <2>1, <2>2
<1>4. \A m \in Nat : m \in T => m + 1 \in T
  <2> SUFFICES ASSUME NEW m \in Nat, m \in T, m + 2 <= Net[Last]
               PROVE  \E j \in 1 .. m + 2 : top(m + 2, j)
    OBVIOUS
  <2>1. PICK j \in 1 .. m + 1 : top(m + 1, j)
    BY <1>1
  <2>2. \A k \in 1 .. m + 2 : k \in 1 .. m + 1 \/ k = m + 2
    OBVIOUS
  <2>3. o[j] \in Int /\ o[m + 2] \in Int /\ \A k \in 1 .. m + 1 : o[k] \in Int
    BY <1>1, <1>2
  <2>4. CASE o[m + 2] <= o[j]
    <3>1. top(m + 2, j)
      BY <2>1, <2>2, <2>3, <2>4
    <3> QED
      BY <3>1
  <2>5. CASE o[m + 2] > o[j]
    <3>1. top(m + 2, m + 2)
      BY <2>1, <2>2, <2>3, <2>5
    <3> QED
      BY <3>1
  <2> QED
    BY <2>3, <2>4, <2>5
<1>5. \A m \in Nat : m \in T
  <2> HIDE DEF T
  <2> QED
    BY <1>3, <1>4, SetInduction
<1>6. PICK n \in Nat : n + 1 = Net[Last]
  <2>1. Net[Last] - 1 \in Nat /\ (Net[Last] - 1) + 1 = Net[Last]
    BY <1>1
  <2> QED
    BY <2>1
<1>7. PICK j \in 1 .. Net[Last] : top(Net[Last], j)
  <2>1. \E j \in 1 .. n + 1 : top(n + 1, j)
    BY <1>1, <1>5, <1>6
  <2> QED
    BY <1>6, <2>1
<1> QED
  BY <1>1, <1>7 DEF Best

LEMMA PredictedFacts ==
    ASSUME NEW o \in [Neurons(Last) -> Int], NEW label \in Int
    PROVE  Predicted(o) = label <=>
               \E k \in Neurons(Last) :
                   /\ label = k - 1
                   /\ \A j \in Neurons(Last) \ {k} : o[j] < o[k] \/ (o[j] = o[k] /\ k < j)
<1> DEFINE p == CHOOSE j \in Neurons(Last) : Best(o, j)
<1>1. Neurons(Last) \subseteq Int /\ \A k \in Neurons(Last) : o[k] \in Int
  BY NetFacts
<1>2. p \in Neurons(Last) /\ Best(o, p)
  BY BestExists, Zenon
<1>3. Predicted(o) = p - 1
  BY DEF Predicted, Best
<1> HIDE DEF p
<1>4. \A k \in Neurons(Last) :
          Best(o, k) <=> \A j \in Neurons(Last) \ {k} : o[j] < o[k] \/ (o[j] = o[k] /\ k < j)
  BY <1>1 DEF Best
<1>5. \A k \in Neurons(Last) : Best(o, k) => k = p
  <2> SUFFICES ASSUME NEW k \in Neurons(Last), Best(o, k)
               PROVE  k = p
    OBVIOUS
  <2>1. o[k] <= o[p] /\ o[p] <= o[k] /\ (k < p => o[k] < o[p]) /\ (p < k => o[p] < o[k])
    BY <1>2 DEF Best
  <2>2. o[k] \in Int /\ o[p] \in Int /\ k \in Int /\ p \in Int
    BY <1>1, <1>2
  <2> QED
    BY <2>1, <2>2
<1>6. Predicted(o) = label <=> label = p - 1
  BY <1>3
<1>7. (\E k \in Neurons(Last) : label = k - 1 /\ Best(o, k)) <=> label = p - 1
  BY <1>2, <1>5
<1> QED
  BY <1>4, <1>6, <1>7

\* The samples of an epoch are as many as it has places, and no two the same.
LEMMA SeenOnce ==
    ASSUME TrainInv, SeenOK, Len(seen) = Trained
    PROVE  Cardinality({seen[n].index : n \in DOMAIN seen}) = Trained
<1> DEFINE D == 1 .. Trained
           f == [n \in D |-> seen[n].index]
           R == {seen[n].index : n \in DOMAIN seen}
<1>1. DOMAIN seen = D
  BY DEF SeenOK
<1>2. IsFiniteSet(D) /\ Cardinality(D) = Trained
  BY EpochFacts, FS_Interval
<1>3. ASSUME NEW m \in D, NEW n \in D, f[m] = f[n]
      PROVE  m = n
  <2>1. arr[m - 1] = arr[n - 1]
    BY <1>3 DEF SeenOK
  <2>2. m - 1 \in Order!Indexes /\ n - 1 \in Order!Indexes
    BY EpochFacts, SizeFacts DEF Order!Indexes
  <2>3. m - 1 = n - 1
    BY <2>1, <2>2 DEF TrainInv, OrderOK, Order!IsPermutation
  <2> QED
    BY <2>3, EpochFacts
<1>4. f \in Bijection(D, R)
  <2>1. f \in [D -> R]
    BY <1>1
  <2>2. \A z \in R : \E n \in D : f[n] = z
    BY <1>1
  <2> HIDE DEF f, R, D
  <2> QED
    BY <1>3, <2>1, <2>2 DEF Bijection, Injection, Surjection, IsInjective
<1>5. ExistsBijection(D, R)
  BY <1>4 DEF ExistsBijection
<1> HIDE DEF D, R
<1>6. Cardinality(R) = Cardinality(D)
  BY <1>2, <1>5, FS_Bijection
<1> QED
  BY <1>2, <1>6 DEF R

LEMMA MetricsFollow == TrainInv /\ MetricsInv => MetricsOfEpoch
<1> SUFFICES ASSUME TrainInv, MetricsInv, AllTaken, phase \in {"train", "test"}
             PROVE  MetricsOfEpoch
  BY DEF MetricsOfEpoch
<1> DEFINE outs == IF phase = "train" THEN [n \in DOMAIN seen |-> seen[n].out]
                                      ELSE [n \in Rows("test") |-> RefOut(n)[Last]]
           source(n) == IF phase = "train" THEN SampleOf("train", seen[n].index + 1) ELSE SampleOf("test", n)
           D == 1 .. Len(data)
<1>1. /\ pc = "load" /\ sample = Len(data) + 1 /\ batch = 0 /\ Len(data) \in Nat
      /\ Counted = Len(data) /\ CountOK /\ DataOK
  <2>1. pc = "load" /\ sample > Len(data) /\ sample \in 1 .. Len(data) + 1 /\ batch \in 0 .. Batch
    BY DEF TrainInv, BackInv, PlaceOK, AllTaken
  <2>2. Len(data) \in Nat /\ Batch \in Nat
    BY DataFacts, BatchFacts DEF TrainInv, BackInv
  <2>3. batch > 0 => sample <= Len(data)
    BY <2>1 DEF TrainInv, BackInv, PlaceOK
  <2> QED
    BY <2>1, <2>2, <2>3 DEF TrainInv, BackInv, MetricsInv, Counted
<1>2. DOMAIN data = D
  BY <1>1 DEF DataOK
<1>3. /\ outs = Outs /\ DOMAIN outs = D
      /\ \A n \in D : outs[n] \in Puts /\ source(n) = data[n]
      /\ phase = "train" => SeenOK /\ Len(seen) = Trained
  <2>1. CASE phase = "train"
    <3>1. SeenOK /\ Len(seen) = Len(data) /\ data = TrainingData
      BY <1>1, <2>1 DEF MetricsInv, SeenOK, TrainInv, PhaseOK
    <3>2. DOMAIN seen = D
      BY <3>1 DEF SeenOK
    <3>3. outs = Outs /\ DOMAIN outs = D
      BY <2>1, <3>1, <3>2 DEF Outs
    <3>4. D = 1 .. Trained /\ Len(data) = Trained
      <4>1. DOMAIN TrainingData = 1 .. Trained
        BY DEF TrainingData
      <4>2. 1 .. Len(data) = 1 .. Trained
        BY <1>2, <3>1, <4>1
      <4> QED
        BY <1>1, <4>2, EpochFacts
    <3>5. \A n \in D : source(n) = data[n]
      BY <2>1, <3>1, <3>4 DEF SeenOK, TrainingData
    <3>6. \A n \in D : outs[n] \in Puts
      BY <2>1, <3>1, <3>3, SeenFacts
    <3> QED
      BY <2>1, <3>1, <3>3, <3>4, <3>5, <3>6
  <2>2. CASE phase = "test"
    <3>1. data = TestData
      BY <2>2 DEF TrainInv, PhaseOK
    <3>2. D = Rows("test")
      BY <1>2, <3>1 DEF TestData
    <3>3. outs = Outs /\ DOMAIN outs = D
      BY <2>2, <3>2 DEF Outs
    <3>4. \A n \in D : source(n) = data[n]
      BY <2>2, <3>1, <3>2 DEF TestData
    <3>5. \A n \in D : outs[n] \in Puts
      <4>1. Last \in 2 .. Last
        BY NetFacts
      <4>2. \A n \in D : RefOut(n)[Last] \in Puts
        BY <1>1, <4>1, RefOutFacts DEF TrainInv, BackInv, NumbersOK, Puts
      <4> QED
        BY <2>2, <3>2, <4>2
    <3> QED
      BY <2>2, <3>3, <3>4, <3>5
  <2> QED
    BY <2>1, <2>2
<1> HIDE DEF outs, source
<1>4. phase = "train" => Cardinality({seen[n].index : n \in DOMAIN seen}) = Trained
  BY <1>3, SeenOnce
<1>5. Len(outs) = Len(data)
  <2>1. outs \in [1 .. Len(data) -> Puts]
    <3>1. outs = [n \in D |-> outs[n]]
      <4>1. outs = Outs /\ DOMAIN Outs = D
        BY <1>3
      <4>2. Outs = [n \in DOMAIN Outs |-> Outs[n]]
        BY DEF Outs
      <4> QED
        BY <4>1, <4>2
    <3> QED
      BY <1>3, <3>1
  <2>2. outs \in Seq(Puts)
    BY <1>1, <2>1
  <2> QED
    BY <1>1, <1>3, <2>2
<1>6. loss_val = Total([n \in DOMAIN outs |-> ErrorOf(outs[n], source(n).y)])
  <2>1. loss_val = LossOf(loss, outs, data, Len(data))
    BY <1>1, <1>3 DEF CountOK
  <2>2. [n \in D |-> ErrorUnder(loss, outs[n], data[n].y)] = [n \in DOMAIN outs |-> ErrorOf(outs[n], source(n).y)]
    <3>1. \A o, t : ErrorUnder(loss, o, t) = ErrorOf(o, t)
      BY DEF ErrorUnder, ErrorTerms, ErrorOf
    <3> QED
      BY <1>3, <3>1
  <2> QED
    BY <2>1, <2>2 DEF LossOf
<1>7. correct = Cardinality({n \in DOMAIN outs : \E k \in Neurons(Last) :
             /\ source(n).label = k - 1
             /\ \A j \in Neurons(Last) \ {k} :
                   outs[n][j] < outs[n][k] \/ (outs[n][j] = outs[n][k] /\ k < j)})
  <2>1. correct = Cardinality(Hits(outs, data, Len(data)))
    BY <1>1, <1>3 DEF CountOK
  <2>2. ASSUME NEW n \in D
        PROVE  Predicted(outs[n]) = data[n].label <=>
                   \E k \in Neurons(Last) :
                       /\ source(n).label = k - 1
                       /\ \A j \in Neurons(Last) \ {k} :
                             outs[n][j] < outs[n][k] \/ (outs[n][j] = outs[n][k] /\ k < j)
    <3> DEFINE o == outs[n]
               label == data[n].label
    <3>1. source(n).label = label
      BY <1>3
    <3>2. o \in [Neurons(Last) -> Int] /\ label \in Int
      BY <1>1, <1>3, DataFacts, NumOfValue DEF Puts
    <3> HIDE DEF o, label
    <3>3. Predicted(o) = label <=>
              \E k \in Neurons(Last) :
                  /\ label = k - 1
                  /\ \A j \in Neurons(Last) \ {k} : o[j] < o[k] \/ (o[j] = o[k] /\ k < j)
      BY <3>2, PredictedFacts
    <3> QED
      BY <3>1, <3>3 DEF o, label
  <2>3. Hits(outs, data, Len(data)) = {n \in DOMAIN outs : \E k \in Neurons(Last) :
             /\ source(n).label = k - 1
             /\ \A j \in Neurons(Last) \ {k} :
                   outs[n][j] < outs[n][k] \/ (outs[n][j] = outs[n][k] /\ k < j)}
    BY <1>3, <2>2 DEF Hits
  <2> QED
    BY <2>1, <2>3
<1> QED
  BY <1>4, <1>5, <1>6, <1>7 DEF MetricsOfEpoch, outs, source

-----------------------------------------------------------------------------
(* The momenta.                                                            *)

\* A number that counts a little less: the factor of an average taken once more.
LEMMA Fading ==
    ASSUME NEW k \in Int, NEW p \in Int, NEW x \in Int
    PROVE  /\ Num((1 - k) * p) * Num(x) \in Int
           /\ Num((1 - k) * (k * p)) * Num(x) \in Int
           /\ Num(Num((1 - k) * (k * p)) * Num(x)) = Num(k * (Num((1 - k) * p) * Num(x)))
<1> DEFINE q == (1 - k) * p
           v == Num(x)
<1>1. q \in Int /\ v \in Int /\ k * q \in Int
  <2>1. q \in Int /\ v \in Int
    BY NumType
  <2> HIDE DEF q
  <2> QED
    BY <2>1
<1>2. (1 - k) * (k * p) = k * q
  OBVIOUS
<1> HIDE DEF q, v
<1>3. Num(q) \in Int /\ Num(Num(q)) = Num(q) /\ Num(k * q) \in Int /\ Num(Num(k * q)) = Num(k * q)
  BY <1>1, NumType, NumOfNum
<1>4. Num(Num(k * q) * v) = Num((k * q) * v) /\ Num(Num(q) * v) = Num(q * v)
  <2> DEFINE z == k * q
  <2>1. z \in Int /\ Num(z) \in Int /\ Num(Num(z)) = Num(z)
    BY <1>1, <1>3
  <2> HIDE DEF z
  <2>2. Num(Num(z) * v) = Num(z * v) /\ Num(Num(q) * v) = Num(q * v)
    BY <1>1, <2>1, NumInProduct
  <2> QED
    BY <2>2 DEF z
<1>5. q * v \in Int /\ Num(q) * v \in Int /\ (k * q) * v = k * (q * v) /\ Num(k * q) * v \in Int
  BY <1>1, <1>3
<1>6. Num(k * (Num(q) * v)) = Num(k * (q * v))
  BY <1>4, <1>5, NumTimes
<1> QED
  BY <1>2, <1>4, <1>5, <1>6 DEF q, v

\* The terms of an average.
Faded(k, terms) == [n \in DOMAIN terms |-> Num((1 - k) * Power(k, Len(terms) - n)) * Num(terms[n])]

LEMMA FadedType ==
    ASSUME NEW k \in Int, NEW n \in Nat, NEW t \in [1 .. n -> Int]
    PROVE  /\ Len(t) = n /\ DOMAIN t = 1 .. n
           /\ Faded(k, t) \in [1 .. n -> Int]
           /\ \A m \in 1 .. n : Faded(k, t)[m] = Num((1 - k) * Power(k, n - m)) * Num(t[m])
           /\ Averaged(k, t) = Num(Over(Faded(k, t), 1 .. n)) /\ Over(Faded(k, t), 1 .. n) \in Int
           /\ Averaged(k, t) \in Values
<1>1. Len(t) = n /\ DOMAIN t = 1 .. n
  <2>1. t \in Seq(Int)
    OBVIOUS
  <2> QED
    BY <2>1
<1>2. \A m \in 1 .. n : Num((1 - k) * Power(k, n - m)) * Num(t[m]) \in Int
  <2> TAKE m \in 1 .. n
  <2>1. n - m \in Nat /\ t[m] \in Int
    OBVIOUS
  <2>2. Power(k, n - m) \in Int
    BY <2>1, PowerFacts
  <2> QED
    BY <2>1, <2>2, Fading
<1> DEFINE f == Faded(k, t)
<1>3. f \in [1 .. n -> Int] /\ \A m \in 1 .. n : f[m] = Num((1 - k) * Power(k, n - m)) * Num(t[m])
  BY <1>1, <1>2 DEF Faded
<1>4. Averaged(k, t) = Num(Total(f))
  BY DEF Averaged, Faded
<1> HIDE DEF f
<1>5. Over(f, 1 .. n) = Total(f) /\ IsFiniteSet(1 .. n)
  <2>1. Over(f, 1 .. n) = Total(f)
    BY <1>3, OverAll, Zenon
  <2> QED
    BY <2>1, FS_Interval
<1>6. Over(f, 1 .. n) \in Int
  BY <1>3, <1>5, OverFacts
<1>7. Num(Over(f, 1 .. n)) \in Values
  BY <1>6, NumType
<1> QED
  BY <1>1, <1>3, <1>4, <1>5, <1>6, <1>7 DEF f

LEMMA AverageOfNothing ==
    ASSUME NEW k \in Int, NEW t, DOMAIN t = {}
    PROVE  Averaged(k, t) = 0
<1>1. Faded(k, t) \in [{} -> Int] /\ IsFiniteSet({})
  BY FS_EmptySet DEF Faded
<1>2. Total(Faded(k, t)) = 0
  BY <1>1, TotalFacts
<1>3. Averaged(k, t) = Num(Total(Faded(k, t)))
  BY DEF Averaged, Faded
<1> QED
  BY <1>2, <1>3, ZeroIsNum

\* One more term: what the optimizers compute.
LEMMA AverageGrows ==
    ASSUME NEW k \in Int, NEW n \in Nat, NEW t \in [1 .. n -> Int], NEW u \in [1 .. n + 1 -> Int],
           \A m \in 1 .. n : u[m] = t[m]
    PROVE  Averaged(k, u) = Mix(k, Averaged(k, t), u[n + 1])
<1> DEFINE S == 1 .. n
           f == Faded(k, t)
           g == Faded(k, u)
           h == [m \in S |-> k * f[m]]
           x == u[n + 1]
<1>0. n + 1 \in Nat /\ n + 1 \in 1 .. n + 1 /\ (1 .. n + 1) \ {n + 1} = S /\ x \in Int
  OBVIOUS
<1>1. /\ f \in [S -> Int]
      /\ \A m \in S : f[m] = Num((1 - k) * Power(k, n - m)) * Num(t[m])
      /\ Averaged(k, t) = Num(Over(f, S)) /\ Over(f, S) \in Int
  BY FadedType
<1>2. /\ g \in [1 .. n + 1 -> Int]
      /\ \A m \in 1 .. n + 1 : g[m] = Num((1 - k) * Power(k, (n + 1) - m)) * Num(u[m])
      /\ Averaged(k, u) = Num(Over(g, 1 .. n + 1)) /\ Over(g, 1 .. n + 1) \in Int
  <2> DEFINE N == n + 1
  <2>1. N \in Nat /\ u \in [1 .. N -> Int]
    OBVIOUS
  <2> HIDE DEF N
  <2>2. /\ g \in [1 .. N -> Int]
        /\ \A m \in 1 .. N : g[m] = Num((1 - k) * Power(k, N - m)) * Num(u[m])
        /\ Averaged(k, u) = Num(Over(g, 1 .. N)) /\ Over(g, 1 .. N) \in Int
    BY <2>1, FadedType
  <2> QED
    BY <2>2 DEF N
<1>3. IsFiniteSet(S) /\ IsFiniteSet(1 .. n + 1)
  BY <1>0, FS_Interval
<1>4. ASSUME NEW m \in S
      PROVE  g[m] \in Int /\ k * f[m] \in Int /\ f[m] \in Int /\ Num(g[m]) = Num(k * f[m])
  <2>1. n - m \in Nat /\ (n + 1) - m = (n - m) + 1 /\ m \in 1 .. n + 1 /\ u[m] = t[m] /\ t[m] \in Int
    OBVIOUS
  <2>2. Power(k, n - m) \in Int /\ Power(k, (n - m) + 1) = k * Power(k, n - m)
    BY <2>1, PowerFacts
  <2> DEFINE p == Power(k, n - m)
             v == t[m]
  <2>3. f[m] = Num((1 - k) * p) * Num(v) /\ g[m] = Num((1 - k) * (k * p)) * Num(v)
    BY <1>1, <1>2, <2>1, <2>2
  <2>4. f[m] \in Int /\ g[m] \in Int
    BY <1>1, <1>2, <2>1
  <2>5. p \in Int /\ v \in Int
    BY <2>1, <2>2
  <2> HIDE DEF p, v, f, g
  <2>6. Num(Num((1 - k) * (k * p)) * Num(v)) = Num(k * (Num((1 - k) * p) * Num(v)))
    BY <2>5, Fading
  <2>7. Num(g[m]) = Num(k * f[m])
    BY <2>3, <2>6, Zenon
  <2> DEFINE z == f[m]
  <2>8. z \in Int
    BY <2>4
  <2> HIDE DEF z
  <2>9. k * z \in Int
    BY <2>8
  <2> QED
    BY <2>4, <2>7, <2>9 DEF z
<1>5. Num(g[n + 1]) = Num((1 - k) * x) /\ g[n + 1] \in Int /\ (1 - k) * x \in Int
  <2>1. (n + 1) - (n + 1) = 0 /\ Power(k, 0) = 1
    BY PowerFacts
  <2>2. (1 - k) * 1 = 1 - k /\ 1 - k \in Int
    OBVIOUS
  <2>3. g[n + 1] = Num(1 - k) * Num(x) /\ g[n + 1] \in Int
    BY <1>0, <1>2, <2>1, <2>2
  <2> HIDE DEF x, g
  <2>4. /\ Num(1 - k) \in Int /\ Num(Num(1 - k)) = Num(1 - k)
        /\ Num(x) \in Int /\ Num(Num(x)) = Num(x)
    BY <1>0, <2>2, NumType, NumOfNum
  <2>5. Num(Num(1 - k) * Num(x)) = Num((1 - k) * x)
    BY <1>0, <2>2, <2>4, NumTimes
  <2>6. (1 - k) * x \in Int
    BY <1>0, <2>2
  <2> QED
    BY <2>3, <2>5, <2>6
<1> DEFINE a == Over(f, S)
           b0 == Over(g, S)
           c0 == g[n + 1]
<1>6. Over(g, 1 .. n + 1) = c0 + b0
  <2> DEFINE N == 1 .. n + 1
  <2>1. N \ {n + 1} = S /\ n + 1 \in N /\ IsFiniteSet(N) /\ \A m \in N : g[m] \in Int
    BY <1>0, <1>2, <1>3
  <2> HIDE DEF f, g, S, N
  <2>2. \A m \in N : Over(g, N) = g[m] + Over(g, N \ {m})
    BY <2>1, OverFacts, Zenon
  <2>3. Over(g, N) = g[n + 1] + Over(g, S)
    BY <2>1, <2>2, Zenon
  <2> QED
    BY <2>3 DEF N
<1>7. b0 \in Int /\ Num(b0) = Num(k * a) /\ a \in Int
  <2> HIDE DEF f, g, S
  <2>1. \A m \in S : h[m] \in Int /\ h[m] = k * f[m] /\ f[m] \in Int /\ g[m] \in Int /\ Num(g[m]) = Num(h[m])
    BY <1>4
  <2> HIDE DEF h
  <2>2. Num(Over(g, S)) = Num(Over(h, S))
    BY <1>3, <2>1, NumOver
  <2>3. Over(h, S) = k * Over(f, S)
    BY <1>3, <2>1, OverScale
  <2>4. Over(g, S) \in Int
    BY <1>3, <2>1, OverFacts
  <2> QED
    BY <1>1, <2>2, <2>3, <2>4
<1> HIDE DEF a, b0, c0, x, f, g, h, S
<1>8. Averaged(k, u) = Num(c0 + b0) /\ Averaged(k, t) = Num(a)
  BY <1>1, <1>2, <1>6 DEF a
<1>9. c0 \in Int /\ Num(c0) = Num((1 - k) * x) /\ (1 - k) * x \in Int
  BY <1>5 DEF c0
<1> DEFINE r == (1 - k) * x
<1>10. r \in Int /\ Num(c0) = Num(r)
  BY <1>9
<1>11. Mix(k, Averaged(k, t), x) = Num(k * Num(a) + Num(r))
  BY <1>8 DEF Mix
<1> HIDE DEF r
<1>12. /\ Num(a) \in Int /\ Num(Num(a)) = Num(a)
       /\ Num(r) \in Int /\ Num(Num(r)) = Num(r)
  BY <1>7, <1>10, NumType, NumOfNum
<1> DEFINE y1 == k * Num(a)
           y2 == k * a
           y3 == Num(r)
<1>13. Num(y1) = Num(y2) /\ y1 \in Int /\ y2 \in Int /\ Num(b0) = Num(y2)
  <2>1. Num(k * Num(a)) = Num(k * a)
    BY <1>7, NumInProduct
  <2>2. k * Num(a) \in Int /\ k * a \in Int
    BY <1>7, <1>12
  <2> QED
    BY <1>7, <2>1, <2>2
<1>14. Num(y1 + y3) = Num(b0 + c0)
  <2>1. y3 \in Int /\ Num(y3) = Num(c0)
    BY <1>10, <1>12
  <2> HIDE DEF y1, y2, y3
  <2> QED
    BY <1>7, <1>9, <1>13, <2>1, NumPlus
<1>15. b0 + c0 = c0 + b0
  BY <1>7, <1>9
<1> QED
  BY <1>8, <1>11, <1>14, <1>15 DEF x

LEMMA MixOfNum == ASSUME NEW k \in Int, NEW m \in Int, NEW g \in Int
                  PROVE  Mix(k, m, Num(g)) = Mix(k, m, g)
<1>1. Num(g) \in Int /\ Num(Num(g)) = Num(g) /\ 1 - k \in Int
  BY NumType, NumOfNum
<1>2. Num((1 - k) * Num(g)) = Num((1 - k) * g)
  BY <1>1, NumTimes
<1> QED
  BY <1>2 DEF Mix

Entry == [g : [Cells -> Int], rate : Int]
PastOK == past \in Seq(Entry)
MomentsOK == \A c \in Cells : momentum[c] = RefMoment(past, c) /\ momentum2[c] = RefMoment2(past, c)

LEMMA PastFacts ==
    ASSUME NEW h \in Seq(Entry), NEW c \in Cells
    PROVE  /\ Len(h) \in Nat
           /\ Firsts(h, c) \in [1 .. Len(h) -> Int] /\ \A n \in 1 .. Len(h) : Firsts(h, c)[n] = h[n].g[c]
           /\ Squares(h, c) \in [1 .. Len(h) -> Int] /\ \A n \in 1 .. Len(h) : Squares(h, c)[n] = h[n].g[c] * h[n].g[c]
           /\ Rated(h, c) \in [1 .. Len(h) -> Int] /\ \A n \in 1 .. Len(h) : Rated(h, c)[n] = h[n].g[c] * h[n].rate
<1>1. Len(h) \in Nat /\ DOMAIN h = 1 .. Len(h) /\ \A n \in 1 .. Len(h) : h[n] \in Entry
  OBVIOUS
<1>2. \A n \in 1 .. Len(h) : h[n].g[c] \in Int /\ h[n].rate \in Int
  BY <1>1 DEF Entry
<1>3. \A n \in 1 .. Len(h) : h[n].g[c] * h[n].g[c] \in Int /\ h[n].g[c] * h[n].rate \in Int
  BY <1>2
<1> QED
  BY <1>1, <1>2, <1>3 DEF Firsts, Squares, Rated

\* What a past with one more gradient adds up to, for each optimizer.
LEMMA PastGrows ==
    ASSUME NEW h \in Seq(Entry), NEW e \in Entry, NEW c \in Cells, NEW k \in Int
    PROVE  LET v == e.g[c] IN
           /\ Append(h, e) \in Seq(Entry)
           /\ Averaged(k, Firsts(Append(h, e), c)) = Mix(k, Averaged(k, Firsts(h, c)), v)
           /\ Averaged(k, Squares(Append(h, e), c)) = Mix(k, Averaged(k, Squares(h, c)), Num(v * v))
           /\ Averaged(k, Rated(Append(h, e), c)) = Mix(k, Averaged(k, Rated(h, c)), Num(v * e.rate))
<1> DEFINE n == Len(h)
           H == Append(h, e)
           v == e.g[c]
           r == e.rate
<1>1. H \in Seq(Entry) /\ Len(H) = n + 1 /\ n \in Nat /\ H[n + 1] = e /\ \A m \in 1 .. n : H[m] = h[m]
  <2> HIDE DEF Entry
  <2> QED
    OBVIOUS
<1>2. v \in Int /\ r \in Int
  BY DEF Entry
<1> HIDE DEF H, n
<1>3. n + 1 \in 1 .. n + 1 /\ \A m \in 1 .. n : m \in 1 .. n + 1
  BY <1>1
<1>4. /\ Firsts(h, c) \in [1 .. n -> Int] /\ Squares(h, c) \in [1 .. n -> Int] /\ Rated(h, c) \in [1 .. n -> Int]
      /\ Firsts(H, c) \in [1 .. n + 1 -> Int] /\ Squares(H, c) \in [1 .. n + 1 -> Int]
      /\ Rated(H, c) \in [1 .. n + 1 -> Int]
  BY <1>1, PastFacts DEF n
<1>5. /\ \A m \in 1 .. n : /\ Firsts(H, c)[m] = Firsts(h, c)[m] /\ Squares(H, c)[m] = Squares(h, c)[m]
                            /\ Rated(H, c)[m] = Rated(h, c)[m]
      /\ Firsts(H, c)[n + 1] = v /\ Squares(H, c)[n + 1] = v * v /\ Rated(H, c)[n + 1] = v * r
  <2>1. /\ \A m \in 1 .. n + 1 : /\ Firsts(H, c)[m] = H[m].g[c] /\ Squares(H, c)[m] = H[m].g[c] * H[m].g[c]
                                  /\ Rated(H, c)[m] = H[m].g[c] * H[m].rate
    <3>1. \A m \in 1 .. Len(H) : /\ Firsts(H, c)[m] = H[m].g[c] /\ Squares(H, c)[m] = H[m].g[c] * H[m].g[c]
                                 /\ Rated(H, c)[m] = H[m].g[c] * H[m].rate
      BY <1>1, PastFacts
    <3> QED
      BY <1>1, <3>1
  <2>2. /\ \A m \in 1 .. n : /\ Firsts(h, c)[m] = h[m].g[c] /\ Squares(h, c)[m] = h[m].g[c] * h[m].g[c]
                              /\ Rated(h, c)[m] = h[m].g[c] * h[m].rate
    BY PastFacts DEF n
  <2>3. Firsts(H, c)[n + 1] = v /\ Squares(H, c)[n + 1] = v * v /\ Rated(H, c)[n + 1] = v * r
    BY <1>1, <1>3, <2>1
  <2>4. ASSUME NEW m \in 1 .. n
        PROVE  /\ Firsts(H, c)[m] = Firsts(h, c)[m] /\ Squares(H, c)[m] = Squares(h, c)[m]
               /\ Rated(H, c)[m] = Rated(h, c)[m]
    <3>1. H[m] = h[m] /\ m \in 1 .. n + 1
      BY <1>1, <1>3
    <3> QED
      BY <2>1, <2>2, <3>1
  <2> QED
    BY <2>3, <2>4
<1>6. Averaged(k, Firsts(H, c)) = Mix(k, Averaged(k, Firsts(h, c)), v)
  BY <1>1, <1>4, <1>5, AverageGrows
<1>7. Averaged(k, Squares(H, c)) = Mix(k, Averaged(k, Squares(h, c)), v * v)
  BY <1>1, <1>4, <1>5, AverageGrows
<1>8. Averaged(k, Rated(H, c)) = Mix(k, Averaged(k, Rated(h, c)), v * r)
  BY <1>1, <1>4, <1>5, AverageGrows
<1>9. Averaged(k, Squares(h, c)) \in Int /\ Averaged(k, Rated(h, c)) \in Int
  BY <1>1, <1>4, FadedType, NumOfValue
<1>10. v * v \in Int /\ v * r \in Int
  BY <1>2
<1>11. /\ Mix(k, Averaged(k, Squares(h, c)), v * v) = Mix(k, Averaged(k, Squares(h, c)), Num(v * v))
       /\ Mix(k, Averaged(k, Rated(h, c)), v * r) = Mix(k, Averaged(k, Rated(h, c)), Num(v * r))
  BY <1>9, <1>10, MixOfNum
<1> QED
  BY <1>1, <1>6, <1>7, <1>8, <1>11 DEF H

\* The step that is due, and the past with it.
Due == [g |-> [c \in Cells |-> RefGradient(c)], rate |-> rate]

LEMMA MomentIsRef ==
    ASSUME BackInv, GradientsOK, PastOK, MomentsOK, pc = "update", NEW c \in Cells
    PROVE  /\ Append(past, Due) \in Seq(Entry)
           /\ Moment(c) = RefMoment(Append(past, Due), c)
           /\ Moment2(c) = RefMoment2(Append(past, Due), c)
<1> DEFINE e == Due
           v == e.g[c]
           H == Append(past, e)
           m == momentum[c]
           m2 == momentum2[c]
<1>1. past \in Seq(Entry) /\ rate \in Int
  BY DEF PastOK, BackInv, SettingsOK
<1>2. \A x \in Cells : RefGradient(x) = Gradient(x) /\ Gradient(x) \in Int
  BY GradientIsRef, GradientIsInt
<1>3. e \in Entry
  BY <1>1, <1>2 DEF Due, Entry
<1>4. v = Gradient(c) /\ e.rate = rate
  BY <1>2 DEF Due
<1> HIDE DEF e
<1>5. beta \in Int /\ beta_1 \in Int /\ beta_2 \in Int
  BY BackpropAssumption
<1>6. H \in Seq(Entry)
  BY <1>1, <1>3, <1>5, PastGrows
<1>7. \A k \in {beta, beta_1, beta_2} :
          /\ Averaged(k, Firsts(H, c)) = Mix(k, Averaged(k, Firsts(past, c)), v)
          /\ Averaged(k, Squares(H, c)) = Mix(k, Averaged(k, Squares(past, c)), Num(v * v))
          /\ Averaged(k, Rated(H, c)) = Mix(k, Averaged(k, Rated(past, c)), Num(v * rate))
  BY <1>1, <1>3, <1>4, <1>5, PastGrows
<1>8. m = RefMoment(past, c) /\ m2 = RefMoment2(past, c)
  BY DEF MomentsOK
<1>9. Moment(c) = CASE Optimizer = "momentum" -> Mix(beta, m, Num(v * rate))
                    [] Optimizer = "rmsprop" -> Mix(beta, m, Num(v * v))
                    [] Optimizer = "adam" -> Mix(beta_1, m, v)
                    [] OTHER -> m
  BY <1>4 DEF Moment
<1>10. Moment2(c) = IF Optimizer = "adam" THEN Mix(beta_2, m2, Num(v * v)) ELSE m2
  BY <1>4 DEF Moment2
<1> HIDE DEF v, H, m, m2
<1>11. Moment(c) = RefMoment(H, c)
  <2>1. CASE Optimizer = "momentum"
    BY <1>7, <1>8, <1>9, <2>1 DEF RefMoment
  <2>2. CASE Optimizer = "rmsprop"
    BY <1>7, <1>8, <1>9, <2>2 DEF RefMoment
  <2>3. CASE Optimizer = "adam"
    BY <1>7, <1>8, <1>9, <2>3 DEF RefMoment
  <2>4. CASE Optimizer \notin {"momentum", "rmsprop", "adam"}
    BY <1>8, <1>9, <2>4 DEF RefMoment
  <2> QED
    BY <2>1, <2>2, <2>3, <2>4
<1>12. Moment2(c) = RefMoment2(H, c)
  BY <1>7, <1>8, <1>10 DEF RefMoment2
<1> QED
  BY <1>6, <1>11, <1>12 DEF H, e

\* Where the momenta stay.
HistoryInv == DeltasOK /\ GradientsOK /\ PastOK /\ MomentsOK

LEMMA MomentsStay ==
    ASSUME PastOK, MomentsOK, UNCHANGED <<past, momentum, momentum2, build, opt>>
    PROVE  PastOK' /\ MomentsOK'
<1>1. Optimizer' = Optimizer
  BY DEF Optimizer
<1>2. \A c \in Cells : RefMoment(past, c)' = RefMoment(past, c) /\ RefMoment2(past, c)' = RefMoment2(past, c)
  BY <1>1 DEF RefMoment, RefMoment2
<1> QED
  BY <1>2 DEF PastOK, MomentsOK

LEMMA NoMoments ==
    ASSUME past' = <<>>, \A c \in Cells : momentum'[c] = 0 /\ momentum2'[c] = 0
    PROVE  PastOK' /\ MomentsOK'
<1>1. \A c : DOMAIN Firsts(<<>>, c) = {} /\ DOMAIN Squares(<<>>, c) = {} /\ DOMAIN Rated(<<>>, c) = {}
  BY DEF Firsts, Squares, Rated
<1>2. beta \in Int /\ beta_1 \in Int /\ beta_2 \in Int
  BY BackpropAssumption
<1>3. \A c, k : k \in {beta, beta_1, beta_2} =>
          Averaged(k, Firsts(<<>>, c)) = 0 /\ Averaged(k, Squares(<<>>, c)) = 0 /\ Averaged(k, Rated(<<>>, c)) = 0
  BY <1>1, <1>2, AverageOfNothing
<1>4. \A c \in Cells : RefMoment(past, c)' = 0 /\ RefMoment2(past, c)' = 0
  <2> TAKE c \in Cells
  <2>1. RefMoment(past, c)' = CASE Optimizer' = "momentum" -> Averaged(beta, Rated(<<>>, c))
                                [] Optimizer' = "rmsprop" -> Averaged(beta, Squares(<<>>, c))
                                [] Optimizer' = "adam" -> Averaged(beta_1, Firsts(<<>>, c))
                                [] OTHER -> 0
    BY DEF RefMoment
  <2>2. RefMoment2(past, c)' = IF Optimizer' = "adam" THEN Averaged(beta_2, Squares(<<>>, c)) ELSE 0
    BY DEF RefMoment2
  <2>3. Averaged(beta, Rated(<<>>, c)) = 0 /\ Averaged(beta, Squares(<<>>, c)) = 0
    BY <1>3
  <2>4. Averaged(beta_1, Firsts(<<>>, c)) = 0 /\ Averaged(beta_2, Squares(<<>>, c)) = 0
    BY <1>3
  <2> QED
    BY <2>1, <2>2, <2>3, <2>4
<1> QED
  BY <1>4 DEF PastOK, MomentsOK

LEMMA HistoryStarts == TrainInit => HistoryInv
<1> SUFFICES ASSUME TrainInit
             PROVE  HistoryInv
  OBVIOUS
<1>1. DeltasOK
  BY DEF TrainInit, InitNet, DeltasOK
<1>2. GradientsOK
  <2>1. BatchSamples = {}
    BY DEF TrainInit, InitNet, BatchSamples
  <2>2. \A c : Total(TermsOf(c)) = 0
    BY <2>1, EmptyBatch
  <2> QED
    BY <2>2, ZeroIsNum DEF TrainInit, InitNet, GradientsOK, Zeroes
<1>3. PastOK
  BY DEF TrainInit, PastOK
<1>4. MomentsOK
  <2>1. past = <<>> /\ \A c \in Cells : momentum[c] = 0 /\ momentum2[c] = 0
    BY DEF TrainInit, InitNet, Zeroes
  <2>2. \A c : DOMAIN Firsts(past, c) = {} /\ DOMAIN Squares(past, c) = {} /\ DOMAIN Rated(past, c) = {}
    BY <2>1 DEF Firsts, Squares, Rated
  <2>3. beta \in Int /\ beta_1 \in Int /\ beta_2 \in Int
    BY BackpropAssumption
  <2>4. \A c, k : k \in {beta, beta_1, beta_2} =>
            Averaged(k, Firsts(past, c)) = 0 /\ Averaged(k, Squares(past, c)) = 0 /\ Averaged(k, Rated(past, c)) = 0
    BY <2>2, <2>3, AverageOfNothing
  <2>5. \A c \in Cells : RefMoment(past, c) = 0 /\ RefMoment2(past, c) = 0
    <3> TAKE c \in Cells
    <3>1. Averaged(beta, Rated(past, c)) = 0 /\ Averaged(beta, Squares(past, c)) = 0
      BY <2>4
    <3>2. Averaged(beta_1, Firsts(past, c)) = 0 /\ Averaged(beta_2, Squares(past, c)) = 0
      BY <2>4
    <3> QED
      BY <3>1, <3>2 DEF RefMoment, RefMoment2
  <2> QED
    BY <2>1, <2>5 DEF MomentsOK
<1> QED
  BY <1>1, <1>2, <1>3, <1>4 DEF HistoryInv

-----------------------------------------------------------------------------
(* The gradients and the momenta, through the epochs.                       *)

\* A step that leaves the gradients and the momenta where they are.
LEMMA HistoryStays ==
    ASSUME HistoryInv, UNCHANGED <<w, b, data, build, opt, loss, gradients, moments, sample, batch, past>>,
           DeltasOK'
    PROVE  HistoryInv'
<1>1. UNCHANGED <<dw, db, momentum, momentum2>>
  BY DEF gradients, moments
<1>2. GradientsOK'
  BY <1>1, GradientsStay DEF HistoryInv
<1>3. PastOK' /\ MomentsOK'
  BY <1>1, MomentsStay DEF HistoryInv
<1> QED
  BY <1>2, <1>3 DEF HistoryInv

\* A step between batches that takes other samples.
LEMMA HistoryTurns ==
    ASSUME TrainInv, HistoryInv, batch = 0,
           UNCHANGED <<build, opt, gradients, moments, batch, past>>,
           sample' \in Int, pc' = "load"
    PROVE  HistoryInv'
<1>1. UNCHANGED <<dw, db, momentum, momentum2>>
  BY DEF gradients, moments
<1>2. (\A c \in BiasCells : db[c] = 0) /\ (\A c \in WeightCells : dw[c] = 0)
  BY GradientsAreZero DEF TrainInv, HistoryInv
<1>3. GradientsOK'
  BY <1>1, <1>2, NoGradients
<1>4. PastOK' /\ MomentsOK'
  BY <1>1, MomentsStay DEF HistoryInv
<1>5. DeltasOK'
  BY DEF DeltasOK
<1> QED
  BY <1>3, <1>4, <1>5 DEF HistoryInv

LEMMA EpochStartHistory == ASSUME TrainInv, HistoryInv, StartEpoch
                           PROVE  HistoryInv'
<1>1. /\ pc = "load" /\ batch = 0 /\ UNCHANGED <<w, b, data, build, opt, loss, sample, batch, pc>>
  BY DEF TrainInv, PhaseOK, StartEpoch, settings
<1>2. DeltasOK'
  BY <1>1 DEF DeltasOK
<1>3. CASE build = "numa"
  <2>1. dw' = Zeroes(WeightCells) /\ db' = Zeroes(BiasCells)
    BY <1>3 DEF StartEpoch, NewWorkspace
  <2>2. momentum' = Zeroes(Cells) /\ momentum2' = Zeroes(Cells) /\ past' = <<>>
    BY <1>3 DEF StartEpoch, NewWorkspace
  <2>3. sample' \in Int
    <3>1. sample \in Int
      BY DEF TrainInv, BackInv, PlaceOK
    <3> QED
      BY <1>1, <3>1
  <2>4. (\A c \in BiasCells : db'[c] = 0) /\ (\A c \in WeightCells : dw'[c] = 0)
    BY <2>1 DEF Zeroes
  <2>5. GradientsOK'
    BY <1>1, <2>3, <2>4, NoGradients
  <2>6. \A c \in Cells : momentum'[c] = 0 /\ momentum2'[c] = 0
    BY <2>2 DEF Zeroes
  <2>7. PastOK' /\ MomentsOK'
    BY <2>2, <2>6, NoMoments
  <2> QED
    BY <1>2, <2>5, <2>7 DEF HistoryInv
<1>4. CASE build # "numa"
  <2>1. UNCHANGED <<gradients, moments, past>>
    BY <1>4 DEF StartEpoch
  <2> QED
    BY <1>1, <1>2, <2>1, HistoryStays
<1> QED
  BY <1>3, <1>4

LEMMA LoopHistory ==
    ASSUME TrainInv, HistoryInv, UNCHANGED past, Load \/ Forward \/ OutputDelta \/ HiddenDelta
    PROVE  HistoryInv'
<1>1. UNCHANGED <<w, b, data, build, opt, loss, gradients, moments, sample, batch>>
  BY DEF Load, Forward, OutputDelta, HiddenDelta, settings
<1>2. DeltasOK'
  <2>1. CASE Load
    BY <2>1 DEF Load, DeltasOK
  <2>2. CASE Forward
    BY <2>2 DEF Forward, DeltasOK
  <2>3. CASE OutputDelta
    BY <2>3, OutputDeltaIsRef DEF TrainInv
  <2>4. CASE HiddenDelta
    BY <2>4, HiddenDeltaIsRef DEF TrainInv, HistoryInv
  <2> QED
    BY <2>1, <2>2, <2>3, <2>4
<1> QED
  BY <1>1, <1>2, HistoryStays

LEMMA AccumulateHistory ==
    ASSUME TrainInv, HistoryInv, UNCHANGED past, Accumulate
    PROVE  HistoryInv'
<1>1. GradientsOK'
  BY AccumulateIsRef DEF TrainInv, HistoryInv
<1>2. UNCHANGED <<past, momentum, momentum2, build, opt>>
  BY DEF Accumulate, moments, settings
<1>3. PastOK' /\ MomentsOK'
  BY <1>2, MomentsStay DEF HistoryInv
<1>4. pc' \in {"update", "load"}
  BY DEF Accumulate
<1>5. DeltasOK'
  BY <1>4 DEF DeltasOK
<1> QED
  BY <1>1, <1>3, <1>5 DEF HistoryInv

LEMMA SomeCell == \E c : c \in Cells
<1>1. 1 \in Layers /\ 1 \in Neurons(1 + 1)
  BY NetFacts DEF Layers
<1>2. <<1, 1>> \in BiasCells
  BY <1>1 DEF BiasCells
<1> QED
  BY <1>2 DEF Cells

LEMMA UpdateHistory ==
    ASSUME TrainInv, HistoryInv, TrainUpdate
    PROVE  HistoryInv'
<1>1. pc = "update" /\ pc' = "load" /\ batch' = 0 /\ sample' = sample /\ UNCHANGED <<build, opt>>
  BY DEF TrainUpdate, Update, settings
<1>2. past' = Append(past, Due)
  BY DEF TrainUpdate, Due
<1>3. dw' = Zeroes(WeightCells) /\ db' = Zeroes(BiasCells)
  BY DEF TrainUpdate, Update
<1>4. GradientsOK'
  <2>1. sample' \in Int
    <3>1. sample \in Int
      BY DEF TrainInv, BackInv, PlaceOK
    <3> QED
      BY <1>1, <3>1
  <2>2. (\A c \in BiasCells : db'[c] = 0) /\ (\A c \in WeightCells : dw'[c] = 0)
    BY <1>3 DEF Zeroes
  <2> QED
    BY <1>1, <2>1, <2>2, NoGradients
<1>5. \A c \in Cells : momentum'[c] = Moment(c) /\ momentum2'[c] = Moment2(c)
  BY DEF TrainUpdate, Update
<1>6. Append(past, Due) \in Seq(Entry)
  <2>1. PICK c \in Cells : TRUE
    BY SomeCell
  <2> QED
    BY <1>1, MomentIsRef DEF TrainInv, HistoryInv
<1>7. PastOK'
  BY <1>2, <1>6 DEF PastOK
<1>8. Optimizer' = Optimizer
  BY <1>1 DEF Optimizer
<1>9. ASSUME NEW c \in Cells
      PROVE  momentum'[c] = RefMoment(past, c)' /\ momentum2'[c] = RefMoment2(past, c)'
  <2> DEFINE H == Append(past, Due)
  <2>1. Moment(c) = RefMoment(H, c) /\ Moment2(c) = RefMoment2(H, c)
    BY <1>1, MomentIsRef DEF TrainInv, HistoryInv
  <2>2. past' = H
    BY <1>2
  <2> HIDE DEF H
  <2>3. RefMoment(past, c)' = RefMoment(H, c) /\ RefMoment2(past, c)' = RefMoment2(H, c)
    BY <1>8, <2>2 DEF RefMoment, RefMoment2
  <2> QED
    BY <1>5, <2>1, <2>3
<1>10. MomentsOK'
  BY <1>9 DEF MomentsOK
<1>11. DeltasOK'
  BY <1>1 DEF DeltasOK
<1> QED
  BY <1>4, <1>7, <1>10, <1>11 DEF HistoryInv

LEMMA BetweenBatches == ASSUME TrainInv, AllTaken
                        PROVE  batch = 0
<1>1. Len(data) \in Nat /\ Batch \in Nat
  BY DataFacts, BatchFacts DEF TrainInv, BackInv
<1>2. pc = "load" /\ sample > Len(data) /\ sample \in 1 .. Len(data) + 1 /\ batch \in 0 .. Batch
  BY DEF TrainInv, BackInv, PlaceOK, AllTaken
<1>3. batch > 0 => sample <= Len(data)
  BY <1>2 DEF TrainInv, BackInv, PlaceOK
<1> QED
  BY <1>1, <1>2, <1>3

LEMMA HistoryKeeps == TrainInv /\ HistoryInv /\ [TrainNext]_trainVars => HistoryInv'
<1> SUFFICES ASSUME TrainInv, HistoryInv, [TrainNext]_trainVars
             PROVE  HistoryInv'
  OBVIOUS
<1>1. ASSUME UNCHANGED <<vars, past>>
      PROVE  HistoryInv'
  <2>1. UNCHANGED <<w, b, data, build, opt, loss, gradients, moments, sample, batch, past>>
    BY <1>1 DEF vars, settings
  <2>2. DeltasOK'
    <3>1. \A s, l, j : RefDelta(s, l, j)' = RefDelta(s, l, j)
      BY <2>1, RefStays
    <3> QED
      BY <1>1, <3>1 DEF HistoryInv, DeltasOK, vars, neurons
  <2> QED
    BY <2>1, <2>2, HistoryStays
<1>2. CASE UNCHANGED trainVars
  BY <1>1, <1>2 DEF trainVars, history
<1>3. CASE ReadData
  BY <1>1, <1>3 DEF ReadData, history
<1>4. ASSUME NEW r \in 0 .. RandMax, Exchange(r)
      PROVE  HistoryInv'
  BY <1>1, <1>4 DEF Exchange, history
<1>5. CASE StartEpoch
  BY <1>5, EpochStartHistory
<1>6. CASE StartTraining
  <2>1. pc = "load" /\ batch = 0 /\ sample' = 1 /\ UNCHANGED <<build, opt, gradients, moments, batch, past, pc>>
    BY <1>6 DEF TrainInv, PhaseOK, StartTraining, settings
  <2> QED
    BY <2>1, HistoryTurns
<1>7. CASE StartTest
  <2>1. pc = "load" /\ sample' = 1 /\ UNCHANGED <<build, opt, gradients, moments, batch, past, pc>>
    BY <1>7 DEF StartTest, AllTaken, settings, history
  <2>2. batch = 0
    BY <1>7, BetweenBatches DEF StartTest
  <2> QED
    BY <2>1, <2>2, HistoryTurns
<1>8. CASE EndEpoch
  <2>1. UNCHANGED <<w, b, data, build, opt, loss, gradients, moments, sample, batch, past>>
    BY <1>8 DEF EndEpoch, history
  <2>2. DeltasOK'
    BY <1>8 DEF EndEpoch, AllTaken, DeltasOK
  <2> QED
    BY <2>1, <2>2, HistoryStays
<1>9. CASE TestCount
  <2>1. sample \in Int /\ batch = 0
    BY <1>9 DEF TrainInv, BackInv, PlaceOK, PhaseOK, TestCount
  <2>2. UNCHANGED <<build, opt, gradients, moments, batch, past>> /\ sample' \in Int /\ pc' = "load"
    BY <1>9, <2>1 DEF TestCount, settings, history
  <2> QED
    BY <2>1, <2>2, HistoryTurns
<1>10. CASE TrainLoad
  BY <1>10, LoopHistory DEF TrainLoad
<1>11. CASE TrainOutput
  BY <1>11, LoopHistory DEF TrainOutput, history
<1>12. CASE TrainOther
  BY <1>12, LoopHistory, AccumulateHistory DEF TrainOther, history
<1>13. CASE TrainUpdate
  BY <1>13, UpdateHistory
<1>14. CASE TestStep
  BY <1>14, LoopHistory DEF TestStep, history
<1>15. CASE TrainNext
  BY <1>3, <1>4, <1>5, <1>6, <1>7, <1>8, <1>9, <1>10, <1>11, <1>12, <1>13, <1>14, <1>15 DEF TrainNext
<1> QED
  BY <1>2, <1>15

-----------------------------------------------------------------------------
(* The theorems.                                                           *)

LEMMA TypeFollows == TrainInv /\ MetricsInv => TrainTypeOK
<1> SUFFICES ASSUME TrainInv, MetricsInv
             PROVE  TrainTypeOK
  OBVIOUS
<1>1. TypeOK
  BY DEF TrainInv, BackInv, NumbersOK, Numbers, NeuronsOK, PlaceOK, TypeOK
<1>2. correct \in 0 .. Len(data)
  <2>1. CASE phase \in {"train", "test"}
    <3> DEFINE f == Outs
               d == data
               k == Counted
    <3>1. correct = Cardinality(Hits(f, d, k)) /\ k \in Nat /\ k <= Len(data) /\ Len(data) \in Nat
      BY <2>1, CountedFacts, DataFacts DEF TrainInv, BackInv, MetricsInv, CountOK
    <3> HIDE DEF f, d, k
    <3>2. correct \in 0 .. k
      BY <3>1, HitsFacts
    <3> QED
      BY <3>1, <3>2
  <2>2. CASE phase \notin {"train", "test"}
    BY <2>2 DEF MetricsInv
  <2> QED
    BY <2>1, <2>2
<1>3. next <= Len(drawn) /\ Order!IsPermutation
  BY DEF TrainInv, OrderOK
<1> QED
  BY <1>1, <1>2, <1>3 DEF TrainInv, PhaseOK, TrainTypeOK

LEMMA ForwardFollows == TrainInv => ForwardIsFunction
  BY DEF TrainInv, BackInv, OutOK, ForwardIsFunction

LEMMA DeltasFollow == HistoryInv => DeltasArePathSums
  BY DEF HistoryInv, DeltasOK, DeltasArePathSums, HiddenCells

LEMMA MomentsFollow == HistoryInv => MomentsFollowGradients
  BY DEF HistoryInv, MomentsOK, MomentsFollowGradients

LEMMA StepFollows ==
    ASSUME TrainInv, HistoryInv, TrainUpdate, NEW c \in Cells
    PROVE  LET before == IF c \in BiasCells THEN b[c] ELSE w[c]
               after  == IF c \in BiasCells THEN b'[c] ELSE w'[c]
           IN  Num(before - after) = Step(RefGradient(c), RefMoment(past', c), RefMoment2(past', c))
<1> DEFINE before == IF c \in BiasCells THEN b[c] ELSE w[c]
           after  == IF c \in BiasCells THEN b'[c] ELSE w'[c]
           H == Append(past, Due)
           s == Step(Gradient(c), Moment(c), Moment2(c))
<1>1. pc = "update" /\ past' = H
  BY DEF TrainUpdate, Update, Due
<1>2. Gradient(c) = RefGradient(c) /\ Moment(c) = RefMoment(H, c) /\ Moment2(c) = RefMoment2(H, c)
  BY <1>1, GradientIsRef, MomentIsRef DEF TrainInv, HistoryInv
<1>3. s \in Values
  <2>1. CorrectionOK
    BY CorrectionIsOK DEF TrainInv, BackInv, PhaseOK, TrainUpdate
  <2>2. /\ Gradient(c) \in Int /\ Moment(c) \in Int /\ Moment2(c) \in Int
        /\ Optimizer \in {"momentum", "rmsprop"} => Moment(c) \in Values
    BY <1>1, GradientIsInt, MomentIsInt DEF TrainInv
  <2> QED
    BY <2>1, <2>2, StepIsValue DEF TrainInv, BackInv
<1>4. after = Num(before - s)
  <2>1. /\ b' = [x \in BiasCells |-> Num(b[x] - Step(Gradient(x), Moment(x), Moment2(x)))]
        /\ w' = [x \in WeightCells |-> Num(w[x] - Step(Gradient(x), Moment(x), Moment2(x)))]
    BY DEF TrainUpdate, Update
  <2>2. c \in BiasCells \/ c \in WeightCells
    BY DEF Cells
  <2> QED
    BY <2>1, <2>2
<1>5. before \in Int
  BY DEF TrainInv, BackInv, NumbersOK, Numbers, Cells
<1>6. s = Step(RefGradient(c), RefMoment(past', c), RefMoment2(past', c))
  BY <1>1, <1>2
<1> HIDE DEF before, after, s
<1>7. Num(s) = s /\ s \in Int
  BY <1>3, NumOfValue
<1>8. before - s \in Int
  BY <1>5, <1>7
<1>9. Num(Num(before - s)) = Num(before - s) /\ Num(before - s) \in Int
  BY <1>8, NumType, NumOfNum
<1> DEFINE d == before - s
           e == Num(d)
<1>10. d \in Int /\ e \in Int /\ Num(e) = Num(d) /\ Num(before) = Num(before) /\ before - d = s
  BY <1>5, <1>7, <1>8, <1>9
<1>11. after = e
  BY <1>4
<1> HIDE DEF d, e
<1>12. Num(before - e) = Num(before - d)
  BY <1>5, <1>10, NumPlus
<1>13. Num(before - after) = s
  BY <1>7, <1>10, <1>11, <1>12
<1> QED
  BY <1>6, <1>13 DEF before, after

LEMMA StepsFollow ==
    TrainInv /\ HistoryInv /\ [TrainNext]_trainVars =>
        [phase = "train" /\ pc = "update" =>
            \A c \in Cells :
                LET before == IF c \in BiasCells THEN b[c] ELSE w[c]
                    after  == IF c \in BiasCells THEN b'[c] ELSE w'[c]
                IN  Num(before - after) =
                    Step(RefGradient(c), RefMoment(past', c), RefMoment2(past', c))]_trainVars
<1> SUFFICES ASSUME TrainInv, HistoryInv, TrainNext, phase = "train", pc = "update", NEW c \in Cells
             PROVE  LET before == IF c \in BiasCells THEN b[c] ELSE w[c]
                        after  == IF c \in BiasCells THEN b'[c] ELSE w'[c]
                    IN  Num(before - after) =
                        Step(RefGradient(c), RefMoment(past', c), RefMoment2(past', c))
  OBVIOUS
<1>1. TrainUpdate
  BY DEF TrainNext, ReadData, StartEpoch, StartTraining, StartTest, EndEpoch, Exchange, TrainLoad, Load,
         TrainOutput, OutputDelta, TrainOther, Forward, HiddenDelta, Accumulate, TestStep, TestCount, AllTaken
<1> QED
  BY <1>1, StepFollows

LEMMA FilesKeepInTraining == TrainInv /\ FilesOK /\ [TrainNext]_trainVars => FilesOK'
<1> SUFFICES ASSUME TrainInv, FilesOK, [TrainNext]_trainVars
             PROVE  FilesOK'
  OBVIOUS
<1>1. DatasetNext \/ UNCHANGED datasetVars
  BY DEF TrainNext, trainVars, epochVars, ReadData, StartEpoch, StartTraining, StartTest, EndEpoch, Exchange,
         TrainLoad, TrainOutput, TrainOther, TrainUpdate, TestStep, TestCount
<1>2. CASE UNCHANGED datasetVars
  BY <1>2 DEF datasetVars, FilesOK, FileHeld, Line
<1> QED
  BY <1>1, <1>2, FilesKeep DEF TrainInv

LEMMA ComparableFollows ==
    TrainInv /\ FilesOK /\ [TrainNext]_trainVars =>
        [stage' = "ready" /\ stage # "ready" /\ (\A s \in Sets : Len(file[s]) > Size[s])
            => Comparable']_datasetVars
<1> SUFFICES ASSUME TrainInv, FilesOK, [TrainNext]_trainVars, stage' = "ready", stage # "ready",
                    \A s \in Sets : Len(file[s]) > Size[s]
             PROVE  Comparable'
  OBVIOUS
<1>1. DatasetNext
  BY DEF TrainNext, trainVars, datasetVars, epochVars, ReadData, StartEpoch, StartTraining, StartTest,
         EndEpoch, Exchange, TrainLoad, TrainOutput, TrainOther, TrainUpdate, TestStep, TestCount
<1>2. Normalize
  BY <1>1 DEF DatasetNext, ReadTrain, ReadTest, ReadFails, ScaleTrain, ScaleTest
<1> QED
  BY <1>2, SetsBecomeComparable DEF TrainInv

LEMMA TrainInvariant == TrainSpec => [](TrainInv /\ MetricsInv /\ HistoryInv /\ FilesOK)
<1>1. TrainInit => TrainInv /\ MetricsInv /\ HistoryInv /\ FilesOK
  BY TrainStarts, MetricsStart, HistoryStarts, FilesStart DEF TrainInit
<1>2. TrainInv /\ MetricsInv /\ HistoryInv /\ FilesOK /\ [TrainNext]_trainVars =>
          TrainInv' /\ MetricsInv' /\ HistoryInv' /\ FilesOK'
  BY TrainInvKeeps, MetricsKeep, HistoryKeeps, FilesKeepInTraining
<1> QED
  BY <1>1, <1>2, PTL DEF TrainSpec

\* Every loop of main stays in its range, in both programs, for every network and
\* every optimizer: no place of the arrays is read that is not there, no quotient is
\* by zero, and what is put into the cells are numbers.  The order is a permutation of
\* the samples in every epoch, whatever the workers find rand() at.
THEOREM TrainTypeCorrect == TrainSpec => []TrainTypeOK
  BY TrainInvariant, TypeFollows, PTL

\* Whatever was trained and tested before, in whatever order: what the network puts
\* out for a sample is the function of its weights and that sample, and nothing else.
THEOREM ForwardComputesNet == TrainSpec => []ForwardIsFunction
  BY TrainInvariant, ForwardFollows, PTL

\* The metrics of an epoch are those of its samples, each counted once, with what
\* the network put out when it was the sample's turn; the test's are those of the
\* network that was trained.
THEOREM MetricsAreExact == TrainSpec => []MetricsOfEpoch
  BY TrainInvariant, MetricsFollow, PTL

\* The error that reaches a hidden neuron is the sum over all its paths to the
\* output, each counted once, for every number of layers and neurons and in both
\* programs: the serial one's differs only in what it takes for an edge.
THEOREM DeltasAreSums == TrainSpec => []DeltasArePathSums
  BY TrainInvariant, DeltasFollow, PTL

\* After any number of batches, epochs and workers, the momenta are the weighted
\* means of the gradients since they were zeroed, and of nothing else.
THEOREM MomentsAreAverages == TrainSpec => []MomentsFollowGradients
  BY TrainInvariant, MomentsFollow, PTL

\* What an update does to the weights and biases is the one step of the optimizer for
\* the mean gradient of the samples of that batch, whole or not, with each sample's
\* gradient taken at the weights the batch began with.
THEOREM BatchesAreSteps == TrainSpec => BatchIsOneStep
<1>1. TrainInv /\ HistoryInv /\ [TrainNext]_trainVars =>
        [phase = "train" /\ pc = "update" =>
            \A c \in Cells :
                LET before == IF c \in BiasCells THEN b[c] ELSE w[c]
                    after  == IF c \in BiasCells THEN b'[c] ELSE w'[c]
                IN  Num(before - after) =
                    Step(RefGradient(c), RefMoment(past', c), RefMoment2(past', c))]_trainVars
  BY StepsFollow
<1> QED
  BY <1>1, TrainInvariant, PTL DEF TrainSpec, BatchIsOneStep

\* Of files that are long enough, both sets come out comparable: every sample has the
\* label of its line, one straight map took a dimension's pixels to what the network
\* sees, in both sets, and what varies has mean zero.
THEOREM SetsComeOutComparable == TrainSpec => SetsAreComparable
<1>1. TrainInv /\ FilesOK /\ [TrainNext]_trainVars =>
          [stage' = "ready" /\ stage # "ready" /\ (\A s \in Sets : Len(file[s]) > Size[s])
              => Comparable']_datasetVars
  BY ComparableFollows
<1> QED
  BY <1>1, TrainInvariant, PTL DEF TrainSpec, SetsAreComparable

\* The NUMA build left the doubtful term out: in a program of that build alone, what the
\* errors are weighted with along a path are the weights.  (In the serial build they
\* are not: that is the counterexample.)
THEOREM NumaEdgesAreWeights ==
    ASSUME "serial" \notin Builds
    PROVE  TrainSpec => []EdgesAreWeights
<1>1. TrainInv /\ HistoryInv => EdgesAreWeights
  <2> SUFFICES ASSUME TrainInv, HistoryInv
               PROVE  EdgesAreWeights
    OBVIOUS
  <2>1. build # "serial" /\ w \in [WeightCells -> Int]
    BY DEF TrainInv, BackInv, SettingsOK, NumbersOK, Numbers
  <2>2. \A e \in WeightCells : w[e] + 0 = w[e]
    BY <2>1
  <2>3. Edges = w
    BY <2>1, <2>2 DEF Edges
  <2>4. \A c \in HiddenCells : c[1] # Last
    BY HiddenFacts, NetFacts
  <2>5. DeltasArePathSums
    BY DeltasFollow
  <2> QED
    BY <2>3, <2>4, <2>5 DEF EdgesAreWeights, DeltasArePathSums, RefDelta
<1> QED
  BY <1>1, TrainInvariant, PTL
=============================================================================
