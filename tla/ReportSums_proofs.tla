--------------------------- MODULE ReportSums_proofs --------------------------
(***************************************************************************)
(* What a platform's account adds up to, for every report: its buckets hold  *)
(* exactly the rows the pages reported, and what was spent or requested is   *)
(* the sum of every part where every part is known, and unknown otherwise.   *)
(*                                                                         *)
(* The sums come first: what a fold adds up to, by steps, what sequences laid *)
(* end to end, grouped by a key or picked by a set are worth.  Then, adapter  *)
(* by adapter, that a fold that is not refused or stopped is the exact sum,  *)
(* and at last that nothing is refused but what is malformed or too large.   *)
(***************************************************************************)
EXTENDS ProviderReports_proofs

-----------------------------------------------------------------------------
(***************************************************************************)
(* Sums.                                                                   *)
(***************************************************************************)
\* What has come together of v, step by step.
Accrues(c, n, v) ==
    c \in [0..n -> Int] /\ c[0] = 0 /\ \A i \in 1..n : c[i] = c[i - 1] + v[i]

\* Every sequence of numbers has its steps, and its sum is the last of them.
LEMMA TotalAccrues ==
    ASSUME NEW n \in Nat, NEW v \in [1..n -> Int]
    PROVE  \E c : Accrues(c, n, v) /\ Total(v) = c[n]
<1>1. v \in Seq(Int) /\ Len(v) = n
  OBVIOUS
<1>2. PICK c \in [0..Len(v) -> Int] : /\ c[0] = 0 /\ \A i \in 1..Len(v) : c[i] = c[i - 1] + v[i]
                                      /\ Total(v) = c[Len(v)]
  BY <1>1, TotalChain
<1> QED
  BY <1>1, <1>2 DEF Accrues

\* What accrues step by step is the sum.
LEMMA TotalIs ==
    ASSUME NEW n \in Nat, NEW v \in [1..n -> Int], NEW c, Accrues(c, n, v)
    PROVE  Total(v) = c[n] /\ Total(v) \in Int
<1>1. PICK d : Accrues(d, n, v) /\ Total(v) = d[n]
  BY TotalAccrues
<1> DEFINE S == {i \in 0..n : c[i] = d[i]}
<1>2. 0 \in S
  BY <1>1 DEF Accrues
<1>3. \A i \in 1..n : i - 1 \in S => i \in S
  BY <1>1 DEF Accrues
<1> HIDE DEF S
<1>4. \A i \in 0..n : i \in S
  BY <1>2, <1>3, Stepwise
<1> QED
  BY <1>1, <1>4 DEF S, Accrues

\* A sum of integers is an integer.
LEMMA TotalType == ASSUME NEW n \in Nat, NEW v \in [1..n -> Int] PROVE Total(v) \in Int
  BY TotalAccrues, TotalIs

\* Adding element by element adds the sums.
LEMMA TotalAdds ==
    ASSUME NEW n \in Nat, NEW a \in [1..n -> Int], NEW b \in [1..n -> Int],
           NEW v \in [1..n -> Int], \A i \in 1..n : v[i] = a[i] + b[i]
    PROVE  Total(v) = Total(a) + Total(b)
<1>1. PICK c : Accrues(c, n, a) /\ Total(a) = c[n]
  BY TotalAccrues
<1>2. PICK d : Accrues(d, n, b) /\ Total(b) = d[n]
  BY TotalAccrues
<1> DEFINE e == [i \in 0..n |-> c[i] + d[i]]
<1>4. Accrues(e, n, v)
  <2>1. \A i \in 0..n : c[i] \in Int /\ d[i] \in Int
    BY <1>1, <1>2 DEF Accrues
  <2>2. e \in [0..n -> Int] /\ e[0] = 0
    BY <1>1, <1>2, <2>1 DEF Accrues
  <2>3. ASSUME NEW i \in 1..n PROVE e[i] = e[i - 1] + v[i]
    <3>1. i - 1 \in 0..n /\ i \in 0..n
      OBVIOUS
    <3>2. c[i] = c[i - 1] + a[i] /\ d[i] = d[i - 1] + b[i]
      BY <1>1, <1>2 DEF Accrues
    <3> QED
      BY <2>1, <3>1, <3>2
  <2> QED
    BY <2>2, <2>3 DEF Accrues
<1> HIDE DEF e
<1>5. Total(v) = e[n]
  BY <1>4, TotalIs
<1> QED
  BY <1>1, <1>2, <1>5 DEF e

\* Zeros add up to zero.
LEMMA TotalNothing ==
    ASSUME NEW n \in Nat, NEW v \in [1..n -> Int], \A i \in 1..n : v[i] = 0
    PROVE  Total(v) = 0
<1> DEFINE e == [i \in 0..n |-> 0]
<1>1. v \in [1..n -> Int] /\ Accrues(e, n, v) /\ e[n] = 0
  BY DEF Accrues
<1> HIDE DEF e
<1> QED
  BY <1>1, TotalIs

\* Of a sum with one part that is not zero.
LEMMA TotalAt ==
    ASSUME NEW n \in Nat, NEW k \in 1..n, NEW x \in Int,
           NEW v \in [1..n -> Int], \A i \in 1..n : v[i] = IF i = k THEN x ELSE 0
    PROVE  Total(v) = x
<1> DEFINE e == [i \in 0..n |-> IF i < k THEN 0 ELSE x]
<1>1. v \in [1..n -> Int] /\ Accrues(e, n, v) /\ e[n] = x
  BY DEF Accrues
<1> HIDE DEF e
<1> QED
  BY <1>1, TotalIs

\* The sum of two sequences, one after the other, is the sum of their sums.
LEMMA TotalBoth ==
    ASSUME NEW n \in Nat, NEW a \in [1..n -> Int], NEW m \in Nat, NEW b \in [1..m -> Int],
           NEW v \in [1..(n + m) -> Int],
           \A i \in 1..n : v[i] = a[i], \A i \in 1..m : v[n + i] = b[i]
    PROVE  Total(v) = Total(a) + Total(b)
<1>1. PICK c : Accrues(c, n, a) /\ Total(a) = c[n]
  BY TotalAccrues
<1>2. PICK d : Accrues(d, m, b) /\ Total(b) = d[m]
  BY TotalAccrues
<1> DEFINE e == [i \in 0..(n + m) |-> IF i <= n THEN c[i] ELSE c[n] + d[i - n]]
<1>3. /\ \A i \in 0..n : c[i] \in Int
      /\ \A i \in 0..m : d[i] \in Int
      /\ c[0] = 0 /\ d[0] = 0
      /\ \A i \in 1..n : c[i] = c[i - 1] + a[i]
      /\ \A i \in 1..m : d[i] = d[i - 1] + b[i]
  BY <1>1, <1>2 DEF Accrues
<1>4. e \in [0..(n + m) -> Int]
  <2>1. \A i \in 0..(n + m) : i > n => i - n \in 0..m
    OBVIOUS
  <2> QED
    BY <1>3, <2>1, SMTT(30)
<1>5. e[0] = 0
  BY <1>3
<1>6. ASSUME NEW i \in 1..(n + m) PROVE e[i] = e[i - 1] + v[i]
  <2>1. i - 1 \in 0..(n + m) /\ i \in 0..(n + m)
    OBVIOUS
  <2>2. CASE i <= n
    BY <1>3, <2>1, <2>2
  <2>3. CASE i > n
    <3> DEFINE j == i - n
    <3>1. j \in 1..m /\ v[i] = b[j]
      <4>1. j \in 1..m /\ i = n + j
        BY <2>3
      <4> QED
        BY <4>1
    <3>2. d[j] = d[j - 1] + b[j] /\ j - 1 \in 0..m /\ d[j - 1] \in Int
      BY <1>3, <3>1
    <3>3. e[i] = c[n] + d[j]
      BY <2>1, <2>3
    <3>4. e[i - 1] = c[n] + d[j - 1]
      <4>1. CASE i - 1 > n
        <5>1. (i - 1) - n = j - 1
          OBVIOUS
        <5> QED
          BY <2>1, <4>1, <5>1
      <4>2. CASE ~(i - 1 > n)
        <5>1. i - 1 = n /\ j - 1 = 0
          BY <2>3, <4>2
        <5> QED
          BY <1>3, <2>1, <5>1
      <4> QED
        BY <4>1, <4>2
    <3> HIDE DEF j, e
    <3>5. c[n] \in Int /\ b[j] \in Int
      BY <1>3, <3>1
    <3> QED
      BY <3>1, <3>2, <3>3, <3>4, <3>5
  <2> QED
    BY <2>2, <2>3
<1>7. e[n + m] = c[n] + d[m]
  <2>1. CASE m = 0
    BY <1>3, <2>1
  <2>2. CASE m # 0
    BY <2>2
  <2> QED
    BY <2>1, <2>2
<1> HIDE DEF e
<1>8. Accrues(e, n + m, v)
  BY <1>4, <1>5, <1>6 DEF Accrues
<1>9. n + m \in Nat
  OBVIOUS
<1>10. Total(v) = e[n + m]
  BY <1>8, <1>9, TotalIs
<1> QED
  BY <1>1, <1>2, <1>7, <1>10

\* A sum over columns of sums over rows is the sum over rows of those over columns.
LEMMA TotalExchange ==
    ASSUME NEW n \in Nat, NEW m \in Nat, NEW M \in [(1..n) \X (1..m) -> Int]
    PROVE  Total([j \in 1..m |-> Total([i \in 1..n |-> M[<<i, j>>]])])
             = Total([i \in 1..n |-> Total([j \in 1..m |-> M[<<i, j>>]])])
<1> DEFINE column(j) == [i \in 1..n |-> M[<<i, j>>]]
           row(i) == [j \in 1..m |-> M[<<i, j>>]]
           chain == [j \in 1..m |-> CHOOSE c : Accrues(c, n, column(j)) /\ Total(column(j)) = c[n]]
           upto(i) == [j \in 1..m |-> chain[j][i]]
           e == [i \in 0..n |-> Total(upto(i))]
           v == [i \in 1..n |-> Total(row(i))]
<1>1. ASSUME NEW j \in 1..m
      PROVE  /\ column(j) \in [1..n -> Int]
             /\ Accrues(chain[j], n, column(j)) /\ Total(column(j)) = chain[j][n]
  <2>1. column(j) \in [1..n -> Int]
    OBVIOUS
  <2> HIDE DEF column
  <2>2. \E c : Accrues(c, n, column(j)) /\ Total(column(j)) = c[n]
    BY <2>1, TotalAccrues
  <2> QED
    BY <2>1, <2>2
<1>2. ASSUME NEW i \in 1..n PROVE row(i) \in [1..m -> Int]
  OBVIOUS
<1>3. ASSUME NEW i \in 0..n PROVE upto(i) \in [1..m -> Int]
  <2> HIDE DEF chain, column
  <2> QED
    BY <1>1 DEF Accrues
<1>4. v \in [1..n -> Int] /\ e \in [0..n -> Int]
  <2>1. \A i \in 1..n : Total(row(i)) \in Int
    BY <1>2, TotalType
  <2>2. \A i \in 0..n : Total(upto(i)) \in Int
    BY <1>3, TotalType
  <2> HIDE DEF row, upto
  <2> QED
    BY <2>1, <2>2
<1>5. e[0] = 0
  <2>1. \A j \in 1..m : chain[j][0] = 0
    BY <1>1 DEF Accrues
  <2> HIDE DEF chain
  <2>2. upto(0) \in [1..m -> Int] /\ \A j \in 1..m : upto(0)[j] = 0
    BY <1>3, <2>1
  <2> HIDE DEF upto
  <2>3. Total(upto(0)) = 0
    BY <2>2, TotalNothing
  <2> QED
    BY <2>3
<1>6. ASSUME NEW i \in 1..n PROVE e[i] = e[i - 1] + v[i]
  <2>1. i - 1 \in 0..n /\ i \in 0..n
    OBVIOUS
  <2>2. \A j \in 1..m : chain[j][i] = chain[j][i - 1] + M[<<i, j>>]
    <3> TAKE j \in 1..m
    <3>1. Accrues(chain[j], n, column(j))
      BY <1>1
    <3>2. column(j)[i] = M[<<i, j>>]
      OBVIOUS
    <3> HIDE DEF chain, column
    <3> QED
      BY <3>1, <3>2 DEF Accrues
  <2>3. upto(i - 1) \in [1..m -> Int] /\ row(i) \in [1..m -> Int]
    BY <1>2, <1>3, <2>1
  <2> HIDE DEF chain, column
  <2>4. upto(i) \in [1..m -> Int] /\ \A j \in 1..m : upto(i)[j] = upto(i - 1)[j] + row(i)[j]
    BY <1>3, <2>1, <2>2
  <2> HIDE DEF upto, row
  <2>5. Total(upto(i)) = Total(upto(i - 1)) + Total(row(i))
    BY <2>3, <2>4, TotalAdds
  <2> QED
    BY <2>1, <2>5
<1> HIDE DEF e, v
<1>7. Total(v) = e[n]
  <2>1. Accrues(e, n, v)
    BY <1>4, <1>5, <1>6 DEF Accrues
  <2> QED
    BY <1>4, <2>1, TotalIs
<1>8. e[n] = Total([j \in 1..m |-> Total(column(j))])
  <2>1. upto(n) = [j \in 1..m |-> Total(column(j))]
    <3>1. \A j \in 1..m : chain[j][n] = Total(column(j))
      BY <1>1
    <3> HIDE DEF chain, column
    <3> QED
      BY <3>1
  <2> HIDE DEF upto, column
  <2> QED
    BY <2>1 DEF e
<1> QED
  BY <1>7, <1>8 DEF v

\* What the elements of a sequence are worth together.
Worth(val, s) == Total([i \in DOMAIN s |-> val[s[i]]])

\* What a sequence is worth is an integer.
LEMMA WorthType ==
    ASSUME NEW T, NEW val \in [T -> Int], NEW s \in Seq(T)
    PROVE  Worth(val, s) \in Int
<1> DEFINE n == Len(s)
           v == [i \in 1..n |-> val[s[i]]]
<1>1. n \in Nat /\ DOMAIN s = 1..n /\ v \in [1..n -> Int]
  OBVIOUS
<1>2. Worth(val, s) = Total(v)
  BY <1>1 DEF Worth
<1> HIDE DEF n, v
<1> QED
  BY <1>1, <1>2, TotalType

\* An empty sequence is worth nothing.
LEMMA WorthNone ==
    ASSUME NEW T, NEW val \in [T -> Int]
    PROVE  Worth(val, <<>>) = 0
<1> DEFINE v == [i \in DOMAIN <<>> |-> val[<<>>[i]]]
<1>1. v \in [1..0 -> Int] /\ \A i \in 1..0 : v[i] = 0
  OBVIOUS
<1>2. Worth(val, <<>>) = Total(v)
  BY DEF Worth
<1> HIDE DEF v
<1>3. 0 \in Nat
  OBVIOUS
<1> QED
  BY <1>1, <1>2, <1>3, TotalNothing

\* A sequence of one element is worth that element.
LEMMA WorthOne ==
    ASSUME NEW T, NEW val \in [T -> Int], NEW x \in T
    PROVE  Worth(val, <<x>>) = val[x]
<1> DEFINE s == <<x>>
           v == [i \in DOMAIN s |-> val[s[i]]]
<1>1. v \in [1..1 -> Int] /\ \A i \in 1..1 : v[i] = IF i = 1 THEN val[x] ELSE 0
  OBVIOUS
<1>2. Worth(val, s) = Total(v)
  BY DEF Worth
<1> HIDE DEF v
<1>3. 1 \in Nat /\ 1 \in 1..1 /\ val[x] \in Int
  OBVIOUS
<1> HIDE DEF s
<1>4. Total(v) = val[x]
  BY <1>1, <1>3, TotalAt
<1> QED
  BY <1>2, <1>4 DEF s

\* Two sequences, one after the other, are worth both.
LEMMA WorthBoth ==
    ASSUME NEW T, NEW val \in [T -> Int], NEW s \in Seq(T), NEW t \in Seq(T)
    PROVE  Worth(val, s \o t) = Worth(val, s) + Worth(val, t)
<1> DEFINE n == Len(s)
           m == Len(t)
           a == [i \in 1..n |-> val[s[i]]]
           b == [i \in 1..m |-> val[t[i]]]
           v == [i \in 1..(n + m) |-> val[(s \o t)[i]]]
<1>1. /\ n \in Nat /\ DOMAIN s = 1..n /\ m \in Nat /\ DOMAIN t = 1..m
      /\ DOMAIN (s \o t) = 1..(n + m)
  OBVIOUS
<1>2. a \in [1..n -> Int] /\ b \in [1..m -> Int]
  OBVIOUS
<1>3. s \o t \in Seq(T)
  OBVIOUS
<1>4. v \in [1..(n + m) -> Int]
  <2>1. \A i \in 1..(n + m) : (s \o t)[i] \in T
    BY <1>1, <1>3
  <2> QED
    BY <2>1
<1>5. \A i \in 1..n : v[i] = a[i]
  BY <1>1
<1>6. \A i \in 1..m : v[n + i] = b[i]
  <2> TAKE i \in 1..m
  <2>1. n + i \in 1..(n + m) /\ (s \o t)[n + i] = t[i]
    OBVIOUS
  <2> QED
    BY <2>1
<1>7. Worth(val, s) = Total(a) /\ Worth(val, t) = Total(b) /\ Worth(val, s \o t) = Total(v)
  BY <1>1 DEF Worth
<1>8. n \in Nat /\ m \in Nat
  BY <1>1
<1> HIDE DEF n, m, a, b, v
<1>9. Total(v) = Total(a) + Total(b)
  BY <1>2, <1>4, <1>5, <1>6, <1>8, TotalBoth, ZenonT(40)
<1> QED
  BY <1>7, <1>9

\* Sequences laid end to end are worth what they are worth one by one.
LEMMA WorthFlat ==
    ASSUME NEW T, NEW val \in [T -> Int], NEW seqs \in Seq(Seq(T)),
           NEW parts \in [1..Len(seqs) -> Int], \A k \in 1..Len(seqs) : parts[k] = Worth(val, seqs[k])
    PROVE  Worth(val, FlattenSeq(seqs)) = Total(parts)
<1> DEFINE n == Len(seqs)
           flat == CHOOSE f : Flat(f, seqs)
           e == [k \in 0..n |-> IF k = 0 THEN 0 ELSE Worth(val, flat[k])]
<1>1. n \in Nat /\ DOMAIN seqs = 1..n /\ \A k \in 1..n : seqs[k] \in Seq(T)
  OBVIOUS
<1>2. CASE n = 0
  <2>1. FlattenSeq(seqs) = <<>>
    BY <1>2 DEF FlattenSeq
  <2>2. parts \in [1..0 -> Int] /\ \A i \in 1..0 : parts[i] = 0 /\ 0 \in Nat
    BY <1>2
  <2> QED
    BY <2>1, <2>2, WorthNone, TotalNothing
<1>3. CASE n # 0
  <2>1. Flat(flat, seqs)
    BY <1>1, FlatExists
  <2>2. FlattenSeq(seqs) = flat[n]
    BY <1>3, Zenon DEF FlattenSeq, Flat
  <2> HIDE DEF flat
  <2>3. \A k \in 1..n : flat[k] = IF k = 1 THEN seqs[k] ELSE flat[k - 1] \o seqs[k]
    BY <2>1 DEF Flat
  <2> HIDE DEF n, e
  <2> DEFINE S == {0} \cup {k \in 1..n : flat[k] \in Seq(T)}
  <2>4. ASSUME NEW k \in 1..n, k - 1 \in S
        PROVE  k \in S
    <3>1. CASE k = 1
      BY <1>1, <2>3, <3>1
    <3>2. CASE k # 1
      <4>a. k - 1 \in S /\ k - 1 # 0
        BY <2>4, <3>2
      <4>b. flat[k - 1] \in Seq(T)
        BY <4>a
      <4>c. flat[k] = flat[k - 1] \o seqs[k]
        BY <2>3, <3>2, Zenon
      <4>1. flat[k - 1] \in Seq(T) /\ flat[k] = flat[k - 1] \o seqs[k]
        BY <4>b, <4>c
      <4>2. flat[k] \in Seq(T)
        BY <1>1, <4>1
      <4> QED
        BY <4>2
    <3> QED
      BY <3>1, <3>2
  <2>5. 0 \in S
    OBVIOUS
  <2> HIDE DEF S
  <2>a. n \in Nat
    BY <1>1
  <2>6. \A k \in 0..n : k \in S
    BY <2>a, <2>4, <2>5, Stepwise, Zenon
  <2>7. \A k \in 1..n : flat[k] \in Seq(T)
    BY <1>1, <2>6 DEF S
  <2>8. Accrues(e, n, parts)
    <3>1. e \in [0..n -> Int]
      <4>1. \A k \in 1..n : Worth(val, flat[k]) \in Int
        BY <2>7, WorthType
      <4> QED
        BY <1>1, <4>1 DEF e
    <3>2. e[0] = 0
      BY <1>1 DEF e
    <3>3. ASSUME NEW k \in 1..n PROVE e[k] = e[k - 1] + parts[k]
      <4>a. parts[k] = Worth(val, seqs[k]) /\ parts[k] \in Int
        BY DEF n
      <4>b. k \in 0..n /\ k # 0
        BY <1>1
      <4>c. e[k] = Worth(val, flat[k])
        BY <4>b, Zenon DEF e
      <4>1. parts[k] = Worth(val, seqs[k]) /\ e[k] = Worth(val, flat[k]) /\ parts[k] \in Int
        BY <4>a, <4>c
      <4>2. CASE k = 1
        BY <1>1, <2>3, <3>2, <4>1, <4>2
      <4>3. CASE k # 1
        <5>1. k - 1 \in 1..n /\ k - 1 \in 0..n /\ k - 1 # 0
          BY <1>1, <4>3
        <5>2. flat[k] = flat[k - 1] \o seqs[k] /\ flat[k - 1] \in Seq(T) /\ seqs[k] \in Seq(T)
          BY <1>1, <2>3, <2>7, <4>3, <5>1
        <5>a. Worth(val, flat[k - 1] \o seqs[k]) = Worth(val, flat[k - 1]) + Worth(val, seqs[k])
          BY <5>2, WorthBoth, ZenonT(40)
        <5>3. Worth(val, flat[k]) = Worth(val, flat[k - 1]) + Worth(val, seqs[k])
          BY <5>2, <5>a, Zenon
        <5>4. e[k - 1] = Worth(val, flat[k - 1])
          BY <5>1 DEF e
        <5> QED
          BY <4>1, <5>3, <5>4
      <4> QED
        BY <4>2, <4>3
    <3> QED
      BY <3>1, <3>2, <3>3 DEF Accrues
  <2>9. Total(parts) = e[n]
    <3>1. parts \in [1..n -> Int]
      BY DEF n
    <3> QED
      BY <1>1, <2>8, <3>1, TotalIs
  <2>10. e[n] = Worth(val, flat[n])
    BY <1>1, <1>3 DEF e
  <2> QED
    BY <2>2, <2>9, <2>10
<1> QED
  BY <1>2, <1>3

\* Of those elements that are in a set.
LEMMA WorthAmong ==
    ASSUME NEW T, NEW val \in [T -> Int], NEW s \in Seq(T), NEW P,
           NEW v \in [1..Len(s) -> Int], \A i \in 1..Len(s) : v[i] = IF s[i] \in P THEN val[s[i]] ELSE 0
    PROVE  Worth(val, Among(s, P)) = Total(v)
<1> DEFINE parts == [i \in 1..Len(s) |-> IF s[i] \in P THEN <<s[i]>> ELSE <<>>]
<1>a. DOMAIN s = 1..Len(s)
  OBVIOUS
<1>1. Among(s, P) = FlattenSeq(parts)
  BY <1>a, Zenon DEF Among
<1>2. parts \in Seq(Seq(T)) /\ Len(parts) = Len(s)
  OBVIOUS
<1>3. ASSUME NEW i \in 1..Len(s) PROVE v[i] = Worth(val, parts[i])
  <2>1. s[i] \in T /\ parts[i] = (IF s[i] \in P THEN <<s[i]>> ELSE <<>>)
    OBVIOUS
  <2> HIDE DEF parts
  <2>2. Worth(val, <<s[i]>>) = val[s[i]] /\ Worth(val, <<>>) = 0
    BY <2>1, WorthOne, WorthNone, Zenon
  <2>3. v[i] = IF s[i] \in P THEN val[s[i]] ELSE 0
    OBVIOUS
  <2> QED
    BY <2>1, <2>2, <2>3, Zenon
<1> HIDE DEF parts
<1>4. v \in [1..Len(parts) -> Int] /\ \A k \in 1..Len(parts) : v[k] = Worth(val, parts[k])
  BY <1>2, <1>3
<1>5. Worth(val, FlattenSeq(parts)) = Total(v)
  BY <1>2, <1>4, WorthFlat, Zenon
<1> QED
  BY <1>1, <1>5

\* Those of an element whose key is a value.
Gathered(s, key, value) == Among(s, {x \in ToSet(s) : key[x] = value})

\* What the groups of a sequence by a key are worth, the keys in order.
Grouped(groups, val, s, key, order, S) ==
    /\ groups \in [1..Cardinality(S) -> Int]
    /\ \A i \in 1..Len(s) : key[s[i]] \in S
    /\ \A j \in 1..Cardinality(S) : groups[j] = Worth(val, Gathered(s, key, order[j]))

\* The groups of a sequence by a key are worth what it is.
LEMMA WorthGroups ==
    ASSUME NEW T, NEW val \in [T -> Int], NEW s \in Seq(T), NEW key, NEW S, NEW R, NEW order,
           Lists(order, S, R), NEW groups, Grouped(groups, val, s, key, order, S)
    PROVE  Total(groups) = Worth(val, s)
<1> DEFINE n == Len(s)
           m == Cardinality(S)
           M == [p \in (1..n) \X (1..m) |-> IF key[s[p[1]]] = order[p[2]] THEN val[s[p[1]]] ELSE 0]
           column(j) == [i \in 1..n |-> M[<<i, j>>]]
           row(i) == [j \in 1..m |-> M[<<i, j>>]]
           a == [i \in 1..n |-> val[s[i]]]
<1>0. /\ groups \in [1..m -> Int] /\ \A i \in 1..Len(s) : key[s[i]] \in S
      /\ \A j \in 1..m : groups[j] = Worth(val, Gathered(s, key, order[j]))
  BY DEF Grouped
<1>1. n \in Nat /\ m \in Nat /\ DOMAIN s = 1..n /\ a \in [1..n -> Int]
  BY DEF Lists
<1>2. M \in [(1..n) \X (1..m) -> Int]
  OBVIOUS
<1>3. \A i \in 1..n, j \in 1..m : M[<<i, j>>] = IF key[s[i]] = order[j] THEN val[s[i]] ELSE 0
  OBVIOUS
<1> HIDE DEF M
<1>4. ASSUME NEW j \in 1..m PROVE groups[j] = Total(column(j))
  <2> DEFINE P == {x \in ToSet(s) : key[x] = order[j]}
             v == column(j)
  <2>1. v \in [1..Len(s) -> Int]
    BY <1>2, <1>1
  <2>2. \A i \in 1..Len(s) : s[i] \in P <=> key[s[i]] = order[j]
    BY <1>1 DEF ToSet
  <2>3. groups[j] = Worth(val, Among(s, P))
    BY <1>0, Zenon DEF Gathered
  <2> HIDE DEF P
  <2>4. \A i \in 1..Len(s) : v[i] = IF s[i] \in P THEN val[s[i]] ELSE 0
    BY <1>3, <2>2
  <2>5. v = column(j)
    OBVIOUS
  <2> HIDE DEF v, n, m, a, column, row
  <2>6. Worth(val, Among(s, P)) = Total(v)
    <3>1. v \in [1..Len(s) -> Int]
      BY <2>1
    <3>2. \A i \in 1..Len(s) : v[i] = IF s[i] \in P THEN val[s[i]] ELSE 0
      BY <2>4
    <3>3. val \in [T -> Int] /\ s \in Seq(T)
      OBVIOUS
    <3> QED
      BY ONLY <3>1, <3>2, <3>3, WorthAmong
  <2> QED
    BY <2>3, <2>5, <2>6, Zenon
<1>5. ASSUME NEW i \in 1..n PROVE Total(row(i)) = a[i]
  <2>1. PICK k \in 1..m : order[k] = key[s[i]]
    BY <1>0 DEF Lists
  <2>2. \A j \in 1..m : order[j] = key[s[i]] <=> j = k
    BY <2>1 DEF Lists
  <2> DEFINE v == row(i)
  <2>3. v \in [1..m -> Int] /\ a[i] \in Int
    BY <1>2
  <2>4. \A j \in 1..m : v[j] = IF j = k THEN a[i] ELSE 0
    BY <1>3, <2>2
  <2> HIDE DEF v, m, a
  <2>5. Total(v) = a[i]
    BY <1>1, <2>1, <2>3, <2>4, TotalAt
  <2> QED
    BY <2>5 DEF v
<1>6. Total([j \in 1..m |-> Total(column(j))]) = Total([i \in 1..n |-> Total(row(i))])
  <2> HIDE DEF n, m
  <2> QED
    BY <1>1, <1>2, TotalExchange
<1>7. groups = [j \in 1..m |-> Total(column(j))]
  <2> HIDE DEF column
  <2> QED
    BY <1>0, <1>4
<1>8. a = [i \in 1..n |-> Total(row(i))]
  <2> DEFINE t == [i \in 1..n |-> Total(row(i))]
  <2> HIDE DEF row
  <2>1. a \in [1..n -> Int] /\ t = [i \in 1..n |-> t[i]] /\ \A i \in 1..n : t[i] = a[i]
    BY <1>1, <1>5
  <2>2. a = [i \in 1..n |-> a[i]]
    BY <1>1
  <2> HIDE DEF a, t
  <2>3. a = t
    BY <2>1, <2>2
  <2> QED
    BY <2>3 DEF t
<1>9. Worth(val, s) = Total(a)
  BY <1>1 DEF Worth
<1> QED
  BY <1>6, <1>7, <1>8, <1>9

\* Rows of results, and what each result is worth.
RowsOf(A, T) == [start : A, end : A, results : Seq(T)]
RowWorth(A, T, val) == [row \in RowsOf(A, T) |-> Worth(val, row.results)]

\* A row is worth what its results are.
LEMMA RowWorthType ==
    ASSUME NEW A, NEW T, NEW val \in [T -> Int]
    PROVE  /\ RowWorth(A, T, val) \in [RowsOf(A, T) -> Int]
           /\ \A row \in RowsOf(A, T) : RowWorth(A, T, val)[row] = Worth(val, row.results)
<1>1. \A row \in RowsOf(A, T) : Worth(val, row.results) \in Int
  <2> TAKE row \in RowsOf(A, T)
  <2>1. row.results \in Seq(T)
    BY DEF RowsOf
  <2> QED
    BY <2>1, WorthType
<1> QED
  BY <1>1 DEF RowWorth

\* The results of rows are worth what the rows are.
LEMMA WorthResults ==
    ASSUME NEW A, NEW T, NEW val \in [T -> Int], NEW rows \in Seq(RowsOf(A, T))
    PROVE  Worth(val, FlattenSeq([i \in DOMAIN rows |-> rows[i].results]))
               = Worth(RowWorth(A, T, val), rows)
<1> DEFINE n == Len(rows)
           W == RowWorth(A, T, val)
           seqs == [i \in DOMAIN rows |-> rows[i].results]
           parts == [i \in DOMAIN rows |-> W[rows[i]]]
<1>1. n \in Nat /\ DOMAIN rows = 1..n /\ \A i \in 1..n : rows[i] \in RowsOf(A, T)
  OBVIOUS
<1>2. W \in [RowsOf(A, T) -> Int] /\ \A row \in RowsOf(A, T) : W[row] = Worth(val, row.results)
  BY RowWorthType
<1> HIDE DEF W
<1>3. seqs \in Seq(Seq(T)) /\ Len(seqs) = n
  <2>1. \A i \in 1..n : rows[i].results \in Seq(T)
    BY <1>1 DEF RowsOf
  <2> QED
    BY <1>1, <2>1
<1>4. \A i \in 1..n : seqs[i] = rows[i].results /\ parts[i] = W[rows[i]]
  BY <1>1
<1>5. parts \in [1..n -> Int]
  BY <1>1, <1>2
<1>6. Worth(W, rows) = Total(parts)
  BY DEF Worth
<1> HIDE DEF n, seqs, parts
<1>7. parts \in [1..Len(seqs) -> Int] /\ \A i \in 1..Len(seqs) : parts[i] = Worth(val, seqs[i])
  BY <1>1, <1>2, <1>3, <1>4, <1>5
<1>8. Worth(val, FlattenSeq(seqs)) = Total(parts)
  BY ONLY <1>3, <1>7, val \in [T -> Int], WorthFlat
<1> QED
  BY <1>6, <1>8 DEF W, seqs

\* The results of a feed with the ends of their rows.
EntriesOf(rows) ==
    FlattenSeq([i \in DOMAIN rows |->
        [j \in DOMAIN rows[i].results |->
            [start |-> rows[i].start, end |-> rows[i].end, result |-> rows[i].results[j]]]])

EntrySet(A, T) == [start : A, end : A, result : T]
EntryWorth(A, T, val) == [e \in EntrySet(A, T) |-> val[e.result]]

\* An entry has the start and the end of a row and one of its results.
LEMMA EntriesAre ==
    ASSUME NEW A, NEW T, NEW rows \in Seq(RowsOf(A, T))
    PROVE  /\ EntriesOf(rows) \in Seq(EntrySet(A, T))
           /\ \A e \in ToSet(EntriesOf(rows)) : \E row \in ToSet(rows) :
                 e.start = row.start /\ e.end = row.end /\ e.result \in ToSet(row.results)
<1> DEFINE entries(row) == [j \in DOMAIN row.results |->
                              [start |-> row.start, end |-> row.end, result |-> row.results[j]]]
           seqs == [i \in DOMAIN rows |-> entries(rows[i])]
<1>1. /\ DOMAIN rows = 1..Len(rows) /\ Len(rows) \in Nat
      /\ \A i \in 1..Len(rows) : rows[i] \in RowsOf(A, T)
  OBVIOUS
<1>2. ASSUME NEW row \in RowsOf(A, T)
      PROVE  /\ entries(row) \in Seq(EntrySet(A, T))
             /\ ToSet(entries(row)) = {[start |-> row.start, end |-> row.end, result |-> x] :
                                          x \in ToSet(row.results)}
  <2>1. row.start \in A /\ row.end \in A /\ row.results \in Seq(T)
    BY DEF RowsOf
  <2> DEFINE m == Len(row.results)
  <2>2. m \in Nat /\ DOMAIN row.results = 1..m /\ \A j \in 1..m : row.results[j] \in T
    BY <2>1
  <2>3. ToSet(row.results) = {row.results[j] : j \in 1..m}
    BY <2>2 DEF ToSet
  <2> HIDE DEF m
  <2>4. entries(row) = [j \in 1..m |->
                          [start |-> row.start, end |-> row.end, result |-> row.results[j]]]
    BY <2>2
  <2>5. \A j \in 1..m : [start |-> row.start, end |-> row.end, result |-> row.results[j]]
                            \in EntrySet(A, T)
    BY <2>1, <2>2 DEF EntrySet
  <2> HIDE DEF entries
  <2>6. entries(row) \in Seq(EntrySet(A, T))
    BY <2>2, <2>4, <2>5
  <2>7. ToSet(entries(row)) = {[start |-> row.start, end |-> row.end, result |-> row.results[j]] :
                                  j \in 1..m}
    BY <2>4 DEF ToSet
  <2> QED
    BY <2>3, <2>6, <2>7
<1> HIDE DEF entries
<1>3. seqs \in Seq(Seq(EntrySet(A, T))) /\ DOMAIN seqs = 1..Len(rows)
  BY <1>1, <1>2
<1>4. \A i \in 1..Len(rows) : seqs[i] = entries(rows[i]) /\ rows[i] \in ToSet(rows)
  BY <1>1 DEF ToSet
<1> HIDE DEF seqs
<1>5. /\ FlattenSeq(seqs) \in Seq(EntrySet(A, T))
      /\ ToSet(FlattenSeq(seqs)) = UNION {ToSet(seqs[i]) : i \in DOMAIN seqs}
  BY <1>3, FlattenIs
<1>6. ASSUME NEW e \in ToSet(FlattenSeq(seqs))
      PROVE  \E row \in ToSet(rows) :
                 e.start = row.start /\ e.end = row.end /\ e.result \in ToSet(row.results)
  <2>1. PICK i \in 1..Len(rows) : e \in ToSet(entries(rows[i]))
    BY <1>3, <1>4, <1>5
  <2>2. PICK x \in ToSet(rows[i].results) :
            e = [start |-> rows[i].start, end |-> rows[i].end, result |-> x]
    BY <1>1, <1>2, <2>1
  <2>3. e.start = rows[i].start /\ e.end = rows[i].end /\ e.result \in ToSet(rows[i].results)
    BY <2>2
  <2> QED
    BY <1>4, <2>3
<1>7. EntriesOf(rows) = FlattenSeq(seqs)
  BY DEF EntriesOf, seqs, entries
<1> QED
  BY <1>5, <1>6, <1>7

\* What is worth nothing element by element is worth nothing.
LEMMA WorthZero ==
    ASSUME NEW T, NEW val, NEW s \in Seq(T), \A x \in ToSet(s) : val[x] = 0
    PROVE  Worth(val, s) = 0
<1> DEFINE n == Len(s)
           v == [i \in DOMAIN s |-> val[s[i]]]
<1>1. n \in Nat /\ DOMAIN s = 1..n
  OBVIOUS
<1>2. \A i \in 1..n : v[i] = 0
  BY <1>1 DEF ToSet
<1>3. v = [i \in 1..n |-> v[i]]
  BY <1>1
<1>4. Worth(val, s) = Total(v)
  BY Zenon DEF Worth
<1> HIDE DEF n, v
<1>5. v \in [1..n -> Int]
  BY <1>2, <1>3
<1> QED
  BY <1>1, <1>2, <1>4, <1>5, TotalNothing

\* Results and rows of which only those that start in a set count.
KeptWorth(A, T, val, K) == [e \in EntrySet(A, T) |-> IF e.start \in K THEN val[e.result] ELSE 0]
KeptRowWorth(A, T, val, K) ==
    [row \in RowsOf(A, T) |-> IF row.start \in K THEN Worth(val, row.results) ELSE 0]

\* The entries that start in a set are worth what the rows that do are.
LEMMA WorthKept ==
    ASSUME NEW A, NEW T, NEW val \in [T -> Int], NEW K, NEW rows \in Seq(RowsOf(A, T))
    PROVE  Worth(KeptWorth(A, T, val, K), EntriesOf(rows)) = Worth(KeptRowWorth(A, T, val, K), rows)
<1> DEFINE n == Len(rows)
           E == EntrySet(A, T)
           W == KeptRowWorth(A, T, val, K)
           V == KeptWorth(A, T, val, K)
           entries(row) == [j \in DOMAIN row.results |->
                              [start |-> row.start, end |-> row.end, result |-> row.results[j]]]
           seqs == [i \in DOMAIN rows |-> entries(rows[i])]
           parts == [i \in DOMAIN rows |-> W[rows[i]]]
<1>1. n \in Nat /\ DOMAIN rows = 1..n /\ \A i \in 1..n : rows[i] \in RowsOf(A, T)
  OBVIOUS
<1>2. /\ W \in [RowsOf(A, T) -> Int]
      /\ \A row \in RowsOf(A, T) : W[row] = IF row.start \in K THEN Worth(val, row.results) ELSE 0
  <2>1. \A row \in RowsOf(A, T) : Worth(val, row.results) \in Int
    <3> TAKE row \in RowsOf(A, T)
    <3>1. row.results \in Seq(T)
      BY DEF RowsOf
    <3> QED
      BY <3>1, WorthType
  <2> QED
    BY <2>1 DEF KeptRowWorth
<1>3. V \in [E -> Int] /\ \A e \in E : V[e] = IF e.start \in K THEN val[e.result] ELSE 0
  BY DEF EntrySet, KeptWorth
<1> HIDE DEF W, V
<1>4. ASSUME NEW row \in RowsOf(A, T)
      PROVE  entries(row) \in Seq(E) /\ Worth(V, entries(row)) = W[row]
  <2>1. row.start \in A /\ row.end \in A /\ row.results \in Seq(T)
    BY DEF RowsOf
  <2> DEFINE m == Len(row.results)
             entry(j) == [start |-> row.start, end |-> row.end, result |-> row.results[j]]
             own == [j \in 1..m |-> entry(j)]
  <2>2. m \in Nat /\ DOMAIN row.results = 1..m /\ \A j \in 1..m : row.results[j] \in T
    BY <2>1
  <2> HIDE DEF m
  <2>3. entries(row) = own
    BY <2>2
  <2>4. \A j \in 1..m : entry(j) \in E /\ entry(j).start = row.start /\ entry(j).result = row.results[j]
    BY <2>1, <2>2 DEF EntrySet
  <2> HIDE DEF entry, entries
  <2>5. own \in Seq(E) /\ DOMAIN own = 1..m /\ \A j \in 1..m : own[j] = entry(j)
    BY <2>2, <2>4
  <2> HIDE DEF own
  <2>6. \A j \in 1..m : V[own[j]] = IF row.start \in K THEN val[row.results[j]] ELSE 0
    BY <1>3, <2>4, <2>5, SMTT(30)
  <2>7. CASE row.start \in K
    <3>1. [j \in DOMAIN own |-> V[own[j]]] = [j \in DOMAIN row.results |-> val[row.results[j]]]
      BY <2>2, <2>5, <2>6, <2>7, Zenon
    <3>2. Worth(V, own) = Worth(val, row.results)
      BY <3>1, Zenon DEF Worth
    <3> QED
      BY <1>2, <2>3, <2>5, <2>7, <3>2
  <2>8. CASE row.start \notin K
    <3>1. \A x \in ToSet(own) : V[x] = 0
      BY <2>5, <2>6, <2>8, Zenon DEF ToSet
    <3>2. Worth(V, own) = 0
      BY <2>5, <3>1, WorthZero
    <3> QED
      BY <1>2, <2>3, <2>5, <2>8, <3>2
  <2> QED
    BY <2>7, <2>8
<1> HIDE DEF entries, E
<1>5. seqs \in Seq(Seq(E)) /\ Len(seqs) = n /\ parts \in [1..n -> Int]
  BY <1>1, <1>2, <1>4
<1>6. \A i \in 1..n : seqs[i] = entries(rows[i]) /\ parts[i] = W[rows[i]]
  BY <1>1
<1>7. Worth(W, rows) = Total(parts)
  BY DEF Worth
<1> HIDE DEF n, seqs, parts
<1>8. parts \in [1..Len(seqs) -> Int] /\ \A i \in 1..Len(seqs) : parts[i] = Worth(V, seqs[i])
  BY <1>1, <1>4, <1>5, <1>6
<1>9. Worth(V, FlattenSeq(seqs)) = Total(parts)
  <2>1. V \in [E -> Int]
    BY <1>3
  <2>2. seqs \in Seq(Seq(E))
    BY <1>5
  <2> QED
    BY ONLY <1>8, <2>1, <2>2, WorthFlat
<1>10. EntriesOf(rows) = FlattenSeq(seqs)
  BY DEF EntriesOf, seqs, entries
<1> QED
  BY <1>7, <1>9, <1>10 DEF W, V, E

\* They are worth what the rows are.
LEMMA WorthEntries ==
    ASSUME NEW A, NEW T, NEW val \in [T -> Int], NEW rows \in Seq(RowsOf(A, T))
    PROVE  Worth(EntryWorth(A, T, val), EntriesOf(rows)) = Worth(RowWorth(A, T, val), rows)
<1>1. KeptWorth(A, T, val, A) = EntryWorth(A, T, val)
  <2>1. \A e \in EntrySet(A, T) : e.start \in A
    BY DEF EntrySet
  <2> QED
    BY <2>1, Zenon DEF KeptWorth, EntryWorth
<1>2. KeptRowWorth(A, T, val, A) = RowWorth(A, T, val)
  <2>1. \A row \in RowsOf(A, T) : row.start \in A
    BY DEF RowsOf
  <2> QED
    BY <2>1, Zenon DEF KeptRowWorth, RowWorth
<1> QED
  BY <1>1, <1>2, WorthKept

\* Nothing among a sequence is worth nothing.
LEMMA WorthOfNone ==
    ASSUME NEW T, NEW val \in [T -> Int], NEW s \in Seq(T), NEW P, ToSet(s) \cap P = {}
    PROVE  Worth(val, Among(s, P)) = 0
<1> DEFINE n == Len(s)
           v == [i \in 1..n |-> 0]
<1>1. n \in Nat /\ DOMAIN s = 1..n
  OBVIOUS
<1>2. \A i \in 1..n : s[i] \notin P
  BY <1>1 DEF ToSet
<1>3. v \in [1..n -> Int] /\ \A i \in 1..n : v[i] = 0
  OBVIOUS
<1>4. \A i \in 1..n : v[i] = IF s[i] \in P THEN val[s[i]] ELSE 0
  BY <1>2, <1>3
<1> HIDE DEF v
<1>5. v \in [1..Len(s) -> Int] /\ \A i \in 1..Len(s) : v[i] = IF s[i] \in P THEN val[s[i]] ELSE 0
  BY <1>3, <1>4
<1> HIDE DEF n
<1>6. Worth(val, Among(s, P)) = Total(v)
  BY <1>5, WorthAmong, SMTT(30)
<1>7. Total(v) = 0
  BY <1>1, <1>3, TotalNothing
<1> QED
  BY <1>6, <1>7

-----------------------------------------------------------------------------
(***************************************************************************)
(* The counts of OpenAI buckets.                                           *)
(***************************************************************************)
OpenAiWorth(f) == [r \in OpenAi!RawUsageResults |-> OrZero(r[f])]

\* The counts of an OpenAI result.
LEMMA OpenAiWorthType ==
    ASSUME NEW f \in OpenAi!UsageFields
    PROVE  /\ OpenAiWorth(f) \in [OpenAi!RawUsageResults -> Int]
           /\ \A r \in OpenAi!RawUsageResults : OpenAiWorth(f)[r] = OrZero(r[f]) /\ OrZero(r[f]) \in Nat
<1>1. ASSUME NEW r \in OpenAi!RawUsageResults PROVE OrZero(r[f]) \in Nat
  <2>1. r[f] \in Option(Nat)
    BY OpenAiRaw DEF Option
  <2> QED
    BY <2>1 DEF OrZero, Option
<1> QED
  BY <1>1 DEF OpenAiWorth

\* A count that is not refused is the sum of those of the results.
LEMMA OpenAiUsageExact ==
    ASSUME NEW results \in Seq(OpenAi!RawUsageResults), NEW f \in OpenAi!UsageFields
    PROVE  OpenAi!UsageTotals(results)[f] \in {Refused, Worth(OpenAiWorth(f), results)}
<1> DEFINE n == Len(results)
           T == OpenAi!RawUsageResults
           val == OpenAiWorth(f)
           v == [i \in 1..n |-> val[results[i]]]
<1>1. n \in Nat /\ DOMAIN results = 1..n /\ \A i \in 1..n : results[i] \in T
  OBVIOUS
<1>2. /\ val \in [T -> Int]
      /\ \A r \in T : val[r] = OrZero(r[f]) /\ OrZero(r[f]) \in Nat
  BY OpenAiWorthType
<1> HIDE DEF n, T, val
<1>3. v \in [1..n -> Int] /\ \A i \in 1..n : v[i] = OrZero(results[i][f]) /\ v[i] \in Nat
  BY <1>1, <1>2
<1>4. Worth(val, results) = Total(v)
  BY <1>1 DEF Worth
<1> HIDE DEF v
<1>5. PICK c \in [0..n -> OpenAiTotals] :
          /\ c[0] = OpenAi!NoUsage /\ \A i \in 1..n : c[i] = OpenAi!AddUsage(c[i - 1], results[i])
          /\ OpenAi!UsageTotals(results) = c[n]
  BY <1>1, OpenAiUsageChain DEF T
<1>6. PICK d : Accrues(d, n, v) /\ Total(v) = d[n]
  BY <1>1, <1>3, TotalAccrues
<1> DEFINE S == {i \in 0..n : c[i][f] \in {Refused, d[i]}}
<1>7. 0 \in S
  <2>1. c[0][f] = 0
    BY <1>5 DEF OpenAi!NoUsage
  <2>2. d[0] = 0 /\ 0 \in 0..n
    BY <1>1, <1>6 DEF Accrues
  <2> QED
    BY <2>1, <2>2
<1>8. ASSUME NEW i \in 1..n, i - 1 \in S PROVE i \in S
  <2>1. i \in 0..n /\ i - 1 \in 0..n
    BY <1>1
  <2>2. d[i] = d[i - 1] + v[i]
    BY <1>6 DEF Accrues
  <2>3. c[i][f] = CheckedCount(c[i - 1][f], v[i])
    <3>1. c[i] = OpenAi!AddUsage(c[i - 1], results[i])
      BY <1>5
    <3>2. OpenAi!AddUsage(c[i - 1], results[i])[f]
             = OpenAi!CheckedCount(c[i - 1][f], OpenAi!OrZero(results[i][f]))
      BY DEF OpenAi!AddUsage
    <3> QED
      BY <1>3, <3>1, <3>2, OpenAiZero, OpenAiCount
  <2>4. c[i - 1][f] \in {Refused, d[i - 1]}
    BY <1>8
  <2>5. c[i][f] \in {Refused, d[i]}
    BY <2>2, <2>3, <2>4 DEF CheckedCount
  <2> QED
    BY <2>1, <2>5
<1> HIDE DEF S
<1>9. \A i \in 0..n : i \in S
  BY <1>1, <1>7, <1>8, Stepwise
<1>10. n \in S
  BY <1>1, <1>9
<1> QED
  BY <1>4, <1>5, <1>6, <1>10 DEF S, val

\* A bucket counts what the results of its span do.
LEMMA OpenAiCountsAre ==
    ASSUME NEW usage \in Seq(OpenAiUsageRows), NEW costs, NEW span,
           Whole(OpenAi!MergedBucket(usage, costs, span)), NEW f \in CountFields
    PROVE  /\ OrZero(OpenAi!MergedBucket(usage, costs, span)[f])
                 = Worth(RowWorth(Int, OpenAi!RawUsageResults, OpenAiWorth(f)), OpenAi!OfSpan(usage, span))
           /\ span \in OpenAi!Spans(usage) => OpenAi!MergedBucket(usage, costs, span)[f] # None
<1> DEFINE T == OpenAi!RawUsageResults
           val == OpenAiWorth(f)
           merged == OpenAi!MergedBucket(usage, costs, span)
           used == OpenAi!OfSpan(usage, span)
           reported == OpenAi!UsageTotals(OpenAi!Results(used))
           totals == IF span \in OpenAi!Spans(usage) THEN reported
                     ELSE [g \in OpenAi!UsageFields |-> None]
           P == {x \in ToSet(usage) : OpenAi!Span(x) = span}
<1>1. /\ merged.input = totals.input /\ merged.output = totals.output /\ merged.cached = totals.cached
      /\ merged.cost = merged.cost
  BY Zenon DEF OpenAi!MergedBucket, OpenAi!Bucket
<1>2. f \in OpenAi!UsageFields /\ merged[f] = totals[f]
  BY <1>1, OpenAiRaw DEF CountFields
<1>3. merged[f] # Refused
  <2> HIDE DEF merged
  <2>1. Refused \notin {merged.cost, merged.input, merged.output, merged.cached, merged.requests}
    BY Zenon DEF Whole, merged
  <2> QED
    BY <2>1 DEF CountFields
<1>4. OpenAiUsageRows = RowsOf(Int, T)
  BY Zenon DEF OpenAiUsageRows, RowsOf
<1>5. val \in [T -> Int]
  BY <1>2, OpenAiWorthType
<1>6. used = Among(usage, P)
  BY OfSpanIs
<1> HIDE DEF merged, T, val
<1>7. CASE span \in OpenAi!Spans(usage)
  <2>1. used \in Seq(RowsOf(Int, T))
    <3> HIDE DEF used, P
    <3> QED
      BY <1>4, <1>6, AmongIs
  <2> HIDE DEF used, P
  <2>2. OpenAi!Results(used) = FlattenSeq([i \in DOMAIN used |-> used[i].results])
    BY OpenAiFlatten, Zenon DEF OpenAi!Results
  <2>3. Worth(val, OpenAi!Results(used)) = Worth(RowWorth(Int, T, val), used)
    BY <1>5, <2>1, <2>2, WorthResults
  <2>4. OpenAi!Results(used) \in Seq(OpenAi!RawUsageResults)
    BY <1>4, <2>1, OpenAiResultsAre
  <2> DEFINE results == OpenAi!Results(used)
  <2>5. OpenAi!UsageTotals(results)[f] \in {Refused, Worth(OpenAiWorth(f), results)}
    <3> HIDE DEF results
    <3> QED
      BY <1>2, <2>4, OpenAiUsageExact DEF results
  <2>6. merged[f] = reported[f]
    <3> HIDE DEF reported
    <3> QED
      BY <1>2, <1>7
  <2>7. merged[f] = Worth(RowWorth(Int, T, val), used)
    BY <1>3, <2>3, <2>5, <2>6 DEF val
  <2>8. Worth(RowWorth(Int, T, val), used) \in Int
    BY <1>5, <2>1, RowWorthType, WorthType
  <2>9. merged[f] # None
    BY <2>7, <2>8, NoneAssumption
  <2>10. OrZero(merged[f]) = merged[f]
    BY <2>9, Zenon DEF OrZero
  <2> QED
    BY <2>7, <2>9, <2>10 DEF merged, T, val, used
<1>8. CASE span \notin OpenAi!Spans(usage)
  <2>1. totals[f] = None
    <3> HIDE DEF reported
    <3> QED
      BY <1>2, <1>8
  <2>2. OrZero(merged[f]) = 0
    BY <1>2, <2>1 DEF OrZero
  <2>3. ToSet(usage) \cap P = {}
    BY <1>8, OpenAiSet, Zenon DEF OpenAi!Spans
  <2>4. RowWorth(Int, T, val) \in [RowsOf(Int, T) -> Int]
    BY <1>5, RowWorthType
  <2> HIDE DEF P, used
  <2>5. Worth(RowWorth(Int, T, val), used) = 0
    BY <1>4, <1>6, <2>3, <2>4, WorthOfNone
  <2> QED
    BY <1>8, <2>2, <2>5 DEF merged, T, val, used
<1> QED
  BY <1>7, <1>8

\* A sum of values read off a sequence is what its elements are worth.
LEMMA WorthIsSum ==
    ASSUME NEW T, NEW val \in [T -> Int], NEW s \in Seq(T), NEW v,
           DOMAIN v = DOMAIN s, \A i \in DOMAIN s : v[i] = val[s[i]], v = [i \in DOMAIN v |-> v[i]]
    PROVE  Worth(val, s) = Total(v)
<1>1. v = [i \in DOMAIN s |-> val[s[i]]]
  BY Zenon
<1> QED
  BY <1>1, Zenon DEF Worth

\* Buckets in order, the results in a bucket that counts them, and the counts of
\* both the same.
LEMMA OpenAiBucketsAdd ==
    ASSUME NEW raw,
           raw.usage \in Seq(OpenAi!RawPages("usage") \cup {Refused}),
           raw.costs \in Seq(OpenAi!RawPages("costs") \cup {Refused}),
           OpenAi!OpenAiAccount(raw) # Refused
    PROVE  /\ \A i \in 2..Len(OpenAi!OpenAiAccount(raw).buckets) :
                 LET a == OpenAi!OpenAiAccount(raw).buckets[i - 1]
                     b == OpenAi!OpenAiAccount(raw).buckets[i]
                 IN Earlier(a.start, b.start) \/ (a.start = b.start /\ Earlier(a.end, b.end))
           /\ \A e \in ToSet(EntriesOf(Rows(raw.usage))) :
                 \E b \in ToSet(OpenAi!OpenAiAccount(raw).buckets) :
                     /\ MinuteNumber(b.start) <= e.start /\ e.end <= MinuteNumber(b.end)
                     /\ b.input # None
           /\ \A f \in CountFields :
                 Total([i \in DOMAIN OpenAi!OpenAiAccount(raw).buckets |->
                           OrZero(OpenAi!OpenAiAccount(raw).buckets[i][f])])
                   = Total([i \in DOMAIN EntriesOf(Rows(raw.usage)) |->
                           OrZero(EntriesOf(Rows(raw.usage))[i].result[f])])
<1> DEFINE account == OpenAi!OpenAiAccount(raw)
           usage == OpenAi!Rows(raw.usage)
           costs == OpenAi!Rows(raw.costs)
           buckets == OpenAi!MergeBuckets(usage, costs)
           models == OpenAi!ModelTotals(OpenAi!Results(usage))
           spent == [p \in OpenAi!Periods |-> OpenAi!SpentSince(raw.starts[p], costs)]
           budget == [p \in OpenAi!Periods |->
                         OpenAi!CalculateBudgetState(OpenAi!Dollars(spent[p]), None, None)]
           bad == \/ ~OpenAi!Parsed(raw.usage) \/ ~OpenAi!Parsed(raw.costs)
                  \/ OpenAi!Broken(buckets, models)
                  \/ Refused \in {spent[p] : p \in OpenAi!Periods}
           platform == OpenAi!PlatformAccount("openai-local", "openai", "openai.platform", budget,
                                              buckets, OpenAi!ModelBreakdown(models))
           entries == EntriesOf(usage)
<1>1. account = IF bad THEN Refused ELSE platform
  BY Zenon DEF OpenAi!OpenAiAccount
<1>2. ~bad /\ account = platform
  <2> HIDE DEF bad, platform, account
  <2>1. account # Refused
    BY DEF account
  <2> QED
    BY <1>1, <2>1, Zenon
<1> HIDE DEF account
<1>3. /\ Refused \notin ToSet(raw.usage) /\ Refused \notin ToSet(raw.costs)
      /\ \A b \in ToSet(buckets) : Whole(b)
  <2> HIDE DEF buckets, spent, models
  <2> QED
    BY <1>2, OpenAiSet, Zenon DEF OpenAi!Parsed, OpenAi!Broken, Whole
<1> HIDE DEF bad, models, spent, budget
<1>4. account.buckets = buckets
  <2> HIDE DEF buckets
  <2> QED
    BY <1>2, Zenon DEF OpenAi!PlatformAccount
<1>5. usage \in Seq(OpenAiUsageRows) /\ costs \in Seq(OpenAiCostRows)
  BY <1>3, OpenAiPages, ParsedRows, OpenAiRows
<1>6. Timed(usage) /\ Timed(costs)
  <2>1. /\ Listed(usage) /\ ToSet(usage) \subseteq OpenAiUsageRows
        /\ Listed(costs) /\ ToSet(costs) \subseteq OpenAiCostRows
    BY <1>5, ListedOf
  <2> HIDE DEF usage, costs
  <2> QED
    BY <2>1 DEF Timed, OpenAiUsageRows, OpenAiCostRows
<1> DEFINE U == OpenAi!Spans(usage)
           S == U \cup OpenAi!Spans(costs)
           order == OpenAi!InOrder(S, OpenAi!SpanLess)
           m == Cardinality(S)
           T == OpenAi!RawUsageResults
<1>7. usage = Rows(raw.usage)
  BY OpenAiRows
<1> HIDE DEF usage, costs
<1>8. /\ S \in SUBSET AllSpans /\ IsFiniteSet(S)
      /\ U = {<<r.start, r.end>> : r \in ToSet(usage)} /\ U \subseteq S
  <2>1. /\ U \in SUBSET AllSpans /\ IsFiniteSet(U) /\ U = {<<r.start, r.end>> : r \in ToSet(usage)}
        /\ OpenAi!Spans(costs) \in SUBSET AllSpans /\ IsFiniteSet(OpenAi!Spans(costs))
    BY <1>6, SpansAre
  <2> HIDE DEF U
  <2>2. IsFiniteSet(S)
    BY <2>1, FS_Union
  <2> QED
    BY <2>1, <2>2
<1>9. buckets = [i \in DOMAIN order |-> OpenAi!MergedBucket(usage, costs, order[i])]
  BY Zenon DEF OpenAi!MergeBuckets
<1> HIDE DEF S, U
<1>10. Lists(order, S, SpanPairs)
  BY <1>8, InOrderIs
<1> HIDE DEF order
<1>11. /\ m \in Nat /\ DOMAIN order = 1..m /\ \A i \in 1..m : order[i] \in S
       /\ \A s \in S : \E i \in 1..m : order[i] = s
       /\ \A i, j \in 1..m : i < j => <<order[i], order[j]>> \in SpanPairs
  BY <1>10 DEF Lists
<1> HIDE DEF m
<1>12. /\ DOMAIN buckets = 1..m /\ Len(buckets) = m
       /\ \A i \in 1..m : buckets[i] = OpenAi!MergedBucket(usage, costs, order[i])
       /\ \A i \in 1..m : Whole(buckets[i]) /\ buckets[i] \in ToSet(buckets)
  <2> HIDE DEF buckets
  <2>1. DOMAIN buckets = 1..m /\ \A i \in 1..m : buckets[i] = OpenAi!MergedBucket(usage, costs, order[i])
    BY <1>9, <1>11
  <2>2. Len(buckets) = m
    BY <1>9, <1>11
  <2>3. \A i \in 1..m : buckets[i] \in ToSet(buckets)
    BY <2>1 DEF ToSet
  <2> QED
    BY <1>3, <2>1, <2>2, <2>3
<1> HIDE DEF buckets
<1>13. ASSUME NEW i \in 1..m
       PROVE  /\ order[i][1] \in Int /\ order[i][2] \in Int
              /\ buckets[i].start = UnixToUtc(order[i][1]) /\ buckets[i].end = UnixToUtc(order[i][2])
              /\ MinuteNumber(buckets[i].start) = order[i][1]
              /\ MinuteNumber(buckets[i].end) = order[i][2]
              /\ buckets[i].start \in Instants /\ IsDate(buckets[i].start.date)
              /\ buckets[i].end \in Instants /\ IsDate(buckets[i].end.date)
  <2>1. order[i] \in AllSpans
    BY <1>8, <1>11
  <2>2. order[i][1] \in Int /\ order[i][2] \in Int
    BY <2>1 DEF AllSpans
  <2>3. buckets[i].start = UnixToUtc(order[i][1]) /\ buckets[i].end = UnixToUtc(order[i][2])
    BY <1>12, OpenAiInstant DEF OpenAi!MergedBucket, OpenAi!Bucket
  <2>4. ASSUME NEW k \in {1, 2}
        PROVE  /\ UnixToUtc(order[i][k]) \in Instants /\ IsDate(UnixToUtc(order[i][k]).date)
               /\ MinuteNumber(UnixToUtc(order[i][k])) = order[i][k]
    BY <2>2, UtcIsTheInstant
  <2> QED
    BY <2>2, <2>3, <2>4
<1>14. ASSUME NEW i \in 2..m
       PROVE  LET a == buckets[i - 1]
                  b == buckets[i]
              IN Earlier(a.start, b.start) \/ (a.start = b.start /\ Earlier(a.end, b.end))
  <2>1. i - 1 \in 1..m /\ i \in 1..m /\ i - 1 < i
    BY <1>11
  <2>2. OpenAi!SpanLess(order[i - 1], order[i])
    BY <1>11, <2>1 DEF SpanPairs
  <2> DEFINE a == buckets[i - 1]
             b == buckets[i]
  <2>3. /\ Earlier(a.start, b.start) <=> order[i - 1][1] < order[i][1]
        /\ Earlier(a.end, b.end) <=> order[i - 1][2] < order[i][2]
        /\ order[i - 1][1] = order[i][1] => a.start = b.start
    <3>1. /\ a.start \in Instants /\ IsDate(a.start.date) /\ MinuteNumber(a.start) = order[i - 1][1]
          /\ a.end \in Instants /\ IsDate(a.end.date) /\ MinuteNumber(a.end) = order[i - 1][2]
          /\ a.start = UnixToUtc(order[i - 1][1])
      BY <1>13, <2>1
    <3>2. /\ b.start \in Instants /\ IsDate(b.start.date) /\ MinuteNumber(b.start) = order[i][1]
          /\ b.end \in Instants /\ IsDate(b.end.date) /\ MinuteNumber(b.end) = order[i][2]
          /\ b.start = UnixToUtc(order[i][1])
      BY <1>13, <2>1
    <3> HIDE DEF a, b
    <3> QED
      BY <3>1, <3>2, EarlierIsEarlier
  <2>4. \/ order[i - 1][1] < order[i][1]
        \/ order[i - 1][1] = order[i][1] /\ order[i - 1][2] < order[i][2]
    BY <2>2 DEF OpenAi!SpanLess
  <2> HIDE DEF a, b
  <2>5. Earlier(a.start, b.start) \/ (a.start = b.start /\ Earlier(a.end, b.end))
    BY <2>3, <2>4
  <2> QED
    BY <2>5 DEF a, b
<1>15. OpenAiUsageRows = RowsOf(Int, T)
  BY Zenon DEF OpenAiUsageRows, RowsOf
<1>16. usage \in Seq(RowsOf(Int, T))
  BY <1>5, <1>15
<1> HIDE DEF T
<1>17. /\ entries \in Seq(EntrySet(Int, T))
       /\ \A e \in ToSet(entries) : \E row \in ToSet(usage) : e.start = row.start /\ e.end = row.end
  BY <1>16, EntriesAre
<1> HIDE DEF entries
<1>18. ASSUME NEW e \in ToSet(entries)
       PROVE  \E b \in ToSet(buckets) :
                  /\ MinuteNumber(b.start) <= e.start /\ e.end <= MinuteNumber(b.end)
                  /\ b.input # None
  <2>1. PICK row \in ToSet(usage) : e.start = row.start /\ e.end = row.end
    BY <1>17
  <2>2. <<row.start, row.end>> \in U /\ <<row.start, row.end>> \in S
    BY <1>8
  <2>3. PICK i \in 1..m : order[i] = <<row.start, row.end>>
    BY <1>11, <2>2
  <2>4. MinuteNumber(buckets[i].start) = e.start /\ MinuteNumber(buckets[i].end) = e.end
        /\ e.start \in Int /\ e.end \in Int
    BY <1>13, <2>1, <2>3
  <2>5. buckets[i].input # None
    <3>1. "input" \in CountFields
      BY DEF CountFields
    <3>2. order[i] \in OpenAi!Spans(usage) /\ Whole(OpenAi!MergedBucket(usage, costs, order[i]))
      BY <1>12, <2>2, <2>3 DEF U
    <3>3. OpenAi!MergedBucket(usage, costs, order[i])["input"] # None
      BY <1>5, <3>1, <3>2, OpenAiCountsAre
    <3> QED
      BY <1>12, <3>3
  <2> QED
    BY <1>12, <2>4, <2>5
<1>19. ASSUME NEW f \in CountFields
       PROVE  Total([i \in DOMAIN buckets |-> OrZero(buckets[i][f])])
                = Total([i \in DOMAIN entries |-> OrZero(entries[i].result[f])])
  <2> DEFINE val == OpenAiWorth(f)
             W == RowWorth(Int, T, val)
             key == [x \in ToSet(usage) |-> OpenAi!Span(x)]
             groups == [i \in DOMAIN buckets |-> OrZero(buckets[i][f])]
             E == EntrySet(Int, T)
             ev == EntryWorth(Int, T, val)
             v == [i \in DOMAIN entries |-> OrZero(entries[i].result[f])]
  <2>1. f \in OpenAi!UsageFields
    BY OpenAiRaw DEF CountFields
  <2>2. val \in [T -> Int] /\ \A r \in T : val[r] = OrZero(r[f])
    BY <2>1, OpenAiWorthType DEF T
  <2> HIDE DEF val
  <2>3. W \in [RowsOf(Int, T) -> Int]
    BY <2>2, RowWorthType
  <2>4. ASSUME NEW i \in 1..m PROVE groups[i] = Worth(W, Gathered(usage, key, order[i]))
    <3>1. Whole(OpenAi!MergedBucket(usage, costs, order[i]))
          /\ groups[i] = OrZero(OpenAi!MergedBucket(usage, costs, order[i])[f])
      BY <1>12
    <3>2. groups[i] = Worth(W, OpenAi!OfSpan(usage, order[i]))
      BY <1>5, <3>1, OpenAiCountsAre DEF T, val
    <3>3. {x \in ToSet(usage) : OpenAi!Span(x) = order[i]} = {x \in ToSet(usage) : key[x] = order[i]}
      OBVIOUS
    <3>4. OpenAi!OfSpan(usage, order[i]) = Gathered(usage, key, order[i])
      BY <3>3, OfSpanIs, Zenon DEF Gathered
    <3> QED
      BY <3>2, <3>4
  <2>5. \A i \in 1..Len(usage) : key[usage[i]] \in S
    <3> TAKE i \in 1..Len(usage)
    <3>1. usage[i] \in ToSet(usage)
      BY <1>5 DEF ToSet
    <3>2. key[usage[i]] = <<usage[i].start, usage[i].end>>
      BY <3>1 DEF OpenAi!Span
    <3> QED
      BY <1>8, <3>1, <3>2
  <2> HIDE DEF key
  <2>6. groups \in [1..m -> Int]
    <3>1. \A i \in 1..m : Worth(W, Gathered(usage, key, order[i])) \in Int
      <4> TAKE i \in 1..m
      <4>1. Gathered(usage, key, order[i]) \in Seq(RowsOf(Int, T))
        BY <1>16, AmongIs DEF Gathered
      <4> QED
        BY <2>3, <4>1, WorthType
    <3>2. \A i \in 1..m : groups[i] \in Int
      BY <2>4, <3>1
    <3>3. DOMAIN groups = 1..m /\ groups = [i \in 1..m |-> groups[i]]
      BY <1>12
    <3> HIDE DEF groups
    <3> QED
      BY <3>2, <3>3
  <2> HIDE DEF groups
  <2>7. Grouped(groups, W, usage, key, order, S)
    BY <2>4, <2>5, <2>6 DEF Grouped, m
  <2>8. Total(groups) = Worth(ev, entries)
    <3>1. Worth(ev, entries) = Worth(W, usage)
      BY <1>16, <2>2, WorthEntries DEF entries
    <3> DEFINE RT == RowsOf(Int, T)
    <3>2. W \in [RT -> Int] /\ usage \in Seq(RT)
      BY <1>16, <2>3
    <3> HIDE DEF W, RT
    <3>3. Total(groups) = Worth(W, usage)
      BY <1>10, <2>7, <3>2, WorthGroups
    <3> QED
      BY <3>1, <3>3
  <2>9. Worth(ev, entries) = Total(v)
    <3>1. ev \in [E -> Int] /\ \A e \in E : ev[e] = OrZero(e.result[f])
      BY <2>2 DEF EntrySet, EntryWorth
    <3>2. entries \in Seq(E)
      BY <1>17
    <3> HIDE DEF ev, E
    <3>3. \A i \in DOMAIN entries : entries[i] \in E
      BY <3>2
    <3>4. \A i \in DOMAIN entries : v[i] = ev[entries[i]]
      BY <3>1, <3>3
    <3>5. DOMAIN v = DOMAIN entries /\ v = [i \in DOMAIN v |-> v[i]]
      OBVIOUS
    <3> HIDE DEF v
    <3> QED
      BY <3>1, <3>2, <3>4, <3>5, WorthIsSum
  <2> QED
    BY <2>8, <2>9 DEF groups
<1> QED
  BY <1>4, <1>7, <1>12, <1>14, <1>18, <1>19 DEF account, entries

-----------------------------------------------------------------------------
(***************************************************************************)
(* The counts of Anthropic days.                                           *)
(***************************************************************************)
AnthropicCountOf(r, f) == IF f = "cached" THEN r.read + r.hourly + r.brief ELSE r[f]
AnthropicWorth(f) == [r \in Anthropic!RawUsageResults |-> AnthropicCountOf(r, f)]

\* The counts of an Anthropic result.
LEMMA AnthropicWorthType ==
    ASSUME NEW f \in CountFields
    PROVE  /\ AnthropicWorth(f) \in [Anthropic!RawUsageResults -> Int]
           /\ \A r \in Anthropic!RawUsageResults :
                 AnthropicWorth(f)[r] = AnthropicCountOf(r, f) /\ AnthropicCountOf(r, f) \in Nat
<1>1. ASSUME NEW r \in Anthropic!RawUsageResults PROVE AnthropicCountOf(r, f) \in Nat
  BY AnthropicRaw DEF AnthropicCountOf, CountFields
<1> QED
  BY <1>1 DEF AnthropicWorth

\* Adding the parts one after the other stops at the top as their sum does.
LEMMA SaturatingCreated ==
    ASSUME NEW a \in 0..MaxCount, NEW x \in Nat, NEW h \in Nat, NEW s \in Nat
    PROVE  SaturatingCount(SaturatingCount(a, x), SaturatingCount(h, s)) = SaturatingCount(a, x + h + s)
  BY WidthAssumption DEF SaturatingCount

\* The count of one result joins its total.
LEMMA AnthropicJoins ==
    ASSUME NEW v \in AnthropicTotals, NEW x \in Anthropic!RawUsageResults, NEW f \in CountFields
    PROVE  Anthropic!AddUsage(v, x)[f] = SaturatingCount(v[f], AnthropicCountOf(x, f))
<1>1. /\ v.cached \in 0..MaxCount
      /\ x.read \in Nat /\ x.hourly \in Nat /\ x.brief \in Nat
  BY AnthropicRaw DEF AnthropicTotals
<1> DEFINE created == SaturatingCount(x.hourly, x.brief)
           read == SaturatingCount(v.cached, x.read)
<1>2. Anthropic!AddUsage(v, x) = [input |-> SaturatingCount(v.input, x.input),
                                  output |-> SaturatingCount(v.output, x.output),
                                  cached |-> SaturatingCount(read, created)]
  BY AnthropicCount, Zenon DEF Anthropic!AddUsage
<1>3. SaturatingCount(read, created) = SaturatingCount(v.cached, x.read + x.hourly + x.brief)
  BY <1>1, SaturatingCreated
<1> HIDE DEF created, read
<1> QED
  BY <1>2, <1>3 DEF CountFields, AnthropicCountOf

\* A count below the top is the sum of those of the results.
LEMMA AnthropicUsageExact ==
    ASSUME NEW results \in Seq(Anthropic!RawUsageResults), NEW f \in CountFields
    PROVE  Anthropic!UsageTotals(results)[f] \in {MaxCount, Worth(AnthropicWorth(f), results)}
<1> DEFINE n == Len(results)
           T == Anthropic!RawUsageResults
           val == AnthropicWorth(f)
           v == [i \in 1..n |-> val[results[i]]]
<1>1. n \in Nat /\ DOMAIN results = 1..n /\ \A i \in 1..n : results[i] \in T
  OBVIOUS
<1>2. /\ val \in [T -> Int]
      /\ \A r \in T : val[r] = AnthropicCountOf(r, f) /\ AnthropicCountOf(r, f) \in Nat
  BY AnthropicWorthType
<1> HIDE DEF n, T, val
<1>3. v \in [1..n -> Int] /\ \A i \in 1..n : v[i] = AnthropicCountOf(results[i], f) /\ v[i] \in Nat
  BY <1>1, <1>2
<1>4. Worth(val, results) = Total(v)
  BY <1>1 DEF Worth
<1> HIDE DEF v
<1>5. PICK c \in [0..n -> AnthropicTotals] :
          /\ c[0] = Anthropic!NoUsage
          /\ \A i \in 1..n : c[i] = Anthropic!AddUsage(c[i - 1], results[i])
          /\ Anthropic!UsageTotals(results) = c[n]
  BY <1>1, AnthropicUsageChain DEF T
<1>6. PICK d : Accrues(d, n, v) /\ Total(v) = d[n]
  BY <1>1, <1>3, TotalAccrues
<1> DEFINE S == {i \in 0..n : c[i][f] \in {MaxCount, d[i]}}
<1>7. 0 \in S
  <2>1. c[0][f] = 0
    BY <1>5, AnthropicRaw DEF Anthropic!NoUsage, CountFields
  <2>2. d[0] = 0 /\ 0 \in 0..n
    BY <1>1, <1>6 DEF Accrues
  <2> QED
    BY <2>1, <2>2
<1>8. ASSUME NEW i \in 1..n, i - 1 \in S PROVE i \in S
  <2>1. i \in 0..n /\ i - 1 \in 0..n
    BY <1>1
  <2>2. d[i] = d[i - 1] + v[i] /\ d[i - 1] \in Int /\ v[i] \in Nat
    BY <1>3, <1>6, <2>1 DEF Accrues
  <2>3. c[i][f] = SaturatingCount(c[i - 1][f], v[i])
    <3>1. c[i] = Anthropic!AddUsage(c[i - 1], results[i]) /\ c[i - 1] \in AnthropicTotals
          /\ results[i] \in Anthropic!RawUsageResults
      BY <1>1, <1>5, <2>1 DEF T
    <3> QED
      BY <1>3, <3>1, AnthropicJoins
  <2>4. c[i - 1][f] \in {MaxCount, d[i - 1]}
    BY <1>8
  <2>5. c[i][f] \in {MaxCount, d[i]}
    BY <2>2, <2>3, <2>4, WidthAssumption DEF SaturatingCount
  <2> QED
    BY <2>1, <2>5
<1> HIDE DEF S
<1>9. \A i \in 0..n : i \in S
  BY <1>1, <1>7, <1>8, Stepwise
<1>10. n \in S
  BY <1>1, <1>9
<1> QED
  BY <1>4, <1>5, <1>6, <1>10 DEF S, val

\* A bucket counts what the results of its day do, or as much as fits.
LEMMA AnthropicCountsAre ==
    ASSUME NEW usage \in Seq(UsageRows), NEW costs, NEW start, NEW f \in CountFields
    PROVE  /\ \/ Anthropic!MergedBucket(usage, costs, start)[f] = MaxCount
              \/ OrZero(Anthropic!MergedBucket(usage, costs, start)[f])
                    = Worth(RowWorth(Instants, Anthropic!RawUsageResults, AnthropicWorth(f)),
                            Anthropic!UsageOfDay(usage, start))
           /\ Anthropic!UsageOfDay(usage, start) # <<>> =>
                 Anthropic!MergedBucket(usage, costs, start)[f] # None
<1> DEFINE T == Anthropic!RawUsageResults
           val == AnthropicWorth(f)
           merged == Anthropic!MergedBucket(usage, costs, start)
           used == Anthropic!UsageOfDay(usage, start)
           results == Anthropic!Results(used)
           totals == Anthropic!UsageTotals(results)
           P == {x \in ToSet(usage) : Anthropic!DayStart(x) = start}
           W == RowWorth(Instants, T, val)
<1>1. /\ merged.input = (IF used = <<>> THEN None ELSE totals.input)
      /\ merged.output = (IF used = <<>> THEN None ELSE totals.output)
      /\ merged.cached = (IF used = <<>> THEN None ELSE totals.cached)
  BY Zenon DEF Anthropic!MergedBucket, Anthropic!Bucket
<1> HIDE DEF merged, totals
<1>2. merged[f] = IF used = <<>> THEN None ELSE totals[f]
  <2> HIDE DEF used
  <2> QED
    BY <1>1 DEF CountFields
<1>3. UsageRows = RowsOf(Instants, T)
  BY Zenon DEF UsageRows, RowsOf
<1>4. used = Among(usage, P)
  BY UsageOfDayIs
<1> HIDE DEF used, P
<1>5. used \in Seq(UsageRows) /\ used \in Seq(RowsOf(Instants, T))
  BY <1>3, <1>4, AmongIs
<1>6. val \in [T -> Int]
  BY AnthropicWorthType
<1> HIDE DEF T, val
<1>7. W \in [RowsOf(Instants, T) -> Int]
  BY <1>6, RowWorthType
<1>8. CASE used = <<>>
  <2>1. OrZero(merged[f]) = 0
    BY <1>2, <1>8 DEF OrZero
  <2> HIDE DEF W
  <2>2. Worth(W, used) = 0
    BY <1>7, <1>8, WorthNone
  <2> QED
    BY <1>8, <2>1, <2>2 DEF merged, used, W, T, val
<1>9. CASE used # <<>>
  <2>1. results = FlattenSeq([i \in DOMAIN used |-> used[i].results])
    BY AnthropicFlatten, Zenon DEF Anthropic!Results
  <2>2. Worth(val, results) = Worth(W, used)
    BY <1>5, <1>6, <2>1, WorthResults
  <2>3. results \in Seq(Anthropic!RawUsageResults)
    BY <1>5, ResultsAre
  <2> HIDE DEF results, W
  <2>4. totals[f] \in {MaxCount, Worth(AnthropicWorth(f), results)}
    BY <2>3, AnthropicUsageExact DEF totals
  <2>5. merged[f] \in {MaxCount, Worth(W, used)}
    BY <1>2, <1>9, <2>2, <2>4 DEF val
  <2>6. Worth(W, used) \in Int
    BY <1>5, <1>7, WorthType
  <2>7. merged[f] # None
    BY <2>5, <2>6, NoneAssumption, WidthAssumption
  <2>8. OrZero(merged[f]) = merged[f]
    BY <2>7, Zenon DEF OrZero
  <2> QED
    BY <2>5, <2>7, <2>8 DEF merged, used, W, T, val
<1> QED
  BY <1>8, <1>9

\* The days of the rows are days of the calendar.
RealRows(rows) == \A r \in ToSet(rows) : IsDate(r.start.date) /\ IsDate(r.end.date)

\* A known instant has a minute.
LEMMA MinuteNumberType ==
    ASSUME NEW a \in Instants, IsDate(a.date)
    PROVE  /\ MinuteNumber(a) \in Int /\ a.date \in Dates /\ Midnight(a.date).date = a.date
           /\ MinuteNumber(Midnight(a.date)) \in Int /\ MinuteNumber(Midnight(a.date)) <= MinuteNumber(a)
<1>1. a.date \in Dates /\ a.minute \in Nat
  BY DEF Instants, DayMinutes
<1>2. DayNumber(a.date) \in Int
  BY <1>1, DayNumberTypes
<1>3. Midnight(a.date).date = a.date /\ Midnight(a.date).minute = 0
  BY DEF Midnight, Instant
<1>4. /\ MinuteNumber(a) = DayNumber(a.date) * 1440 + a.minute
      /\ MinuteNumber(Midnight(a.date)) = DayNumber(a.date) * 1440
  BY <1>2, <1>3 DEF MinuteNumber, DayMinutes
<1> QED
  BY <1>1, <1>2, <1>3, <1>4

\* The order of the instants is that of their minutes.
LEMMA NotEarlierIsLater ==
    ASSUME NEW a \in Instants, NEW b \in Instants, IsDate(a.date), IsDate(b.date), NotEarlier(a, b)
    PROVE  MinuteNumber(b) <= MinuteNumber(a)
<1>1. MinuteNumber(a) \in Int /\ MinuteNumber(b) \in Int
  BY MinuteNumberType
<1>2. ~(MinuteNumber(a) < MinuteNumber(b))
  BY EarlierIsEarlier DEF NotEarlier
<1> QED
  BY <1>1, <1>2

\* A day with usage begins no later than its rows and ends no earlier.
LEMMA DayCovers ==
    ASSUME NEW usage \in Seq(UsageRows), NEW costs \in Seq(CostRows), RealRows(usage), RealRows(costs),
           NEW row \in ToSet(usage), NEW start, start = Anthropic!DayStart(row)
    PROVE  /\ Anthropic!UsageOfDay(usage, start) # <<>>
           /\ start = Midnight(row.start.date) /\ MinuteNumber(start) <= MinuteNumber(row.start)
           /\ MinuteNumber(row.end) <= MinuteNumber(Anthropic!MergedBucket(usage, costs, start).end)
<1> DEFINE used == Anthropic!UsageOfDay(usage, start)
           charged == Anthropic!CostsFrom(costs, start)
           all == used \o charged
           merged == Anthropic!MergedBucket(usage, costs, start)
<1>1. /\ used \in Seq(UsageRows)
      /\ ToSet(used) = {b \in ToSet(usage) : Anthropic!DayStart(b) = start}
  <2>1. used = Among(usage, {x \in ToSet(usage) : Anthropic!DayStart(x) = start})
    BY UsageOfDayIs
  <2> QED
    BY <2>1, AmongIs
<1>2. /\ charged \in Seq(CostRows)
      /\ ToSet(charged) = {b \in ToSet(costs) : b.start = start}
  <2>1. charged = Among(costs, {x \in ToSet(costs) : x.start = start})
    BY CostsFromIs
  <2> QED
    BY <2>1, AmongIs
<1>3. merged.end = Anthropic!LastEnd(all)
  BY Zenon DEF Anthropic!MergedBucket, Anthropic!Bucket
<1> HIDE DEF used, charged, merged
<1>4. row \in ToSet(used)
  BY <1>1
<1>5. /\ Listed(used) /\ ToSet(used) \subseteq UsageRows
      /\ Listed(charged) /\ ToSet(charged) \subseteq CostRows
  BY <1>1, <1>2, ListedOf
<1>6. Listed(all) /\ ToSet(all) = ToSet(used) \cup ToSet(charged)
  BY <1>5, ListedBoth
<1> HIDE DEF all
<1>7. \A b \in ToSet(all) : b.end \in Instants /\ IsDate(b.end.date)
  BY <1>1, <1>2, <1>5, <1>6 DEF UsageRows, CostRows, RealRows
<1>8. used # <<>> /\ all # <<>>
  BY <1>4, <1>6, ListedNone
<1>9. /\ merged.end \in {b.end : b \in ToSet(all)}
      /\ \A b \in ToSet(all) : NotEarlier(merged.end, b.end)
  BY <1>3, <1>6, <1>7, <1>8, EndIsThere
<1>10. /\ merged.end \in Instants /\ IsDate(merged.end.date) /\ NotEarlier(merged.end, row.end)
       /\ row.end \in Instants /\ IsDate(row.end.date)
  BY <1>4, <1>6, <1>7, <1>9
<1>11. MinuteNumber(row.end) <= MinuteNumber(merged.end)
  BY <1>10, NotEarlierIsLater
<1>12. start = Midnight(row.start.date)
  BY Zenon DEF Anthropic!DayStart, Anthropic!Midnight, Midnight, Anthropic!Instant, Instant
<1>13. row.start \in Instants /\ IsDate(row.start.date)
  BY <1>4, <1>5 DEF UsageRows, RealRows
<1>14. MinuteNumber(start) <= MinuteNumber(row.start)
  BY <1>12, <1>13, MinuteNumberType
<1> QED
  BY <1>8, <1>11, <1>12, <1>14 DEF used, merged

\* Days in order, the results in a day that counts them, and the counts of both
\* the same unless a day has more than fits.
LEMMA AnthropicBucketsAdd ==
    ASSUME NEW raw,
           raw.usage \in Seq(Anthropic!RawPages("usage") \cup {Refused}),
           raw.costs \in Seq(Anthropic!RawPages("costs") \cup {Refused}),
           Anthropic!AnthropicAccount(raw) # Refused,
           RealRows(Rows(raw.usage)), RealRows(Rows(raw.costs))
    PROVE  /\ \A i \in 2..Len(Anthropic!AnthropicAccount(raw).buckets) :
                 Earlier(Anthropic!AnthropicAccount(raw).buckets[i - 1].start,
                         Anthropic!AnthropicAccount(raw).buckets[i].start)
           /\ \A e \in ToSet(EntriesOf(Rows(raw.usage))) :
                 \E b \in ToSet(Anthropic!AnthropicAccount(raw).buckets) :
                     /\ MinuteNumber(b.start) <= MinuteNumber(e.start)
                     /\ MinuteNumber(e.end) <= MinuteNumber(b.end)
                     /\ b.input # None
           /\ \A f \in CountFields :
                 \/ \E b \in ToSet(Anthropic!AnthropicAccount(raw).buckets) : b[f] = MaxCount
                 \/ Total([i \in DOMAIN Anthropic!AnthropicAccount(raw).buckets |->
                              OrZero(Anthropic!AnthropicAccount(raw).buckets[i][f])])
                      = Total([i \in DOMAIN EntriesOf(Rows(raw.usage)) |->
                              AnthropicCountOf(EntriesOf(Rows(raw.usage))[i].result, f)])
<1> DEFINE account == Anthropic!AnthropicAccount(raw)
           usage == Anthropic!Rows(raw.usage)
           costs == Anthropic!Rows(raw.costs)
           buckets == Anthropic!MergeBuckets(usage, costs)
           budget == [p \in Anthropic!Periods |-> Anthropic!BudgetFor(raw.starts[p], buckets)]
           bad == \/ ~Anthropic!Parsed(raw.usage) \/ ~Anthropic!Parsed(raw.costs)
                  \/ Refused \in {buckets[i].cost : i \in DOMAIN buckets}
                  \/ Refused \in {budget[p] : p \in Anthropic!Periods}
           models == Anthropic!ModelBreakdown(Anthropic!Results(usage))
           platform == Anthropic!PlatformAccount("anthropic-local", "claude", "anthropic.platform",
                                                 budget, buckets, models)
           entries == EntriesOf(usage)
<1>1. account = IF bad THEN Refused ELSE platform
  BY Zenon DEF Anthropic!AnthropicAccount
<1>2. ~bad /\ account = platform
  <2> HIDE DEF bad, platform, account
  <2>1. account # Refused
    BY DEF account
  <2> QED
    BY <1>1, <2>1, Zenon
<1> HIDE DEF account
<1>3. Refused \notin ToSet(raw.usage) /\ Refused \notin ToSet(raw.costs)
  <2> HIDE DEF buckets, budget
  <2> QED
    BY <1>2, AnthropicSet, AnthropicSpend, Zenon DEF Anthropic!Parsed
<1> HIDE DEF bad, models, budget
<1>4. account.buckets = buckets
  <2> HIDE DEF buckets
  <2> QED
    BY <1>2, Zenon DEF Anthropic!PlatformAccount
<1>5. usage \in Seq(UsageRows) /\ costs \in Seq(CostRows)
  BY <1>3, AnthropicPages, ParsedRows, AnthropicRows
<1>6. usage = Rows(raw.usage) /\ RealRows(usage) /\ RealRows(costs)
  BY AnthropicRows
<1> DEFINE U == Anthropic!UsageDays(usage)
           S == U \cup Anthropic!CostDays(costs)
           order == Anthropic!InOrder(S, Anthropic!Earlier)
           m == Cardinality(S)
           T == Anthropic!RawUsageResults
<1> HIDE DEF usage, costs
<1>7. /\ Lists(order, S, InstantPairs)
      /\ buckets = [i \in DOMAIN order |-> Anthropic!MergedBucket(usage, costs, order[i])]
  BY <1>5, AnthropicBucketsAre
<1>8. U = {Anthropic!DayStart(b) : b \in ToSet(usage)} /\ U \subseteq S
  BY AnthropicSet, Zenon DEF Anthropic!UsageDays
<1> HIDE DEF order, buckets, S, U
<1>9. /\ m \in Nat /\ DOMAIN order = 1..m /\ \A i \in 1..m : order[i] \in S
      /\ \A s \in S : \E i \in 1..m : order[i] = s
      /\ \A i, j \in 1..m : i < j => <<order[i], order[j]>> \in InstantPairs
  BY <1>7 DEF Lists
<1> HIDE DEF m
<1>10. /\ DOMAIN buckets = 1..m /\ Len(buckets) = m
       /\ \A i \in 1..m : buckets[i] = Anthropic!MergedBucket(usage, costs, order[i])
       /\ \A i \in 1..m : buckets[i] \in ToSet(buckets) /\ buckets[i].start = order[i]
  <2>1. DOMAIN buckets = 1..m /\ \A i \in 1..m : buckets[i] = Anthropic!MergedBucket(usage, costs, order[i])
    BY <1>7, <1>9
  <2>2. Len(buckets) = m
    BY <1>7, <1>9
  <2>3. \A i \in 1..m : buckets[i] \in ToSet(buckets)
    BY <2>1 DEF ToSet
  <2>4. \A i : Anthropic!MergedBucket(usage, costs, order[i]).start = order[i]
    BY Zenon DEF Anthropic!MergedBucket, Anthropic!Bucket
  <2> QED
    BY <2>1, <2>2, <2>3, <2>4
<1>11. ASSUME NEW i \in 2..m
       PROVE  Earlier(buckets[i - 1].start, buckets[i].start)
  <2>1. i - 1 \in 1..m /\ i \in 1..m /\ i - 1 < i
    BY <1>9
  <2>2. Earlier(order[i - 1], order[i])
    BY <1>9, <2>1 DEF InstantPairs
  <2> QED
    BY <1>10, <2>1, <2>2
<1>12. UsageRows = RowsOf(Instants, T)
  BY Zenon DEF UsageRows, RowsOf
<1>13. usage \in Seq(RowsOf(Instants, T))
  BY <1>5, <1>12
<1> HIDE DEF T
<1>14. /\ entries \in Seq(EntrySet(Instants, T))
       /\ \A e \in ToSet(entries) : \E row \in ToSet(usage) : e.start = row.start /\ e.end = row.end
  BY <1>13, EntriesAre
<1> HIDE DEF entries
<1>15. ASSUME NEW e \in ToSet(entries)
       PROVE  \E b \in ToSet(buckets) :
                  /\ MinuteNumber(b.start) <= MinuteNumber(e.start)
                  /\ MinuteNumber(e.end) <= MinuteNumber(b.end)
                  /\ b.input # None
  <2>1. PICK row \in ToSet(usage) : e.start = row.start /\ e.end = row.end
    BY <1>14
  <2>2. Anthropic!DayStart(row) \in S
    BY <1>8
  <2>3. PICK i \in 1..m : order[i] = Anthropic!DayStart(row)
    BY <1>9, <2>2
  <2>4. /\ Anthropic!UsageOfDay(usage, order[i]) # <<>>
        /\ MinuteNumber(order[i]) <= MinuteNumber(row.start)
        /\ MinuteNumber(row.end) <= MinuteNumber(Anthropic!MergedBucket(usage, costs, order[i]).end)
    BY <1>5, <1>6, <2>3, DayCovers
  <2>5. "input" \in CountFields
    BY DEF CountFields
  <2>6. Anthropic!MergedBucket(usage, costs, order[i])["input"] # None
    BY <1>5, <2>4, <2>5, AnthropicCountsAre
  <2> QED
    BY <1>10, <2>1, <2>4, <2>6
<1>16. ASSUME NEW f \in CountFields, \A b \in ToSet(buckets) : b[f] # MaxCount
       PROVE  Total([i \in DOMAIN buckets |-> OrZero(buckets[i][f])])
                = Total([i \in DOMAIN entries |-> AnthropicCountOf(entries[i].result, f)])
  <2> DEFINE val == AnthropicWorth(f)
             W == RowWorth(Instants, T, val)
             key == [x \in ToSet(usage) |-> Anthropic!DayStart(x)]
             groups == [i \in DOMAIN buckets |-> OrZero(buckets[i][f])]
             E == EntrySet(Instants, T)
             ev == EntryWorth(Instants, T, val)
             v == [i \in DOMAIN entries |-> AnthropicCountOf(entries[i].result, f)]
  <2>2. val \in [T -> Int] /\ \A r \in T : val[r] = AnthropicCountOf(r, f)
    BY AnthropicWorthType DEF T
  <2> HIDE DEF val
  <2>3. W \in [RowsOf(Instants, T) -> Int]
    BY <2>2, RowWorthType
  <2>4. ASSUME NEW i \in 1..m PROVE groups[i] = Worth(W, Gathered(usage, key, order[i]))
    <3>1. /\ Anthropic!MergedBucket(usage, costs, order[i])[f] # MaxCount
          /\ groups[i] = OrZero(Anthropic!MergedBucket(usage, costs, order[i])[f])
      BY <1>10, <1>16
    <3>2. groups[i] = Worth(W, Anthropic!UsageOfDay(usage, order[i]))
      BY <1>5, <3>1, AnthropicCountsAre DEF T, val
    <3>3. {x \in ToSet(usage) : Anthropic!DayStart(x) = order[i]} = {x \in ToSet(usage) : key[x] = order[i]}
      OBVIOUS
    <3>4. Anthropic!UsageOfDay(usage, order[i]) = Gathered(usage, key, order[i])
      BY <3>3, UsageOfDayIs, Zenon DEF Gathered
    <3> QED
      BY <3>2, <3>4
  <2>5. \A i \in 1..Len(usage) : key[usage[i]] \in S
    <3> TAKE i \in 1..Len(usage)
    <3>1. usage[i] \in ToSet(usage)
      BY <1>5 DEF ToSet
    <3>2. key[usage[i]] = Anthropic!DayStart(usage[i])
      BY <3>1
    <3> QED
      BY <1>8, <3>1, <3>2
  <2> HIDE DEF key
  <2>6. groups \in [1..m -> Int]
    <3>1. \A i \in 1..m : Worth(W, Gathered(usage, key, order[i])) \in Int
      <4> TAKE i \in 1..m
      <4>1. Gathered(usage, key, order[i]) \in Seq(RowsOf(Instants, T))
        BY <1>13, AmongIs DEF Gathered
      <4> QED
        BY <2>3, <4>1, WorthType
    <3>2. \A i \in 1..m : groups[i] \in Int
      BY <2>4, <3>1
    <3>3. DOMAIN groups = 1..m /\ groups = [i \in 1..m |-> groups[i]]
      BY <1>10
    <3> HIDE DEF groups
    <3> QED
      BY <3>2, <3>3
  <2> HIDE DEF groups
  <2>7. Grouped(groups, W, usage, key, order, S)
    BY <2>4, <2>5, <2>6 DEF Grouped, m
  <2>8. Total(groups) = Worth(ev, entries)
    <3>1. Worth(ev, entries) = Worth(W, usage)
      BY <1>13, <2>2, WorthEntries DEF entries
    <3> DEFINE RT == RowsOf(Instants, T)
    <3>2. W \in [RT -> Int] /\ usage \in Seq(RT)
      BY <1>13, <2>3
    <3> HIDE DEF W, RT
    <3>3. Total(groups) = Worth(W, usage)
      BY <1>7, <2>7, <3>2, WorthGroups
    <3> QED
      BY <3>1, <3>3
  <2>9. Worth(ev, entries) = Total(v)
    <3>1. ev \in [E -> Int] /\ \A e \in E : ev[e] = AnthropicCountOf(e.result, f)
      BY <2>2 DEF EntrySet, EntryWorth
    <3>2. entries \in Seq(E)
      BY <1>14
    <3> HIDE DEF ev, E
    <3>3. \A i \in DOMAIN entries : entries[i] \in E
      BY <3>2
    <3>4. \A i \in DOMAIN entries : v[i] = ev[entries[i]]
      BY <3>1, <3>3
    <3>5. DOMAIN v = DOMAIN entries /\ v = [i \in DOMAIN v |-> v[i]]
      OBVIOUS
    <3> HIDE DEF v
    <3> QED
      BY <3>1, <3>2, <3>4, <3>5, WorthIsSum, SMTT(30)
  <2> QED
    BY <2>8, <2>9 DEF groups
<1>17. \A f \in CountFields :
           \/ \E b \in ToSet(buckets) : b[f] = MaxCount
           \/ Total([i \in DOMAIN buckets |-> OrZero(buckets[i][f])])
                = Total([i \in DOMAIN entries |-> AnthropicCountOf(entries[i].result, f)])
  BY <1>16
<1> QED
  BY <1>4, <1>6, <1>10, <1>11, <1>15, <1>17 DEF account, entries

\* The pages of a report are pages the organization may answer.
KnownPages ==
    source # None /\ source \in DOMAIN Pages =>
        \A feed \in Feeds : report[feed] \in Seq(Pages[source][feed])

\* No page is read at first.
LEMMA KnownInit == Init => KnownPages
  BY DEF Init, KnownPages

\* A page that is read is one the provider may give.
LEMMA KnownStep == ReportInv /\ KnownPages /\ [Next]_vars => KnownPages'
<1> SUFFICES ASSUME ReportInv, KnownPages, [Next]_vars PROVE KnownPages'
  OBVIOUS
<1>1. ASSUME NEW p \in DOMAIN Summaries, AskPlan(p) PROVE KnownPages'
  <2>1. p \in Plans /\ DOMAIN Pages \subseteq Platforms
    BY ReportAssumption
  <2>2. p \notin DOMAIN Pages
    BY <2>1 DEF Plans, Platforms
  <2> QED
    BY <1>1, <2>2 DEF AskPlan, KnownPages
<1>2. ASSUME NEW o \in DOMAIN Pages, AskPlatform(o) PROVE KnownPages'
  <2>1. \A feed \in Feeds : report'[feed] = <<>>
    BY <1>2 DEF AskPlatform, Feeds
  <2>2. \A feed \in Feeds : report'[feed] \in Seq(Pages[o][feed])
    <3> TAKE feed \in Feeds
    <3> DEFINE T == Pages[o][feed]
    <3>1. <<>> \in Seq(T)
      OBVIOUS
    <3> HIDE DEF T
    <3>2. report'[feed] \in Seq(T)
      BY <2>1, <3>1
    <3> QED
      BY <3>2 DEF T
  <2> QED
    BY <1>2, <2>2 DEF AskPlatform, KnownPages
<1>3. ASSUME NEW feed \in Feeds, Page(feed) PROVE KnownPages'
  <2>1. PICK page \in Pages[source][feed] : report' = [report EXCEPT ![feed] = Append(@, page)]
    BY <1>3 DEF Page
  <2> SUFFICES ASSUME source # None, NEW g \in Feeds
               PROVE  report'[g] \in Seq(Pages[source][g])
    BY <1>3, Zenon DEF Page, KnownPages
  <2>2. source \in DOMAIN Pages
    BY <1>3 DEF Page
  <2>3. report[g] \in Seq(Pages[source][g])
    BY <2>2 DEF KnownPages
  <2>4. report = [usage |-> report.usage, costs |-> report.costs, starts |-> report.starts]
    <3>1. source \notin DOMAIN Summaries
      BY <2>2, ReportAssumption DEF Plans, Platforms
    <3> QED
      BY <3>1, Zenon DEF ReportInv
  <2>5. report'[g] = IF g = feed THEN Append(report[g], page) ELSE report[g]
    BY <2>1, <2>4 DEF Feeds
  <2> DEFINE T == Pages[source][g]
             s == report[g]
  <2>6. s \in Seq(T) /\ (g = feed => page \in T) /\ report'[g] = IF g = feed THEN Append(s, page) ELSE s
    BY <2>1, <2>3, <2>5
  <2> HIDE DEF T, s
  <2>7. report'[g] \in Seq(T)
    BY <2>6
  <2> QED
    BY <2>7 DEF T
<1>4. CASE Answer
  BY <1>4 DEF Answer, KnownPages
<1>5. CASE Close
  BY <1>5 DEF Close, KnownPages
<1>6. CASE UNCHANGED vars
  BY <1>6 DEF vars, KnownPages
<1> QED
  BY <1>1, <1>2, <1>3, <1>4, <1>5, <1>6 DEF Next

\* The pages read stay pages the provider may give.
LEMMA KnownStays == Spec => [](ReportInv /\ KnownPages)
<1>1. Init => ReportInv /\ KnownPages
  BY ReportInit, KnownInit
<1>2. (ReportInv /\ KnownPages) /\ [Next]_vars => (ReportInv /\ KnownPages)'
  BY ReportStep, KnownStep
<1> QED
  BY <1>1, <1>2, PTL DEF Spec

\* The instants an Anthropic organization reports are on days of the calendar.
RealDates ==
    "anthropic" \in DOMAIN Pages =>
        \A feed \in Feeds : \A page \in Pages["anthropic"][feed] : page # Refused => RealRows(page)

\* The rows of such pages start and end on real days.
LEMMA RealReport ==
    ASSUME RealDates, "anthropic" \in DOMAIN Pages, NEW feed \in Feeds,
           NEW pages \in Seq(Pages["anthropic"][feed]), Refused \notin ToSet(pages),
           pages \in Seq(Anthropic!RawPages(feed) \cup {Refused})
    PROVE  RealRows(Rows(pages))
<1> DEFINE T == IF feed = "usage" THEN UsageRows ELSE CostRows
<1>1. Anthropic!RawPages(feed) = Seq(T)
  BY AnthropicPages DEF Feeds
<1> HIDE DEF T
<1>2. pages \in Seq(Seq(T))
  BY <1>1, ParsedRows
<1>3. ToSet(FlattenSeq(pages)) = UNION {ToSet(pages[i]) : i \in DOMAIN pages}
  BY <1>2, FlattenIs
<1>4. \A i \in DOMAIN pages : pages[i] \in Pages["anthropic"][feed] /\ pages[i] # Refused
  BY DEF ToSet
<1>5. \A i \in DOMAIN pages : RealRows(pages[i])
  BY <1>4 DEF RealDates
<1> QED
  BY <1>3, <1>5 DEF RealRows, Rows

\* A shown account's buckets hold what the pages reported.
LEMMA BucketsHold ==
    ASSUME ReportInv, KnownPages, RealDates
    PROVE  BucketsAddUp
<1> SUFFICES ASSUME source \in {"openai", "anthropic"}, Accepted PROVE BucketsAddUp
  BY Zenon DEF BucketsAddUp
<1> DEFINE buckets == Account.buckets
           entries == Entries("usage")
           Covers(b, e) == /\ MinuteNumber(b.start) <= RowMinute(e.start)
                           /\ RowMinute(e.end) <= MinuteNumber(b.end)
                           /\ b.input # None
           Sum1(f) == Total([i \in DOMAIN buckets |-> OrZero(buckets[i][f])])
           Sum2(f) == Total([i \in DOMAIN entries |-> Count(f, entries[i].result)])
           Order == \A i \in 2..Len(buckets) :
                       \/ Earlier(buckets[i - 1].start, buckets[i].start)
                       \/ /\ buckets[i - 1].start = buckets[i].start
                          /\ Earlier(buckets[i - 1].end, buckets[i].end)
           Cover == \A e \in ToSet(entries) : \E b \in ToSet(buckets) : Covers(b, e)
           Sums == \A f \in CountFields :
                       \/ Sum1(f) = Sum2(f)
                       \/ source = "anthropic" /\ \E b \in ToSet(buckets) : b[f] = MaxCount
<1>1. source # None /\ Account = Normalize(source, report) /\ Account # Refused
  BY ShownIs
<1> HIDE DEF Account
<1>2. OfPages(source, report) /\ source \in DOMAIN Pages
  BY <1>1, ReportAssumption DEF ReportInv, Plans
<1>3. entries = EntriesOf(Rows(report.usage))
  BY Zenon DEF Entries, EntriesOf
<1>4. ASSUME source = "openai" PROVE Order /\ Cover /\ Sums
  <2>1. /\ RawPages("openai", "usage") = OpenAi!RawPages("usage")
        /\ RawPages("openai", "costs") = OpenAi!RawPages("costs")
    BY DEF RawPages
  <2>2. /\ report.usage \in Seq(OpenAi!RawPages("usage") \cup {Refused})
        /\ report.costs \in Seq(OpenAi!RawPages("costs") \cup {Refused})
    BY <1>2, <1>4, <2>1 DEF OfPages, Feeds
  <2>3. Account = OpenAi!OpenAiAccount(report)
    BY <1>1, <1>4 DEF Normalize
  <2>4. (\A x : RowMinute(x) = x) /\ \A f, r : Count(f, r) = OrZero(r[f])
    BY <1>4 DEF RowMinute, Count
  <2>5. Order
    BY <1>1, <2>2, <2>3, OpenAiBucketsAdd
  <2>6. Cover
    <3> HIDE DEF entries
    <3> QED
      BY <1>1, <1>3, <2>2, <2>3, <2>4, OpenAiBucketsAdd
  <2>7. ASSUME NEW f \in CountFields PROVE Sum1(f) = Sum2(f)
    <3> HIDE DEF entries
    <3>1. Sum1(f) = Total([i \in DOMAIN entries |-> OrZero(entries[i].result[f])])
      BY <1>1, <1>3, <2>2, <2>3, OpenAiBucketsAdd
    <3>2. Sum2(f) = Total([i \in DOMAIN entries |-> OrZero(entries[i].result[f])])
      BY <2>4, Zenon
    <3> QED
      BY <3>1, <3>2
  <2> HIDE DEF Order, Cover, Sum1, Sum2
  <2> QED
    BY <2>5, <2>6, <2>7
<1>5. ASSUME source = "anthropic" PROVE Order /\ Cover /\ Sums
  <2>1. /\ RawPages("anthropic", "usage") = Anthropic!RawPages("usage")
        /\ RawPages("anthropic", "costs") = Anthropic!RawPages("costs")
    BY DEF RawPages
  <2>2. /\ report.usage \in Seq(Anthropic!RawPages("usage") \cup {Refused})
        /\ report.costs \in Seq(Anthropic!RawPages("costs") \cup {Refused})
    BY <1>2, <1>5, <2>1 DEF OfPages, Feeds
  <2>3. Account = Anthropic!AnthropicAccount(report)
    BY <1>1, <1>5 DEF Normalize
  <2>4. (\A x : RowMinute(x) = MinuteNumber(x)) /\ \A f, r : Count(f, r) = AnthropicCountOf(r, f)
    BY <1>5, Zenon DEF RowMinute, Count, AnthropicCountOf
  <2>5. RealRows(Rows(report.usage)) /\ RealRows(Rows(report.costs))
    <3>1. Refused \notin ToSet(report.usage) /\ Refused \notin ToSet(report.costs)
      BY <1>1, <2>3, AnthropicSet, Zenon DEF Anthropic!AnthropicAccount, Anthropic!Parsed
    <3>2. /\ report.usage \in Seq(Pages["anthropic"]["usage"])
          /\ report.costs \in Seq(Pages["anthropic"]["costs"])
      BY <1>1, <1>2, <1>5 DEF KnownPages, Feeds
    <3> QED
      BY <1>2, <1>5, <2>2, <3>1, <3>2, RealReport DEF Feeds
  <2>6. Order
    BY <1>1, <2>2, <2>3, <2>5, AnthropicBucketsAdd
  <2>7. Cover
    <3> HIDE DEF entries
    <3> QED
      BY <1>1, <1>3, <2>2, <2>3, <2>4, <2>5, AnthropicBucketsAdd
  <2>8. ASSUME NEW f \in CountFields
        PROVE  Sum1(f) = Sum2(f) \/ \E b \in ToSet(buckets) : b[f] = MaxCount
    <3> HIDE DEF entries
    <3>1. \/ Sum1(f) = Total([i \in DOMAIN entries |-> AnthropicCountOf(entries[i].result, f)])
          \/ \E b \in ToSet(buckets) : b[f] = MaxCount
      BY <1>1, <1>3, <2>2, <2>3, <2>5, AnthropicBucketsAdd
    <3>2. Sum2(f) = Total([i \in DOMAIN entries |-> AnthropicCountOf(entries[i].result, f)])
      BY <2>4, Zenon
    <3> QED
      BY <3>1, <3>2
  <2> HIDE DEF Order, Cover, Sum1, Sum2
  <2> QED
    BY <1>5, <2>6, <2>7, <2>8
<1>6. Order /\ Cover /\ Sums
  BY <1>4, <1>5
<1> QED
  BY <1>6, Zenon DEF BucketsAddUp, SumOf, Total

\* The buckets of a platform's account hold exactly what its pages reported: they
\* come in the order of their days, every row counted lies in a bucket that knows
\* its counts, and each count adds up to that of the rows unless Anthropic's sums
\* stopped at the largest count; given that Anthropic's instants are on real days.
THEOREM ShownBucketsAddUp == RealDates => (Spec => []BucketsAddUp)
<1> SUFFICES ASSUME RealDates
             PROVE  Spec => []BucketsAddUp
  OBVIOUS
<1>1. ReportInv /\ KnownPages => BucketsAddUp
  BY BucketsHold
<1> QED
  BY <1>1, KnownStays, PTL

\* A sequence grows by its next element.
LEMMA NextElement ==
    ASSUME NEW T, NEW m \in Nat, NEW s, \A i \in 1..(m + 1) : s[i] \in T
    PROVE  [i \in 1..m |-> s[i]] \o <<s[m + 1]>> = [i \in 1..(m + 1) |-> s[i]]
<1> DEFINE a == [i \in 1..m |-> s[i]]
           b == <<s[m + 1]>>
           c == [i \in 1..(m + 1) |-> s[i]]
<1>1. m \in 0..(m + 1) /\ \A i \in 1..m : i \in 1..(m + 1)
  OBVIOUS
<1>2. a \in Seq(T) /\ Len(a) = m /\ \A i \in 1..m : a[i] = s[i]
  BY <1>1
<1>3. s[m + 1] \in T
  OBVIOUS
<1>4. b \in Seq(T) /\ Len(b) = 1 /\ b[1] = s[m + 1]
  BY <1>3
<1>5. c \in Seq(T) /\ Len(c) = m + 1 /\ \A i \in 1..(m + 1) : c[i] = s[i]
  OBVIOUS
<1> DEFINE d == a \o b
<1> HIDE DEF a, b, c
<1>6. /\ d \in Seq(T) /\ Len(d) = Len(a) + Len(b)
      /\ \A i \in 1..(Len(a) + Len(b)) : d[i] = IF i <= Len(a) THEN a[i] ELSE b[i - Len(a)]
  BY <1>2, <1>4, ConcatProperties, Zenon
<1> HIDE DEF d
<1>7. ASSUME NEW i \in 1..(m + 1) PROVE d[i] = c[i]
  <2>1. d[i] = IF i <= m THEN a[i] ELSE b[i - m]
    BY <1>2, <1>4, <1>6
  <2>2. ~(i <= m) => i = m + 1 /\ i - m = 1
    OBVIOUS
  <2>3. i <= m => i \in 1..m
    OBVIOUS
  <2> QED
    BY <1>2, <1>4, <1>5, <2>1, <2>2, <2>3
<1>8. d = c
  BY <1>2, <1>4, <1>5, <1>6, <1>7
<1> QED
  BY <1>8 DEF a, b, c, d

\* A sequence of elements that are all in a set is among it.
LEMMA AmongAll ==
    ASSUME NEW T, NEW s \in Seq(T), NEW P, ToSet(s) \subseteq P
    PROVE  Among(s, P) = s
<1> DEFINE n == Len(s)
           seqs == [i \in 1..n |-> <<s[i]>>]
           flat == CHOOSE f : Flat(f, seqs)
           S == {0} \cup {k \in 1..n : flat[k] = [i \in 1..k |-> s[i]]}
<1>1. n \in Nat /\ DOMAIN s = 1..n /\ s = [i \in 1..n |-> s[i]] /\ \A i \in 1..n : s[i] \in P /\ s[i] \in T
  BY DEF ToSet
<1>2. Among(s, P) = FlattenSeq(seqs)
  <2> DEFINE parts == [i \in DOMAIN s |-> IF s[i] \in P THEN <<s[i]>> ELSE <<>>]
  <2>1. parts = seqs
    BY <1>1
  <2> HIDE DEF parts, seqs
  <2>2. Among(s, P) = FlattenSeq(parts)
    BY Zenon DEF Among, parts
  <2> QED
    BY <2>1, <2>2
<1>3. Len(seqs) = n /\ \A i \in 1..n : seqs[i] = <<s[i]>>
  BY <1>1
<1>4. CASE n = 0
  <2>1. FlattenSeq(seqs) = <<>> /\ s = <<>>
    BY <1>1, <1>3, <1>4 DEF FlattenSeq
  <2> QED
    BY <1>2, <2>1
<1>5. CASE n # 0
  <2> HIDE DEF seqs
  <2>1. Flat(flat, seqs)
    BY <1>1, <1>3, FlatExists
  <2>2. FlattenSeq(seqs) = flat[n]
    BY <1>3, <1>5, Zenon DEF FlattenSeq, Flat
  <2> HIDE DEF flat
  <2>3. \A k \in 1..n : flat[k] = IF k = 1 THEN <<s[k]>> ELSE flat[k - 1] \o <<s[k]>>
    BY <1>3, <2>1 DEF Flat
  <2> HIDE DEF n
  <2>4. ASSUME NEW k \in 1..n, k - 1 \in S PROVE k \in S
    <3>1. CASE k = 1
      <4>1. flat[k] = <<s[k]>>
        BY <2>3, <3>1
      <4>2. <<s[k]>> = [i \in 1..k |-> s[i]]
        BY <3>1
      <4> QED
        BY <4>1, <4>2
    <3>2. CASE k # 1
      <4>1. k - 1 \in 1..n /\ flat[k - 1] = [i \in 1..(k - 1) |-> s[i]]
        BY <1>1, <2>4, <3>2
      <4>2. flat[k] = flat[k - 1] \o <<s[k]>>
        BY <2>3, <3>2
      <4> DEFINE m == k - 1
      <4>3. m \in Nat /\ m + 1 = k /\ \A i \in 1..(m + 1) : s[i] \in T
        BY <1>1, <4>1
      <4> HIDE DEF m
      <4>4. [i \in 1..m |-> s[i]] \o <<s[m + 1]>> = [i \in 1..(m + 1) |-> s[i]]
        BY <4>3, NextElement
      <4>5. flat[k] = [i \in 1..k |-> s[i]]
        BY <4>1, <4>2, <4>3, <4>4 DEF m
      <4> QED
        BY <4>5
    <3> QED
      BY <3>1, <3>2
  <2>5. 0 \in S
    OBVIOUS
  <2> HIDE DEF S
  <2>6. n \in Nat
    BY <1>1
  <2>7. \A k \in 0..n : k \in S
    BY <2>4, <2>5, <2>6, Stepwise, Zenon
  <2>8. n \in S
    BY <2>6, <2>7
  <2>9. flat[n] = [i \in 1..n |-> s[i]]
    BY <1>5, <2>6, <2>8 DEF S
  <2> QED
    BY <1>1, <1>2, <2>2, <2>9
<1> QED
  BY <1>4, <1>5

\* Elements are worth the same by values that agree on them.
LEMMA WorthSame ==
    ASSUME NEW T, NEW s \in Seq(T), NEW a, NEW b, \A x \in ToSet(s) : a[x] = b[x]
    PROVE  Worth(a, s) = Worth(b, s)
<1>1. \A i \in DOMAIN s : a[s[i]] = b[s[i]]
  BY DEF ToSet
<1>2. [i \in DOMAIN s |-> a[s[i]]] = [i \in DOMAIN s |-> b[s[i]]]
  BY <1>1, Zenon
<1> QED
  BY <1>2, Zenon DEF Worth

\* A sum that is not refused is exact.
LEMMA MinorExact ==
    ASSUME NEW n \in Nat, NEW w, DOMAIN w = 1..n, \A i \in 1..n : w[i] \in Minor,
           w = [i \in 1..n |-> w[i]], FoldLeft(CheckedMinor, 0, w) # Refused
    PROVE  w \in [1..n -> Int] /\ FoldLeft(CheckedMinor, 0, w) = Total(w) /\ \A i \in 1..n : w[i] # Refused
<1>1. PICK c \in [0..n -> Minor] :
          /\ c[0] = 0 /\ \A i \in 1..n : c[i] = CheckedMinor(c[i - 1], w[i])
          /\ FoldLeft(CheckedMinor, 0, w) = c[n]
  BY MinorChain
<1> DEFINE S == {i \in 0..n : c[n - i] # Refused}
<1>2. \A i \in 0..n : i \in S
  <2>1. 0 \in S
    BY <1>1
  <2>2. ASSUME NEW i \in 1..n, i - 1 \in S PROVE i \in S
    <3>1. n - i + 1 \in 1..n /\ n - (i - 1) = n - i + 1 /\ (n - i + 1) - 1 = n - i
      OBVIOUS
    <3>2. c[n - i + 1] = CheckedMinor(c[n - i], w[n - i + 1])
      BY <1>1, <3>1
    <3>3. c[n - i + 1] # Refused
      BY <2>2, <3>1
    <3>4. c[n - i] # Refused
      BY <3>2, <3>3 DEF CheckedMinor
    <3> QED
      BY <3>4
  <2> HIDE DEF S
  <2> QED
    BY <2>1, <2>2, Stepwise
<1>3. \A i \in 0..n : c[i] # Refused
  <2> TAKE i \in 0..n
  <2>1. n - i \in 0..n /\ n - (n - i) = i
    OBVIOUS
  <2>2. n - i \in S
    BY <1>2, <2>1
  <2> QED
    BY <2>1, <2>2
<1> HIDE DEF S
<1>4. ASSUME NEW i \in 1..n
      PROVE  w[i] # Refused /\ w[i] \in Int /\ c[i] = c[i - 1] + w[i]
  <2>1. i \in 0..n /\ i - 1 \in 0..n
    OBVIOUS
  <2>2. c[i] = CheckedMinor(c[i - 1], w[i]) /\ c[i] # Refused /\ c[i - 1] # Refused
    BY <1>1, <1>3, <2>1
  <2>3. w[i] # Refused
    BY <2>2 DEF CheckedMinor
  <2>4. w[i] \in Int
    BY <2>3 DEF Minor
  <2>5. c[i] = IfFits(c[i - 1] + w[i])
    BY <2>2, <2>3 DEF CheckedMinor
  <2> QED
    BY <2>2, <2>3, <2>4, <2>5 DEF IfFits
<1>5. \A i \in 0..n : c[i] \in Int
  BY <1>1, <1>3 DEF Minor
<1>6. c \in [0..n -> Int] /\ w \in [1..n -> Int]
  BY <1>1, <1>4, <1>5
<1>7. Accrues(c, n, w)
  BY <1>1, <1>4, <1>6 DEF Accrues
<1>8. Total(w) = c[n]
  BY <1>6, <1>7, TotalIs
<1> QED
  BY <1>1, <1>4, <1>6, <1>8

-----------------------------------------------------------------------------
(***************************************************************************)
(* The spend and the requests of a Cursor team.                            *)
(***************************************************************************)
\* Tenths of a cent are rounded as the adapter rounds them.
LEMMA TenthsRound ==
    ASSUME NEW tenths \in Int
    PROVE  Cursor!RoundCents(tenths) = Rounded(tenths, 10) /\ Rounded(tenths, 10) \in Int
<1>1. (2 * tenths + 10) \div 20 = (tenths + 5) \div 10
  OBVIOUS
<1>2. (10 - 2 * tenths) \div 20 = (5 - tenths) \div 10
  OBVIOUS
<1> QED
  BY <1>1, <1>2 DEF Cursor!RoundCents, Rounded

\* The members of a team are those of its pages.
LEMMA CursorMembers ==
    ASSUME NEW pages
    PROVE  Cursor!Members(pages) = FlattenSeq(Chosen(pages, LAMBDA page : page # None))
  BY CursorFlatten, Zenon DEF Cursor!Members, Cursor!Chosen, Chosen

\* What a member tells of its spend, in tenths of a cent.
TellsSpend(m) == m.overall # None \/ (m.included # None /\ m.onDemand # None)
SpendTenths(m) == IF m.overall # None THEN m.overall ELSE m.included + m.onDemand

\* A member's spend, where it tells it, is its rounded tenths.
LEMMA MemberSpendIs ==
    ASSUME NEW m \in Cursor!RawSpendMembers
    PROVE  /\ Cursor!MemberSpend(m) # None <=> TellsSpend(m)
           /\ TellsSpend(m) => Cursor!MemberSpend(m) = SpendTenths(m) /\ SpendTenths(m) \in Int
<1>1. m.overall \in Option(Int) /\ m.included \in Option(Int) /\ m.onDemand \in Option(Int)
  BY CursorTeamRaw
<1>2. Cursor!MemberSpend(m) = IF m.overall # None THEN m.overall
                              ELSE IF m.included = None \/ m.onDemand = None THEN None
                              ELSE m.included + m.onDemand
  BY Zenon DEF Cursor!MemberSpend
<1>3. None \notin Int
  BY NoneAssumption
<1> QED
  BY <1>1, <1>2, <1>3 DEF TellsSpend, SpendTenths, Option

\* The spend of members that all tell it is the sum of what each rounds to.
LEMMA TeamSpendExact ==
    ASSUME NEW pages \in Seq(Option(Seq(Cursor!RawSpendMembers))),
           \A m \in ToSet(Cursor!Members(pages)) : TellsSpend(m),
           Cursor!SpentCents(pages) # Refused
    PROVE  Cursor!SpentCents(pages)
               = Total([i \in DOMAIN Cursor!Members(pages) |->
                           Rounded(SpendTenths(Cursor!Members(pages)[i]), 10)])
<1> DEFINE members == Cursor!Members(pages)
           spends == [i \in DOMAIN members |-> Cursor!MemberSpend(members[i])]
           parts == [i \in DOMAIN spends |-> IF spends[i] # None THEN <<spends[i]>> ELSE <<>>]
           among == [i \in DOMAIN spends |-> IF spends[i] \in Int THEN <<spends[i]>> ELSE <<>>]
           known == FlattenSeq(parts)
           cents == [i \in DOMAIN known |-> Cursor!IfFits(Cursor!RoundCents(known[i]))]
           told == [i \in DOMAIN members |-> Rounded(SpendTenths(members[i]), 10)]
           n == Len(members)
<1>1. Cursor!SpentCents(pages) = FoldLeft(CheckedMinor, 0, cents)
  BY CursorFlatten, CursorFold, Zenon DEF Cursor!SpentCents, Cursor!Chosen
<1>2. members \in Seq(Cursor!RawSpendMembers)
  BY MembersAre
<1> HIDE DEF members
<1>3. n \in Nat /\ DOMAIN members = 1..n /\ \A i \in 1..n : members[i] \in Cursor!RawSpendMembers
  BY <1>2
<1>4. \A i \in 1..n : TellsSpend(members[i])
  BY <1>3 DEF ToSet, members
<1> HIDE DEF n
<1>5. ASSUME NEW i \in 1..n
      PROVE  /\ spends[i] = SpendTenths(members[i]) /\ spends[i] \in Int
             /\ told[i] = Rounded(spends[i], 10)
             /\ Cursor!RoundCents(spends[i]) = told[i] /\ told[i] \in Int
  <2>1. spends[i] = SpendTenths(members[i]) /\ spends[i] \in Int
    BY <1>3, <1>4, MemberSpendIs
  <2>2. told[i] = Rounded(spends[i], 10)
    BY <1>3, <2>1
  <2> HIDE DEF spends, told
  <2> QED
    BY <2>1, <2>2, TenthsRound
<1>6. spends \in Seq(Int) /\ DOMAIN spends = 1..n
  <2>1. DOMAIN spends = 1..n /\ spends = [i \in 1..n |-> spends[i]]
    BY <1>3
  <2> HIDE DEF spends
  <2> QED
    BY <1>3, <1>5, <2>1
<1>7. told = [i \in 1..n |-> told[i]]
  BY <1>3
<1>8. known = spends
  <2>1. parts = among
    <3>1. \A i \in DOMAIN spends : spends[i] # None <=> spends[i] \in Int
      BY <1>5, <1>6, NoneAssumption
    <3> HIDE DEF spends
    <3>2. \A i \in DOMAIN spends : (IF spends[i] # None THEN <<spends[i]>> ELSE <<>>)
                                      = (IF spends[i] \in Int THEN <<spends[i]>> ELSE <<>>)
      BY <3>1
    <3> QED
      BY <3>2, Zenon
  <2> HIDE DEF spends
  <2>2. Among(spends, Int) = FlattenSeq(among)
    BY Zenon DEF Among, among
  <2>3. ToSet(spends) \subseteq Int
    <3>1. \A i \in DOMAIN spends : spends[i] \in Int
      BY <1>5, <1>6, Zenon
    <3> HIDE DEF parts, among
    <3> QED
      BY <3>1, Zenon DEF ToSet
  <2>4. Among(spends, Int) = spends
    BY <1>6, <2>3, AmongAll
  <2> HIDE DEF parts, among
  <2> QED
    BY <2>1, <2>2, <2>4
<1> HIDE DEF spends, parts, known, told
<1>9. \A i \in 1..n : cents[i] = IfFits(told[i])
  <2>1. \A x : Cursor!IfFits(x) = IfFits(x)
    BY Zenon DEF Cursor!IfFits, IfFits
  <2> QED
    BY <1>5, <1>6, <1>8, <2>1
<1>10. DOMAIN cents = 1..n /\ cents = [i \in 1..n |-> cents[i]]
  BY <1>6, <1>8
<1> HIDE DEF cents
<1>11. \A i \in 1..n : cents[i] \in Minor
  BY <1>9, MoneyAssumption DEF IfFits, Minor
<1>12. FoldLeft(CheckedMinor, 0, cents) # Refused
  BY <1>1
<1>13. /\ FoldLeft(CheckedMinor, 0, cents) = Total(cents)
       /\ \A i \in 1..n : cents[i] # Refused
  BY <1>3, <1>10, <1>11, <1>12, MinorExact
<1>14. cents = told
  <2>1. \A i \in 1..n : cents[i] = told[i]
    BY <1>9, <1>13 DEF IfFits
  <2> QED
    BY <1>7, <1>10, <2>1, Zenon
<1> QED
  BY <1>1, <1>13, <1>14 DEF told, members

\* The largest count is where a sum of counts stops.
Capped(total) == IF total <= MaxCount THEN total ELSE MaxCount

\* A count stops at the largest.
LEMMA CappedIsMin == ASSUME NEW total \in Nat PROVE Min({MaxCount, total}) = Capped(total)
<1>1. MaxCount \in Nat
  BY WidthAssumption
<1> DEFINE S == {MaxCount, total}
           least(x) == x \in S /\ \A y \in S : x <= y
<1>2. least(Capped(total)) /\ \A x : least(x) => x = Capped(total)
  BY <1>1 DEF Capped
<1>3. Min(S) = CHOOSE x \in S : \A y \in S : x <= y
  BY DEF Min
<1> HIDE DEF S
<1> QED
  BY <1>2, <1>3 DEF S

\* What a row tells of its requests.
TellsRequests(row) == None \notin {row.included, row.usageBased, row.apiKey}
WholeRequests(row) == row.included + row.usageBased + row.apiKey

\* The requests of a row are known where all three kinds are.
LEMMA RowRequestsExact ==
    ASSUME NEW row \in Cursor!RawDailyUsageRows
    PROVE  /\ TellsRequests(row) => /\ WholeRequests(row) \in Nat
                                    /\ Cursor!RowRequests(row) = Capped(WholeRequests(row))
           /\ ~TellsRequests(row) => Cursor!RowRequests(row) = None
<1>1. /\ row.included \in Option(Nat) /\ row.usageBased \in Option(Nat) /\ row.apiKey \in Option(Nat)
  BY CursorTeamRaw
<1>2. Cursor!RowRequests(row)
        = IF ~TellsRequests(row) THEN None
          ELSE SaturatingCount(SaturatingCount(row.included, row.usageBased), row.apiKey)
  BY Zenon DEF Cursor!RowRequests, Cursor!SaturatingCount, SaturatingCount, TellsRequests
<1>3. TellsRequests(row) => row.included \in Nat /\ row.usageBased \in Nat /\ row.apiKey \in Nat
  BY <1>1 DEF Option, TellsRequests
<1>4. MaxCount \in Nat
  BY WidthAssumption
<1> QED
  BY <1>2, <1>3, <1>4 DEF SaturatingCount, WholeRequests, Capped

\* The requests of rows that all tell them are their sum, up to the largest count,
\* and unknown otherwise.
LEMMA RequestsExact ==
    ASSUME NEW same \in Seq(Cursor!RawDailyUsageRows)
    PROVE  Cursor!FoldLeft(Cursor!AddRequests, 0, same)
               = IF \A r \in ToSet(same) : TellsRequests(r)
                 THEN Min({MaxCount, Total([i \in DOMAIN same |-> WholeRequests(same[i])])})
                 ELSE None
<1> DEFINE n == Len(same)
           v == [i \in DOMAIN same |-> WholeRequests(same[i])]
           fold == Cursor!FoldLeft(Cursor!AddRequests, 0, same)
<1>1. /\ n \in Nat /\ DOMAIN same = 1..n /\ \A i \in 1..n : same[i] \in Cursor!RawDailyUsageRows
      /\ ToSet(same) = {same[i] : i \in 1..n}
  BY DEF ToSet
<1>2. v = [i \in 1..n |-> v[i]] /\ \A i \in 1..n : v[i] = WholeRequests(same[i])
  BY <1>1
<1>3. PICK c \in [0..n -> Option(0..MaxCount)] :
          /\ c[0] = 0 /\ \A i \in 1..n : c[i] = Cursor!AddRequests(c[i - 1], same[i])
          /\ fold = c[n]
  BY <1>1, RequestsChain
<1> HIDE DEF n, v, fold
<1>4. ASSUME NEW i \in 1..n
      PROVE  LET r == Cursor!RowRequests(same[i])
             IN c[i] = IF c[i - 1] = None \/ r = None THEN None ELSE SaturatingCount(c[i - 1], r)
  BY <1>3, Zenon DEF Cursor!AddRequests, Cursor!SaturatingCount, SaturatingCount
<1>5. ASSUME \A i \in 1..n : TellsRequests(same[i])
      PROVE  c[n] = Min({MaxCount, Total(v)})
  <2>1. v \in [1..n -> Nat]
    BY <1>1, <1>2, <1>5, RowRequestsExact
  <2>2. PICK a : Accrues(a, n, v) /\ Total(v) = a[n]
    BY <1>1, <2>1, TotalAccrues
  <2> DEFINE S == {i \in 0..n : a[i] \in Nat /\ c[i] = Capped(a[i])}
  <2>3. 0 \in S
    BY <1>1, <1>3, <2>2, WidthAssumption DEF Accrues, Capped
  <2>4. ASSUME NEW i \in 1..n, i - 1 \in S PROVE i \in S
    <3> DEFINE r == Cursor!RowRequests(same[i])
    <3>1. r = Capped(v[i]) /\ v[i] \in Nat
      BY <1>1, <1>2, <1>5, RowRequestsExact
    <3>2. c[i] = IF c[i - 1] = None \/ r = None THEN None ELSE SaturatingCount(c[i - 1], r)
      BY <1>4
    <3> HIDE DEF r
    <3>3. a[i] = a[i - 1] + v[i] /\ a[i - 1] \in Nat /\ c[i - 1] = Capped(a[i - 1])
      BY <2>2, <2>4 DEF Accrues
    <3>4. Capped(v[i]) \in Nat /\ Capped(a[i - 1]) \in Nat
      BY <3>1, <3>3, WidthAssumption DEF Capped
    <3>5. c[i] = SaturatingCount(Capped(a[i - 1]), Capped(v[i]))
      BY <3>1, <3>2, <3>3, <3>4, NoneAssumption
    <3>6. c[i] = Capped(a[i])
      BY <3>1, <3>3, <3>5, WidthAssumption DEF SaturatingCount, Capped
    <3> QED
      BY <3>1, <3>3, <3>6
  <2> HIDE DEF S
  <2>5. \A i \in 0..n : i \in S
    BY <1>1, <2>3, <2>4, Stepwise
  <2>6. n \in S
    BY <1>1, <2>5
  <2>7. Total(v) \in Nat /\ c[n] = Capped(Total(v))
    BY <2>2, <2>6 DEF S
  <2> QED
    BY <2>7, CappedIsMin
<1>6. ASSUME NEW k \in 1..n, ~TellsRequests(same[k])
      PROVE  c[n] = None
  <2> DEFINE S == {i \in 0..n : i >= k => c[i] = None}
  <2>1. 0 \in S
    BY <1>1
  <2>2. ASSUME NEW i \in 1..n, i - 1 \in S PROVE i \in S
    <3>1. CASE i = k
      <4>1. Cursor!RowRequests(same[k]) = None
        BY <1>1, <1>6, RowRequestsExact
      <4> QED
        BY <1>4, <3>1, <4>1
    <3>2. CASE i > k
      <4>1. c[i - 1] = None
        BY <2>2, <3>2
      <4> QED
        BY <1>4, <4>1
    <3>3. CASE i < k
      BY <3>3
    <3> QED
      BY <3>1, <3>2, <3>3
  <2> HIDE DEF S
  <2>3. \A i \in 0..n : i \in S
    BY <1>1, <2>1, <2>2, Stepwise
  <2>4. n \in S /\ n >= k
    BY <1>1, <2>3
  <2> QED
    BY <2>4 DEF S
<1>7. (\A r \in ToSet(same) : TellsRequests(r)) <=> \A i \in 1..n : TellsRequests(same[i])
  BY <1>1
<1> QED
  BY <1>3, <1>5, <1>6, <1>7, Zenon DEF fold, v

\* What a team's account shows of its spend and of the requests of a day.
TeamMembers(raw) == Cursor!Members(raw.costs)
TeamTellsSpend(raw) ==
    raw.costs # <<>> /\ None \notin ToSet(raw.costs) /\ \A m \in ToSet(TeamMembers(raw)) : TellsSpend(m)
TeamSpend(raw) ==
    Total([i \in DOMAIN TeamMembers(raw) |-> Rounded(SpendTenths(TeamMembers(raw)[i]), 10)])
RequestsShown(same) ==
    IF \A r \in ToSet(same) : TellsRequests(r)
    THEN Min({MaxCount, Total([i \in DOMAIN same |-> WholeRequests(same[i])])}) ELSE None

\* A team's spend and its days' requests are complete or unknown.
LEMMA CursorTeamComplete ==
    ASSUME NEW raw,
           raw.usage \in Seq(Cursor!RawPages("usage") \cup {Refused}),
           raw.costs \in Seq(Cursor!RawPages("costs") \cup {Refused}),
           Cursor!CursorPlatformAccount(raw) # Refused
    PROVE  /\ Cursor!CursorPlatformAccount(raw).budget["month"].spent
                 = IF TeamTellsSpend(raw) THEN Dollars(TeamSpend(raw)) ELSE None
           /\ \A b \in ToSet(Cursor!CursorPlatformAccount(raw).buckets) :
                 b.requests = RequestsShown(DayRows(Rows(raw.usage), b.start.date))
<1> DEFINE account == Cursor!CursorPlatformAccount(raw)
           rows == Cursor!Rows(raw.usage)
           days == Cursor!InOrder({r.day : r \in Cursor!ToSet(rows)} \ {None}, Cursor!Before)
           cents == Cursor!SpentCents(raw.costs)
           spent == IF Cursor!SpendComplete(raw.costs) THEN Cursor!Dollars(cents) ELSE None
           state == Cursor!CalculateBudgetState(spent, None, None)
           budget == [Cursor!NoBudgets EXCEPT !["month"] = state]
           buckets == [i \in DOMAIN days |-> Cursor!DayBucket(rows, days[i])]
           bad == \/ ~Cursor!Parsed(raw.usage) \/ ~Cursor!Parsed(raw.costs)
                  \/ \E row \in Cursor!ToSet(rows) : row.day = None \/ ~Cursor!IsDate(row.day)
                  \/ cents = Refused
           platform == Cursor!PlatformAccount("cursor-team-local", "cursor", "cursor.platform",
                                              budget, buckets, <<>>)
<1>1. account = IF bad THEN Refused ELSE platform
  BY Zenon DEF Cursor!CursorPlatformAccount
<1>2. ~bad /\ account = platform
  <2> HIDE DEF bad, platform, account
  <2>1. account # Refused
    BY DEF account
  <2> QED
    BY <1>1, <2>1, Zenon
<1> HIDE DEF account
<1>3. /\ Refused \notin ToSet(raw.usage) /\ Refused \notin ToSet(raw.costs)
      /\ cents # Refused
  <2> HIDE DEF rows, cents
  <2> QED
    BY <1>2, CursorSet, Zenon DEF Cursor!Parsed
<1> HIDE DEF bad
<1>4. rows \in Seq(Cursor!RawDailyUsageRows) /\ rows = Rows(raw.usage)
  <2>1. Cursor!RawPages("usage") = Seq(Cursor!RawDailyUsageRows)
    BY DEF Cursor!RawPages
  <2> QED
    BY <1>3, <2>1, ParsedRows, CursorRows
<1>5. raw.costs \in Seq(Option(Seq(Cursor!RawSpendMembers)))
  <2>1. Cursor!RawPages("costs") = Option(Seq(Cursor!RawSpendMembers))
    BY DEF Cursor!RawPages, Cursor!Option, Option
  <2>2. \A i \in 1..Len(raw.costs) : raw.costs[i] \in ToSet(raw.costs)
    BY <2>1 DEF ToSet
  <2> HIDE DEF rows, cents
  <2> QED
    BY <1>3, <2>1, <2>2
<1>6. Cursor!SpendComplete(raw.costs) <=> TeamTellsSpend(raw)
  <2> DEFINE members == Cursor!Members(raw.costs)
  <2>1. members \in Seq(Cursor!RawSpendMembers)
    BY <1>5, MembersAre
  <2>2. Cursor!SpendComplete(raw.costs)
          <=> /\ raw.costs # <<>> /\ None \notin ToSet(raw.costs)
              /\ \A m \in ToSet(members) : Cursor!MemberSpend(m) # None
    BY CursorSet, Zenon DEF Cursor!SpendComplete
  <2> HIDE DEF members
  <2>3. \A m \in ToSet(members) : m \in Cursor!RawSpendMembers
    BY <2>1 DEF ToSet
  <2>4. \A m \in ToSet(members) : Cursor!MemberSpend(m) # None <=> TellsSpend(m)
    BY <2>3, MemberSpendIs, Zenon
  <2> QED
    BY <2>2, <2>4, Zenon DEF TeamTellsSpend, TeamMembers, members
<1>7. TeamTellsSpend(raw) => cents = TeamSpend(raw)
  <2> HIDE DEF cents
  <2> QED
    BY <1>3, <1>5, TeamSpendExact, Zenon DEF TeamTellsSpend, TeamSpend, TeamMembers, cents
<1>8. account.budget["month"].spent = spent
  <2>1. account.budget = budget
    BY <1>2, Zenon DEF Cursor!PlatformAccount
  <2>2. Cursor!NoBudgets = [p \in Periods |-> UnknownBudget]
    BY CursorSpend, Zenon DEF NoBudgets
  <2> HIDE DEF state
  <2>3. budget["month"] = state
    BY <2>2 DEF Periods
  <2> HIDE DEF spent, budget
  <2>4. state = CalculateBudgetState(spent, None, None)
    BY CursorSpend, Zenon DEF state
  <2>5. CalculateBudgetState(spent, None, None).spent = spent
    BY DEF CalculateBudgetState
  <2> QED
    BY <2>1, <2>3, <2>4, <2>5
<1>9. spent = IF TeamTellsSpend(raw) THEN Dollars(TeamSpend(raw)) ELSE None
  <2> HIDE DEF cents
  <2> QED
    BY <1>6, <1>7, CursorSpend, Zenon
<1>10. ASSUME NEW b \in ToSet(account.buckets)
       PROVE  b.requests = RequestsShown(DayRows(Rows(raw.usage), b.start.date))
  <2>1. account.buckets = buckets
    BY <1>2, Zenon DEF Cursor!PlatformAccount
  <2> HIDE DEF days, rows
  <2>2. PICK i \in DOMAIN days : b = Cursor!DayBucket(rows, days[i])
    BY <1>10, <2>1 DEF ToSet
  <2> DEFINE day == days[i]
             same == DayRows(rows, day)
  <2>3. /\ b.start.date = day /\ b.requests = Cursor!RequestsOf(rows, day)
    BY <2>2, Zenon DEF Cursor!DayBucket, Cursor!Bucket, Cursor!Midnight, Cursor!Instant
  <2> HIDE DEF day
  <2>4. Cursor!RequestsOf(rows, day) = Cursor!FoldLeft(Cursor!AddRequests, 0, same)
    BY DayRowsAre, Zenon DEF Cursor!RequestsOf
  <2>5. same \in Seq(Cursor!RawDailyUsageRows)
    BY <1>4, AmongIs DEF DayRows
  <2> HIDE DEF same
  <2>6. Cursor!FoldLeft(Cursor!AddRequests, 0, same) = RequestsShown(same)
    BY <2>5, RequestsExact, Zenon DEF RequestsShown
  <2> QED
    BY <1>4, <2>3, <2>4, <2>6, Zenon DEF same
<1> HIDE DEF spent
<1> QED
  BY <1>8, <1>9, <1>10, Zenon DEF account

\* The rows of a day, as the property chooses them.
RowsOfDay(rows, day) == Chosen(rows, LAMBDA r : r.day = day)

\* So they are in every shown account of a Cursor team.
LEMMA CursorCompleteHolds == ReportInv => CursorComplete
<1> SUFFICES ASSUME ReportInv, Shown("cursorPlatform") PROVE CursorComplete
  BY Zenon DEF CursorComplete
<1>1. source = "cursorPlatform" /\ Accepted
  BY DEF Shown
<1>2. Account = Normalize(source, report) /\ Account # Refused
  BY <1>1, ShownIs
<1> HIDE DEF Account
<1>3. OfPages("cursorPlatform", report)
  BY <1>1, <1>2, ShownIs, ReportAssumption DEF ReportInv, Plans
<1>4. /\ report.usage \in Seq(Cursor!RawPages("usage") \cup {Refused})
      /\ report.costs \in Seq(Cursor!RawPages("costs") \cup {Refused})
  BY <1>3 DEF OfPages, Feeds, RawPages
<1>5. Account = Cursor!CursorPlatformAccount(report)
  BY <1>1, <1>2 DEF Normalize
<1>6. /\ Account.budget["month"].spent = IF TeamTellsSpend(report) THEN Dollars(TeamSpend(report)) ELSE None
      /\ \A b \in ToSet(Account.buckets) :
            b.requests = RequestsShown(DayRows(Rows(report.usage), b.start.date))
  BY <1>2, <1>4, <1>5, CursorTeamComplete
<1>7. TeamMembers(report) = FlattenSeq(Chosen(report.costs, LAMBDA page : page # None))
  BY CursorMembers, Zenon DEF TeamMembers
<1>8. \A day : DayRows(Rows(report.usage), day) = RowsOfDay(Rows(report.usage), day)
  <2> TAKE day
  <2>1. Cursor!Chosen(Rows(report.usage), LAMBDA r : r.day = day) = RowsOfDay(Rows(report.usage), day)
    BY CursorFlatten, Zenon DEF Cursor!Chosen, Chosen, RowsOfDay
  <2> QED
    BY <2>1, DayRowsAre
<1> DEFINE members == FlattenSeq(Chosen(report.costs, LAMBDA page : page # None))
           known == report.costs # <<>> /\ None \notin ToSet(report.costs)
                      /\ \A m \in ToSet(members) : TellsSpend(m)
           Same(b) == RowsOfDay(Rows(report.usage), b.start.date)
<1>9. Account.budget["month"].spent
        = IF known THEN Dollars(Total([i \in DOMAIN members |-> Rounded(SpendTenths(members[i]), 10)]))
          ELSE None
  BY <1>6, <1>7, Zenon DEF TeamTellsSpend, TeamSpend
<1>10. ASSUME NEW b \in ToSet(Account.buckets)
       PROVE  b.requests = IF \A r \in ToSet(Same(b)) : TellsRequests(r)
                           THEN Min({MaxCount, Total([i \in DOMAIN Same(b) |-> WholeRequests(Same(b)[i])])})
                           ELSE None
  <2>1. DayRows(Rows(report.usage), b.start.date) = Same(b)
    BY <1>8, Zenon
  <2> DEFINE s == Same(b)
  <2>2. b.requests = RequestsShown(s)
    BY <1>6, <1>10, <2>1, Zenon
  <2> HIDE DEF s
  <2>3. b.requests = IF \A r \in ToSet(s) : TellsRequests(r)
                     THEN Min({MaxCount, Total([i \in DOMAIN s |-> WholeRequests(s[i])])}) ELSE None
    BY <2>2, Zenon DEF RequestsShown
  <2> QED
    BY <2>3 DEF s
<1> HIDE DEF members, Same
<1>11. Account.budget["month"].spent
         = IF known THEN Dollars(SumOf(LAMBDA m : Rounded(SpendTenths(m), 10), members)) ELSE None
  BY <1>9, Zenon DEF SumOf, Total
<1>12. ASSUME NEW b \in ToSet(Account.buckets)
       PROVE  b.requests = IF \A r \in ToSet(Same(b)) : TellsRequests(r)
                           THEN Min({MaxCount, SumOf(WholeRequests, Same(b))}) ELSE None
  BY <1>10, Zenon DEF SumOf, Total
<1> QED
  BY <1>11, <1>12, Zenon DEF CursorComplete, members, Same, TellsSpend, SpendTenths, TellsRequests,
                             WholeRequests, SumOf, RowsOfDay

-----------------------------------------------------------------------------
(***************************************************************************)
(* The spend of an Anthropic organization.                                 *)
(***************************************************************************)
\* What a result may charge: dollars, or nothing.  Its cents are nothing where it
\* names no amount.
NamesAmount(r) == (r.amount = None \/ r.amount # Refused) /\ r.currency \in {None, "USD"}
CostCents(r) ==
    IF r.amount \in {None, Refused} THEN 0
    ELSE IF r.amount.whole >= 0 THEN Rounded(10 * r.amount.whole + r.amount.tenth, 10)
    ELSE Rounded(10 * r.amount.whole - r.amount.tenth, 10)
CostWorth == [r \in Anthropic!RawCostResults |-> CostCents(r)]

\* Rounding the tenths is rounding by the first digit after the point.
LEMMA RoundedSplits ==
    ASSUME NEW whole \in Int, NEW tenth \in 0..9
    PROVE  /\ whole >= 0 => Rounded(10 * whole + tenth, 10) = IF tenth < 5 THEN whole ELSE whole + 1
           /\ whole < 0 => Rounded(10 * whole - tenth, 10) = IF tenth < 5 THEN whole ELSE whole - 1
<1>1. ASSUME whole >= 0
      PROVE  Rounded(10 * whole + tenth, 10) = IF tenth < 5 THEN whole ELSE whole + 1
  <2>1. 10 * whole + tenth >= 0
    BY <1>1
  <2>2. Rounded(10 * whole + tenth, 10) = (20 * whole + 2 * tenth + 10) \div 20
    BY <2>1 DEF Rounded
  <2>3. (20 * whole + 2 * tenth + 10) \div 20 = IF tenth < 5 THEN whole ELSE whole + 1
    OBVIOUS
  <2> QED
    BY <2>2, <2>3
<1>2. ASSUME whole < 0
      PROVE  Rounded(10 * whole - tenth, 10) = IF tenth < 5 THEN whole ELSE whole - 1
  <2>1. ~(10 * whole - tenth >= 0)
    BY <1>2
  <2>2. Rounded(10 * whole - tenth, 10) = -((10 - 20 * whole + 2 * tenth) \div 20)
    BY <2>1 DEF Rounded
  <2>3. (10 - 20 * whole + 2 * tenth) \div 20 = IF tenth < 5 THEN -whole ELSE 1 - whole
    OBVIOUS
  <2> QED
    BY <2>2, <2>3
<1> QED
  BY <1>1, <1>2

\* The cents of a result, by its sign and its first digit.
LEMMA CostCentsType ==
    ASSUME NEW r \in Anthropic!RawCostResults
    PROVE  /\ CostCents(r) \in Int
           /\ r.amount \notin {None, Refused} =>
                 /\ r.amount.whole \in Int /\ r.amount.tenth \in 0..9
                 /\ CostCents(r) = IF r.amount.tenth < 5 THEN r.amount.whole
                                   ELSE IF r.amount.whole >= 0 THEN r.amount.whole + 1
                                   ELSE r.amount.whole - 1
<1>1. r.amount \notin {None, Refused} => r.amount.whole \in Int /\ r.amount.tenth \in 0..9
  BY DEF Anthropic!RawCostResults, Anthropic!RawAmounts
<1>2. r.amount \notin {None, Refused} =>
          CostCents(r) = IF r.amount.tenth < 5 THEN r.amount.whole
                         ELSE IF r.amount.whole >= 0 THEN r.amount.whole + 1 ELSE r.amount.whole - 1
  BY <1>1, RoundedSplits DEF CostCents
<1> QED
  BY <1>1, <1>2 DEF CostCents

\* A sum of costs that is not refused grows by what each result names.
LEMMA CostStep ==
    ASSUME NEW v \in Minor, NEW r \in Anthropic!RawCostResults, Anthropic!AddCost(v, r) # Refused
    PROVE  /\ v # Refused /\ v \in Int /\ NamesAmount(r)
           /\ Anthropic!AddCost(v, r) = v + CostCents(r)
<1> DEFINE cents == Anthropic!CentsFromDecimal(r.amount)
<1>1. /\ Anthropic!AddCost(v, r) = IF r.amount = None THEN v ELSE CheckedMinor(v, cents)
      /\ r.currency \in {None, "USD"}
  BY AnthropicMinor, Zenon DEF Anthropic!AddCost, Anthropic!IsUsd
<1>2. CASE r.amount = None
  BY <1>1, <1>2 DEF NamesAmount, CostCents, Minor
<1>3. CASE r.amount # None
  <2> HIDE DEF cents
  <2>1. Anthropic!AddCost(v, r) = CheckedMinor(v, cents)
    BY <1>1, <1>3
  <2>2. v # Refused /\ cents # Refused
    BY <2>1 DEF CheckedMinor
  <2>3. r.amount # Refused
    BY <2>2, Zenon DEF Anthropic!CentsFromDecimal, cents
  <2>4. /\ r.amount.whole \in Int /\ r.amount.tenth \in 0..9
        /\ CostCents(r) = IF r.amount.tenth < 5 THEN r.amount.whole
                          ELSE IF r.amount.whole >= 0 THEN r.amount.whole + 1 ELSE r.amount.whole - 1
    BY <1>3, <2>3, CostCentsType
  <2>5. cents = CostCents(r)
    BY <2>2, <2>3, <2>4 DEF Anthropic!CentsFromDecimal, Anthropic!IfFits, cents
  <2>6. CostCents(r) \in Int /\ v \in Int
    BY <2>2, CostCentsType DEF Minor
  <2>7. CheckedMinor(v, cents) = v + CostCents(r)
    <3>1. CheckedMinor(v, cents) = IfFits(v + cents)
      BY <2>2 DEF CheckedMinor
    <3> QED
      BY <2>1, <2>5, <3>1 DEF IfFits
  <2> QED
    BY <1>1, <2>1, <2>2, <2>3, <2>6, <2>7 DEF NamesAmount
<1> QED
  BY <1>2, <1>3

\* The costs of a bucket, unless they are refused, are the sum of what its results name.
LEMMA BucketCentsExact ==
    ASSUME NEW row, row.results \in Seq(Anthropic!RawCostResults), Anthropic!BucketCents(row) # Refused
    PROVE  /\ Anthropic!BucketCents(row) = Worth(CostWorth, row.results)
           /\ \A r \in ToSet(row.results) : NamesAmount(r)
<1> DEFINE w == row.results
           n == Len(w)
           v == [i \in DOMAIN w |-> CostWorth[w[i]]]
           fold == Anthropic!FoldLeft(Anthropic!AddCost, 0, w)
<1>1. /\ n \in Nat /\ DOMAIN w = 1..n /\ \A i \in 1..n : w[i] \in Anthropic!RawCostResults
      /\ ToSet(w) = {w[i] : i \in 1..n}
  BY DEF ToSet
<1>2. Anthropic!BucketCents(row) = fold
  BY Zenon DEF Anthropic!BucketCents
<1>3. v = [i \in 1..n |-> v[i]] /\ \A i \in 1..n : v[i] = CostCents(w[i])
  BY <1>1 DEF CostWorth
<1> HIDE DEF n, v, w, fold
<1>4. PICK c \in [0..n -> Minor] :
          /\ c[0] = 0 /\ \A i \in 1..n : c[i] = Anthropic!AddCost(c[i - 1], w[i])
          /\ fold = c[n]
  BY <1>1, CostChain DEF fold
<1> DEFINE S == {i \in 0..n : c[n - i] # Refused}
<1>5. \A i \in 0..n : i \in S
  <2>1. 0 \in S
    BY <1>1, <1>2, <1>4
  <2>2. ASSUME NEW i \in 1..n, i - 1 \in S PROVE i \in S
    <3>1. n - i + 1 \in 1..n /\ n - (i - 1) = n - i + 1 /\ (n - i + 1) - 1 = n - i /\ n - i \in 0..n
      BY <1>1
    <3>2. c[n - i + 1] = Anthropic!AddCost(c[n - i], w[n - i + 1])
      BY <1>4, <3>1
    <3>3. c[n - i + 1] # Refused
      BY <2>2, <3>1
    <3>4. c[n - i] \in Minor /\ w[n - i + 1] \in Anthropic!RawCostResults
      BY <1>1, <1>4, <3>1
    <3>5. c[n - i] # Refused
      BY <3>2, <3>3, <3>4, CostStep
    <3> QED
      BY <3>5
  <2> HIDE DEF S
  <2> QED
    BY <1>1, <2>1, <2>2, Stepwise
<1>6. \A i \in 0..n : c[i] # Refused
  <2> TAKE i \in 0..n
  <2>1. n - i \in 0..n /\ n - (n - i) = i
    BY <1>1
  <2>2. n - i \in S
    BY <1>5, <2>1
  <2> QED
    BY <2>1, <2>2
<1> HIDE DEF S
<1>7. ASSUME NEW i \in 1..n
      PROVE  NamesAmount(w[i]) /\ v[i] \in Int /\ c[i] = c[i - 1] + v[i]
  <2>1. i \in 0..n /\ i - 1 \in 0..n
    BY <1>1
  <2>2. c[i] = Anthropic!AddCost(c[i - 1], w[i]) /\ c[i] # Refused /\ c[i - 1] \in Minor
    BY <1>4, <1>6, <2>1
  <2>3. w[i] \in Anthropic!RawCostResults
    BY <1>1
  <2> QED
    BY <1>3, <2>2, <2>3, CostStep, CostCentsType
<1>8. c \in [0..n -> Int] /\ v \in [1..n -> Int]
  BY <1>3, <1>4, <1>6, <1>7 DEF Minor
<1>9. Accrues(c, n, v)
  BY <1>4, <1>7, <1>8 DEF Accrues
<1>10. Total(v) = c[n]
  BY <1>1, <1>8, <1>9, TotalIs
<1>11. Worth(CostWorth, w) = Total(v)
  BY Zenon DEF Worth, v
<1> QED
  BY <1>1, <1>2, <1>4, <1>7, <1>10, <1>11 DEF w

\* So are those from a start on.
LEMMA CentsFromExact ==
    ASSUME NEW costs \in Seq(CostRows), NEW start, Anthropic!CentsFrom(costs, start) # Refused
    PROVE  /\ Anthropic!CentsFrom(costs, start)
                = Worth(RowWorth(Instants, Anthropic!RawCostResults, CostWorth),
                        Anthropic!CostsFrom(costs, start))
           /\ \A row \in ToSet(costs) : row.start = start => \A r \in ToSet(row.results) : NamesAmount(r)
<1> DEFINE same == Anthropic!CostsFrom(costs, start)
           n == Len(same)
           cents == [i \in DOMAIN same |-> Anthropic!BucketCents(same[i])]
           T == Anthropic!RawCostResults
           W == RowWorth(Instants, T, CostWorth)
<1>1. same \in Seq(CostRows) /\ ToSet(same) = {x \in ToSet(costs) : x.start = start}
  <2>1. same = Among(costs, {x \in ToSet(costs) : x.start = start})
    BY CostsFromIs
  <2> QED
    BY <2>1, AmongIs
<1>2. Anthropic!CentsFrom(costs, start) = FoldLeft(CheckedMinor, 0, cents)
  BY AnthropicFold, Zenon DEF Anthropic!CentsFrom
<1> HIDE DEF same
<1>3. /\ n \in Nat /\ DOMAIN cents = 1..n /\ DOMAIN same = 1..n /\ cents = [i \in 1..n |-> cents[i]]
      /\ \A i \in 1..n : cents[i] = Anthropic!BucketCents(same[i]) /\ same[i] \in CostRows
  BY <1>1
<1> HIDE DEF n, cents
<1>4. CostRows = RowsOf(Instants, T) /\ CostWorth \in [T -> Int]
  BY CostCentsType DEF CostRows, RowsOf, CostWorth
<1> HIDE DEF T
<1>5. W \in [CostRows -> Int] /\ \A row \in CostRows : W[row] = Worth(CostWorth, row.results)
  BY <1>4, RowWorthType
<1> HIDE DEF W
<1>6. \A i \in 1..n : same[i].results \in Seq(Anthropic!RawCostResults)
  BY <1>3 DEF CostRows
<1>7. \A i \in 1..n : cents[i] \in Minor
  <2> TAKE i \in 1..n
  <2>1. cents[i] = Refused \/ cents[i] = Worth(CostWorth, same[i].results)
    BY <1>3, <1>6, BucketCentsExact
  <2>2. Worth(CostWorth, same[i].results) = W[same[i]] /\ W[same[i]] \in Int
    BY <1>3, <1>5
  <2> QED
    BY <2>1, <2>2 DEF Minor
<1>8. FoldLeft(CheckedMinor, 0, cents) # Refused
  BY <1>2
<1>9. /\ FoldLeft(CheckedMinor, 0, cents) = Total(cents)
      /\ \A i \in 1..n : cents[i] # Refused
  BY <1>3, <1>7, <1>8, MinorExact
<1>10. ASSUME NEW i \in 1..n
       PROVE  /\ cents[i] = W[same[i]]
              /\ \A r \in ToSet(same[i].results) : NamesAmount(r)
  <2>1. /\ cents[i] = Worth(CostWorth, same[i].results)
        /\ \A r \in ToSet(same[i].results) : NamesAmount(r)
    BY <1>3, <1>6, <1>9, BucketCentsExact
  <2>2. Worth(CostWorth, same[i].results) = W[same[i]]
    BY <1>3, <1>5
  <2> QED
    BY <2>1, <2>2
<1>11. Worth(W, same) = Total(cents)
  <2>1. \A i \in DOMAIN same : cents[i] = W[same[i]]
    BY <1>3, <1>10
  <2>2. DOMAIN cents = DOMAIN same /\ cents = [i \in DOMAIN cents |-> cents[i]]
    BY <1>3
  <2>3. W \in [CostRows -> Int] /\ same \in Seq(CostRows)
    BY <1>1, <1>5
  <2> QED
    BY ONLY <2>1, <2>2, <2>3, WorthIsSum, SMTT(30)
<1>12. ASSUME NEW row \in ToSet(costs), row.start = start
       PROVE  \A r \in ToSet(row.results) : NamesAmount(r)
  <2>1. row \in ToSet(same)
    BY <1>1, <1>12
  <2>2. PICK i \in 1..n : row = same[i]
    BY <1>3, <2>1 DEF ToSet
  <2> QED
    BY <1>10, <2>2
<1> QED
  BY <1>2, <1>9, <1>11, <1>12 DEF W, T, same

\* v counts those elements of a sequence that are in a set.
CountsOnly(v, val, s, P) ==
    v \in [1..Len(s) -> Int] /\ \A i \in 1..Len(s) : v[i] = IF s[i] \in P THEN val[s[i]] ELSE 0

\* The elements in a set are worth what is counted of them.
LEMMA WorthCounted ==
    ASSUME NEW T, NEW val \in [T -> Int], NEW s \in Seq(T), NEW P, NEW v, CountsOnly(v, val, s, P)
    PROVE  Worth(val, Among(s, P)) = Total(v)
<1>1. v \in [1..Len(s) -> Int] /\ \A i \in 1..Len(s) : v[i] = IF s[i] \in P THEN val[s[i]] ELSE 0
  BY Zenon DEF CountsOnly
<1> QED
  BY <1>1, WorthAmong, SMTT(30)

\* One value is the other on a set and nothing outside it.
OnlyIn(b, a, T, P) == \A x \in T : b[x] = IF x \in P THEN a[x] ELSE 0

\* A sum over the elements that are in a set.
LEMMA WorthChosen ==
    ASSUME NEW T, NEW s \in Seq(T), NEW P, NEW a \in [T -> Int], NEW b \in [T -> Int],
           OnlyIn(b, a, T, P)
    PROVE  Worth(a, Among(s, P)) = Worth(b, s)
<1> DEFINE v == [i \in 1..Len(s) |-> b[s[i]]]
<1>1. Len(s) \in Nat /\ DOMAIN s = 1..Len(s) /\ \A i \in 1..Len(s) : s[i] \in T
  OBVIOUS
<1>2. v \in [1..Len(s) -> Int] /\ \A i \in 1..Len(s) : v[i] = IF s[i] \in P THEN a[s[i]] ELSE 0
  BY <1>1 DEF OnlyIn
<1>3. Worth(b, s) = Total(v)
  BY <1>1, Zenon DEF Worth
<1> HIDE DEF v
<1>4. CountsOnly(v, a, s, P)
  BY <1>2, Zenon DEF CountsOnly
<1>5. Worth(a, Among(s, P)) = Total(v)
  BY <1>4, WorthCounted
<1> QED
  BY <1>3, <1>5

\* The buckets since a start, and those of them that have a cost.
Since(buckets, start) == Among(buckets, {x \in ToSet(buckets) : NotEarlier(x.start, start)})
Priced(since) == Among(since, {x \in ToSet(since) : x.cost # None})
PricedTotal(priced) == FoldLeft(CheckedMinor, 0, [i \in DOMAIN priced |-> priced[i].cost.minor])

\* The buckets since a start, as the adapter chooses them.
LEMMA SinceIs ==
    ASSUME NEW buckets, NEW start
    PROVE  Anthropic!Chosen(buckets, LAMBDA b : Anthropic!NotEarlier(b.start, start))
               = Since(buckets, start)
<1> DEFINE P == {x \in ToSet(buckets) : NotEarlier(x.start, start)}
           parts == [i \in DOMAIN buckets |->
                        IF NotEarlier(buckets[i].start, start) THEN <<buckets[i]>> ELSE <<>>]
           among == [i \in DOMAIN buckets |-> IF buckets[i] \in P THEN <<buckets[i]>> ELSE <<>>]
<1>1. Anthropic!Chosen(buckets, LAMBDA b : Anthropic!NotEarlier(b.start, start)) = FlattenSeq(parts)
  BY AnthropicFlatten, AnthropicEarlier, Zenon DEF Anthropic!Chosen
<1>2. \A i \in DOMAIN buckets : buckets[i] \in P <=> NotEarlier(buckets[i].start, start)
  BY DEF ToSet
<1> HIDE DEF P
<1>3. parts = among
  BY <1>2, Zenon
<1> HIDE DEF parts, among
<1>4. Among(buckets, P) = FlattenSeq(among)
  BY Zenon DEF Among, among
<1> QED
  BY <1>1, <1>3, <1>4 DEF Since, P

\* The buckets with a cost, as the adapter chooses them.
LEMMA PricedIs ==
    ASSUME NEW since
    PROVE  Anthropic!Chosen(since, LAMBDA b : b.cost # None) = Priced(since)
<1> DEFINE P == {x \in ToSet(since) : x.cost # None}
           parts == [i \in DOMAIN since |-> IF since[i].cost # None THEN <<since[i]>> ELSE <<>>]
           among == [i \in DOMAIN since |-> IF since[i] \in P THEN <<since[i]>> ELSE <<>>]
<1>1. Anthropic!Chosen(since, LAMBDA b : b.cost # None) = FlattenSeq(parts)
  BY AnthropicFlatten, Zenon DEF Anthropic!Chosen
<1>2. \A i \in DOMAIN since : since[i] \in P <=> since[i].cost # None
  BY DEF ToSet
<1> HIDE DEF P
<1>3. parts = among
  BY <1>2, Zenon
<1> HIDE DEF parts, among
<1>4. Among(since, P) = FlattenSeq(among)
  BY Zenon DEF Among, among
<1> QED
  BY <1>1, <1>3, <1>4 DEF Priced, P

\* A budget is refused, or made of the sum of the priced buckets.
LEMMA BudgetSplits ==
    ASSUME NEW buckets, NEW start
    PROVE  LET since == Since(buckets, start)
               total == PricedTotal(Priced(since))
           IN Anthropic!BudgetFor(start, buckets)
                  = IF total = Refused THEN Refused
                    ELSE CalculateBudgetState(IF since # <<>> /\ Priced(since) = since
                                              THEN Dollars(total) ELSE None, None, None)
<1> DEFINE since == Anthropic!Chosen(buckets, LAMBDA b : Anthropic!NotEarlier(b.start, start))
           priced == Anthropic!Chosen(since, LAMBDA b : b.cost # None)
           total == Anthropic!FoldLeft(Anthropic!CheckedMinor, 0,
                                       [i \in DOMAIN priced |-> priced[i].cost.minor])
           spent == IF since # <<>> /\ priced = since THEN Anthropic!Dollars(total) ELSE None
<1>1. Anthropic!BudgetFor(start, buckets)
        = IF total = Refused THEN Refused ELSE Anthropic!CalculateBudgetState(spent, None, None)
  BY Zenon DEF Anthropic!BudgetFor
<1>2. since = Since(buckets, start)
  BY SinceIs
<1>3. priced = Priced(since)
  <2> HIDE DEF since
  <2> QED
    BY PricedIs
<1> HIDE DEF since, priced
<1>4. total = PricedTotal(priced)
  BY AnthropicFold, Zenon DEF PricedTotal
<1> HIDE DEF total
<1>5. spent = IF since # <<>> /\ priced = since THEN Dollars(total) ELSE None
  BY AnthropicSpend, Zenon
<1> HIDE DEF spent
<1>6. Anthropic!BudgetFor(start, buckets)
        = IF total = Refused THEN Refused ELSE CalculateBudgetState(spent, None, None)
  BY <1>1, AnthropicSpend, Zenon
<1> QED
  BY <1>2, <1>3, <1>4, <1>5, <1>6, Zenon

\* The cents of a bucket that has a cost.
MinorWorth == [b \in UsageBuckets |-> IF b.cost = None THEN 0 ELSE b.cost.minor]

\* The cents of a bucket are an integer.
LEMMA MinorWorthType == MinorWorth \in [UsageBuckets -> Int]
<1>1. \A b \in UsageBuckets : b.cost # None => b.cost.minor \in Int
  BY DEF UsageBuckets, Option, Money
<1> QED
  BY <1>1 DEF MinorWorth

\* What was spent since a start is known where there are buckets and all have a cost.
LEMMA BudgetIsWorth ==
    ASSUME NEW buckets \in Seq(UsageBuckets), NEW start, Anthropic!BudgetFor(start, buckets) # Refused
    PROVE  LET since == Since(buckets, start)
           IN Anthropic!BudgetFor(start, buckets).spent
                  = IF ToSet(since) # {} /\ \A b \in ToSet(since) : b.cost # None
                    THEN Dollars(Worth(MinorWorth, since)) ELSE None
<1> DEFINE since == Since(buckets, start)
           priced == Priced(since)
           total == PricedTotal(priced)
           spent == IF since # <<>> /\ priced = since THEN Dollars(total) ELSE None
           all == \A b \in ToSet(since) : b.cost # None
<1>1. Anthropic!BudgetFor(start, buckets)
        = IF total = Refused THEN Refused ELSE CalculateBudgetState(spent, None, None)
  BY BudgetSplits, Zenon
<1>2. since \in Seq(UsageBuckets)
  BY AmongIs DEF Since
<1> HIDE DEF since
<1>3. ToSet(priced) = {x \in ToSet(since) : x.cost # None}
  <2> DEFINE P == {x \in ToSet(since) : x.cost # None}
  <2>1. P \subseteq ToSet(since) /\ priced = Among(since, P)
    BY Zenon DEF Priced
  <2> HIDE DEF P, priced
  <2>2. ToSet(priced) = ToSet(since) \cap P
    BY <1>2, <2>1, AmongIs
  <2> QED
    BY <2>1, <2>2 DEF P
<1>4. priced = since <=> all
  <2>1. ASSUME priced = since PROVE all
    <3> HIDE DEF priced
    <3> QED
      BY <1>3, <2>1
  <2>2. ASSUME all PROVE priced = since
    <3> DEFINE P == {x \in ToSet(since) : x.cost # None}
    <3>1. ToSet(since) \subseteq P
      BY <2>2
    <3> HIDE DEF P
    <3>2. Among(since, P) = since
      BY <1>2, <3>1, AmongAll
    <3> QED
      BY <3>2, Zenon DEF Priced, P
  <2> QED
    BY <2>1, <2>2
<1>5. since # <<>> <=> ToSet(since) # {}
  <2>1. DOMAIN since = 1..Len(since) /\ Len(since) \in Nat
    BY <1>2
  <2> QED
    BY <1>2, <2>1 DEF ToSet
<1>6. total # Refused
  <2> HIDE DEF total, spent
  <2> QED
    BY <1>1, Zenon
<1>7. ASSUME all PROVE total = Worth(MinorWorth, since)
  <2> DEFINE n == Len(since)
             v == [i \in DOMAIN since |-> since[i].cost.minor]
  <2>1. n \in Nat /\ DOMAIN since = 1..n /\ \A i \in 1..n : since[i] \in UsageBuckets /\ since[i] \in ToSet(since)
    BY <1>2 DEF ToSet
  <2>2. total = FoldLeft(CheckedMinor, 0, v)
    <3>1. priced = since
      BY <1>4, <1>7
    <3> HIDE DEF priced
    <3> QED
      BY <3>1, Zenon DEF PricedTotal
  <2> HIDE DEF total, n
  <2>3. \A i \in 1..n : v[i] = MinorWorth[since[i]] /\ v[i] \in Int
    <3> TAKE i \in 1..n
    <3>1. since[i] \in UsageBuckets /\ since[i].cost # None
      BY <1>7, <2>1
    <3>2. MinorWorth[since[i]] = since[i].cost.minor /\ MinorWorth[since[i]] \in Int
      BY <3>1, MinorWorthType DEF MinorWorth
    <3> QED
      BY <2>1, <3>2
  <2>4. DOMAIN v = 1..n /\ v = [i \in 1..n |-> v[i]]
    BY <2>1
  <2> HIDE DEF v
  <2>5. \A i \in 1..n : v[i] \in Minor
    BY <2>3 DEF Minor
  <2>6. FoldLeft(CheckedMinor, 0, v) # Refused
    BY <1>6, <2>2
  <2>7. FoldLeft(CheckedMinor, 0, v) = Total(v)
    BY <2>1, <2>4, <2>5, <2>6, MinorExact
  <2>8. \A i \in DOMAIN since : v[i] = MinorWorth[since[i]]
    BY <2>1, <2>3
  <2>9. DOMAIN v = DOMAIN since /\ v = [i \in DOMAIN v |-> v[i]]
    BY <2>1, <2>4
  <2>10. Worth(MinorWorth, since) = Total(v)
    <3>1. v = [i \in DOMAIN since |-> MinorWorth[since[i]]]
      BY <2>8, <2>9, Zenon
    <3> QED
      BY <3>1, Zenon DEF Worth
  <2> QED
    BY <2>2, <2>7, <2>10
<1>8. Anthropic!BudgetFor(start, buckets).spent = spent
  <2> HIDE DEF total, spent
  <2> QED
    BY <1>1, <1>6 DEF CalculateBudgetState
<1>9. spent = IF ToSet(since) # {} /\ all THEN Dollars(Worth(MinorWorth, since)) ELSE None
  <2> HIDE DEF total, priced, all
  <2> QED
    BY <1>4, <1>5, <1>7
<1> QED
  BY <1>8, <1>9, Zenon DEF since

\* A day has a cost when a cost bucket starts with it: the cents of those.
LEMMA MergedCostIs ==
    ASSUME NEW usage, NEW costs \in Seq(CostRows), NEW start,
           Anthropic!MergedBucket(usage, costs, start).cost # Refused
    PROVE  LET cost == Anthropic!MergedBucket(usage, costs, start).cost
               cents == Anthropic!CentsFrom(costs, start)
           IN /\ cost # None <=> start \in Anthropic!CostDays(costs)
              /\ cost # None => cents # Refused /\ cents \in Int /\ cost = Dollars(cents) /\ cost.minor = cents
<1> DEFINE charged == Anthropic!CostsFrom(costs, start)
           cents == Anthropic!CentsFrom(costs, start)
           cost == IF charged = <<>> THEN None ELSE IF cents = Refused THEN Refused ELSE Dollars(cents)
<1>1. Anthropic!MergedBucket(usage, costs, start).cost = cost
  BY AnthropicSpend, Zenon DEF Anthropic!MergedBucket, Anthropic!Bucket
<1>2. charged \in Seq(CostRows) /\ ToSet(charged) = {x \in ToSet(costs) : x.start = start}
  <2>1. charged = Among(costs, {x \in ToSet(costs) : x.start = start})
    BY CostsFromIs
  <2> QED
    BY <2>1, AmongIs
<1>3. Anthropic!CostDays(costs) = {x.start : x \in ToSet(costs)}
  BY AnthropicSet, Zenon DEF Anthropic!CostDays
<1>4. cents \in Minor
  BY CentsFromAre
<1> HIDE DEF charged, cents
<1>5. charged = <<>> <=> start \notin Anthropic!CostDays(costs)
  <2>1. charged = <<>> <=> ToSet(charged) = {}
    <3>1. charged = <<>> => ToSet(charged) = {}
      BY DEF ToSet
    <3>2. charged # <<>> => charged[1] \in ToSet(charged)
      BY <1>2 DEF ToSet
    <3> QED
      BY <3>1, <3>2
  <2> QED
    BY <1>2, <1>3, <2>1
<1>6. charged # <<>> => cents # Refused /\ cents \in Int /\ cost = Dollars(cents)
  BY <1>1, <1>4 DEF Minor
<1>7. cents \in Int => Dollars(cents) # None /\ Dollars(cents).minor = cents
  <2>1. cents \in Int => Dollars(cents) \in Money
    BY DollarsAreMoney
  <2> QED
    BY <2>1, NoneAssumption DEF Dollars
<1> QED
  BY <1>1, <1>5, <1>6, <1>7 DEF cents

\* The buckets of an organization whose costs are amounts.
LEMMA MergedBucketsAre ==
    ASSUME NEW usage \in Seq(UsageRows), NEW costs \in Seq(CostRows),
           NEW buckets, buckets = Anthropic!MergeBuckets(usage, costs),
           \A b \in ToSet(buckets) : b.cost # Refused
    PROVE  buckets \in Seq(UsageBuckets)
<1> DEFINE S == Anthropic!UsageDays(usage) \cup Anthropic!CostDays(costs)
           order == Anthropic!InOrder(S, Anthropic!Earlier)
           m == Cardinality(S)
<1>1. /\ Lists(order, S, InstantPairs)
      /\ buckets = [i \in DOMAIN order |-> Anthropic!MergedBucket(usage, costs, order[i])]
  BY AnthropicBucketsAre
<1> HIDE DEF order
<1>2. m \in Nat /\ DOMAIN order = 1..m /\ \A i \in 1..m : order[i] \in S
  BY <1>1 DEF Lists
<1> HIDE DEF m
<1>3. DOMAIN buckets = 1..m /\ \A i \in 1..m : buckets[i] = Anthropic!MergedBucket(usage, costs, order[i])
  BY <1>1, <1>2
<1>4. \A i \in 1..m : buckets[i] \in UsageBuckets
  <2> TAKE i \in 1..m
  <2>1. buckets[i].cost # Refused
    BY <1>3 DEF ToSet
  <2> QED
    BY <1>2, <1>3, <2>1, AnthropicBucketIs
<1>5. buckets = [i \in 1..m |-> buckets[i]]
  BY <1>1, <1>2, <1>3
<1> QED
  BY <1>2, <1>4, <1>5

\* The instants that are not before a start.
From(start) == {x \in Instants : NotEarlier(x, start)}

\* The costs of the days since a start, of which each has one, are those of the
\* results of those days, and each result names its amount.
LEMMA CostsSince ==
    ASSUME NEW usage \in Seq(UsageRows), NEW costs \in Seq(CostRows), NEW start,
           NEW buckets, buckets = Anthropic!MergeBuckets(usage, costs),
           \A b \in ToSet(buckets) : b.cost # Refused,
           \A b \in ToSet(Since(buckets, start)) : b.cost # None
    PROVE  LET T == Anthropic!RawCostResults
           IN /\ Worth(MinorWorth, Since(buckets, start))
                   = Worth(KeptRowWorth(Instants, T, CostWorth, From(start)), costs)
              /\ \A row \in ToSet(costs) : row.start \in From(start) =>
                     \A r \in ToSet(row.results) : NamesAmount(r)
<1> DEFINE U == Anthropic!UsageDays(usage)
           C == Anthropic!CostDays(costs)
           S == U \cup C
           order == Anthropic!InOrder(S, Anthropic!Earlier)
           m == Cardinality(S)
           T == Anthropic!RawCostResults
           K == From(start)
           W == RowWorth(Instants, T, CostWorth)
           V == KeptRowWorth(Instants, T, CostWorth, K)
           P == {x \in ToSet(buckets) : NotEarlier(x.start, start)}
           key == [x \in ToSet(costs) |-> x.start]
           groups == [i \in DOMAIN buckets |-> IF buckets[i] \in P THEN MinorWorth[buckets[i]] ELSE 0]
<1>1. /\ Lists(order, S, InstantPairs)
      /\ buckets = [i \in DOMAIN order |-> Anthropic!MergedBucket(usage, costs, order[i])]
  BY AnthropicBucketsAre
<1>2. S \subseteq Instants
  BY AnthropicDays
<1>3. C = {x.start : x \in ToSet(costs)} /\ C \subseteq S
  BY AnthropicSet, Zenon DEF Anthropic!CostDays
<1> HIDE DEF order, S, U, C
<1>4. /\ m \in Nat /\ DOMAIN order = 1..m /\ \A i \in 1..m : order[i] \in S
      /\ \A s \in S : \E i \in 1..m : order[i] = s
  BY <1>1 DEF Lists
<1> HIDE DEF m
<1>5. /\ DOMAIN buckets = 1..m /\ Len(buckets) = m
      /\ \A i \in 1..m : /\ buckets[i] = Anthropic!MergedBucket(usage, costs, order[i])
                         /\ buckets[i] \in ToSet(buckets) /\ buckets[i].start = order[i]
  <2>1. DOMAIN buckets = 1..m /\ \A i \in 1..m : buckets[i] = Anthropic!MergedBucket(usage, costs, order[i])
    BY <1>1, <1>4
  <2>2. Len(buckets) = m
    BY <1>1, <1>4
  <2>3. \A i \in 1..m : buckets[i] \in ToSet(buckets)
    BY <2>1 DEF ToSet
  <2>4. \A i : Anthropic!MergedBucket(usage, costs, order[i]).start = order[i]
    BY Zenon DEF Anthropic!MergedBucket, Anthropic!Bucket
  <2> QED
    BY <2>1, <2>2, <2>3, <2>4
<1>6. buckets \in Seq(UsageBuckets)
  BY MergedBucketsAre
<1>7. ToSet(Since(buckets, start)) = P
  <2>1. P \subseteq ToSet(buckets) /\ Since(buckets, start) = Among(buckets, P)
    BY Zenon DEF Since
  <2> HIDE DEF P
  <2>2. ToSet(Among(buckets, P)) = ToSet(buckets) \cap P
    BY <1>6, AmongIs
  <2> QED
    BY <2>1, <2>2
<1>8. \A i \in 1..m : buckets[i] \in P <=> order[i] \in K
  BY <1>2, <1>4, <1>5 DEF From
<1> HIDE DEF P, K
<1>9. CostRows = RowsOf(Instants, T) /\ CostWorth \in [T -> Int]
  BY CostCentsType DEF CostRows, RowsOf, CostWorth
<1> HIDE DEF T
<1>10. /\ W \in [CostRows -> Int] /\ V \in [CostRows -> Int]
       /\ \A row \in CostRows : V[row] = IF row.start \in K THEN W[row] ELSE 0
  <2>1. W \in [CostRows -> Int] /\ \A row \in CostRows : W[row] = Worth(CostWorth, row.results)
    BY <1>9, RowWorthType
  <2>2. V = [row \in CostRows |-> IF row.start \in K THEN Worth(CostWorth, row.results) ELSE 0]
    BY <1>9, Zenon DEF KeptRowWorth
  <2> HIDE DEF V, W
  <2>3. \A row \in CostRows : W[row] \in Int /\ V[row] = IF row.start \in K THEN W[row] ELSE 0
    BY <2>1, <2>2
  <2>4. V = [row \in CostRows |-> V[row]]
    BY <2>2
  <2> QED
    BY <2>1, <2>3, <2>4
<1> HIDE DEF V, W
<1>11. ASSUME NEW i \in 1..m, order[i] \in K
       PROVE  /\ Anthropic!CentsFrom(costs, order[i]) # Refused
              /\ MinorWorth[buckets[i]] = Anthropic!CentsFrom(costs, order[i])
  <2>1. buckets[i] \in UsageBuckets /\ buckets[i].cost # None /\ buckets[i].cost # Refused
    BY <1>5, <1>6, <1>7, <1>8, <1>11
  <2>2. /\ Anthropic!CentsFrom(costs, order[i]) # Refused
        /\ buckets[i].cost.minor = Anthropic!CentsFrom(costs, order[i])
    BY <1>5, <2>1, MergedCostIs
  <2> QED
    BY <2>1, <2>2 DEF MinorWorth
<1>12. ASSUME NEW i \in 1..m
       PROVE  /\ Gathered(costs, key, order[i]) = Anthropic!CostsFrom(costs, order[i])
              /\ Gathered(costs, key, order[i]) \in Seq(CostRows)
              /\ \A x \in ToSet(Gathered(costs, key, order[i])) : x \in CostRows /\ x.start = order[i]
  <2>1. {x \in ToSet(costs) : x.start = order[i]} = {x \in ToSet(costs) : key[x] = order[i]}
    OBVIOUS
  <2>2. Gathered(costs, key, order[i]) = Anthropic!CostsFrom(costs, order[i])
    BY <2>1, CostsFromIs, Zenon DEF Gathered
  <2> DEFINE Q == {x \in ToSet(costs) : x.start = order[i]}
  <2>3. Gathered(costs, key, order[i]) = Among(costs, Q) /\ \A x \in Q : x.start = order[i]
    BY <2>1, Zenon DEF Gathered
  <2> HIDE DEF Q
  <2>4. Among(costs, Q) \in Seq(CostRows) /\ ToSet(Among(costs, Q)) = ToSet(costs) \cap Q
    BY AmongIs
  <2>5. ToSet(costs) \subseteq CostRows
    BY DEF ToSet
  <2> QED
    BY <2>2, <2>3, <2>4, <2>5
<1>13. \A i \in 1..Len(costs) : key[costs[i]] \in S
  <2> TAKE i \in 1..Len(costs)
  <2>1. costs[i] \in ToSet(costs)
    BY DEF ToSet
  <2>2. key[costs[i]] = costs[i].start
    BY <2>1
  <2> QED
    BY <1>3, <2>1, <2>2
<1> HIDE DEF key
<1>14. ASSUME NEW i \in 1..m
       PROVE  groups[i] = Worth(V, Gathered(costs, key, order[i]))
  <2> DEFINE own == Gathered(costs, key, order[i])
  <2>1. own \in Seq(CostRows) /\ \A x \in ToSet(own) : x \in CostRows /\ x.start = order[i]
    BY <1>12
  <2>2. groups[i] = IF order[i] \in K THEN MinorWorth[buckets[i]] ELSE 0
    BY <1>5, <1>8
  <2>3. CASE order[i] \in K
    <3>1. groups[i] = Worth(W, Anthropic!CostsFrom(costs, order[i]))
      BY <1>11, <2>2, <2>3, CentsFromExact, Zenon DEF W, T
    <3>2. \A x \in ToSet(own) : V[x] = W[x]
      BY <1>10, <2>1, <2>3
    <3>3. own = Anthropic!CostsFrom(costs, order[i])
      BY <1>12
    <3> HIDE DEF own
    <3>4. Worth(V, own) = Worth(W, own)
      BY <2>1, <3>2, WorthSame
    <3> QED
      BY <3>1, <3>3, <3>4 DEF own
  <2>4. CASE order[i] \notin K
    <3>1. \A x \in ToSet(own) : V[x] = 0
      BY <1>10, <2>1, <2>4
    <3> HIDE DEF own
    <3>2. Worth(V, own) = 0
      BY <2>1, <3>1, WorthZero
    <3> QED
      BY <2>2, <2>4, <3>2 DEF own
  <2> QED
    BY <2>3, <2>4
<1>15. /\ groups \in [1..m -> Int]
       /\ \A i \in 1..m : groups[i] = IF buckets[i] \in P THEN MinorWorth[buckets[i]] ELSE 0
  <2>1. \A i \in 1..m : MinorWorth[buckets[i]] \in Int
    BY <1>5, <1>6, MinorWorthType
  <2> QED
    BY <1>5, <2>1
<1> HIDE DEF groups
<1>16. CountsOnly(groups, MinorWorth, buckets, P)
  BY <1>5, <1>15 DEF CountsOnly
<1>17. Worth(MinorWorth, Since(buckets, start)) = Total(groups)
  <2>1. Since(buckets, start) = Among(buckets, P)
    BY Zenon DEF Since, P
  <2>2. Worth(MinorWorth, Among(buckets, P)) = Total(groups)
    BY <1>6, <1>16, MinorWorthType, WorthCounted
  <2> QED
    BY <2>1, <2>2
<1>18. Grouped(groups, V, costs, key, order, S)
  BY <1>13, <1>14, <1>15 DEF Grouped, m
<1>19. Total(groups) = Worth(V, costs)
  BY <1>1, <1>10, <1>18, WorthGroups
<1>20. ASSUME NEW row \in ToSet(costs), row.start \in K
       PROVE  \A r \in ToSet(row.results) : NamesAmount(r)
  <2>1. PICK i \in 1..m : order[i] = row.start
    BY <1>3, <1>4
  <2>2. Anthropic!CentsFrom(costs, row.start) # Refused
    BY <1>11, <1>20, <2>1
  <2> QED
    BY <2>2, CentsFromExact
<1> QED
  BY <1>17, <1>19, <1>20 DEF V, K, T

\* What is taken to be known since a start: some day has a cost, and no day that
\* has usage lacks one.
DaysKnown(usage, costs, start) ==
    LET priced == {b.start : b \in {c \in ToSet(costs) : NotEarlier(c.start, start)}}
        used == {Midnight(b.start.date) :
                    b \in {u \in ToSet(usage) : NotEarlier(Midnight(u.start.date), start)}}
    IN used \subseteq priced /\ priced # {}

\* That is when there are days since the start and each of them has a cost.
LEMMA DaysKnownIs ==
    ASSUME NEW usage \in Seq(UsageRows), NEW costs \in Seq(CostRows), NEW start,
           NEW buckets, buckets = Anthropic!MergeBuckets(usage, costs),
           \A b \in ToSet(buckets) : b.cost # Refused
    PROVE  LET since == ToSet(Since(buckets, start))
           IN (since # {} /\ \A b \in since : b.cost # None) <=> DaysKnown(usage, costs, start)
<1> DEFINE U == Anthropic!UsageDays(usage)
           C == Anthropic!CostDays(costs)
           S == U \cup C
           order == Anthropic!InOrder(S, Anthropic!Earlier)
           m == Cardinality(S)
           P == {x \in ToSet(buckets) : NotEarlier(x.start, start)}
           priced == {b.start : b \in {c \in ToSet(costs) : NotEarlier(c.start, start)}}
           used == {Midnight(b.start.date) :
                       b \in {u \in ToSet(usage) : NotEarlier(Midnight(u.start.date), start)}}
<1>1. /\ Lists(order, S, InstantPairs)
      /\ buckets = [i \in DOMAIN order |-> Anthropic!MergedBucket(usage, costs, order[i])]
  BY AnthropicBucketsAre
<1>2. C = {x.start : x \in ToSet(costs)}
  BY AnthropicSet, Zenon DEF Anthropic!CostDays
<1>3. U = {Midnight(x.start.date) : x \in ToSet(usage)}
  <2>1. \A b : Anthropic!DayStart(b) = Midnight(b.start.date)
    BY Zenon DEF Anthropic!DayStart, Anthropic!Midnight, Midnight, Anthropic!Instant, Instant
  <2> QED
    BY <2>1, AnthropicSet, Zenon DEF Anthropic!UsageDays
<1>4. priced = {c \in C : NotEarlier(c, start)} /\ used = {u \in U : NotEarlier(u, start)}
  BY <1>2, <1>3, Zenon
<1>5. DaysKnown(usage, costs, start) <=> used \subseteq priced /\ priced # {}
  BY Zenon DEF DaysKnown
<1> HIDE DEF priced, used, order, U, C
<1>6. /\ m \in Nat /\ DOMAIN order = 1..m /\ \A i \in 1..m : order[i] \in S
      /\ \A s \in S : \E i \in 1..m : order[i] = s
  BY <1>1 DEF Lists
<1> HIDE DEF m
<1>7. /\ DOMAIN buckets = 1..m
      /\ \A i \in 1..m : /\ buckets[i] = Anthropic!MergedBucket(usage, costs, order[i])
                         /\ buckets[i] \in ToSet(buckets) /\ buckets[i].start = order[i]
  <2>1. DOMAIN buckets = 1..m /\ \A i \in 1..m : buckets[i] = Anthropic!MergedBucket(usage, costs, order[i])
    BY <1>1, <1>6
  <2>2. \A i \in 1..m : buckets[i] \in ToSet(buckets)
    BY <2>1 DEF ToSet
  <2>3. \A i : Anthropic!MergedBucket(usage, costs, order[i]).start = order[i]
    BY Zenon DEF Anthropic!MergedBucket, Anthropic!Bucket
  <2> QED
    BY <2>1, <2>2, <2>3
<1>8. \A b \in ToSet(buckets) : \E i \in 1..m : b = buckets[i]
  BY <1>7, Zenon DEF ToSet
<1>9. \A i \in 1..m : buckets[i].cost # None <=> order[i] \in C
  <2> TAKE i \in 1..m
  <2>1. Anthropic!MergedBucket(usage, costs, order[i]).cost # Refused
    BY <1>7
  <2> QED
    BY <1>7, <2>1, MergedCostIs DEF C
<1>10. buckets \in Seq(UsageBuckets)
  BY MergedBucketsAre
<1>11. ToSet(Since(buckets, start)) = P
  <2>1. P \subseteq ToSet(buckets) /\ Since(buckets, start) = Among(buckets, P)
    BY Zenon DEF Since
  <2> HIDE DEF P
  <2>2. ToSet(Among(buckets, P)) = ToSet(buckets) \cap P
    BY <1>10, AmongIs
  <2> QED
    BY <2>1, <2>2
<1>12. \A b \in P : \E i \in 1..m : b = buckets[i] /\ NotEarlier(order[i], start)
  BY <1>7, <1>8
<1>13. \A i \in 1..m : NotEarlier(order[i], start) => buckets[i] \in P
  BY <1>7
<1> HIDE DEF P
<1>14. ASSUME P # {}, \A b \in P : b.cost # None
       PROVE  used \subseteq priced /\ priced # {}
  <2>1. \A s \in S : NotEarlier(s, start) => s \in priced
    <3> TAKE s \in S
    <3> HAVE NotEarlier(s, start)
    <3>1. PICK i \in 1..m : order[i] = s
      BY <1>6
    <3>2. s \in C
      BY <1>9, <1>13, <1>14, <3>1
    <3> QED
      BY <1>4, <3>2
  <2>2. PICK i \in 1..m : NotEarlier(order[i], start)
    BY <1>12, <1>14
  <2> QED
    BY <1>4, <1>6, <2>1, <2>2
<1>15. ASSUME used \subseteq priced, priced # {}
       PROVE  P # {} /\ \A b \in P : b.cost # None
  <2>1. PICK c \in C : NotEarlier(c, start)
    BY <1>4, <1>15
  <2>2. PICK i \in 1..m : order[i] = c
    BY <1>6, <2>1
  <2>3. P # {}
    BY <1>13, <2>1, <2>2
  <2>4. ASSUME NEW b \in P PROVE b.cost # None
    <3>1. PICK j \in 1..m : b = buckets[j] /\ NotEarlier(order[j], start)
      BY <1>12, <2>4
    <3>2. order[j] \in C
      BY <1>4, <1>6, <1>15, <3>1
    <3> QED
      BY <1>9, <3>1, <3>2
  <2> QED
    BY <2>3, <2>4
<1> QED
  BY <1>5, <1>11, <1>14, <1>15

\* The results of the days since a start, and what they add up to in cents.
EntriesSince(rows, start) ==
    LET entries == EntriesOf(rows)
    IN Among(entries, {e \in ToSet(entries) : NotEarlier(e.start, start)})
CentsSince(rows, start) ==
    LET since == EntriesSince(rows, start)
    IN Total([i \in DOMAIN since |-> AnthropicCents(since[i])])

\* Where each result of the days since a start names its amount, the cents of
\* those results are the worth of the rows that start then.
LEMMA CentsSinceAre ==
    ASSUME NEW costs \in Seq(CostRows), NEW start,
           \A row \in ToSet(costs) : row.start \in From(start) =>
               \A r \in ToSet(row.results) : NamesAmount(r)
    PROVE  CentsSince(costs, start)
             = Worth(KeptRowWorth(Instants, Anthropic!RawCostResults, CostWorth, From(start)), costs)
<1> DEFINE T == Anthropic!RawCostResults
           K == From(start)
           E == EntrySet(Instants, T)
           entries == EntriesOf(costs)
           P == {e \in ToSet(entries) : NotEarlier(e.start, start)}
           V == EntryWorth(Instants, T, CostWorth)
           W == KeptWorth(Instants, T, CostWorth, K)
           since == EntriesSince(costs, start)
           n == Len(since)
           cents == [i \in DOMAIN since |-> AnthropicCents(since[i])]
<1>1. CostRows = RowsOf(Instants, T) /\ CostWorth \in [T -> Int]
  BY CostCentsType DEF CostRows, RowsOf, CostWorth
<1>2. costs \in Seq(RowsOf(Instants, T))
  BY <1>1
<1>3. /\ entries \in Seq(E)
      /\ \A e \in ToSet(entries) : \E row \in ToSet(costs) :
             /\ e.start = row.start /\ e.end = row.end /\ e.result \in ToSet(row.results)
  BY <1>2, EntriesAre
<1>4. \A e \in ToSet(entries) : e \in E
  BY <1>3 DEF ToSet
<1>5. since = Among(entries, P) /\ P \subseteq ToSet(entries)
  BY Zenon DEF EntriesSince
<1>6. \A e \in E : e.start \in Instants /\ e.result \in T /\ V[e] = CostCents(e.result)
  BY DEF EntrySet, EntryWorth, CostWorth
<1>7. \A e \in P : e \in E /\ e.start \in K /\ NamesAmount(e.result)
  <2> TAKE e \in P
  <2>1. e \in E /\ e.start \in K
    BY <1>4, <1>6 DEF From
  <2> QED
    BY <1>3, <2>1
<1>8. \A e \in ToSet(entries) : e.start \in K => e \in P
  BY DEF From
<1>9. /\ V \in [E -> Int] /\ W \in [E -> Int]
      /\ \A e \in E : W[e] = IF e.start \in K THEN V[e] ELSE 0
  BY <1>1 DEF EntrySet, EntryWorth, KeptWorth
<1>10. Worth(W, entries) = Worth(KeptRowWorth(Instants, T, CostWorth, K), costs)
  <2> HIDE DEF T, K
  <2> QED
    BY <1>1, <1>2, WorthKept
<1> HIDE DEF W, V, E, K, T, entries, since, P
<1>11. since \in Seq(E) /\ ToSet(since) \subseteq P
  BY <1>3, <1>5, AmongIs
<1>12. \A i \in DOMAIN since : cents[i] = V[since[i]]
  <2> TAKE i \in DOMAIN since
  <2>1. since[i] \in P
    BY <1>11 DEF ToSet
  <2>2. AnthropicCents(since[i]) = CostCents(since[i].result)
    BY <1>7, <2>1 DEF AnthropicCents, CostCents, NamesAmount
  <2> QED
    BY <1>6, <1>7, <2>1, <2>2
<1>13. Worth(V, since) = Total(cents)
  <2>1. DOMAIN cents = DOMAIN since /\ cents = [i \in DOMAIN cents |-> cents[i]]
    OBVIOUS
  <2> HIDE DEF cents
  <2>2. cents = [i \in DOMAIN since |-> V[since[i]]]
    BY <1>12, <2>1, Zenon
  <2> QED
    BY <2>2, Zenon DEF Worth
<1> HIDE DEF cents
<1> DEFINE kept == {e \in E : e.start \in K}
<1>14. Among(entries, P) = Among(entries, kept)
  <2>1. \A i \in DOMAIN entries : entries[i] \in P <=> entries[i] \in kept
    BY <1>3, <1>4, <1>5, <1>7, <1>8, Zenon DEF ToSet
  <2> HIDE DEF kept
  <2>2. [i \in DOMAIN entries |-> IF entries[i] \in P THEN <<entries[i]>> ELSE <<>>]
          = [i \in DOMAIN entries |-> IF entries[i] \in kept THEN <<entries[i]>> ELSE <<>>]
    BY <2>1, Zenon
  <2> QED
    BY <2>2, Zenon DEF Among
<1>15. \A e \in E : W[e] = IF e \in kept THEN V[e] ELSE 0
  BY <1>9
<1> HIDE DEF kept
<1>16. Worth(V, Among(entries, kept)) = Worth(W, entries)
  <2>1. V \in [E -> Int] /\ W \in [E -> Int] /\ entries \in Seq(E)
    BY <1>3, <1>9
  <2>2. OnlyIn(W, V, E, kept)
    BY <1>15, Zenon DEF OnlyIn
  <2> QED
    BY <2>1, <2>2, WorthChosen, SMTT(30)
<1>17. CentsSince(costs, start) = Total(cents)
  BY Zenon DEF CentsSince, since, cents
<1> QED
  BY <1>5, <1>10, <1>13, <1>14, <1>16, <1>17 DEF T, K

\* The spend of a period: the cents of the results since its start where each
\* day is known, and unknown otherwise.
LEMMA AnthropicSpendComplete ==
    ASSUME NEW raw,
           raw.usage \in Seq(Anthropic!RawPages("usage") \cup {Refused}),
           raw.costs \in Seq(Anthropic!RawPages("costs") \cup {Refused}),
           Anthropic!AnthropicAccount(raw) # Refused,
           NEW p \in Periods
    PROVE  Anthropic!AnthropicAccount(raw).budget[p].spent
             = IF DaysKnown(Rows(raw.usage), Rows(raw.costs), raw.starts[p])
               THEN Dollars(CentsSince(Rows(raw.costs), raw.starts[p])) ELSE None
<1> DEFINE account == Anthropic!AnthropicAccount(raw)
           usage == Anthropic!Rows(raw.usage)
           costs == Anthropic!Rows(raw.costs)
           buckets == Anthropic!MergeBuckets(usage, costs)
           budget == [q \in Anthropic!Periods |-> Anthropic!BudgetFor(raw.starts[q], buckets)]
           bad == \/ ~Anthropic!Parsed(raw.usage) \/ ~Anthropic!Parsed(raw.costs)
                  \/ Refused \in {buckets[i].cost : i \in DOMAIN buckets}
                  \/ Refused \in {budget[q] : q \in Anthropic!Periods}
           models == Anthropic!ModelBreakdown(Anthropic!Results(usage))
           platform == Anthropic!PlatformAccount("anthropic-local", "claude", "anthropic.platform",
                                                 budget, buckets, models)
           start == raw.starts[p]
           since == Since(buckets, start)
           known == ToSet(since) # {} /\ \A b \in ToSet(since) : b.cost # None
<1>1. account = IF bad THEN Refused ELSE platform
  BY Zenon DEF Anthropic!AnthropicAccount
<1>2. ~bad /\ account = platform
  <2> HIDE DEF bad, platform, account
  <2>1. account # Refused
    BY DEF account
  <2> QED
    BY <1>1, <2>1, Zenon
<1> HIDE DEF account
<1>3. /\ Refused \notin ToSet(raw.usage) /\ Refused \notin ToSet(raw.costs)
      /\ \A i \in DOMAIN buckets : buckets[i].cost # Refused
      /\ \A q \in Periods : budget[q] # Refused
  <2> HIDE DEF buckets, budget
  <2> QED
    BY <1>2, AnthropicSet, AnthropicSpend, Zenon DEF Anthropic!Parsed
<1> HIDE DEF bad, models
<1>4. usage \in Seq(UsageRows) /\ costs \in Seq(CostRows)
  BY <1>3, AnthropicPages, ParsedRows, AnthropicRows
<1>5. usage = Rows(raw.usage) /\ costs = Rows(raw.costs)
  BY AnthropicRows
<1> HIDE DEF usage, costs
<1>6. account.budget = budget
  <2> HIDE DEF budget, buckets
  <2> QED
    BY <1>2, Zenon DEF Anthropic!PlatformAccount
<1> HIDE DEF platform
<1>7. budget[p] = Anthropic!BudgetFor(start, buckets)
  <2> HIDE DEF buckets
  <2> QED
    BY AnthropicSpend, Zenon
<1>8. Anthropic!BudgetFor(start, buckets) # Refused
  BY <1>3, <1>7
<1> HIDE DEF budget, buckets, start
<1>9. \A b \in ToSet(buckets) : b.cost # Refused
  BY <1>3, Zenon DEF ToSet
<1>10. buckets = Anthropic!MergeBuckets(usage, costs)
  BY Zenon DEF buckets
<1>11. buckets \in Seq(UsageBuckets)
  BY <1>4, <1>9, <1>10, MergedBucketsAre
<1>12. account.budget[p].spent = IF known THEN Dollars(Worth(MinorWorth, since)) ELSE None
  <2>1. Anthropic!BudgetFor(start, buckets).spent
          = IF known THEN Dollars(Worth(MinorWorth, since)) ELSE None
    BY <1>8, <1>11, BudgetIsWorth
  <2> QED
    BY <1>6, <1>7, <2>1
<1>13. known <=> DaysKnown(usage, costs, start)
  BY <1>4, <1>9, <1>10, DaysKnownIs
<1>14. ASSUME known PROVE Worth(MinorWorth, since) = CentsSince(costs, start)
  <2> DEFINE W == KeptRowWorth(Instants, Anthropic!RawCostResults, CostWorth, From(start))
  <2>1. \A b \in ToSet(Since(buckets, start)) : b.cost # None
    BY <1>14
  <2>2. /\ Worth(MinorWorth, since) = Worth(W, costs)
        /\ \A row \in ToSet(costs) : row.start \in From(start) =>
               \A r \in ToSet(row.results) : NamesAmount(r)
    BY <1>4, <1>9, <1>10, <2>1, CostsSince
  <2>3. CentsSince(costs, start) = Worth(W, costs)
    BY <1>4, <2>2, CentsSinceAre
  <2> QED
    BY <2>2, <2>3
<1> HIDE DEF known, since
<1>15. account.budget[p].spent
         = IF DaysKnown(usage, costs, start) THEN Dollars(CentsSince(costs, start)) ELSE None
  BY <1>12, <1>13, <1>14, Zenon
<1> QED
  BY <1>5, <1>15, Zenon DEF account, start

\* The results of the cost pages since a start, as the property chooses them.
CostEntriesSince(start) == Chosen(Entries("costs"), LAMBDA e : NotEarlier(e.start, start))

\* So it is in every shown account of an Anthropic organization.
LEMMA AnthropicCompleteHolds == ReportInv => AnthropicComplete
<1> SUFFICES ASSUME ReportInv, Shown("anthropic") PROVE AnthropicComplete
  BY Zenon DEF AnthropicComplete
<1>1. source = "anthropic" /\ Accepted
  BY DEF Shown
<1>2. Account = Normalize(source, report) /\ Account # Refused
  BY <1>1, ShownIs
<1> HIDE DEF Account
<1>3. OfPages("anthropic", report)
  BY <1>1, <1>2, ShownIs, ReportAssumption DEF ReportInv, Plans
<1>4. /\ report.usage \in Seq(Anthropic!RawPages("usage") \cup {Refused})
      /\ report.costs \in Seq(Anthropic!RawPages("costs") \cup {Refused})
  BY <1>3 DEF OfPages, Feeds, RawPages
<1>5. Account = Anthropic!AnthropicAccount(report)
  BY <1>1, <1>2 DEF Normalize
<1>6. Anthropic!AnthropicAccount(report) # Refused
  BY <1>2, <1>5
<1>7. Entries("costs") = EntriesOf(Rows(report.costs))
  BY Zenon DEF Entries, EntriesOf
<1>8. \A start : CostEntriesSince(start) = EntriesSince(Rows(report.costs), start)
  <2> TAKE start
  <2> DEFINE s == Entries("costs")
             P == {e \in ToSet(s) : NotEarlier(e.start, start)}
             parts == [i \in DOMAIN s |-> IF NotEarlier(s[i].start, start) THEN <<s[i]>> ELSE <<>>]
             among == [i \in DOMAIN s |-> IF s[i] \in P THEN <<s[i]>> ELSE <<>>]
  <2>1. CostEntriesSince(start) = FlattenSeq(parts)
    BY Zenon DEF CostEntriesSince, Chosen
  <2>2. EntriesSince(Rows(report.costs), start) = Among(s, P)
    BY <1>7, Zenon DEF EntriesSince
  <2>3. \A i \in DOMAIN s : s[i] \in P <=> NotEarlier(s[i].start, start)
    BY Zenon DEF ToSet
  <2> HIDE DEF P, s
  <2>4. parts = among
    BY <2>3, Zenon
  <2> QED
    BY <2>1, <2>2, <2>4, Zenon DEF Among
<1>9. \A p \in Periods : AnthropicKnown(p) <=>
          DaysKnown(Rows(report.usage), Rows(report.costs), report.starts[p])
  BY Zenon DEF AnthropicKnown, DaysKnown
<1>10. ASSUME NEW p \in Periods
       PROVE  Account.budget[p].spent
                = IF AnthropicKnown(p)
                  THEN Dollars(SumOf(AnthropicCents, CostEntriesSince(report.starts[p]))) ELSE None
  <2>1. Account.budget[p].spent
          = IF DaysKnown(Rows(report.usage), Rows(report.costs), report.starts[p])
            THEN Dollars(CentsSince(Rows(report.costs), report.starts[p])) ELSE None
    BY <1>4, <1>5, <1>6, AnthropicSpendComplete
  <2>2. CentsSince(Rows(report.costs), report.starts[p])
          = SumOf(AnthropicCents, CostEntriesSince(report.starts[p]))
    <3> DEFINE since == EntriesSince(Rows(report.costs), report.starts[p])
    <3>1. CentsSince(Rows(report.costs), report.starts[p])
            = Total([i \in DOMAIN since |-> AnthropicCents(since[i])])
      BY Zenon DEF CentsSince
    <3>2. CostEntriesSince(report.starts[p]) = since
      BY <1>8
    <3> HIDE DEF since
    <3>3. Total([i \in DOMAIN since |-> AnthropicCents(since[i])]) = SumOf(AnthropicCents, since)
      BY Zenon DEF SumOf, Total
    <3> QED
      BY <3>1, <3>2, <3>3
  <2> QED
    BY <1>9, <2>1, <2>2, Zenon
<1> QED
  BY <1>10, Zenon DEF AnthropicComplete, CostEntriesSince, SumOf

\* The spend of an Anthropic organization and of a Cursor team, and a Cursor day's
\* requests, are the sum of every part where every part is known, and unknown
\* otherwise: a day nobody priced or a member who does not tell never reads as free.
THEOREM ShownCompleteOrUnknown == Spec => []CompleteOrUnknown
<1>1. ReportInv => CompleteOrUnknown
  BY AnthropicCompleteHolds, CursorCompleteHolds DEF CompleteOrUnknown
<1> QED
  BY <1>1, ReportsStay, PTL

-----------------------------------------------------------------------------
(***************************************************************************)
(* A report is shown whole or not at all.                                  *)
(***************************************************************************)
\* What is refused is told apart from what is not, as an error is from a value.
RefusalIsApart == Refused \notin {None} \cup Int \cup Money /\ ~HasFields(Refused, {"status"})

\* What has a status, an account or a dashboard, is no refusal.
LEMMA StatusIsNoRefusal ==
    ASSUME RefusalIsApart, NEW r, HasFields(r, {"status"}) PROVE r # Refused
  BY DEF RefusalIsApart

\* No account is, as the adapters build it.
LEMMA AccountIsNoRefusal ==
    ASSUME RefusalIsApart, NEW id, NEW provider, NEW connection, NEW status, NEW budget,
           NEW allowances, NEW buckets, NEW models
    PROVE  [id |-> id, provider |-> provider, connection |-> connection, status |-> status,
            budget |-> budget, allowances |-> allowances, buckets |-> buckets, models |-> models] # Refused
<1> DEFINE r == [id |-> id, provider |-> provider, connection |-> connection, status |-> status,
                 budget |-> budget, allowances |-> allowances, buckets |-> buckets, models |-> models]
<1>1. HasFields(r, {"status"})
  BY DEF HasFields
<1> HIDE DEF r
<1>2. r # Refused
  BY <1>1, StatusIsNoRefusal
<1> QED
  BY <1>2 DEF r

\* The core answers an error where the adapter refuses, and only there.
LEMMA ErrorIsRefusal ==
    ASSUME RefusalIsApart, ReportInv, envelope # None
    PROVE  source # None /\ (envelope.status = "error" <=> Normalize(source, report) = Refused)
<1> DEFINE account == Normalize(source, report)
           board == BuildDashboard(0, <<account>>)
<1>1. source # None /\ envelope = ReportEnvelope(source, 0, report)
  BY DEF ReportInv
<1>2. envelope = Envelope(IF account = Refused THEN Refused ELSE board)
  BY <1>1, Zenon DEF ReportEnvelope
<1>3. HasFields(board, {"status"})
  BY DEF BuildDashboard, HasFields
<1> HIDE DEF account, board
<1>4. board # Refused
  BY <1>3, StatusIsNoRefusal
<1>5. CASE account = Refused
  BY <1>1, <1>2, <1>5 DEF Envelope, account
<1>6. CASE account # Refused
  BY <1>1, <1>2, <1>4, <1>6 DEF Envelope, account
<1> QED
  BY <1>5, <1>6

\* A Codex report is refused for a date or a balance, and for nothing else.
LEMMA CodexRefuses ==
    ASSUME RefusalIsApart, NEW raw \in Codex!RawReports
    PROVE  Codex!CodexAccount(raw) = Refused
             <=> \/ \E row \in ToSet(raw.days) : ~IsDate(row.date)
                 \/ /\ raw.main.credits # None
                    /\ raw.main.credits.balance = Refused
                    /\ raw.main.credits.has \/ raw.main.credits.unlimited
<1> DEFINE account == Codex!CodexAccount(raw)
           limits == Codex!RateLimits(raw)
           windows == Codex!FlattenSeq([i \in DOMAIN limits |-> Codex!LimitWindows(limits[i])])
           credits == Codex!CreditWindows(raw)
           buckets == [i \in DOMAIN raw.days |-> Codex!UsageBucket(raw.days[i])]
           bad == \/ Codex!QuantityRefused(raw)
                  \/ \E row \in Codex!ToSet(raw.days) : ~Codex!IsDate(row.date)
           plan == Codex!PlanAccount("codex-local", "codex", "openai.plan", windows \o credits, buckets)
           dates == \E row \in ToSet(raw.days) : ~IsDate(row.date)
           some == raw.main.credits # None /\ (raw.main.credits.has \/ raw.main.credits.unlimited)
<1>1. account = IF bad THEN Refused ELSE plan
  BY Zenon DEF Codex!CodexAccount
<1>2. plan # Refused
  <2> HIDE DEF windows, credits, buckets
  <2> QED
    BY AccountIsNoRefusal, Zenon DEF Codex!PlanAccount
<1> HIDE DEF plan
<1>3. (\E row \in Codex!ToSet(raw.days) : ~Codex!IsDate(row.date)) <=> dates
  BY CodexSet, CodexDate, Zenon
<1>4. Codex!QuantityRefused(raw) <=> some /\ raw.main.credits.balance = Refused
  <2> DEFINE w == Codex!Window(<<"codex", "purchased-credits">>, "purchased",
                               <<"purchased credits">>, None, raw.main.credits.unlimited, None, "ok")
  <2>1. credits = IF some THEN <<w>> ELSE <<>>
    BY Zenon DEF Codex!CreditWindows
  <2>2. Codex!QuantityRefused(raw) <=> credits # <<>> /\ raw.main.credits.balance = Refused
    BY Zenon DEF Codex!QuantityRefused
  <2> HIDE DEF w, credits, some
  <2>3. <<w>> # <<>>
    OBVIOUS
  <2> QED
    BY <2>1, <2>2, <2>3
<1> HIDE DEF account, dates
<1>5. account = Refused <=> bad
  BY <1>1, <1>2
<1> QED
  BY <1>3, <1>4, <1>5, Zenon DEF account, dates

\* A Claude report is refused for an instant, and for nothing else.
LEMMA ClaudeRefuses ==
    ASSUME RefusalIsApart, NEW raw \in Claude!RawReports
    PROVE  Claude!ClaudeAccount(raw) = Refused
             <=> \E id \in DOMAIN raw.windows :
                    /\ raw.windows[id] # None /\ raw.windows[id].resetsAt # None
                    /\ ParseTimestamp(raw.windows[id].resetsAt) = Refused
<1> DEFINE account == Claude!ClaudeAccount(raw)
           windows == Claude!Reported(raw)
           extra == Claude!ExtraUsage(raw)
           bad == Refused \in {windows[i].resetsAt : i \in DOMAIN windows}
           plan == Claude!PlanAccount("claude-local", "claude", "anthropic.plan", windows \o extra, <<>>)
           ids == Claude!WindowIds
           PlanShown(i) == Claude!PlanWindow(ids[i], raw.windows[ids[i]])
           Part(i) == IF raw.windows[ids[i]] = None THEN <<>> ELSE <<PlanShown(i)>>
           parts == [i \in DOMAIN ids |-> Part(i)]
           Late(id) == /\ raw.windows[id] # None /\ raw.windows[id].resetsAt # None
                       /\ ParseTimestamp(raw.windows[id].resetsAt) = Refused
<1>1. account = IF bad THEN Refused ELSE plan
  BY Zenon DEF Claude!ClaudeAccount
<1>2. plan # Refused
  <2> HIDE DEF windows, extra
  <2> QED
    BY AccountIsNoRefusal, Zenon DEF Claude!PlanAccount
<1> HIDE DEF plan
<1>3. bad <=> \E w \in ToSet(windows) : w.resetsAt = Refused
  BY Zenon DEF ToSet
<1>4. windows = FlattenSeq(parts)
  BY ClaudeFlatten, Zenon DEF Claude!Reported
<1>5. DOMAIN ids = 1..4 /\ {ids[i] : i \in 1..4} = WindowNames
  BY DEF Claude!WindowIds, WindowNames
<1> HIDE DEF ids
<1>6. DOMAIN raw.windows = WindowNames /\ \A id \in WindowNames : raw.windows[id] \in Option(Claude!RawWindows)
  BY ClaudeRaw
<1> HIDE DEF account, bad, windows
<1>7. ASSUME NEW i \in 1..4
      PROVE  /\ Listed(Part(i)) /\ ToSet(Part(i)) = IF raw.windows[ids[i]] = None THEN {} ELSE {PlanShown(i)}
             /\ raw.windows[ids[i]] # None => (PlanShown(i).resetsAt = Refused <=> Late(ids[i]))
  <2>1. Listed(Part(i)) /\ ToSet(Part(i)) = IF raw.windows[ids[i]] = None THEN {} ELSE {PlanShown(i)}
    <3> HIDE DEF PlanShown
    <3> QED
      BY ListedNone, ListedOne
  <2>2. ASSUME raw.windows[ids[i]] # None
        PROVE  PlanShown(i).resetsAt = Refused <=> Late(ids[i])
    <3> DEFINE window == raw.windows[ids[i]]
    <3>1. window \in Claude!RawWindows
      BY <1>5, <1>6, <2>2 DEF Option
    <3>2. PlanShown(i).resetsAt = IF window.resetsAt = None THEN None ELSE ParseTimestamp(window.resetsAt)
      BY <3>1, ClaudeWindowIs
    <3>3. None # Refused
      BY DEF RefusalIsApart
    <3> HIDE DEF PlanShown
    <3> QED
      BY <2>2, <3>2, <3>3
  <2> QED
    BY <2>1, <2>2
<1> HIDE DEF Part, PlanShown, Late
<1>8. Listed(parts) /\ DOMAIN parts = 1..4 /\ \A i \in 1..4 : parts[i] = Part(i)
  <2>1. parts = [i \in 1..4 |-> Part(i)] /\ 4 \in Nat
    BY <1>5
  <2>2. DOMAIN parts = 1..4 /\ parts = [i \in 1..4 |-> parts[i]] /\ \A i \in 1..4 : parts[i] = Part(i)
    BY <2>1
  <2> HIDE DEF parts
  <2> QED
    BY <2>1, <2>2, ListedMap
<1> HIDE DEF parts
<1>9. ToSet(windows) = UNION {ToSet(Part(i)) : i \in 1..4}
  <2>1. ToSet(parts) = {Part(i) : i \in 1..4}
    BY <1>8, Zenon DEF ToSet
  <2>2. \A s \in ToSet(parts) : Listed(s)
    BY <1>7, <2>1
  <2>3. ToSet(windows) = UNION {ToSet(s) : s \in ToSet(parts)}
    BY <1>4, <1>8, <2>2, ListedFlat
  <2> QED
    BY <2>1, <2>3
<1>10. bad <=> \E i \in 1..4 : raw.windows[ids[i]] # None /\ Late(ids[i])
  <2>1. \A w : w \in ToSet(windows) <=> \E i \in 1..4 : raw.windows[ids[i]] # None /\ w = PlanShown(i)
    BY <1>7, <1>9
  <2> QED
    BY <1>3, <1>7, <2>1
<1>11. \A id : Late(id) => raw.windows[id] # None
  BY DEF Late
<1>12. bad <=> \E id \in DOMAIN raw.windows : Late(id)
  BY <1>5, <1>6, <1>10, <1>11
<1>13. account = Refused <=> bad
  BY <1>1, <1>2
<1> QED
  BY <1>12, <1>13, Zenon DEF Late, account

\* A Cursor plan is never refused.
LEMMA CursorPlanAccepts ==
    ASSUME RefusalIsApart, NEW raw PROVE Cursor!CursorPlanAccount(raw) # Refused
  BY AccountIsNoRefusal, Zenon DEF Cursor!CursorPlanAccount, Cursor!PlanAccount

\* Sums of naturals only grow.
LEMMA SumsGrow ==
    ASSUME NEW n \in Nat, NEW s \in [1..n -> Nat], NEW d, Accrues(d, n, s)
    PROVE  /\ \A i \in 0..n : 0 <= d[i] /\ d[i] <= d[n]
           /\ \A i \in 1..n : s[i] <= d[n]
<1> DEFINE U == {i \in 0..n : 0 <= d[i]}
           D == {i \in 0..n : d[n - i] <= d[n]}
<1>1. /\ \A i \in 0..n : d[i] \in Int
      /\ d[0] = 0 /\ \A i \in 1..n : d[i] = d[i - 1] + s[i] /\ s[i] \in Nat
  BY DEF Accrues
<1>2. \A i \in 0..n : i \in U
  <2>1. 0 \in U
    BY <1>1
  <2>2. ASSUME NEW i \in 1..n, i - 1 \in U PROVE i \in U
    BY <1>1, <2>2
  <2> HIDE DEF U
  <2> QED
    BY ONLY n \in Nat, <2>1, <2>2, Stepwise
<1>3. \A i \in 0..n : i \in D
  <2>1. 0 \in D
    <3>1. n - 0 = n /\ n \in 0..n
      OBVIOUS
    <3> QED
      BY <1>1, <3>1
  <2>2. ASSUME NEW i \in 1..n, i - 1 \in D PROVE i \in D
    <3>1. n - i + 1 \in 1..n /\ n - (i - 1) = n - i + 1 /\ (n - i + 1) - 1 = n - i /\ n - i \in 0..n
      OBVIOUS
    <3>2. d[n - i + 1] = d[n - i] + s[n - i + 1] /\ s[n - i + 1] \in Nat /\ d[n - i] \in Int
      BY <1>1, <3>1
    <3>3. d[n - i + 1] <= d[n]
      BY <2>2, <3>1
    <3>4. d[n] \in Int
      BY <1>1
    <3> QED
      BY <3>2, <3>3, <3>4
  <2> HIDE DEF D
  <2> QED
    BY ONLY n \in Nat, <2>1, <2>2, Stepwise
<1>4. \A i \in 0..n : d[i] <= d[n]
  <2> TAKE i \in 0..n
  <2>1. n - i \in 0..n /\ n - (n - i) = i
    OBVIOUS
  <2> QED
    BY <1>3, <2>1
<1>5. \A i \in 1..n : s[i] <= d[n]
  <2> TAKE i \in 1..n
  <2>1. i \in 0..n /\ i - 1 \in 0..n
    OBVIOUS
  <2>2. 0 <= d[i - 1] /\ d[i] <= d[n] /\ d[i] = d[i - 1] + s[i]
    BY <1>1, <1>2, <1>4, <2>1
  <2> QED
    BY <1>1, <2>1, <2>2
<1> QED
  BY <1>2, <1>4, <1>5

\* A sum of tens of what is small is that small.
LEMMA TensBelow ==
    ASSUME NEW n \in Nat, NEW s \in [1..n -> Nat], NEW t \in [1..n -> Nat],
           \A i \in 1..n : 10 * s[i] <= t[i]
    PROVE  10 * Total(s) <= Total(t)
<1>0. s \in [1..n -> Int] /\ t \in [1..n -> Int]
  OBVIOUS
<1>1. PICK c : Accrues(c, n, s) /\ Total(s) = c[n]
  BY <1>0, TotalAccrues
<1>2. PICK d : Accrues(d, n, t) /\ Total(t) = d[n]
  BY <1>0, TotalAccrues
<1> DEFINE B == {i \in 0..n : 10 * c[i] <= d[i]}
<1>3. 0 \in B
  BY <1>1, <1>2 DEF Accrues
<1>4. ASSUME NEW i \in 1..n, i - 1 \in B PROVE i \in B
  <2>1. i - 1 \in 0..n /\ i \in 0..n
    OBVIOUS
  <2>2. c[i] = c[i - 1] + s[i] /\ d[i] = d[i - 1] + t[i] /\ c[i - 1] \in Int /\ d[i - 1] \in Int
    BY <1>1, <1>2, <2>1 DEF Accrues
  <2> QED
    BY <1>4, <2>1, <2>2
<1> HIDE DEF B
<1>5. n \in B
  <2>1. \A i \in 0..n : i \in B
    BY ONLY n \in Nat, <1>3, <1>4, Stepwise
  <2> QED
    BY <2>1
<1> QED
  BY <1>1, <1>2, <1>5 DEF B

\* What each part is at most, the parts are together.
LEMMA TotalWithin ==
    ASSUME NEW n \in Nat, NEW v \in [1..n -> Int], NEW s \in [1..n -> Nat],
           \A i \in 1..n : -s[i] <= v[i] /\ v[i] <= s[i]
    PROVE  -Total(s) <= Total(v) /\ Total(v) <= Total(s) /\ Total(s) \in Nat
<1>0. s \in [1..n -> Int]
  OBVIOUS
<1>1. PICK c : Accrues(c, n, v) /\ Total(v) = c[n]
  BY TotalAccrues
<1>2. PICK d : Accrues(d, n, s) /\ Total(s) = d[n]
  BY <1>0, TotalAccrues
<1> DEFINE B == {i \in 0..n : -d[i] <= c[i] /\ c[i] <= d[i] /\ 0 <= d[i]}
<1>3. 0 \in B
  BY <1>1, <1>2 DEF Accrues
<1>4. ASSUME NEW i \in 1..n, i - 1 \in B PROVE i \in B
  <2>1. i - 1 \in 0..n /\ i \in 0..n
    OBVIOUS
  <2>2. c[i] = c[i - 1] + v[i] /\ d[i] = d[i - 1] + s[i] /\ c[i - 1] \in Int /\ d[i - 1] \in Int
    BY <1>1, <1>2, <2>1 DEF Accrues
  <2> QED
    BY <1>4, <2>1, <2>2
<1> HIDE DEF B
<1>5. n \in B
  <2>1. \A i \in 0..n : i \in B
    BY ONLY n \in Nat, <1>3, <1>4, Stepwise
  <2> QED
    BY <2>1
<1>6. d[n] \in Int
  BY <1>2 DEF Accrues
<1> QED
  BY <1>1, <1>2, <1>5, <1>6 DEF B

\* A checked sum of what is small enough together is not refused.
LEMMA SmallSumFits ==
    ASSUME RefusalIsApart,
           NEW n \in Nat, NEW v \in [1..n -> Int], NEW s \in [1..n -> Nat],
           \A i \in 1..n : -s[i] <= v[i] /\ v[i] <= s[i], Total(s) <= MaxMinor
    PROVE  FoldLeft(CheckedMinor, 0, v) = Total(v) /\ \A i \in 1..n : IfFits(v[i]) = v[i]
<1>0. s \in [1..n -> Int] /\ MaxMinor \in Nat /\ Refused \notin Int
  BY MoneyAssumption DEF RefusalIsApart
<1>1. PICK c \in [0..n -> Minor] :
          /\ c[0] = 0 /\ \A i \in 1..n : c[i] = CheckedMinor(c[i - 1], v[i])
          /\ FoldLeft(CheckedMinor, 0, v) = c[n]
  <2>1. DOMAIN v = 1..n
    OBVIOUS
  <2> QED
    BY <2>1, MinorChain
<1>2. PICK e : Accrues(e, n, v) /\ Total(v) = e[n]
  BY TotalAccrues
<1>3. PICK d : Accrues(d, n, s) /\ Total(s) = d[n]
  BY <1>0, TotalAccrues
<1>4. /\ \A i \in 0..n : 0 <= d[i] /\ d[i] <= MaxMinor /\ d[i] \in Int
      /\ \A i \in 1..n : s[i] <= MaxMinor
  <2>1. \A i \in 0..n : d[i] \in Int
    BY <1>3 DEF Accrues
  <2>2. d[n] \in Int /\ d[n] <= MaxMinor
    BY <1>3, <2>1
  <2>3. \A i \in 0..n : 0 <= d[i] /\ d[i] <= d[n]
    BY <1>3, SumsGrow
  <2>4. \A i \in 1..n : s[i] <= d[n]
    BY <1>3, SumsGrow
  <2> QED
    BY <1>0, <2>1, <2>2, <2>3, <2>4
<1> DEFINE B == {i \in 0..n : c[i] = e[i] /\ -d[i] <= e[i] /\ e[i] <= d[i]}
<1>5. 0 \in B
  BY <1>1, <1>2, <1>3 DEF Accrues
<1>6. ASSUME NEW i \in 1..n, i - 1 \in B PROVE i \in B
  <2>1. i - 1 \in 0..n /\ i \in 0..n
    OBVIOUS
  <2>2. e[i] = e[i - 1] + v[i] /\ d[i] = d[i - 1] + s[i] /\ e[i - 1] \in Int /\ e[i] \in Int
    BY <1>2, <1>3, <2>1 DEF Accrues
  <2>3. -d[i] <= e[i] /\ e[i] <= d[i]
    BY <1>4, <1>6, <2>1, <2>2
  <2>4. c[i] = CheckedMinor(e[i - 1], v[i])
    BY <1>1, <1>6
  <2>5. e[i - 1] # Refused /\ v[i] # Refused
    BY <1>0, <2>2
  <2>6. c[i] = IfFits(e[i])
    BY <2>2, <2>4, <2>5 DEF CheckedMinor
  <2>7. e[i] \in (-MaxMinor - 1)..MaxMinor
    BY <1>0, <1>4, <2>1, <2>2, <2>3
  <2> QED
    BY <2>1, <2>3, <2>6, <2>7 DEF IfFits
<1> HIDE DEF B
<1>7. n \in B
  <2>1. \A i \in 0..n : i \in B
    BY ONLY n \in Nat, <1>5, <1>6, Stepwise
  <2> QED
    BY <2>1
<1>8. ASSUME NEW i \in 1..n PROVE IfFits(v[i]) = v[i]
  <2>1. v[i] \in (-MaxMinor - 1)..MaxMinor
    BY <1>0, <1>4
  <2> QED
    BY <2>1 DEF IfFits
<1> QED
  BY <1>1, <1>2, <1>7, <1>8 DEF B

-----------------------------------------------------------------------------
\* What a member's spend counts for where all are to be small, in tenths of a
\* cent: its size and what rounding may add.
SpendSize == [x \in Option(Int) |-> IF x = None THEN 0 ELSE Size(x) + 10]
SpendSizes(members) == [i \in DOMAIN members |-> SpendSize[Cursor!MemberSpend(members[i])]]

\* They are numbers.
LEMMA SpendSizeType ==
    /\ SpendSize \in [Option(Int) -> Nat]
    /\ \A x \in Int : SpendSize[x] = Size(x) + 10
    /\ SpendSize[None] = 0
<1>1. None \notin Int
  BY NoneAssumption
<1>2. \A x \in Int : Size(x) \in Nat
  BY DEF Size
<1> QED
  BY <1>1, <1>2 DEF SpendSize, Option

\* Rounding adds less than a cent.
LEMMA RoundedSize ==
    ASSUME NEW tenths \in Int
    PROVE  /\ Cursor!RoundCents(tenths) \in Int /\ Size(Cursor!RoundCents(tenths)) \in Nat
           /\ 10 * Size(Cursor!RoundCents(tenths)) <= Size(tenths) + 10
<1>1. CASE tenths >= 0
  <2>1. Cursor!RoundCents(tenths) = (tenths + 5) \div 10
    BY <1>1 DEF Cursor!RoundCents
  <2>2. (tenths + 5) \div 10 \in Nat /\ 10 * ((tenths + 5) \div 10) <= tenths + 5
    BY <1>1
  <2> QED
    BY <1>1, <2>1, <2>2 DEF Size
<1>2. CASE tenths < 0
  <2>1. Cursor!RoundCents(tenths) = -((5 - tenths) \div 10)
    BY <1>2 DEF Cursor!RoundCents
  <2>2. (5 - tenths) \div 10 \in Nat /\ 10 * ((5 - tenths) \div 10) <= 5 - tenths
    BY <1>2
  <2> DEFINE q == (5 - tenths) \div 10
  <2>3. -q \in Int /\ Size(-q) = q
    BY <2>2 DEF Size
  <2>4. Size(tenths) = -tenths
    BY <1>2 DEF Size
  <2> HIDE DEF q
  <2> QED
    BY <2>1, <2>2, <2>3, <2>4 DEF q
<1> QED
  BY <1>1, <1>2

\* A spend is within its size.
LEMMA SizeBounds == ASSUME NEW x \in Int PROVE -Size(x) <= x /\ x <= Size(x) /\ Size(x) \in Nat
  BY DEF Size

\* The spend of members is not refused where their sizes fit together.
LEMMA TeamSpendFits ==
    ASSUME RefusalIsApart, NEW pages \in Seq(Option(Seq(Cursor!RawSpendMembers))),
           Total(SpendSizes(Cursor!Members(pages))) <= 10 * MaxMinor
    PROVE  Cursor!SpentCents(pages) # Refused
<1> DEFINE members == Cursor!Members(pages)
           spends == [i \in DOMAIN members |-> Cursor!MemberSpend(members[i])]
           parts == [i \in DOMAIN spends |-> IF spends[i] # None THEN <<spends[i]>> ELSE <<>>]
           known == FlattenSeq(parts)
           cents == [i \in DOMAIN known |-> Cursor!IfFits(Cursor!RoundCents(known[i]))]
           n == Len(members)
           k == Len(known)
           t == [i \in 1..n |-> SpendSize[spends[i]]]
           u == [i \in 1..k |-> SpendSize[known[i]]]
           v == [i \in 1..k |-> Cursor!RoundCents(known[i])]
           s == [i \in 1..k |-> Size(Cursor!RoundCents(known[i]))]
<1>1. Cursor!SpentCents(pages) = FoldLeft(CheckedMinor, 0, cents)
  BY CursorFlatten, CursorFold, Zenon DEF Cursor!SpentCents, Cursor!Chosen
<1>2. members \in Seq(Cursor!RawSpendMembers)
  BY MembersAre
<1>z. SpendSizes(members) = [i \in DOMAIN members |-> SpendSize[Cursor!MemberSpend(members[i])]]
  BY DEF SpendSizes
<1>y. Total(SpendSizes(members)) <= 10 * MaxMinor
  OBVIOUS
<1> HIDE DEF members
<1>3. n \in Nat /\ DOMAIN members = 1..n /\ \A i \in 1..n : members[i] \in Cursor!RawSpendMembers
  BY <1>2
<1> HIDE DEF n
<1>4. \A i \in 1..n : spends[i] \in Option(Int) /\ (spends[i] # None <=> spends[i] \in Int)
  <2> TAKE i \in 1..n
  <2>1. spends[i] = Cursor!MemberSpend(members[i])
    BY <1>3
  <2>2. \/ spends[i] = None
        \/ spends[i] \in Int
    <3> HIDE DEF spends
    <3> QED
      BY <1>3, <2>1, MemberSpendIs
  <2> HIDE DEF spends
  <2> QED
    BY <2>2, NoneAssumption DEF Option
<1>5. spends \in Seq(Option(Int)) /\ DOMAIN spends = 1..n /\ Len(spends) = n
  <2>1. DOMAIN spends = 1..n /\ spends = [i \in 1..n |-> spends[i]]
    BY <1>3
  <2> HIDE DEF spends
  <2> QED
    BY <1>3, <1>4, <2>1
<1>6. known = Among(spends, Int)
  <2> HIDE DEF spends
  <2>1. \A i \in DOMAIN spends : (IF spends[i] # None THEN <<spends[i]>> ELSE <<>>)
                                    = (IF spends[i] \in Int THEN <<spends[i]>> ELSE <<>>)
    BY <1>4, <1>5
  <2>2. parts = [i \in DOMAIN spends |-> IF spends[i] \in Int THEN <<spends[i]>> ELSE <<>>]
    BY <2>1, Zenon
  <2> QED
    BY <2>2, Zenon DEF Among
<1>7. Total(SpendSizes(members)) = Total(t)
  <2>1. \A i \in 1..n : spends[i] = Cursor!MemberSpend(members[i])
    BY <1>3
  <2> HIDE DEF spends
  <2> QED
    BY <1>z, <1>3, <2>1, Zenon
<1> HIDE DEF spends, parts
<1>8. known \in Seq(Int)
  <2> HIDE DEF known
  <2>1. known \in Seq(Option(Int)) /\ ToSet(known) = ToSet(spends) \cap Int
    BY <1>5, <1>6, AmongIs
  <2>2. \A i \in 1..Len(known) : known[i] \in Int
    BY <2>1 DEF ToSet
  <2> QED
    BY <2>1, <2>2
<1>9. Worth(SpendSize, known) = Total(t)
  <2>1. t \in [1..n -> Int] /\ \A i \in 1..n : t[i] = IF spends[i] \in Int THEN SpendSize[spends[i]] ELSE 0
    BY <1>4, SpendSizeType
  <2>2. SpendSize \in [Option(Int) -> Int]
    BY SpendSizeType
  <2> HIDE DEF t
  <2> QED
    BY <1>5, <1>6, <2>1, <2>2, WorthAmong
<1> HIDE DEF known
<1>10. k \in Nat /\ DOMAIN known = 1..k /\ \A i \in 1..k : known[i] \in Int
  BY <1>8
<1>11. Worth(SpendSize, known) = Total(u)
  BY <1>10 DEF Worth
<1> HIDE DEF k, t
<1>12. \A i \in 1..k : /\ v[i] \in Int /\ s[i] \in Nat /\ u[i] \in Nat
                       /\ 10 * s[i] <= u[i] /\ -s[i] <= v[i] /\ v[i] <= s[i]
  <2> TAKE i \in 1..k
  <2> DEFINE x == known[i]
             r == Cursor!RoundCents(x)
  <2>1. v[i] = r /\ s[i] = Size(r) /\ u[i] = SpendSize[x]
    OBVIOUS
  <2>2. x \in Int
    BY <1>10
  <2> HIDE DEF x, v, s, u
  <2>3. r \in Int /\ Size(r) \in Nat /\ 10 * Size(r) <= Size(x) + 10
    BY <2>2, RoundedSize
  <2>4. SpendSize[x] = Size(x) + 10 /\ Size(x) \in Nat
    BY <2>2, SpendSizeType, SizeBounds
  <2> HIDE DEF r
  <2>5. -Size(r) <= r /\ r <= Size(r)
    BY <2>3, SizeBounds
  <2> QED
    BY <2>1, <2>3, <2>4, <2>5
<1>13. v \in [1..k -> Int] /\ s \in [1..k -> Nat] /\ u \in [1..k -> Nat]
  <2>1. /\ v = [i \in 1..k |-> v[i]] /\ s = [i \in 1..k |-> s[i]] /\ u = [i \in 1..k |-> u[i]]
        /\ DOMAIN v = 1..k /\ DOMAIN s = 1..k /\ DOMAIN u = 1..k
    OBVIOUS
  <2> HIDE DEF v, s, u
  <2> QED
    BY <1>12, <2>1
<1>14. cents = [i \in 1..k |-> IfFits(v[i])]
  <2>1. \A x : Cursor!IfFits(x) = IfFits(x)
    BY Zenon DEF Cursor!IfFits, IfFits
  <2> QED
    BY <1>10, <2>1
<1> HIDE DEF cents, v, s, u
<1>15. 10 * Total(s) <= Total(u) /\ Total(u) <= 10 * MaxMinor
  BY <1>10, <1>7, <1>9, <1>11, <1>12, <1>13, <1>y, TensBelow
<1>16. Total(s) \in Int /\ MaxMinor \in Nat
  <2>1. s \in [1..k -> Int]
    BY <1>13
  <2> QED
    BY <1>10, <2>1, TotalType, MoneyAssumption
<1>17. Total(s) <= MaxMinor
  <2>1. Total(u) \in Int
    <3>1. u \in [1..k -> Int]
      BY <1>13
    <3> QED
      BY <1>10, <3>1, TotalType
  <2> QED
    BY <1>15, <1>16, <2>1
<1>18. FoldLeft(CheckedMinor, 0, v) = Total(v) /\ \A i \in 1..k : IfFits(v[i]) = v[i]
  BY <1>10, <1>12, <1>13, <1>17, SmallSumFits
<1>19. cents = v
  <2>1. v = [i \in 1..k |-> v[i]]
    BY <1>13
  <2> QED
    BY <1>14, <1>18, <2>1, Zenon
<1>20. Total(v) \in Int
  BY <1>10, <1>13, TotalType
<1> QED
  BY <1>1, <1>18, <1>19, <1>20 DEF RefusalIsApart

\* A team's report is refused for a page, a row without a day or the spend.
LEMMA CursorTeamRefuses ==
    ASSUME RefusalIsApart, NEW raw
    PROVE  Cursor!CursorPlatformAccount(raw) = Refused
             <=> \/ ~Parsed(raw.usage) \/ ~Parsed(raw.costs)
                 \/ \E row \in ToSet(Rows(raw.usage)) : row.day = None \/ ~IsDate(row.day)
                 \/ Cursor!SpentCents(raw.costs) = Refused
<1> DEFINE account == Cursor!CursorPlatformAccount(raw)
           rows == Cursor!Rows(raw.usage)
           days == Cursor!InOrder({r.day : r \in Cursor!ToSet(rows)} \ {None}, Cursor!Before)
           cents == Cursor!SpentCents(raw.costs)
           spent == IF Cursor!SpendComplete(raw.costs) THEN Cursor!Dollars(cents) ELSE None
           state == Cursor!CalculateBudgetState(spent, None, None)
           budget == [Cursor!NoBudgets EXCEPT !["month"] = state]
           buckets == [i \in DOMAIN days |-> Cursor!DayBucket(rows, days[i])]
           bad == \/ ~Cursor!Parsed(raw.usage) \/ ~Cursor!Parsed(raw.costs)
                  \/ \E row \in Cursor!ToSet(rows) : row.day = None \/ ~Cursor!IsDate(row.day)
                  \/ cents = Refused
           platform == Cursor!PlatformAccount("cursor-team-local", "cursor", "cursor.platform",
                                              budget, buckets, <<>>)
<1>1. account = IF bad THEN Refused ELSE platform
  BY Zenon DEF Cursor!CursorPlatformAccount
<1>2. platform # Refused
  <2> HIDE DEF budget, buckets
  <2> QED
    BY AccountIsNoRefusal, Zenon DEF Cursor!PlatformAccount
<1> HIDE DEF platform
<1>3. \A date : Cursor!IsDate(date) = IsDate(date)
  BY SMT DEF Cursor!IsDate, IsDate, Cursor!DaysInMonth, DaysInMonth, Cursor!IsLeapYear, IsLeapYear
<1>4. rows = Rows(raw.usage) /\ Cursor!ToSet(rows) = ToSet(rows)
  BY CursorRows, CursorSet, Zenon
<1> HIDE DEF rows, cents
<1>5. bad <=> \/ ~Parsed(raw.usage) \/ ~Parsed(raw.costs)
              \/ \E row \in ToSet(rows) : row.day = None \/ ~IsDate(row.day)
              \/ cents = Refused
  <2>1. Cursor!Parsed(raw.usage) = Parsed(raw.usage) /\ Cursor!Parsed(raw.costs) = Parsed(raw.costs)
    BY CursorSet, Zenon DEF Cursor!Parsed, Parsed
  <2> QED
    BY <1>3, <1>4, <2>1, Zenon
<1> HIDE DEF account, bad
<1>6. account = Refused <=> bad
  BY <1>1, <1>2
<1> QED
  BY <1>4, <1>5, <1>6, Zenon DEF account, cents

\* Pages that all parsed hold members.
LEMMA CursorParsedPages ==
    ASSUME NEW pages \in Seq(Cursor!RawPages("costs") \cup {Refused}), Parsed(pages)
    PROVE  pages \in Seq(Option(Seq(Cursor!RawSpendMembers)))
<1>1. Cursor!RawPages("costs") = Option(Seq(Cursor!RawSpendMembers))
  BY DEF Cursor!RawPages, Cursor!Option, Option
<1> HIDE DEF Parsed
<1>2. \A i \in 1..Len(pages) : pages[i] \in ToSet(pages) /\ pages[i] \in Cursor!RawPages("costs") \cup {Refused}
  BY DEF ToSet
<1>3. Refused \notin ToSet(pages)
  BY DEF Parsed
<1>4. \A i \in 1..Len(pages) : pages[i] \in Option(Seq(Cursor!RawSpendMembers))
  BY <1>1, <1>2, <1>3
<1> QED
  BY <1>4

\* A shown organization's report is its feeds' pages.
LEMMA TeamReport ==
    ASSUME ReportInv, source # None, source = "cursorPlatform"
    PROVE  /\ report.usage \in Seq(Cursor!RawPages("usage") \cup {Refused})
           /\ report.costs \in Seq(Cursor!RawPages("costs") \cup {Refused})
<1>1. OfPages("cursorPlatform", report)
  BY ReportAssumption DEF ReportInv, Plans
<1> QED
  BY <1>1 DEF OfPages, Feeds, RawPages

\* A team's members, and ten times the size of a member's cents, as the property names them.
MembersOf(pages) == FlattenSeq(Chosen(pages, LAMBDA page : page # None))
SpendTenthsOf(m) == IF Cursor!MemberSpend(m) = None THEN 0 ELSE Size(Cursor!MemberSpend(m)) + 10

\* What the property adds up is what the members' sizes add up to.
LEMMA SmallTeam ==
    ASSUME source = "cursorPlatform", report.costs \in Seq(Option(Seq(Cursor!RawSpendMembers)))
    PROVE  Small <=> Total(SpendSizes(Cursor!Members(report.costs))) <= 10 * MaxMinor
<1> DEFINE members == MembersOf(report.costs)
<1>1. Cursor!Members(report.costs) = members
  BY CursorMembers, Zenon DEF MembersOf
<1>2. members \in Seq(Cursor!RawSpendMembers)
  BY <1>1, MembersAre
<1> HIDE DEF members
<1>3. [i \in DOMAIN members |-> SpendTenthsOf(members[i])] = SpendSizes(members)
  <2>1. ASSUME NEW i \in DOMAIN members PROVE SpendTenthsOf(members[i]) = SpendSize[Cursor!MemberSpend(members[i])]
    <3> DEFINE x == Cursor!MemberSpend(members[i])
    <3>1. members[i] \in Cursor!RawSpendMembers
      BY <1>2
    <3>2. x = None \/ x \in Int
      BY <3>1, MemberSpendIs
    <3> HIDE DEF x
    <3>3. SpendSize[x] = IF x = None THEN 0 ELSE Size(x) + 10
      BY <3>2, SpendSizeType
    <3> QED
      BY <3>3 DEF x, SpendTenthsOf
  <2> QED
    BY <2>1, Zenon DEF SpendSizes
<1>4. Small <=> SumOf(SpendTenthsOf, members) <= 10 * MaxMinor
  <2>1. \A s : SumOf(LAMBDA m : IF Cursor!MemberSpend(m) = None THEN 0
                              ELSE Size(Cursor!MemberSpend(m)) + 10, s) = SumOf(SpendTenthsOf, s)
    BY Zenon DEF SumOf, SpendTenthsOf
  <2> QED
    BY <2>1, Zenon DEF Small, members, MembersOf, SumOf, SpendTenthsOf
<1>5. SumOf(SpendTenthsOf, members) = Total([i \in DOMAIN members |-> SpendTenthsOf(members[i])])
  BY Zenon DEF SumOf, Total
<1> QED
  BY <1>1, <1>3, <1>4, <1>5

\* An organization's report that is not refused has parsed, and each of its costs
\* may be charged.
LEMMA AnthropicCharges ==
    ASSUME NEW raw,
           raw.usage \in Seq(Anthropic!RawPages("usage") \cup {Refused}),
           raw.costs \in Seq(Anthropic!RawPages("costs") \cup {Refused}),
           Anthropic!AnthropicAccount(raw) # Refused
    PROVE  /\ Parsed(raw.usage) /\ Parsed(raw.costs)
           /\ \A row \in ToSet(Rows(raw.costs)) : \A r \in ToSet(row.results) : NamesAmount(r)
<1> DEFINE account == Anthropic!AnthropicAccount(raw)
           usage == Anthropic!Rows(raw.usage)
           costs == Anthropic!Rows(raw.costs)
           buckets == Anthropic!MergeBuckets(usage, costs)
           budget == [q \in Anthropic!Periods |-> Anthropic!BudgetFor(raw.starts[q], buckets)]
           bad == \/ ~Anthropic!Parsed(raw.usage) \/ ~Anthropic!Parsed(raw.costs)
                  \/ Refused \in {buckets[i].cost : i \in DOMAIN buckets}
                  \/ Refused \in {budget[q] : q \in Anthropic!Periods}
           models == Anthropic!ModelBreakdown(Anthropic!Results(usage))
           platform == Anthropic!PlatformAccount("anthropic-local", "claude", "anthropic.platform",
                                                 budget, buckets, models)
           S == Anthropic!UsageDays(usage) \cup Anthropic!CostDays(costs)
           order == Anthropic!InOrder(S, Anthropic!Earlier)
           m == Cardinality(S)
<1>1. account = IF bad THEN Refused ELSE platform
  BY Zenon DEF Anthropic!AnthropicAccount
<1>2. ~bad
  <2> HIDE DEF bad, platform, account
  <2>1. account # Refused
    BY DEF account
  <2> QED
    BY <1>1, <2>1, Zenon
<1> HIDE DEF account
<1>3. /\ Refused \notin ToSet(raw.usage) /\ Refused \notin ToSet(raw.costs)
      /\ \A i \in DOMAIN buckets : buckets[i].cost # Refused
  <2> HIDE DEF buckets, budget
  <2> QED
    BY <1>2, AnthropicSet, Zenon DEF Anthropic!Parsed
<1> HIDE DEF bad, models, platform, budget
<1>4. usage \in Seq(UsageRows) /\ costs \in Seq(CostRows)
  BY <1>3, AnthropicPages, ParsedRows, AnthropicRows
<1>5. costs = Rows(raw.costs)
  BY AnthropicRows
<1> HIDE DEF usage, costs
<1>6. /\ Lists(order, S, InstantPairs)
      /\ buckets = [i \in DOMAIN order |-> Anthropic!MergedBucket(usage, costs, order[i])]
  BY <1>4, AnthropicBucketsAre
<1>7. Anthropic!CostDays(costs) = {x.start : x \in ToSet(costs)}
  BY AnthropicSet, Zenon DEF Anthropic!CostDays
<1> HIDE DEF order, buckets
<1>8. ASSUME NEW row \in ToSet(costs)
      PROVE  \A r \in ToSet(row.results) : NamesAmount(r)
  <2>1. row.start \in S /\ row.start \in Anthropic!CostDays(costs)
    BY <1>7
  <2>2. PICK i \in DOMAIN order : order[i] = row.start
    BY <1>6, <2>1 DEF Lists
  <2>3. i \in DOMAIN buckets /\ buckets[i] = Anthropic!MergedBucket(usage, costs, row.start)
    BY <1>6, <2>2
  <2>4. Anthropic!MergedBucket(usage, costs, row.start).cost # Refused
    BY <1>3, <2>3
  <2>5. Anthropic!CentsFrom(costs, row.start) # Refused
    BY <1>4, <2>1, <2>4, MergedCostIs
  <2> QED
    BY <1>4, <2>5, CentsFromExact
<1> QED
  BY <1>3, <1>5, <1>8 DEF Parsed

\* What each is at most the other, the sums are.
LEMMA TotalBelow ==
    ASSUME NEW n \in Nat, NEW s \in [1..n -> Nat], NEW t \in [1..n -> Nat], \A i \in 1..n : s[i] <= t[i]
    PROVE  Total(s) <= Total(t) /\ Total(s) \in Nat /\ Total(t) \in Nat
<1>0. s \in [1..n -> Int] /\ t \in [1..n -> Int]
  OBVIOUS
<1>1. PICK c : Accrues(c, n, s) /\ Total(s) = c[n]
  BY <1>0, TotalAccrues
<1>2. PICK d : Accrues(d, n, t) /\ Total(t) = d[n]
  BY <1>0, TotalAccrues
<1> DEFINE B == {i \in 0..n : 0 <= c[i] /\ c[i] <= d[i]}
<1>3. 0 \in B
  BY <1>1, <1>2 DEF Accrues
<1>4. ASSUME NEW i \in 1..n, i - 1 \in B PROVE i \in B
  <2>1. i - 1 \in 0..n /\ i \in 0..n
    OBVIOUS
  <2>2. c[i] = c[i - 1] + s[i] /\ d[i] = d[i - 1] + t[i] /\ c[i - 1] \in Int /\ d[i - 1] \in Int
    BY <1>1, <1>2, <2>1 DEF Accrues
  <2> QED
    BY <1>4, <2>1, <2>2
<1> HIDE DEF B
<1>5. n \in B
  <2>1. \A i \in 0..n : i \in B
    BY ONLY n \in Nat, <1>3, <1>4, Stepwise
  <2> QED
    BY <2>1
<1>6. c[n] \in Int /\ d[n] \in Int
  BY <1>1, <1>2 DEF Accrues
<1> QED
  BY <1>1, <1>2, <1>5, <1>6 DEF B

\* Elements that are worth something are worth no more when some are left out.
LEMMA WorthFewer ==
    ASSUME NEW T, NEW val \in [T -> Nat], NEW s \in Seq(T), NEW P
    PROVE  Worth(val, Among(s, P)) <= Worth(val, s) /\ Worth(val, s) \in Nat
<1> DEFINE n == Len(s)
           t == [i \in 1..n |-> val[s[i]]]
           v == [i \in 1..n |-> IF s[i] \in P THEN val[s[i]] ELSE 0]
<1>1. n \in Nat /\ DOMAIN s = 1..n /\ \A i \in 1..n : s[i] \in T
  OBVIOUS
<1>2. /\ t \in [1..n -> Nat] /\ v \in [1..n -> Nat] /\ v \in [1..n -> Int]
      /\ \A i \in 1..n : v[i] <= t[i]
      /\ \A i \in 1..n : v[i] = IF s[i] \in P THEN val[s[i]] ELSE 0
  BY <1>1
<1>3. Worth(val, s) = Total(t)
  BY <1>1, Zenon DEF Worth
<1> HIDE DEF t, v
<1>4. CountsOnly(v, val, s, P)
  BY <1>2, Zenon DEF CountsOnly, n
<1> HIDE DEF n
<1>5. val \in [T -> Int]
  OBVIOUS
<1>6. Worth(val, Among(s, P)) = Total(v)
  BY <1>4, <1>5, WorthCounted
<1>7. Total(v) <= Total(t) /\ Total(t) \in Nat
  BY ONLY <1>1, <1>2, TotalBelow
<1> QED
  BY <1>3, <1>6, <1>7

\* The sizes of the cents of results and of rows.
SizeWorth == [r \in Anthropic!RawCostResults |-> Size(CostCents(r))]
RowSizes == RowWorth(Instants, Anthropic!RawCostResults, SizeWorth)

\* They bound the cents of a result.
LEMMA SizeWorthType ==
    /\ SizeWorth \in [Anthropic!RawCostResults -> Nat]
    /\ \A r \in Anthropic!RawCostResults :
          SizeWorth[r] = Size(CostCents(r)) /\ -SizeWorth[r] <= CostCents(r) /\ CostCents(r) <= SizeWorth[r]
<1>1. ASSUME NEW r \in Anthropic!RawCostResults
      PROVE  /\ Size(CostCents(r)) \in Nat
             /\ -Size(CostCents(r)) <= CostCents(r) /\ CostCents(r) <= Size(CostCents(r))
  BY CostCentsType, SizeBounds
<1> QED
  BY <1>1 DEF SizeWorth

\* A cost is added where neither it nor the sum is too large.
LEMMA CostFits ==
    ASSUME RefusalIsApart, NEW v \in Int, NEW r \in Anthropic!RawCostResults, NamesAmount(r),
           CostCents(r) \in (-MaxMinor)..MaxMinor, v + CostCents(r) \in (-MaxMinor)..MaxMinor
    PROVE  Anthropic!AddCost(v, r) = v + CostCents(r)
<1> DEFINE cents == Anthropic!CentsFromDecimal(r.amount)
<1>0. MaxMinor \in Nat /\ Refused \notin Int /\ None # Refused
  BY MoneyAssumption DEF RefusalIsApart
<1>1. Anthropic!AddCost(v, r) = IF r.amount = None THEN v ELSE CheckedMinor(v, cents)
  <2>1. r.currency \in {None, "USD"}
    BY DEF NamesAmount
  <2> QED
    BY <2>1, AnthropicMinor, Zenon DEF Anthropic!AddCost, Anthropic!IsUsd
<1>2. CASE r.amount = None
  BY <1>1, <1>2 DEF CostCents
<1>3. CASE r.amount # None
  <2>1. r.amount # Refused
    BY <1>3 DEF NamesAmount
  <2>2. /\ r.amount.whole \in Int /\ r.amount.tenth \in 0..9
        /\ CostCents(r) = IF r.amount.tenth < 5 THEN r.amount.whole
                          ELSE IF r.amount.whole >= 0 THEN r.amount.whole + 1 ELSE r.amount.whole - 1
    BY <1>3, <2>1, CostCentsType
  <2>3. cents = CostCents(r)
    BY <1>0, <2>1, <2>2 DEF Anthropic!CentsFromDecimal, Anthropic!IfFits, cents
  <2> HIDE DEF cents
  <2>4. CheckedMinor(v, cents) = v + CostCents(r)
    <3>1. v # Refused /\ cents # Refused
      BY <1>0, <2>3
    <3>2. CheckedMinor(v, cents) = IfFits(v + CostCents(r))
      BY <2>3, <3>1 DEF CheckedMinor
    <3> QED
      BY <1>0, <3>2 DEF IfFits
  <2> QED
    BY <1>1, <1>3, <2>4
<1> QED
  BY <1>2, <1>3

\* The costs of a bucket are not refused where their sizes fit together.
LEMMA BucketCentsFits ==
    ASSUME RefusalIsApart, NEW row, row.results \in Seq(Anthropic!RawCostResults),
           \A r \in ToSet(row.results) : NamesAmount(r), Worth(SizeWorth, row.results) <= MaxMinor
    PROVE  Anthropic!BucketCents(row) = Worth(CostWorth, row.results)
<1> DEFINE w == row.results
           n == Len(w)
           v == [i \in DOMAIN w |-> CostWorth[w[i]]]
           s == [i \in DOMAIN w |-> SizeWorth[w[i]]]
           fold == Anthropic!FoldLeft(Anthropic!AddCost, 0, w)
<1>0. MaxMinor \in Nat /\ Refused \notin Int
  BY MoneyAssumption DEF RefusalIsApart
<1>1. /\ n \in Nat /\ DOMAIN w = 1..n /\ \A i \in 1..n : w[i] \in Anthropic!RawCostResults
      /\ \A i \in 1..n : NamesAmount(w[i])
  BY DEF ToSet
<1>2. Anthropic!BucketCents(row) = fold
  BY Zenon DEF Anthropic!BucketCents
<1>3. Worth(SizeWorth, w) <= MaxMinor
  OBVIOUS
<1>4. Worth(SizeWorth, w) = Total(s) /\ Worth(CostWorth, w) = Total(v)
  BY Zenon DEF Worth
<1> HIDE DEF n, w, fold
<1>5. /\ v \in [1..n -> Int] /\ s \in [1..n -> Nat] /\ s \in [1..n -> Int]
      /\ \A i \in 1..n : v[i] = CostCents(w[i]) /\ -s[i] <= v[i] /\ v[i] <= s[i]
  <2>1. v = [i \in 1..n |-> v[i]] /\ s = [i \in 1..n |-> s[i]]
    BY <1>1
  <2>2. ASSUME NEW i \in 1..n
        PROVE  v[i] = CostCents(w[i]) /\ v[i] \in Int /\ s[i] \in Nat /\ -s[i] <= v[i] /\ v[i] <= s[i]
    <3>1. w[i] \in Anthropic!RawCostResults
      BY <1>1
    <3>2. v[i] = CostCents(w[i]) /\ s[i] = SizeWorth[w[i]]
      BY <1>1, <3>1 DEF CostWorth
    <3> HIDE DEF v, s
    <3> QED
      BY <3>1, <3>2, SizeWorthType, CostCentsType
  <2> HIDE DEF v, s
  <2> QED
    BY <2>1, <2>2
<1> HIDE DEF v, s
<1>6. PICK c \in [0..n -> Minor] :
          /\ c[0] = 0 /\ \A i \in 1..n : c[i] = Anthropic!AddCost(c[i - 1], w[i])
          /\ fold = c[n]
  BY <1>1, CostChain DEF fold
<1>7. PICK e : Accrues(e, n, v) /\ Total(v) = e[n]
  BY <1>1, <1>5, TotalAccrues
<1>8. PICK d : Accrues(d, n, s) /\ Total(s) = d[n]
  BY <1>1, <1>5, TotalAccrues
<1>9. /\ \A i \in 0..n : 0 <= d[i] /\ d[i] <= MaxMinor /\ d[i] \in Int
      /\ \A i \in 1..n : s[i] <= MaxMinor
  <2>1. \A i \in 0..n : d[i] \in Int
    BY <1>8 DEF Accrues
  <2>2. d[n] \in Int /\ d[n] <= MaxMinor
    BY <1>1, <1>3, <1>4, <1>8, <2>1
  <2>3. (\A i \in 0..n : 0 <= d[i] /\ d[i] <= d[n]) /\ \A i \in 1..n : s[i] <= d[n]
    BY <1>1, <1>5, <1>8, SumsGrow
  <2>4. \A i \in 1..n : s[i] \in Nat
    BY <1>5
  <2> QED
    BY <1>0, <2>1, <2>2, <2>3, <2>4
<1> DEFINE B == {i \in 0..n : c[i] = e[i] /\ -d[i] <= e[i] /\ e[i] <= d[i]}
<1>10. 0 \in B
  BY <1>1, <1>6, <1>7, <1>8 DEF Accrues
<1>11. ASSUME NEW i \in 1..n, i - 1 \in B PROVE i \in B
  <2>1. i - 1 \in 0..n /\ i \in 0..n
    BY <1>1
  <2>2. e[i] = e[i - 1] + v[i] /\ d[i] = d[i - 1] + s[i] /\ e[i - 1] \in Int /\ e[i] \in Int
    BY <1>7, <1>8, <2>1 DEF Accrues
  <2>3. v[i] \in Int /\ s[i] \in Nat /\ -s[i] <= v[i] /\ v[i] <= s[i] /\ d[i - 1] \in Int
    BY <1>5, <1>9, <2>1
  <2>4. -d[i - 1] <= e[i - 1] /\ e[i - 1] <= d[i - 1] /\ c[i - 1] = e[i - 1]
    BY <1>11
  <2>5. -d[i] <= e[i] /\ e[i] <= d[i]
    BY <2>2, <2>3, <2>4
  <2>6. /\ d[i] \in Int /\ d[i] <= MaxMinor /\ s[i] <= MaxMinor
        /\ w[i] \in Anthropic!RawCostResults /\ NamesAmount(w[i]) /\ v[i] = CostCents(w[i])
    BY <1>1, <1>5, <1>9, <2>1
  <2>7. CostCents(w[i]) \in (-MaxMinor)..MaxMinor /\ e[i - 1] + CostCents(w[i]) \in (-MaxMinor)..MaxMinor
    BY <1>0, <2>2, <2>3, <2>5, <2>6
  <2>8. Anthropic!AddCost(e[i - 1], w[i]) = e[i - 1] + CostCents(w[i])
    BY <2>2, <2>6, <2>7, CostFits
  <2>9. c[i] = e[i]
    BY <1>6, <2>2, <2>4, <2>6, <2>8
  <2> QED
    BY <2>1, <2>5, <2>9
<1> HIDE DEF B
<1>12. n \in B
  <2>1. \A i \in 0..n : i \in B
    BY ONLY <1>1, <1>10, <1>11, Stepwise
  <2> QED
    BY <1>1, <2>1
<1> QED
  BY <1>2, <1>4, <1>6, <1>7, <1>12 DEF B, w

\* The results of a row are charged no more than their sizes.
LEMMA ResultsWithin ==
    ASSUME NEW w \in Seq(Anthropic!RawCostResults)
    PROVE  /\ Worth(SizeWorth, w) \in Nat /\ Worth(CostWorth, w) \in Int
           /\ -Worth(SizeWorth, w) <= Worth(CostWorth, w) /\ Worth(CostWorth, w) <= Worth(SizeWorth, w)
<1> DEFINE n == Len(w)
           v == [i \in DOMAIN w |-> CostWorth[w[i]]]
           s == [i \in DOMAIN w |-> SizeWorth[w[i]]]
<1>1. n \in Nat /\ DOMAIN w = 1..n /\ \A i \in 1..n : w[i] \in Anthropic!RawCostResults
  OBVIOUS
<1>2. Worth(SizeWorth, w) = Total(s) /\ Worth(CostWorth, w) = Total(v)
  BY Zenon DEF Worth
<1> HIDE DEF n
<1>3. /\ v \in [1..n -> Int] /\ s \in [1..n -> Nat] /\ s \in [1..n -> Int]
      /\ \A i \in 1..n : -s[i] <= v[i] /\ v[i] <= s[i]
  <2>1. v = [i \in 1..n |-> v[i]] /\ s = [i \in 1..n |-> s[i]]
    BY <1>1
  <2>2. ASSUME NEW i \in 1..n
        PROVE  v[i] \in Int /\ s[i] \in Nat /\ -s[i] <= v[i] /\ v[i] <= s[i]
    <3>1. w[i] \in Anthropic!RawCostResults
      BY <1>1
    <3>2. v[i] = CostCents(w[i]) /\ s[i] = SizeWorth[w[i]]
      BY <1>1, <3>1 DEF CostWorth
    <3> HIDE DEF v, s
    <3> QED
      BY <3>1, <3>2, SizeWorthType, CostCentsType
  <2> HIDE DEF v, s
  <2> QED
    BY <2>1, <2>2
<1> HIDE DEF v, s
<1>4. -Total(s) <= Total(v) /\ Total(v) <= Total(s) /\ Total(s) \in Nat
  BY <1>1, <1>3, TotalWithin
<1>5. Total(v) \in Int
  BY <1>1, <1>3, TotalType
<1> QED
  BY <1>2, <1>4, <1>5

\* A row has the size of its results.
LEMMA RowSizesType ==
    /\ RowSizes \in [CostRows -> Nat]
    /\ \A row \in CostRows : RowSizes[row] = Worth(SizeWorth, row.results) /\ row.results \in Seq(Anthropic!RawCostResults)
<1> DEFINE T == Anthropic!RawCostResults
<1>1. SizeWorth \in [T -> Int]
  BY SizeWorthType
<1>2. CostRows = RowsOf(Instants, T) /\ \A row \in CostRows : row.results \in Seq(T)
  BY DEF CostRows, RowsOf
<1> HIDE DEF T
<1>3. RowSizes \in [CostRows -> Int] /\ \A row \in CostRows : RowSizes[row] = Worth(SizeWorth, row.results)
  BY <1>1, <1>2, RowWorthType DEF RowSizes, T
<1>4. \A row \in CostRows : RowSizes[row] \in Nat
  BY <1>2, <1>3, ResultsWithin DEF T
<1> QED
  BY <1>2, <1>3, <1>4 DEF T

\* Rows whose costs may all be charged and are small together.
SmallCosts(costs) ==
    /\ \A row \in ToSet(costs) : \A r \in ToSet(row.results) : NamesAmount(r)
    /\ Worth(RowSizes, costs) <= MaxMinor
DaySize(costs, start) == Worth(RowSizes, Anthropic!CostsFrom(costs, start))

\* The cents of a day are not refused then, and within its size.
LEMMA CentsFromFits ==
    ASSUME RefusalIsApart, NEW costs \in Seq(CostRows), SmallCosts(costs), NEW start
    PROVE  /\ Anthropic!CentsFrom(costs, start) \in Int /\ DaySize(costs, start) \in Nat
           /\ -DaySize(costs, start) <= Anthropic!CentsFrom(costs, start)
           /\ Anthropic!CentsFrom(costs, start) <= DaySize(costs, start)
<1> DEFINE Q == {x \in ToSet(costs) : x.start = start}
           same == Anthropic!CostsFrom(costs, start)
           n == Len(same)
           v == [i \in DOMAIN same |-> Anthropic!BucketCents(same[i])]
           s == [i \in DOMAIN same |-> RowSizes[same[i]]]
<1>0. MaxMinor \in Nat
  BY MoneyAssumption
<1>1. same = Among(costs, Q)
  BY CostsFromIs
<1>2. Anthropic!CentsFrom(costs, start) = FoldLeft(CheckedMinor, 0, v)
  BY AnthropicFold, Zenon DEF Anthropic!CentsFrom
<1> HIDE DEF same, Q
<1>3. same \in Seq(CostRows) /\ ToSet(same) \subseteq ToSet(costs)
  BY <1>1, AmongIs
<1>4. /\ n \in Nat /\ DOMAIN same = 1..n
      /\ \A i \in 1..n : same[i] \in CostRows /\ same[i] \in ToSet(costs)
  BY <1>3 DEF ToSet
<1> HIDE DEF n
<1>5. Worth(RowSizes, same) <= Worth(RowSizes, costs) /\ Worth(RowSizes, costs) \in Nat
  BY <1>1, RowSizesType, WorthFewer
<1>6. Worth(RowSizes, same) = Total(s)
  BY Zenon DEF Worth
<1>7. s \in [1..n -> Nat] /\ s \in [1..n -> Int] /\ \A i \in 1..n : s[i] = RowSizes[same[i]]
  BY <1>4, RowSizesType
<1> HIDE DEF s
<1>8. Total(s) <= MaxMinor /\ Total(s) \in Int
  <2>1. Worth(RowSizes, costs) <= MaxMinor
    BY DEF SmallCosts
  <2>2. Total(s) \in Int
    BY <1>4, <1>7, TotalType
  <2> QED
    BY <1>0, <1>5, <1>6, <2>1, <2>2
<1>9. \A i \in 1..n : s[i] <= MaxMinor
  <2>1. PICK d : Accrues(d, n, s) /\ Total(s) = d[n]
    BY <1>4, <1>7, TotalAccrues
  <2>2. \A i \in 1..n : s[i] <= Total(s)
    BY <1>4, <1>7, <2>1, SumsGrow
  <2>3. \A i \in 1..n : s[i] \in Nat
    BY <1>7
  <2> QED
    BY <1>0, <1>8, <2>2, <2>3
<1>10. \A i \in 1..n : v[i] \in Int /\ -s[i] <= v[i] /\ v[i] <= s[i]
  <2> TAKE i \in 1..n
  <2> DEFINE row == same[i]
  <2>1. v[i] = Anthropic!BucketCents(row) /\ row \in CostRows /\ row \in ToSet(costs)
    BY <1>4
  <2> HIDE DEF row, v
  <2>2. /\ row.results \in Seq(Anthropic!RawCostResults) /\ RowSizes[row] = Worth(SizeWorth, row.results)
        /\ \A r \in ToSet(row.results) : NamesAmount(r)
    BY <2>1, RowSizesType DEF SmallCosts
  <2>3. s[i] = Worth(SizeWorth, row.results)
    BY <1>7, <2>2 DEF row
  <2>4. Anthropic!BucketCents(row) = Worth(CostWorth, row.results)
    BY <1>9, <2>2, <2>3, BucketCentsFits
  <2> QED
    BY <2>1, <2>2, <2>3, <2>4, ResultsWithin
<1>11. v \in [1..n -> Int]
  <2>1. v = [i \in 1..n |-> v[i]]
    BY <1>4
  <2> HIDE DEF v
  <2> QED
    BY <1>10, <2>1
<1> HIDE DEF v
<1>12. FoldLeft(CheckedMinor, 0, v) = Total(v)
  BY <1>4, <1>7, <1>8, <1>10, <1>11, SmallSumFits
<1>13. -Total(s) <= Total(v) /\ Total(v) <= Total(s) /\ Total(s) \in Nat
  BY <1>4, <1>7, <1>10, <1>11, TotalWithin
<1>14. Total(v) \in Int
  BY <1>4, <1>11, TotalType
<1> QED
  BY <1>2, <1>6, <1>12, <1>13, <1>14 DEF DaySize, same

\* What the cost of a bucket may be, by a size.
Sized(size, buckets) ==
    /\ size \in [UsageBuckets -> Nat]
    /\ \A b \in ToSet(buckets) : b.cost # None => -size[b] <= b.cost.minor /\ b.cost.minor <= size[b]
    /\ Worth(size, buckets) <= MaxMinor

\* A budget is not refused where the sizes of its buckets fit together.
LEMMA BudgetFits ==
    ASSUME RefusalIsApart, NEW buckets \in Seq(UsageBuckets), NEW start, NEW size, Sized(size, buckets)
    PROVE  Anthropic!BudgetFor(start, buckets) # Refused
<1> DEFINE P == {x \in ToSet(buckets) : NotEarlier(x.start, start)}
           since == Since(buckets, start)
           Q == {x \in ToSet(since) : x.cost # None}
           priced == Priced(since)
           n == Len(priced)
           v == [i \in DOMAIN priced |-> priced[i].cost.minor]
           s == [i \in DOMAIN priced |-> size[priced[i]]]
           total == PricedTotal(priced)
           spent == IF since # <<>> /\ priced = since THEN Dollars(total) ELSE None
           state == CalculateBudgetState(spent, None, None)
<1>0. MaxMinor \in Nat /\ Refused \notin Int /\ size \in [UsageBuckets -> Nat]
  BY MoneyAssumption DEF RefusalIsApart, Sized
<1>1. Anthropic!BudgetFor(start, buckets) = IF total = Refused THEN Refused ELSE state
  BY BudgetSplits, Zenon
<1>2. HasFields(state, {"status"})
  <2> HIDE DEF spent
  <2> QED
    BY DEF CalculateBudgetState, HasFields
<1>3. state # Refused
  <2> HIDE DEF state
  <2> QED
    BY <1>2, StatusIsNoRefusal
<1> HIDE DEF state, spent
<1>4. since = Among(buckets, P) /\ P \subseteq ToSet(buckets)
  BY Zenon DEF Since
<1> HIDE DEF P, since
<1>5. /\ since \in Seq(UsageBuckets) /\ ToSet(since) \subseteq ToSet(buckets)
      /\ Worth(size, since) <= Worth(size, buckets) /\ Worth(size, buckets) \in Nat
  BY <1>0, <1>4, AmongIs, WorthFewer
<1>6. priced = Among(since, Q) /\ \A x \in Q : x.cost # None
  BY Zenon DEF Priced
<1>7. total = FoldLeft(CheckedMinor, 0, v)
  BY Zenon DEF PricedTotal
<1> HIDE DEF Q, priced, total
<1>8. /\ priced \in Seq(UsageBuckets) /\ ToSet(priced) = ToSet(since) \cap Q
      /\ Worth(size, priced) <= Worth(size, since) /\ Worth(size, since) \in Nat
  BY <1>0, <1>5, <1>6, AmongIs, WorthFewer
<1>9. /\ n \in Nat /\ DOMAIN priced = 1..n
      /\ \A i \in 1..n : priced[i] \in UsageBuckets /\ priced[i] \in ToSet(priced)
  BY <1>8 DEF ToSet
<1> HIDE DEF n
<1>10. Worth(size, priced) = Total(s)
  BY Zenon DEF Worth
<1>11. s \in [1..n -> Nat] /\ s \in [1..n -> Int] /\ \A i \in 1..n : s[i] = size[priced[i]]
  BY <1>0, <1>9
<1> HIDE DEF s
<1>12. Total(s) <= MaxMinor
  <2>1. Total(s) \in Int
    BY <1>9, <1>11, TotalType
  <2>2. Worth(size, buckets) <= MaxMinor
    BY DEF Sized
  <2> QED
    BY <1>0, <1>5, <1>8, <1>10, <2>1, <2>2
<1>13. \A i \in 1..n : v[i] \in Int /\ -s[i] <= v[i] /\ v[i] <= s[i]
  <2> TAKE i \in 1..n
  <2> DEFINE b == priced[i]
  <2>1. v[i] = b.cost.minor /\ b \in UsageBuckets /\ b \in ToSet(buckets) /\ b.cost # None
    BY <1>5, <1>6, <1>8, <1>9
  <2>2. s[i] = size[b]
    BY <1>11
  <2> HIDE DEF b, v
  <2>3. b.cost.minor \in Int
    BY <2>1 DEF UsageBuckets, Option, Money
  <2> QED
    BY <2>1, <2>2, <2>3 DEF Sized
<1>14. v \in [1..n -> Int]
  <2>1. v = [i \in 1..n |-> v[i]]
    BY <1>9
  <2> HIDE DEF v
  <2> QED
    BY <1>13, <2>1
<1> HIDE DEF v
<1>15. FoldLeft(CheckedMinor, 0, v) = Total(v) /\ Total(v) \in Int
  BY <1>9, <1>11, <1>12, <1>13, <1>14, SmallSumFits, TotalType
<1> QED
  BY <1>0, <1>1, <1>3, <1>7, <1>15

\* The sizes of the days' buckets are together those of the costs.
LEMMA BucketsSized ==
    ASSUME RefusalIsApart, NEW usage \in Seq(UsageRows), NEW costs \in Seq(CostRows), SmallCosts(costs),
           NEW buckets, buckets = Anthropic!MergeBuckets(usage, costs)
    PROVE  /\ \A b \in ToSet(buckets) : b.cost # Refused
           /\ buckets \in Seq(UsageBuckets)
           /\ Sized([b \in UsageBuckets |-> DaySize(costs, b.start)], buckets)
<1> DEFINE S == Anthropic!UsageDays(usage) \cup Anthropic!CostDays(costs)
           order == Anthropic!InOrder(S, Anthropic!Earlier)
           m == Cardinality(S)
           key == [x \in ToSet(costs) |-> x.start]
           size == [b \in UsageBuckets |-> DaySize(costs, b.start)]
           groups == [i \in DOMAIN buckets |-> size[buckets[i]]]
<1>1. /\ Lists(order, S, InstantPairs)
      /\ buckets = [i \in DOMAIN order |-> Anthropic!MergedBucket(usage, costs, order[i])]
  BY AnthropicBucketsAre
<1>2. {x.start : x \in ToSet(costs)} \subseteq S
  BY AnthropicSet, Zenon DEF Anthropic!CostDays
<1> HIDE DEF order, S
<1>3. m \in Nat /\ DOMAIN order = 1..m
  BY <1>1 DEF Lists
<1> HIDE DEF m
<1>4. \A i \in 1..m : /\ i \in DOMAIN buckets /\ buckets[i] = Anthropic!MergedBucket(usage, costs, order[i])
                      /\ buckets[i].start = order[i]
  <2>1. \A i : Anthropic!MergedBucket(usage, costs, order[i]).start = order[i]
    BY Zenon DEF Anthropic!MergedBucket, Anthropic!Bucket
  <2> QED
    BY <1>1, <1>3, <2>1
<1>5. DOMAIN buckets = 1..m /\ \A b \in ToSet(buckets) : \E i \in 1..m : b = buckets[i]
  BY <1>1, <1>3 DEF ToSet
<1>6. \A start : /\ Anthropic!CentsFrom(costs, start) \in Int /\ DaySize(costs, start) \in Nat
                 /\ -DaySize(costs, start) <= Anthropic!CentsFrom(costs, start)
                 /\ Anthropic!CentsFrom(costs, start) <= DaySize(costs, start)
  BY CentsFromFits
<1>7. \A b \in ToSet(buckets) : b.cost # Refused
  <2> TAKE b \in ToSet(buckets)
  <2>1. PICK i \in 1..m : b = Anthropic!MergedBucket(usage, costs, order[i])
    BY <1>4, <1>5
  <2> DEFINE cents == Anthropic!CentsFrom(costs, order[i])
             charged == Anthropic!CostsFrom(costs, order[i])
  <2>2. b.cost = IF charged = <<>> THEN None ELSE IF cents = Refused THEN Refused ELSE Dollars(cents)
    BY <2>1, AnthropicSpend, Zenon DEF Anthropic!MergedBucket, Anthropic!Bucket
  <2>3. cents \in Int
    BY <1>6
  <2> HIDE DEF cents, charged
  <2>4. cents # Refused /\ None # Refused /\ Dollars(cents) # Refused
    BY <2>3, DollarsAreMoney DEF RefusalIsApart
  <2> QED
    BY <2>2, <2>4
<1>8. buckets \in Seq(UsageBuckets)
  BY <1>7, MergedBucketsAre
<1>9. size \in [UsageBuckets -> Nat] /\ \A b \in UsageBuckets : size[b] = DaySize(costs, b.start)
  BY <1>6
<1> HIDE DEF size
<1>10. \A i \in 1..m : buckets[i] \in UsageBuckets /\ buckets[i] \in ToSet(buckets)
  <2> TAKE i \in 1..m
  <2>1. i \in DOMAIN buckets
    BY <1>5
  <2>2. buckets[i] \in ToSet(buckets)
    BY ONLY <2>1, Zenon DEF ToSet
  <2>3. buckets[i] \in UsageBuckets
    BY ONLY <1>8, <2>1
  <2> QED
    BY <2>2, <2>3
<1>11. ASSUME NEW b \in ToSet(buckets), b.cost # None
       PROVE  -size[b] <= b.cost.minor /\ b.cost.minor <= size[b]
  <2>1. PICK i \in 1..m : b = buckets[i]
    BY <1>5
  <2>2. b = Anthropic!MergedBucket(usage, costs, order[i]) /\ b.cost # Refused
    BY <1>4, <1>7, <2>1
  <2>3. b.cost.minor = Anthropic!CentsFrom(costs, order[i])
    BY <1>11, <2>2, MergedCostIs
  <2>4. size[b] = DaySize(costs, order[i])
    BY <1>4, <1>9, <1>10, <2>1
  <2> QED
    BY <1>6, <2>3, <2>4
<1>12. ASSUME NEW i \in 1..m
       PROVE  groups[i] \in Int /\ groups[i] = Worth(RowSizes, Gathered(costs, key, order[i]))
  <2>1. groups[i] = size[buckets[i]] /\ size[buckets[i]] = DaySize(costs, order[i])
    BY <1>4, <1>5, <1>9, <1>10
  <2>2. {x \in ToSet(costs) : x.start = order[i]} = {x \in ToSet(costs) : key[x] = order[i]}
    OBVIOUS
  <2>3. Gathered(costs, key, order[i]) = Anthropic!CostsFrom(costs, order[i])
    BY <2>2, CostsFromIs, Zenon DEF Gathered
  <2> HIDE DEF key, groups
  <2> QED
    BY <1>6, <2>1, <2>3 DEF DaySize
<1>13. \A i \in 1..Len(costs) : key[costs[i]] \in S
  <2> TAKE i \in 1..Len(costs)
  <2>1. costs[i] \in ToSet(costs)
    BY DEF ToSet
  <2>2. key[costs[i]] = costs[i].start
    BY <2>1
  <2> QED
    BY <1>2, <2>1, <2>2
<1> HIDE DEF key
<1>14. groups \in [1..m -> Int]
  <2>1. groups = [i \in 1..m |-> groups[i]]
    BY <1>5
  <2> HIDE DEF groups
  <2> QED
    BY <1>12, <2>1
<1>15. Worth(size, buckets) = Total(groups)
  BY Zenon DEF Worth
<1> HIDE DEF groups
<1>16. Grouped(groups, RowSizes, costs, key, order, S)
  BY <1>12, <1>13, <1>14 DEF Grouped, m
<1>17. Total(groups) = Worth(RowSizes, costs)
  <2>1. RowSizes \in [CostRows -> Int]
    BY RowSizesType
  <2> QED
    BY <1>1, <1>16, <2>1, WorthGroups
<1>18. Worth(size, buckets) <= MaxMinor
  BY <1>15, <1>17 DEF SmallCosts
<1>19. Sized(size, buckets)
  BY <1>9, <1>11, <1>18 DEF Sized
<1> QED
  BY <1>7, <1>8, <1>19 DEF size

\* An organization's report that parsed and charges no more than fits is shown.
LEMMA AnthropicFits ==
    ASSUME RefusalIsApart, NEW raw,
           raw.usage \in Seq(Anthropic!RawPages("usage") \cup {Refused}),
           raw.costs \in Seq(Anthropic!RawPages("costs") \cup {Refused}),
           Parsed(raw.usage), Parsed(raw.costs), SmallCosts(Rows(raw.costs))
    PROVE  Anthropic!AnthropicAccount(raw) # Refused
<1> DEFINE account == Anthropic!AnthropicAccount(raw)
           usage == Anthropic!Rows(raw.usage)
           costs == Anthropic!Rows(raw.costs)
           buckets == Anthropic!MergeBuckets(usage, costs)
           budget == [q \in Anthropic!Periods |-> Anthropic!BudgetFor(raw.starts[q], buckets)]
           bad == \/ ~Anthropic!Parsed(raw.usage) \/ ~Anthropic!Parsed(raw.costs)
                  \/ Refused \in {buckets[i].cost : i \in DOMAIN buckets}
                  \/ Refused \in {budget[q] : q \in Anthropic!Periods}
           models == Anthropic!ModelBreakdown(Anthropic!Results(usage))
           platform == Anthropic!PlatformAccount("anthropic-local", "claude", "anthropic.platform",
                                                 budget, buckets, models)
<1>1. account = IF bad THEN Refused ELSE platform
  BY Zenon DEF Anthropic!AnthropicAccount
<1>2. platform # Refused
  <2> HIDE DEF budget, buckets, models
  <2> QED
    BY AccountIsNoRefusal, Zenon DEF Anthropic!PlatformAccount
<1> HIDE DEF platform, account, models
<1>3. Refused \notin ToSet(raw.usage) /\ Refused \notin ToSet(raw.costs)
  BY DEF Parsed
<1>4. usage \in Seq(UsageRows) /\ costs \in Seq(CostRows) /\ SmallCosts(costs)
  BY <1>3, AnthropicPages, ParsedRows, AnthropicRows
<1>5. Anthropic!Parsed(raw.usage) /\ Anthropic!Parsed(raw.costs)
  BY <1>3, AnthropicSet, Zenon DEF Anthropic!Parsed
<1> HIDE DEF usage, costs
<1>6. /\ \A b \in ToSet(buckets) : b.cost # Refused
      /\ buckets \in Seq(UsageBuckets)
      /\ Sized([b \in UsageBuckets |-> DaySize(costs, b.start)], buckets)
  BY <1>4, BucketsSized
<1> HIDE DEF buckets
<1>7. \A i \in DOMAIN buckets : buckets[i].cost # Refused
  BY <1>6, Zenon DEF ToSet
<1>8. \A q \in Anthropic!Periods : budget[q] # Refused
  <2> TAKE q \in Anthropic!Periods
  <2>1. budget[q] = Anthropic!BudgetFor(raw.starts[q], buckets)
    OBVIOUS
  <2>2. Anthropic!BudgetFor(raw.starts[q], buckets) # Refused
    BY <1>6, BudgetFits
  <2> HIDE DEF budget
  <2> QED
    BY <2>1, <2>2
<1> HIDE DEF budget
<1>9. ~bad
  BY <1>5, <1>7, <1>8, Zenon
<1> QED
  BY <1>1, <1>2, <1>9, Zenon DEF account

\* Every result of a row is in an entry.
LEMMA EntriesCover ==
    ASSUME NEW A, NEW T, NEW rows \in Seq(RowsOf(A, T)), NEW row \in ToSet(rows), NEW r \in ToSet(row.results)
    PROVE  \E e \in ToSet(EntriesOf(rows)) : e.result = r
<1> DEFINE entry(x, j) == [start |-> x.start, end |-> x.end, result |-> x.results[j]]
           entries(x) == [j \in DOMAIN x.results |-> entry(x, j)]
           seqs == [i \in DOMAIN rows |-> entries(rows[i])]
           E == EntrySet(A, T)
<1>1. /\ DOMAIN rows = 1..Len(rows) /\ Len(rows) \in Nat
      /\ \A i \in 1..Len(rows) : rows[i] \in RowsOf(A, T)
  OBVIOUS
<1>2. ASSUME NEW x \in RowsOf(A, T) PROVE entries(x) \in Seq(E)
  <2>1. x.start \in A /\ x.end \in A /\ x.results \in Seq(T)
    BY DEF RowsOf
  <2> DEFINE m == Len(x.results)
  <2>2. m \in Nat /\ DOMAIN x.results = 1..m /\ \A j \in 1..m : x.results[j] \in T
    BY <2>1
  <2> HIDE DEF m
  <2>3. entries(x) = [j \in 1..m |-> entry(x, j)]
    BY <2>2
  <2>4. \A j \in 1..m : entry(x, j) \in E
    BY <2>1, <2>2 DEF EntrySet
  <2> HIDE DEF entry, entries
  <2> QED
    BY <2>2, <2>3, <2>4
<1>3. PICK i \in DOMAIN rows : rows[i] = row
  BY Zenon DEF ToSet
<1>4. PICK j \in DOMAIN row.results : row.results[j] = r
  BY Zenon DEF ToSet
<1>5. entry(row, j) \in ToSet(entries(row)) /\ entry(row, j).result = r
  <2>1. entries(row)[j] = entry(row, j) /\ j \in DOMAIN entries(row)
    OBVIOUS
  <2>2. entry(row, j).result = r
    BY <1>4
  <2> HIDE DEF entries, entry
  <2> QED
    BY <2>1, <2>2, Zenon DEF ToSet
<1> HIDE DEF entries, entry, E
<1>6. seqs \in Seq(Seq(E)) /\ DOMAIN seqs = 1..Len(rows)
  BY <1>1, <1>2
<1>7. i \in DOMAIN seqs /\ seqs[i] = entries(row)
  BY <1>3
<1>8. EntriesOf(rows) = FlattenSeq(seqs)
  BY Zenon DEF EntriesOf, seqs, entries, entry
<1> HIDE DEF seqs
<1>9. ToSet(FlattenSeq(seqs)) = UNION {ToSet(seqs[k]) : k \in DOMAIN seqs}
  BY <1>6, FlattenIs
<1>10. entry(row, j) \in ToSet(EntriesOf(rows))
  BY <1>5, <1>7, <1>8, <1>9
<1> QED
  BY <1>5, <1>10

\* Rows whose costs may all be charged, and the size of an entry in cents.
Chargeable(costs) == \A row \in ToSet(costs) : \A r \in ToSet(row.results) : NamesAmount(r)
EntrySize(e) == Size(AnthropicCents(e))

\* The sizes of the entries add up to those of their rows.
LEMMA AnthropicSmall ==
    ASSUME RefusalIsApart, NEW costs \in Seq(CostRows), Chargeable(costs)
    PROVE  SumOf(EntrySize, EntriesOf(costs)) = Worth(RowSizes, costs)
<1> DEFINE T == Anthropic!RawCostResults
           E == EntrySet(Instants, T)
           V == EntryWorth(Instants, T, SizeWorth)
           entries == EntriesOf(costs)
<1>1. CostRows = RowsOf(Instants, T) /\ SizeWorth \in [T -> Int]
  BY SizeWorthType DEF CostRows, RowsOf
<1>2. costs \in Seq(RowsOf(Instants, T))
  BY <1>1
<1>3. /\ entries \in Seq(E)
      /\ \A e \in ToSet(entries) : \E row \in ToSet(costs) :
             /\ e.start = row.start /\ e.end = row.end /\ e.result \in ToSet(row.results)
  BY <1>2, EntriesAre
<1>4. \A e \in E : e.result \in T /\ V[e] = SizeWorth[e.result]
  BY DEF EntrySet, EntryWorth
<1>5. Worth(V, entries) = Worth(RowSizes, costs)
  <2> HIDE DEF T
  <2> QED
    BY <1>1, <1>2, WorthEntries DEF RowSizes, T
<1> HIDE DEF V, E, entries
<1>6. ASSUME NEW i \in DOMAIN entries PROVE EntrySize(entries[i]) = V[entries[i]]
  <2> DEFINE e == entries[i]
  <2>1. e \in E /\ e \in ToSet(entries)
    BY <1>3 DEF ToSet
  <2>2. NamesAmount(e.result)
    BY <1>3, <2>1 DEF Chargeable
  <2>3. AnthropicCents(e) = CostCents(e.result)
    BY <2>2 DEF AnthropicCents, CostCents, NamesAmount
  <2>4. e.result \in T /\ V[e] = SizeWorth[e.result]
    BY <1>4, <2>1
  <2> HIDE DEF e
  <2>5. SizeWorth[e.result] = Size(CostCents(e.result))
    BY <2>4, SizeWorthType
  <2>6. EntrySize(e) = V[e]
    BY <2>3, <2>4, <2>5 DEF EntrySize
  <2> QED
    BY <2>6 DEF e
<1>7. [i \in DOMAIN entries |-> EntrySize(entries[i])] = [i \in DOMAIN entries |-> V[entries[i]]]
  BY <1>6, Zenon
<1>8. SumOf(EntrySize, entries) = Total([i \in DOMAIN entries |-> EntrySize(entries[i])])
  BY Zenon DEF SumOf, Total
<1>9. Worth(V, entries) = Total([i \in DOMAIN entries |-> V[entries[i]]])
  BY Zenon DEF Worth
<1> QED
  BY <1>5, <1>7, <1>8, <1>9 DEF entries

\* What is wrong with an organization's report: a page or a cost.
LEMMA AnthropicMalformed ==
    ASSUME RefusalIsApart, source = "anthropic",
           report.costs \in Seq(Anthropic!RawPages("costs") \cup {Refused})
    PROVE  Malformed <=> ~Parsed(report.usage) \/ ~Parsed(report.costs) \/ ~Chargeable(Rows(report.costs))
<1> DEFINE entries == Entries("costs")
           Bad(e) == e.result.amount = Refused \/ e.result.currency \notin {None, "USD"}
           wrong == \E e \in ToSet(entries) : Bad(e)
<1>1. Malformed <=> ~Parsed(report.usage) \/ ~Parsed(report.costs) \/ wrong
  <2> HIDE DEF entries
  <2>1. /\ source \in {"openai", "anthropic"} /\ source # "openai"
        /\ source \notin {"cursorPlatform", "codex", "claude"}
    OBVIOUS
  <2>2. Malformed <=> \/ ~Parsed(report.usage) \/ ~Parsed(report.costs)
                      \/ \E e \in ToSet(entries) :
                            \/ e.result.amount = Refused
                                 /\ (source = "openai" => e.result.currency # None)
                            \/ e.result.currency \notin {None, "USD"}
                                 /\ (source = "openai" => e.result.amount # None)
    BY <2>1 DEF Malformed, entries
  <2> QED
    BY <2>1, <2>2
<1>2. entries = EntriesOf(Rows(report.costs))
  BY Zenon DEF Entries, EntriesOf
<1>3. \A e : ~Bad(e) <=> NamesAmount(e.result)
  BY DEF NamesAmount, RefusalIsApart
<1> HIDE DEF entries, Bad
<1>4. ASSUME Parsed(report.costs) PROVE wrong <=> ~Chargeable(Rows(report.costs))
  <2> DEFINE rows == Rows(report.costs)
             T == Anthropic!RawCostResults
  <2>1. Refused \notin ToSet(report.costs)
    BY <1>4 DEF Parsed
  <2>2. rows \in Seq(CostRows)
    BY <2>1, AnthropicPages, ParsedRows
  <2>3. CostRows = RowsOf(Instants, T)
    BY DEF CostRows, RowsOf
  <2> HIDE DEF rows, T
  <2>4. rows \in Seq(RowsOf(Instants, T))
    BY <2>2, <2>3
  <2>5. \A e \in ToSet(EntriesOf(rows)) : \E row \in ToSet(rows) : e.result \in ToSet(row.results)
    BY <2>4, EntriesAre
  <2>6. \A row \in ToSet(rows) : \A r \in ToSet(row.results) :
            \E e \in ToSet(EntriesOf(rows)) : e.result = r
    BY <2>4, EntriesCover
  <2>7. entries = EntriesOf(rows)
    BY <1>2 DEF rows
  <2>8. wrong <=> ~Chargeable(rows)
    BY <1>3, <2>5, <2>6, <2>7 DEF Chargeable
  <2> QED
    BY <2>8 DEF rows
<1> QED
  BY <1>1, <1>4

\* An organization's report is shown whole or not at all.
LEMMA AnthropicWhole ==
    ASSUME RefusalIsApart, source = "anthropic",
           report.usage \in Seq(Anthropic!RawPages("usage") \cup {Refused}),
           report.costs \in Seq(Anthropic!RawPages("costs") \cup {Refused})
    PROVE  /\ Malformed => Normalize(source, report) = Refused
           /\ Normalize(source, report) = Refused => Malformed \/ ~Small
<1> DEFINE account == Anthropic!AnthropicAccount(report)
           costs == Rows(report.costs)
<1>1. Normalize(source, report) = account
  BY DEF Normalize
<1>2. Malformed <=> ~Parsed(report.usage) \/ ~Parsed(report.costs) \/ ~Chargeable(costs)
  BY AnthropicMalformed
<1>3. ASSUME account # Refused
      PROVE  Parsed(report.usage) /\ Parsed(report.costs) /\ Chargeable(costs)
  BY <1>3, AnthropicCharges DEF Chargeable
<1>4. ASSUME Parsed(report.usage), Parsed(report.costs), Chargeable(costs), Small
      PROVE  account # Refused
  <2>1. Refused \notin ToSet(report.costs)
    BY <1>4 DEF Parsed
  <2>2. costs \in Seq(CostRows)
    BY <2>1, AnthropicPages, ParsedRows
  <2>3. SumOf(EntrySize, Entries("costs")) <= MaxMinor
    <3>1. Small <=> SumOf(LAMBDA e : Size(AnthropicCents(e)), Entries("costs")) <= MaxMinor
      BY DEF Small
    <3>2. \A s : SumOf(LAMBDA e : Size(AnthropicCents(e)), s) = SumOf(EntrySize, s)
      BY Zenon DEF SumOf, EntrySize
    <3> QED
      BY <1>4, <3>1, <3>2, Zenon
  <2>4. Entries("costs") = EntriesOf(costs)
    BY Zenon DEF Entries, EntriesOf
  <2>5. Worth(RowSizes, costs) <= MaxMinor
    BY <1>4, <2>2, <2>3, <2>4, AnthropicSmall
  <2>6. SmallCosts(costs)
    BY <1>4, <2>5 DEF SmallCosts, Chargeable
  <2> QED
    BY <1>4, <2>6, AnthropicFits
<1> HIDE DEF account, costs
<1> QED
  BY <1>1, <1>2, <1>3, <1>4

\* So is a team's.
LEMMA TeamWhole ==
    ASSUME RefusalIsApart, source = "cursorPlatform",
           report.costs \in Seq(Cursor!RawPages("costs") \cup {Refused})
    PROVE  /\ Malformed => Normalize(source, report) = Refused
           /\ Normalize(source, report) = Refused => Malformed \/ ~Small
<1> DEFINE account == Cursor!CursorPlatformAccount(report)
           rows == ToSet(Rows(report.usage))
           wrong == \/ ~Parsed(report.usage) \/ ~Parsed(report.costs)
                    \/ \E row \in rows : row.day = None \/ ~IsDate(row.day)
<1>1. Normalize(source, report) = account
  BY DEF Normalize
<1>2. Malformed <=> wrong
  <2> HIDE DEF rows
  <2> QED
    BY DEF Malformed, rows
<1>3. account = Refused <=> wrong \/ Cursor!SpentCents(report.costs) = Refused
  BY CursorTeamRefuses
<1>4. ASSUME Parsed(report.costs), Small PROVE Cursor!SpentCents(report.costs) # Refused
  <2>1. report.costs \in Seq(Option(Seq(Cursor!RawSpendMembers)))
    BY <1>4, CursorParsedPages
  <2>2. Total(SpendSizes(Cursor!Members(report.costs))) <= 10 * MaxMinor
    BY <1>4, <2>1, SmallTeam
  <2> QED
    BY <2>1, <2>2, TeamSpendFits
<1>5. ~wrong => Parsed(report.costs)
  OBVIOUS
<1> HIDE DEF account, wrong
<1> QED
  BY <1>1, <1>2, <1>3, <1>4, <1>5

\* So is a plan's.
LEMMA PlanWhole ==
    ASSUME RefusalIsApart, source \in Plans, report \in RawReports(source)
    PROVE  Malformed <=> Normalize(source, report) = Refused
<1>1. CASE source = "codex"
  <2> DEFINE account == Codex!CodexAccount(report)
             wrong == \/ \E row \in ToSet(report.days) : ~IsDate(row.date)
                      \/ /\ report.main.credits # None
                         /\ report.main.credits.balance = Refused
                         /\ report.main.credits.has \/ report.main.credits.unlimited
  <2>1. report \in Codex!RawReports
    BY <1>1 DEF RawReports
  <2>2. account = Refused <=> wrong
    BY <2>1, CodexRefuses
  <2> HIDE DEF wrong
  <2>3. Malformed <=> wrong
    BY <1>1 DEF Malformed, wrong
  <2>4. Normalize(source, report) = account
    BY <1>1 DEF Normalize
  <2> HIDE DEF account
  <2> QED
    BY <2>2, <2>3, <2>4
<1>2. CASE source = "claude"
  <2> DEFINE account == Claude!ClaudeAccount(report)
             wrong == \E id \in DOMAIN report.windows :
                         /\ report.windows[id] # None /\ report.windows[id].resetsAt # None
                         /\ ParseTimestamp(report.windows[id].resetsAt) = Refused
  <2>1. report \in Claude!RawReports
    BY <1>2 DEF RawReports
  <2>2. account = Refused <=> wrong
    BY <2>1, ClaudeRefuses
  <2> HIDE DEF wrong
  <2>3. Malformed <=> wrong
    BY <1>2 DEF Malformed, wrong
  <2>4. Normalize(source, report) = account
    BY <1>2 DEF Normalize
  <2> HIDE DEF account
  <2> QED
    BY <2>2, <2>3, <2>4
<1>3. CASE source = "cursorPlan"
  <2>1. ~Malformed
    BY <1>3 DEF Malformed
  <2>2. Normalize(source, report) = Cursor!CursorPlanAccount(report)
    BY <1>3 DEF Normalize
  <2> QED
    BY <2>1, <2>2, CursorPlanAccepts
<1> QED
  BY <1>1, <1>2, <1>3 DEF Plans

\* Whoever reported it, except OpenAI, whose amounts are scaled by powers of ten.
LEMMA WholeOrNone ==
    ASSUME RefusalIsApart, ReportInv, source # "openai"
    PROVE  AllOrNothing
<1> SUFFICES ASSUME envelope # None
             PROVE  /\ Malformed => envelope.status = "error"
                    /\ envelope.status = "error" => Malformed \/ ~Small
  BY DEF AllOrNothing
<1>1. source # None /\ (envelope.status = "error" <=> Normalize(source, report) = Refused)
  BY ErrorIsRefusal
<1>2. \/ source \in Plans /\ report \in RawReports(source)
      \/ source \in Platforms /\ OfPages(source, report)
  BY <1>1, ReportAssumption DEF ReportInv
<1>3. CASE source \in Plans /\ report \in RawReports(source)
  BY <1>1, <1>3, PlanWhole
<1>4. CASE source = "anthropic" /\ OfPages(source, report)
  <2>1. /\ report.usage \in Seq(Anthropic!RawPages("usage") \cup {Refused})
        /\ report.costs \in Seq(Anthropic!RawPages("costs") \cup {Refused})
    BY <1>4 DEF OfPages, Feeds, RawPages
  <2> QED
    BY <1>1, <1>4, <2>1, AnthropicWhole
<1>5. CASE source = "cursorPlatform" /\ OfPages(source, report)
  <2>1. report.costs \in Seq(Cursor!RawPages("costs") \cup {Refused})
    BY <1>5 DEF OfPages, Feeds, RawPages
  <2> QED
    BY <1>1, <1>5, <2>1, TeamWhole
<1> QED
  BY <1>2, <1>3, <1>4, <1>5 DEF Platforms

\* A report is shown whole or not at all, whichever provider but OpenAI it is from:
\* one malformed page, amount, date or instant anywhere refuses all of it, and
\* nothing else does while the sums fit their width.
THEOREM ShownAllOrNothing == RefusalIsApart => (Spec => [](source # "openai" => AllOrNothing))
<1> SUFFICES ASSUME RefusalIsApart PROVE Spec => [](source # "openai" => AllOrNothing)
  OBVIOUS
<1>1. ReportInv => (source # "openai" => AllOrNothing)
  BY WholeOrNone
<1> QED
  BY <1>1, ReportsStay, PTL

-----------------------------------------------------------------------------
(***************************************************************************)
(* OpenAI's decimals.                                                      *)
(***************************************************************************)
\* What a power of ten is, of which the provers know the values only.
PowersOfTen == \A k \in Nat : 10 ^ (k + 1) = 10 * 10 ^ k

\* Decimals with no more places than millionths have, and what they are in those.
Decimals == [coefficient : Int, scale : 0..6]
DecimalMicros(d) == d.coefficient * 10 ^ (6 - d.scale)

\* The powers up to a million.
LEMMA PowersAre ==
    /\ 10 ^ 0 = 1 /\ 10 ^ 1 = 10 /\ 10 ^ 2 = 100 /\ 10 ^ 3 = 1000 /\ 10 ^ 4 = 10000
    /\ 10 ^ 5 = 100000 /\ 10 ^ 6 = 1000000
  OBVIOUS

\* Each is ten of the one before.
LEMMA PowerNext == ASSUME NEW k \in 0..5 PROVE 10 ^ (k + 1) = 10 * 10 ^ k
<1>1. CASE k = 0
  BY <1>1
<1>2. CASE k = 1
  BY <1>2
<1>3. CASE k = 2
  BY <1>3
<1>4. CASE k = 3
  BY <1>4
<1>5. CASE k = 4
  BY <1>5
<1>6. CASE k = 5
  BY <1>6
<1> QED
  BY <1>1, <1>2, <1>3, <1>4, <1>5, <1>6

\* None of them is anything else.
LEMMA PowerIs == ASSUME NEW k \in 0..6 PROVE 10 ^ k \in {1, 10, 100, 1000, 10000, 100000, 1000000}
<1>1. CASE k = 0
  BY <1>1
<1>2. CASE k = 1
  BY <1>2
<1>3. CASE k = 2
  BY <1>3
<1>4. CASE k = 3
  BY <1>4
<1>5. CASE k = 4
  BY <1>5
<1>6. CASE k = 5
  BY <1>6
<1>7. CASE k = 6
  BY <1>7
<1> QED
  BY <1>1, <1>2, <1>3, <1>4, <1>5, <1>6, <1>7

\* Powers multiply as their exponents add.
LEMMA PowersAdd ==
    ASSUME NEW a \in 0..6, NEW b \in 0..6, a + b <= 6
    PROVE  10 ^ (a + b) = 10 ^ a * 10 ^ b
<1> DEFINE S == {i \in 0..b : 10 ^ (a + i) = 10 ^ a * 10 ^ i}
<1>0. \A k \in 0..6 : 10 ^ k \in Int
  BY PowerIs
<1>1. 0 \in S
  BY <1>0, PowersAre
<1>2. ASSUME NEW i \in 1..b, i - 1 \in S PROVE i \in S
  <2>1. i - 1 \in 0..5 /\ a + (i - 1) \in 0..5 /\ (i - 1) + 1 = i /\ (a + (i - 1)) + 1 = a + i
    OBVIOUS
  <2>2. 10 ^ i = 10 * 10 ^ (i - 1)
    BY <2>1, PowerNext
  <2>3. 10 ^ (a + i) = 10 * 10 ^ (a + (i - 1))
    BY <2>1, PowerNext
  <2>4. 10 ^ (a + (i - 1)) = 10 ^ a * 10 ^ (i - 1)
    BY <1>2
  <2> DEFINE A == 10 ^ a
             B == 10 ^ (i - 1)
  <2>5. A \in Int /\ B \in Int
    BY <1>0, <2>1
  <2> HIDE DEF A, B
  <2>6. 10 * (A * B) = A * (10 * B)
    BY <2>5
  <2>7. 10 ^ (a + i) = 10 ^ a * 10 ^ i
    BY <2>2, <2>3, <2>4, <2>6, Zenon DEF A, B
  <2> QED
    BY <2>7
<1> HIDE DEF S
<1>3. \A i \in 0..b : i \in S
  <2>1. b \in Nat
    OBVIOUS
  <2> QED
    BY ONLY <2>1, <1>1, <1>2, Stepwise
<1>4. b \in S
  BY <1>3
<1> QED
  BY <1>4 DEF S

\* A number divided by a power that divides it.
LEMMA QuotientIs ==
    ASSUME NEW c \in Int, NEW k \in 0..6, c % (10 ^ k) = 0
    PROVE  Quotient(c, 10 ^ k) \in Int /\ Quotient(c, 10 ^ k) * 10 ^ k = c
<1> DEFINE p == 10 ^ k
<1>1. p \in {1, 10, 100, 1000, 10000, 100000, 1000000}
  <2>1. CASE k = 0
    BY <2>1
  <2>2. CASE k = 1
    BY <2>2
  <2>3. CASE k = 2
    BY <2>3
  <2>4. CASE k = 3
    BY <2>4
  <2>5. CASE k = 4
    BY <2>5
  <2>6. CASE k = 5
    BY <2>6
  <2>7. CASE k = 6
    BY <2>7
  <2> QED
    BY ONLY k \in 0..6, <2>1, <2>2, <2>3, <2>4, <2>5, <2>6, <2>7
<1>2. c % p = 0
  OBVIOUS
<1> HIDE DEF p
<1>3. Quotient(c, p) \in Int /\ Quotient(c, p) * p = c
  <2>1. CASE p = 1
    BY <1>2, <2>1 DEF Quotient
  <2>2. CASE p = 10
    BY <1>2, <2>2 DEF Quotient
  <2>3. CASE p = 100
    BY <1>2, <2>3 DEF Quotient
  <2>4. CASE p = 1000
    BY <1>2, <2>4 DEF Quotient
  <2>5. CASE p = 10000
    BY <1>2, <2>5 DEF Quotient
  <2>6. CASE p = 100000
    BY <1>2, <2>6 DEF Quotient
  <2>7. CASE p = 1000000
    BY <1>2, <2>7 DEF Quotient
  <2> QED
    BY <1>1, <2>1, <2>2, <2>3, <2>4, <2>5, <2>6, <2>7
<1> QED
  BY <1>3 DEF p

\* A few numbers have a greatest.
LEMMA GreatestIsThere ==
    ASSUME NEW Z \in SUBSET (0..6), Z # {}
    PROVE  OpenAi!Max(Z) \in Z
<1>1. \E x \in Z : \A y \in Z : x >= y
  <2>0. \A y \in Z : y \in {0, 1, 2, 3, 4, 5, 6}
    OBVIOUS
  <2>1. CASE 6 \in Z
    BY <2>0, <2>1
  <2>2. CASE 6 \notin Z /\ 5 \in Z
    BY <2>0, <2>2
  <2>3. CASE 6 \notin Z /\ 5 \notin Z /\ 4 \in Z
    BY <2>0, <2>3
  <2>4. CASE 6 \notin Z /\ 5 \notin Z /\ 4 \notin Z /\ 3 \in Z
    BY <2>0, <2>4
  <2>5. CASE 6 \notin Z /\ 5 \notin Z /\ 4 \notin Z /\ 3 \notin Z /\ 2 \in Z
    BY <2>0, <2>5
  <2>6. CASE 6 \notin Z /\ 5 \notin Z /\ 4 \notin Z /\ 3 \notin Z /\ 2 \notin Z /\ 1 \in Z
    BY <2>0, <2>6
  <2>7. CASE 6 \notin Z /\ 5 \notin Z /\ 4 \notin Z /\ 3 \notin Z /\ 2 \notin Z /\ 1 \notin Z /\ 0 \in Z
    BY <2>0, <2>7
  <2>8. PICK z \in Z : TRUE
    BY Zenon
  <2>9. z \in {0, 1, 2, 3, 4, 5, 6}
    BY <2>0, <2>8
  <2>10. 0 \in Z \/ 1 \in Z \/ 2 \in Z \/ 3 \in Z \/ 4 \in Z \/ 5 \in Z \/ 6 \in Z
    BY <2>8, <2>9, Zenon
  <2> QED
    BY ONLY <2>1, <2>2, <2>3, <2>4, <2>5, <2>6, <2>7, <2>10, Zenon
<1> QED
  BY <1>1, Zenon DEF OpenAi!Max

\* The canonical form is worth what it is made of.
LEMMA NewDecimalIs ==
    ASSUME NEW c \in Int, NEW s \in 0..6
    PROVE  /\ OpenAi!NewDecimal(c, s) \in Decimals
           /\ DecimalMicros(OpenAi!NewDecimal(c, s)) = c * 10 ^ (6 - s)
<1> DEFINE Z == {k \in 0..s : c % (10 ^ k) = 0}
           zeros == OpenAi!Max(Z)
           q == Quotient(c, 10 ^ zeros)
           d == OpenAi!NewDecimal(c, s)
<1>1. zeros \in 0..s /\ c % (10 ^ zeros) = 0
  <2>1. c % (10 ^ 0) = 0
    BY PowersAre
  <2>2. 0 \in Z /\ Z \in SUBSET (0..6)
    BY <2>1
  <2> HIDE DEF Z
  <2>3. zeros \in Z
    BY <2>2, GreatestIsThere
  <2> QED
    BY <2>3 DEF Z
<1>2. d = IF c = 0 THEN OpenAi!Zero ELSE [coefficient |-> q, scale |-> s - zeros]
  BY Zenon DEF OpenAi!NewDecimal, OpenAi!Quotient, Quotient
<1> HIDE DEF zeros, d
<1>3. 10 ^ (6 - s) \in Int /\ 10 ^ 6 \in Int
  BY PowerIs
<1>4. CASE c = 0
  <2>1. d.coefficient = 0 /\ d.scale = 0 /\ d \in Decimals
    BY <1>2, <1>4 DEF OpenAi!Zero, Decimals
  <2>2. DecimalMicros(d) = 0
    BY <1>3, <2>1 DEF DecimalMicros
  <2>3. c * 10 ^ (6 - s) = 0
    BY <1>3, <1>4
  <2> QED
    BY <2>1, <2>2, <2>3 DEF d
<1>5. CASE c # 0
  <2>1. zeros \in 0..6 /\ s - zeros \in 0..6 /\ 6 - s \in 0..6
    BY <1>1
  <2>2. q \in Int /\ q * 10 ^ zeros = c
    BY <1>1, <2>1, QuotientIs
  <2> HIDE DEF q
  <2>3. d \in Decimals /\ d.coefficient = q /\ d.scale = s - zeros
    BY <1>2, <1>5, <2>1, <2>2 DEF Decimals
  <2>4. 10 ^ (6 - (s - zeros)) = 10 ^ (6 - s) * 10 ^ zeros
    <3>1. 6 - (s - zeros) = (6 - s) + zeros /\ (6 - s) + zeros <= 6
      BY <1>1
    <3> QED
      BY <2>1, <3>1, PowersAdd
  <2> DEFINE A == 10 ^ (6 - s)
             B == 10 ^ zeros
  <2>5. A \in Int /\ B \in Int
    BY <2>1, PowerIs
  <2>6. DecimalMicros(d) = q * (A * B)
    BY <2>3, <2>4 DEF DecimalMicros
  <2> HIDE DEF A, B
  <2>7. q * (A * B) = (q * B) * A
    BY <2>2, <2>5
  <2>8. DecimalMicros(d) = c * A
    BY <2>2, <2>6, <2>7 DEF B
  <2> QED
    BY <2>3, <2>8 DEF d, A
<1> QED
  BY <1>4, <1>5

\* A number scaled by a power is exact where it is not refused.
LEMMA ScaledIs ==
    ASSUME NEW c \in Int, NEW k, OpenAi!Scaled(c, k) # Refused
    PROVE  OpenAi!Scaled(c, k) = c * 10 ^ k /\ OpenAi!Scaled(c, k) \in Int
<1> DEFINE power == OpenAi!PowerOfTen(k)
           scaled == OpenAi!Scaled(c, k)
<1>1. scaled = IF power = Refused THEN Refused
               ELSE IF c * power \in (-MaxCoefficient - 1)..MaxCoefficient THEN c * power ELSE Refused
  BY Zenon DEF OpenAi!Scaled
<1>2. power = IF 10 ^ k <= MaxCoefficient THEN 10 ^ k ELSE Refused
  BY Zenon DEF OpenAi!PowerOfTen
<1> HIDE DEF power, scaled
<1>3. scaled # Refused
  BY DEF scaled
<1>4. power = 10 ^ k /\ scaled = c * power /\ c * power \in (-MaxCoefficient - 1)..MaxCoefficient
  BY <1>1, <1>2, <1>3, Zenon
<1>5. scaled \in Int
  BY <1>4, WidthAssumption
<1> QED
  BY <1>4, <1>5 DEF scaled

\* A sum of decimals that is not refused is exact.
LEMMA AddDecimalIs ==
    ASSUME NEW a \in Decimals \cup {Refused}, NEW b \in Decimals \cup {Refused}
    PROVE  /\ OpenAi!AddDecimal(a, b) \in Decimals \cup {Refused}
           /\ OpenAi!AddDecimal(a, b) # Refused =>
                 /\ a # Refused /\ b # Refused
                 /\ DecimalMicros(OpenAi!AddDecimal(a, b)) = DecimalMicros(a) + DecimalMicros(b)
<1> DEFINE scale == IF a.scale > b.scale THEN a.scale ELSE b.scale
           left == OpenAi!Scaled(a.coefficient, scale - a.scale)
           right == OpenAi!Scaled(b.coefficient, scale - b.scale)
           sum == OpenAi!AddDecimal(a, b)
           whole == OpenAi!NewDecimal(left + right, scale)
<1>1. sum = IF Refused \in {a, b} THEN Refused
            ELSE IF a.coefficient = 0 THEN b
            ELSE IF b.coefficient = 0 THEN a
            ELSE IF Refused \in {left, right} THEN Refused
            ELSE IF left + right \in (-MaxCoefficient - 1)..MaxCoefficient THEN whole ELSE Refused
  BY Zenon DEF OpenAi!AddDecimal
<1> HIDE DEF sum, whole
<1>2. \A d \in Decimals : /\ d.coefficient \in Int /\ d.scale \in 0..6 /\ 10 ^ (6 - d.scale) \in Int
                          /\ d.coefficient = 0 => DecimalMicros(d) = 0
                          /\ DecimalMicros(d) \in Int
  <2> TAKE d \in Decimals
  <2>1. d.coefficient \in Int /\ d.scale \in 0..6 /\ 6 - d.scale \in 0..6
    BY DEF Decimals
  <2> DEFINE p == 10 ^ (6 - d.scale)
  <2>2. p \in Int
    BY <2>1, PowerIs
  <2> HIDE DEF p
  <2>3. d.coefficient * p \in Int /\ (d.coefficient = 0 => d.coefficient * p = 0)
    BY <2>1, <2>2
  <2> QED
    BY <2>1, <2>2, <2>3 DEF p, DecimalMicros
<1>3. CASE a = Refused \/ b = Refused
  <2>1. sum = Refused
    BY <1>1, <1>3
  <2> QED
    BY <2>1 DEF sum
<1>4. CASE a # Refused /\ b # Refused /\ a.coefficient = 0
  <2>1. a \in Decimals /\ b \in Decimals /\ sum = b
    BY <1>1, <1>4
  <2>2. DecimalMicros(a) = 0 /\ DecimalMicros(b) \in Int
    BY <1>2, <1>4, <2>1
  <2> QED
    BY <1>4, <2>1, <2>2 DEF sum
<1>5. CASE a # Refused /\ b # Refused /\ a.coefficient # 0 /\ b.coefficient = 0
  <2>1. a \in Decimals /\ b \in Decimals /\ sum = a
    BY <1>1, <1>5
  <2>2. DecimalMicros(b) = 0 /\ DecimalMicros(a) \in Int
    BY <1>2, <1>5, <2>1
  <2> QED
    BY <1>5, <2>1, <2>2 DEF sum
<1>6. CASE a # Refused /\ b # Refused /\ a.coefficient # 0 /\ b.coefficient # 0
  <2>1. a \in Decimals /\ b \in Decimals
    BY <1>6
  <2> DEFINE P == a.scale
             Q == b.scale
  <2>11. a.coefficient \in Int /\ P \in 0..6 /\ b.coefficient \in Int /\ Q \in 0..6
    BY <1>2, <2>1
  <2>12. scale = IF P > Q THEN P ELSE Q
    OBVIOUS
  <2> HIDE DEF P, Q, scale
  <2>13. scale \in 0..6 /\ scale - P \in 0..6 /\ scale - Q \in 0..6 /\ 6 - scale \in 0..6
    BY <2>11, <2>12
  <2>2. /\ a.coefficient \in Int /\ a.scale \in 0..6 /\ b.coefficient \in Int /\ b.scale \in 0..6
        /\ scale \in 0..6 /\ scale - a.scale \in 0..6 /\ scale - b.scale \in 0..6 /\ 6 - scale \in 0..6
    BY <2>11, <2>13 DEF P, Q
  <2> HIDE DEF scale, left, right
  <2>3. sum = IF Refused \in {left, right} THEN Refused
              ELSE IF left + right \in (-MaxCoefficient - 1)..MaxCoefficient THEN whole ELSE Refused
    BY <1>1, <1>6
  <2>4. ASSUME left # Refused, right # Refused
        PROVE  whole \in Decimals /\ DecimalMicros(whole) = DecimalMicros(a) + DecimalMicros(b)
    <3>1. left = a.coefficient * 10 ^ (scale - a.scale) /\ left \in Int
      BY <2>2, <2>4, ScaledIs DEF left
    <3>2. right = b.coefficient * 10 ^ (scale - b.scale) /\ right \in Int
      BY <2>2, <2>4, ScaledIs DEF right
    <3>3. whole \in Decimals /\ DecimalMicros(whole) = (left + right) * 10 ^ (6 - scale)
      <4>1. left + right \in Int
        BY <3>1, <3>2
      <4> QED
        BY <2>2, <4>1, NewDecimalIs DEF whole
    <3>4. ASSUME NEW d \in Decimals, scale - d.scale \in 0..6
          PROVE  d.coefficient * 10 ^ (scale - d.scale) * 10 ^ (6 - scale) = DecimalMicros(d)
      <4>1. 6 - d.scale = (scale - d.scale) + (6 - scale) /\ (scale - d.scale) + (6 - scale) <= 6
        BY <1>2, <2>2
      <4>2. 10 ^ (6 - d.scale) = 10 ^ (scale - d.scale) * 10 ^ (6 - scale)
        BY <2>2, <3>4, <4>1, PowersAdd
      <4> DEFINE A == 10 ^ (scale - d.scale)
                 B == 10 ^ (6 - scale)
                 c == d.coefficient
      <4>3. A \in Int /\ B \in Int /\ c \in Int
        BY <1>2, <2>2, <3>4, PowerIs
      <4>4. DecimalMicros(d) = c * (A * B)
        BY <4>2 DEF DecimalMicros
      <4> HIDE DEF A, B, c
      <4>5. c * A * B = c * (A * B)
        BY <4>3
      <4> QED
        BY <4>4, <4>5 DEF A, B, c
    <3> DEFINE B == 10 ^ (6 - scale)
    <3>5. B \in Int
      BY <2>2, PowerIs
    <3>6. left * B = DecimalMicros(a) /\ right * B = DecimalMicros(b)
      BY <2>1, <2>2, <3>1, <3>2, <3>4
    <3> HIDE DEF B
    <3>7. (left + right) * B = left * B + right * B
      BY <3>1, <3>2, <3>5
    <3> QED
      BY <3>3, <3>6, <3>7 DEF B
  <2> QED
    BY <1>6, <2>3, <2>4 DEF sum
<1> QED
  BY <1>3, <1>4, <1>5, <1>6

\* An amount OpenAI writes that is no finer than a millionth.
SourceAmounts == [digits : Int, fraction : Nat, exponent : Int]
Fine(amount) == amount.fraction - amount.exponent <= 6

\* Its decimal is exact where it is not refused.
LEMMA FromSourceIs ==
    ASSUME PowersOfTen, NEW amount \in SourceAmounts, Fine(amount)
    PROVE  /\ OpenAi!FromSource(amount) \in Decimals \cup {Refused}
           /\ Micros(amount) \in Int
           /\ OpenAi!FromSource(amount) # Refused => DecimalMicros(OpenAi!FromSource(amount)) = Micros(amount)
<1> DEFINE places == amount.fraction - amount.exponent
           digits == amount.digits
           shifted == OpenAi!Scaled(digits, -places)
           d == OpenAi!FromSource(amount)
<1>1. places \in Int /\ places <= 6 /\ digits \in Int
  BY DEF SourceAmounts, Fine
<1>2. 6 - amount.fraction + amount.exponent = 6 - places /\ 6 - places \in Nat
  BY DEF SourceAmounts, Fine
<1>3. Micros(amount) = digits * 10 ^ (6 - places)
  BY <1>2 DEF Micros
<1>4. d = IF digits = 0 THEN OpenAi!Zero
          ELSE IF places >= 0 THEN OpenAi!NewDecimal(digits, places)
          ELSE IF shifted = Refused THEN Refused ELSE OpenAi!NewDecimal(shifted, 0)
  BY Zenon DEF OpenAi!FromSource
<1> HIDE DEF places, digits, shifted, d
<1>5. \A k \in Nat : 10 ^ k \in Int
  BY Z3
<1>6. Micros(amount) \in Int
  <2> DEFINE p == 10 ^ (6 - places)
  <2>1. p \in Int
    BY <1>2, <1>5
  <2> HIDE DEF p
  <2>2. digits * p \in Int
    BY <1>1, <2>1
  <2> QED
    BY <1>3, <2>2 DEF p
<1>7. CASE digits = 0
  <2>1. d.coefficient = 0 /\ d.scale = 0 /\ d \in Decimals
    BY <1>4, <1>7 DEF OpenAi!Zero, Decimals
  <2>2. DecimalMicros(d) = 0
    BY <2>1, PowersAre DEF DecimalMicros
  <2>3. Micros(amount) = 0
    <3> DEFINE p == 10 ^ (6 - places)
    <3>1. p \in Int
      BY <1>2, <1>5
    <3> HIDE DEF p
    <3>2. digits * p = 0
      BY <1>7, <3>1
    <3> QED
      BY <1>3, <3>2 DEF p
  <2> QED
    BY <1>6, <2>1, <2>2, <2>3 DEF d
<1>8. CASE digits # 0 /\ places >= 0
  <2>1. d = OpenAi!NewDecimal(digits, places) /\ places \in 0..6
    BY <1>1, <1>4, <1>8
  <2> QED
    BY <1>1, <1>3, <1>6, <2>1, NewDecimalIs DEF d
<1>9. CASE digits # 0 /\ ~(places >= 0) /\ shifted = Refused
  BY <1>4, <1>6, <1>9 DEF d
<1>10. CASE digits # 0 /\ ~(places >= 0) /\ shifted # Refused
  <2>1. d = OpenAi!NewDecimal(shifted, 0) /\ -places \in Nat
    BY <1>1, <1>4, <1>10
  <2>2. shifted = digits * 10 ^ (-places) /\ shifted \in Int
    BY <1>1, <1>10, ScaledIs DEF shifted
  <2>3. d \in Decimals /\ DecimalMicros(d) = shifted * 10 ^ 6
    BY <2>1, <2>2, NewDecimalIs
  <2> DEFINE k == -places
  <2>4. 10 ^ (k + 6) = 1000000 * 10 ^ k /\ 10 ^ k \in Int
    <3>1. /\ k + 1 \in Nat /\ k + 2 \in Nat /\ k + 3 \in Nat /\ k + 4 \in Nat /\ k + 5 \in Nat /\ k \in Nat
          /\ (k + 1) + 1 = k + 2 /\ (k + 2) + 1 = k + 3 /\ (k + 3) + 1 = k + 4 /\ (k + 4) + 1 = k + 5
          /\ (k + 5) + 1 = k + 6
      BY <2>1
    <3> HIDE DEF k
    <3>2. /\ 10 ^ (k + 1) = 10 * 10 ^ k /\ 10 ^ (k + 2) = 10 * 10 ^ (k + 1)
          /\ 10 ^ (k + 3) = 10 * 10 ^ (k + 2) /\ 10 ^ (k + 4) = 10 * 10 ^ (k + 3)
          /\ 10 ^ (k + 5) = 10 * 10 ^ (k + 4) /\ 10 ^ (k + 6) = 10 * 10 ^ (k + 5)
      BY <3>1, Zenon DEF PowersOfTen
    <3>3. 10 ^ k \in Int
      BY <1>5, <3>1
    <3> DEFINE p == 10 ^ k
    <3> QED
      BY <3>2, <3>3
  <2>5. k + 6 = 6 - places
    BY <1>1
  <2>6. Micros(amount) = digits * 10 ^ (k + 6)
    BY <1>3, <2>5
  <2> DEFINE p == 10 ^ k
  <2>7. p \in Int /\ Micros(amount) = digits * (1000000 * p) /\ shifted = digits * p
    BY <2>2, <2>4, <2>6
  <2> HIDE DEF p, k
  <2>8. digits * (1000000 * p) = (digits * p) * 1000000
    BY <1>1, <2>7
  <2> QED
    BY <1>6, <2>3, <2>7, <2>8, PowersAre DEF d
<1> QED
  BY <1>7, <1>8, <1>9, <1>10

-----------------------------------------------------------------------------
(***************************************************************************)
(* Their cents, rounded once.                                              *)
(***************************************************************************)
\* The largest coefficient has room for the powers that round a millionth.
RoomToRound == MaxCoefficient >= 10000

\* A number of cents that fits is itself.
LEMMA OpenAiFits == ASSUME NEW x, OpenAi!IfFits(x) # Refused PROVE OpenAi!IfFits(x) = x
<1>1. OpenAi!IfFits(x) = IF x \in (-MaxMinor - 1)..MaxMinor THEN x ELSE Refused
  BY Zenon DEF OpenAi!IfFits
<1> QED
  BY <1>1

\* Cents are whole, whatever millionths they are taken from.
LEMMA CentsRound == ASSUME NEW c \in Int PROVE Rounded(c * 10000, 10000) = c
<1>1. (2 * (c * 10000) + 10000) \div 20000 = c
  OBVIOUS
<1>2. (10000 - 2 * (c * 10000)) \div 20000 = -c
  OBVIOUS
<1>3. 2 * 10000 = 20000
  OBVIOUS
<1> QED
  BY <1>1, <1>2, <1>3 DEF Rounded

\* The adapter rounds a size, a half up, and keeps the sign.
HalfUp(size, p) == size \div p + (IF size % p >= (p + 1) \div 2 THEN 1 ELSE 0)
Halves(c, p) == (IF c < 0 THEN -1 ELSE 1) * HalfUp(IF c < 0 THEN -c ELSE c, p)

\* That is rounding to the nearest.
LEMMA HalvesRound ==
    ASSUME NEW c \in Int
    PROVE  /\ Halves(c, 10) = Rounded(c * 1000, 10000)
           /\ Halves(c, 100) = Rounded(c * 100, 10000)
           /\ Halves(c, 1000) = Rounded(c * 10, 10000)
           /\ Halves(c, 10000) = Rounded(c, 10000)
<1> DEFINE r10(x) == (2 * (x * 1000) + 10000) \div 20000
           r100(x) == (2 * (x * 100) + 10000) \div 20000
           r1000(x) == (2 * (x * 10) + 10000) \div 20000
           r10000(x) == (2 * x + 10000) \div 20000
<1>1. \A x \in Nat : r10(x) = HalfUp(x, 10)
  BY DEF HalfUp
<1>2. \A x \in Nat : r100(x) = HalfUp(x, 100)
  BY DEF HalfUp
<1>3. \A x \in Nat : r1000(x) = HalfUp(x, 1000)
  BY DEF HalfUp
<1>4. \A x \in Nat : r10000(x) = HalfUp(x, 10000)
  BY DEF HalfUp
<1>8. ASSUME NEW p \in {10, 100, 1000, 10000}, NEW x \in Nat PROVE HalfUp(x, p) \in Int
  <2>1. CASE p = 10
    BY <2>1 DEF HalfUp
  <2>2. CASE p = 100
    BY <2>2 DEF HalfUp
  <2>3. CASE p = 1000
    BY <2>3 DEF HalfUp
  <2>4. CASE p = 10000
    BY <2>4 DEF HalfUp
  <2> QED
    BY <1>8, <2>1, <2>2, <2>3, <2>4
<1>5. ASSUME NEW p \in {10, 100, 1000, 10000}
      PROVE  Halves(c, p) = IF c < 0 THEN -HalfUp(-c, p) ELSE HalfUp(c, p)
  <2>1. CASE c < 0
    <3> DEFINE x == -c
    <3>1. x \in Nat
      BY <2>1
    <3>2. Halves(c, p) = (-1) * HalfUp(x, p)
      BY <2>1 DEF Halves
    <3> HIDE DEF x
    <3>3. Halves(c, p) = -HalfUp(x, p)
      BY <1>8, <3>1, <3>2
    <3> QED
      BY <2>1, <3>3 DEF x
  <2>2. CASE ~(c < 0)
    <3>1. c \in Nat
      BY <2>2
    <3>2. Halves(c, p) = 1 * HalfUp(c, p)
      BY <2>2 DEF Halves
    <3> QED
      BY <1>8, <2>2, <3>1, <3>2
  <2> QED
    BY <2>1, <2>2
<1>6. /\ Rounded(c * 1000, 10000) = IF c < 0 THEN -r10(-c) ELSE r10(c)
      /\ Rounded(c * 100, 10000) = IF c < 0 THEN -r100(-c) ELSE r100(c)
      /\ Rounded(c * 10, 10000) = IF c < 0 THEN -r1000(-c) ELSE r1000(c)
      /\ Rounded(c, 10000) = IF c < 0 THEN -r10000(-c) ELSE r10000(c)
  BY DEF Rounded
<1>7. IF c < 0 THEN -c \in Nat ELSE c \in Nat
  OBVIOUS
<1> HIDE DEF r10, r100, r1000, r10000
<1> QED
  BY <1>1, <1>2, <1>3, <1>4, <1>5, <1>6, <1>7

\* Cents that are not refused are the amount rounded once.
LEMMA MinorUnitsRound ==
    ASSUME RefusalIsApart, RoomToRound, NEW d \in Decimals, d # Refused,
           OpenAi!ToMinorUnits(d) # Refused
    PROVE  OpenAi!ToMinorUnits(d) = Rounded(DecimalMicros(d), 10000)
<1> DEFINE c == d.coefficient
           s == d.scale
           divisor == OpenAi!PowerOfTen(s - 2)
           size == IF c < 0 THEN -c ELSE c
           sign == IF c < 0 THEN -1 ELSE 1
           away == IF size % divisor >= (divisor + 1) \div 2 THEN 1 ELSE 0
           cents == OpenAi!Scaled(c, 2 - s)
           whole == sign * (size \div divisor + away)
           units == OpenAi!ToMinorUnits(d)
<1>1. units = IF s <= 2 THEN IF cents = Refused THEN Refused ELSE OpenAi!IfFits(cents)
              ELSE IF divisor = Refused THEN 0
              ELSE OpenAi!IfFits(whole)
  BY Zenon DEF OpenAi!ToMinorUnits, OpenAi!TooFine
<1>2. c \in Int /\ s \in 0..6
  BY DEF Decimals
<1>3. divisor = IF 10 ^ (s - 2) <= MaxCoefficient THEN 10 ^ (s - 2) ELSE Refused
  BY Zenon DEF OpenAi!PowerOfTen
<1>4. whole = Halves(c, divisor)
  BY Zenon DEF Halves, HalfUp
<1>5. DecimalMicros(d) = c * 10 ^ (6 - s)
  BY DEF DecimalMicros
<1>6. units # Refused
  OBVIOUS
<1> HIDE DEF c, s, divisor, cents, whole, units
<1>7. CASE s <= 2
  <2>1. cents # Refused /\ units = cents
    <3>1. units = IF cents = Refused THEN Refused ELSE OpenAi!IfFits(cents)
      BY <1>1, <1>7
    <3>2. cents # Refused /\ units = OpenAi!IfFits(cents)
      BY <1>6, <3>1, Zenon
    <3> QED
      BY <1>6, <3>2, OpenAiFits, Zenon
  <2>2. cents = c * 10 ^ (2 - s) /\ cents \in Int
    BY <1>2, <2>1, ScaledIs DEF cents
  <2>3. 2 - s \in 0..6 /\ (2 - s) + 4 = 6 - s /\ (2 - s) + 4 <= 6
    BY <1>2, <1>7
  <2>4. 10 ^ (6 - s) = 10 ^ (2 - s) * 10 ^ 4
    <3> DEFINE a == 2 - s
    <3>2. a \in 0..6 /\ 4 \in 0..6 /\ a + 4 <= 6
      BY <2>3
    <3> HIDE DEF a
    <3>3. 10 ^ (a + 4) = 10 ^ a * 10 ^ 4
      BY ONLY <3>2, PowersAdd
    <3>1. 10 ^ ((2 - s) + 4) = 10 ^ (2 - s) * 10 ^ 4
      BY ONLY <3>3 DEF a
    <3> QED
      BY <2>3, <3>1
  <2> DEFINE p == 10 ^ (2 - s)
  <2>5. p \in Int
    BY <2>3, PowerIs
  <2>6. DecimalMicros(d) = c * (p * 10000) /\ cents = c * p
    <3>1. 10 ^ (6 - s) = p * 10000
      BY ONLY <2>4, PowersAre
    <3>2. cents = c * p
      BY <2>2
    <3>3. DecimalMicros(d) = c * 10 ^ (6 - s)
      BY <1>5
    <3> HIDE DEF p
    <3> QED
      BY ONLY <3>1, <3>2, <3>3
  <2> HIDE DEF p
  <2>7. c * (p * 10000) = (c * p) * 10000
    BY <1>2, <2>5
  <2>8. DecimalMicros(d) = cents * 10000
    BY <2>6, <2>7
  <2>9. Rounded(cents * 10000, 10000) = cents
    BY <2>2, CentsRound
  <2> QED
    BY <2>1, <2>8, <2>9 DEF units
<1>8. CASE ~(s <= 2)
  <2>1. \/ s = 3 /\ s - 2 = 1 /\ 6 - s = 3
        \/ s = 4 /\ s - 2 = 2 /\ 6 - s = 2
        \/ s = 5 /\ s - 2 = 3 /\ 6 - s = 1
        \/ s = 6 /\ s - 2 = 4 /\ 6 - s = 0
    BY <1>2, <1>8
  <2>2. ASSUME NEW p \in {10, 100, 1000, 10000}, 10 ^ (s - 2) = p
        PROVE  units = Halves(c, p)
    <3>1. divisor = p
      BY <1>3, <2>2, WidthAssumption DEF RoomToRound
    <3>2. p # Refused
      BY DEF RefusalIsApart
    <3>3. units = OpenAi!IfFits(whole)
      BY <1>1, <1>8, <3>1, <3>2
    <3>4. units = whole
      BY <1>6, <3>3, OpenAiFits
    <3> QED
      BY <1>4, <3>1, <3>4
  <2>3. CASE s = 3 /\ s - 2 = 1 /\ 6 - s = 3
    BY <1>2, <1>5, <2>2, <2>3, PowersAre, HalvesRound DEF units
  <2>4. CASE s = 4 /\ s - 2 = 2 /\ 6 - s = 2
    BY <1>2, <1>5, <2>2, <2>4, PowersAre, HalvesRound DEF units
  <2>5. CASE s = 5 /\ s - 2 = 3 /\ 6 - s = 1
    BY <1>2, <1>5, <2>2, <2>5, PowersAre, HalvesRound DEF units
  <2>6. CASE s = 6 /\ s - 2 = 4 /\ 6 - s = 0
    <3>1. DecimalMicros(d) = c
      BY <1>2, <1>5, <2>6, PowersAre
    <3>2. units = Halves(c, 10000)
      BY <2>2, <2>6, PowersAre
    <3> QED
      BY <1>2, <3>1, <3>2, HalvesRound DEF units
  <2> QED
    BY ONLY <2>1, <2>3, <2>4, <2>5, <2>6
<1> QED
  BY <1>7, <1>8

\* A decimal, or what was refused.
Amounts == Decimals \cup {Refused}

\* What a decimal is in millionths is an integer.
LEMMA MicrosType == ASSUME NEW d \in Decimals PROVE DecimalMicros(d) \in Int
<1>1. d.coefficient \in Int /\ 6 - d.scale \in 0..6
  BY DEF Decimals
<1> DEFINE p == 10 ^ (6 - d.scale)
<1>2. p \in Int
  BY <1>1, PowerIs
<1> HIDE DEF p
<1>3. d.coefficient * p \in Int
  BY <1>1, <1>2
<1> QED
  BY <1>3 DEF p, DecimalMicros

\* A sum of decimals, amount by amount.
LEMMA DecimalChain ==
    ASSUME NEW n \in Nat, NEW w, DOMAIN w = 1..n, \A i \in 1..n : w[i] \in Amounts
    PROVE  \E c \in [0..n -> Amounts] :
               /\ c[0] = OpenAi!Zero /\ \A i \in 1..n : c[i] = OpenAi!AddDecimal(c[i - 1], w[i])
               /\ OpenAi!SumDecimals(w) = c[n]
<1> DEFINE V == Amounts
           base == OpenAi!Zero
           Step(v, x) == OpenAi!AddDecimal(v, x)
           Folds(g) == g = [s \in SUBSET (1..n) |->
                               IF s = {} THEN base ELSE Step(g[s \ {Max(s)}], w[Max(s)])]
           G == CHOOSE g : Folds(g)
           h == [p \in (1..n) \X V |-> Step(p[2], w[p[1]])]
<1>1. base \in V /\ \A i \in 1..n, v \in V : Step(v, w[i]) \in V
  <2>1. OpenAi!Zero \in V
    BY DEF OpenAi!Zero, Decimals, Amounts
  <2> QED
    BY <2>1, AddDecimalIs DEF Amounts
<1>2. OpenAi!SumDecimals(w) = G[1..n]
  BY Zenon DEF OpenAi!SumDecimals, OpenAi!FoldLeft, OpenAi!MapThenFoldSet, OpenAi!Max, Max
<1> HIDE DEF V, base, Step
<1>3. h \in [(1..n) \X V -> V] /\ \A i \in 1..n, v \in V : h[<<i, v>>] = Step(v, w[i])
  BY <1>1
<1> HIDE DEF h
<1>4. Folds(G)
  <2>1. PICK g : FoldOf(g, n, base, h) /\ \A s \in SUBSET (1..n) : g[s] \in V
    BY <1>1, <1>3, FoldExists
  <2>2. ASSUME NEW s \in SUBSET (1..n), s # {}
        PROVE  h[<<Max(s), g[s \ {Max(s)}]>>] = Step(g[s \ {Max(s)}], w[Max(s)])
    <3>1. Max(s) \in 1..n
      BY <1>1, <2>2, MaxIsThere
    <3> QED
      BY <1>3, <2>1, <3>1
  <2>3. Folds(g)
    BY <2>1, <2>2 DEF FoldOf
  <2> QED
    BY <2>3
<1> HIDE DEF G
<1>5. FoldedBy(G, n, V, base, h)
  <2>1. ASSUME NEW s \in SUBSET (1..n), s # {}, G[s \ {Max(s)}] \in V
        PROVE  G[s] = h[<<Max(s), G[s \ {Max(s)}]>>]
    <3>1. Max(s) \in 1..n
      BY <1>1, <2>1, MaxIsThere
    <3>2. G[s] = Step(G[s \ {Max(s)}], w[Max(s)])
      BY <1>4, <2>1
    <3> QED
      BY <1>3, <2>1, <3>1, <3>2
  <2>2. G[{}] = base
    BY <1>4
  <2> QED
    BY <1>1, <1>3, <2>1, <2>2 DEF FoldedBy
<1>6. PICK c : ChainOf(c, n, V, base, h) /\ c[n] = G[1..n]
  BY <1>5, FoldedChain
<1>7. \A i \in 1..n : c[i] = Step(c[i - 1], w[i])
  <2> TAKE i \in 1..n
  <2>1. i - 1 \in 0..n
    OBVIOUS
  <2> QED
    BY <1>3, <1>6, <2>1 DEF ChainOf
<1> QED
  BY <1>2, <1>6, <1>7 DEF V, base, Step, ChainOf

\* A sum of decimals that is not refused is exact, and none of them is refused.
LEMMA DecimalExact ==
    ASSUME NEW n \in Nat, NEW w, DOMAIN w = 1..n, \A i \in 1..n : w[i] \in Amounts,
           OpenAi!SumDecimals(w) # Refused
    PROVE  /\ \A i \in 1..n : w[i] # Refused
           /\ OpenAi!SumDecimals(w) \in Decimals
           /\ DecimalMicros(OpenAi!SumDecimals(w)) = Total([i \in 1..n |-> DecimalMicros(w[i])])
<1>1. PICK c \in [0..n -> Amounts] :
          /\ c[0] = OpenAi!Zero /\ \A i \in 1..n : c[i] = OpenAi!AddDecimal(c[i - 1], w[i])
          /\ OpenAi!SumDecimals(w) = c[n]
  BY DecimalChain
<1> DEFINE S == {i \in 0..n : c[n - i] # Refused}
<1>2. \A i \in 0..n : i \in S
  <2>1. 0 \in S
    BY <1>1
  <2>2. ASSUME NEW i \in 1..n, i - 1 \in S PROVE i \in S
    <3> DEFINE j == n - i + 1
    <3>1. j \in 1..n /\ n - (i - 1) = j /\ j - 1 = n - i /\ j - 1 \in 0..n
      OBVIOUS
    <3>2. c[j] # Refused
      BY <2>2, <3>1
    <3> HIDE DEF j
    <3>3. c[j] = OpenAi!AddDecimal(c[j - 1], w[j]) /\ c[j - 1] \in Amounts /\ w[j] \in Amounts
      BY <1>1, <3>1
    <3>4. c[j - 1] # Refused
      BY <3>2, <3>3, AddDecimalIs DEF Amounts
    <3> QED
      BY <3>1, <3>4
  <2> HIDE DEF S
  <2> QED
    BY <2>1, <2>2, Stepwise
<1>3. \A i \in 0..n : c[i] # Refused
  <2> TAKE i \in 0..n
  <2>1. n - i \in 0..n /\ n - (n - i) = i
    OBVIOUS
  <2>2. n - i \in S
    BY <1>2, <2>1
  <2> QED
    BY <2>1, <2>2
<1> HIDE DEF S
<1> DEFINE m == [i \in 0..n |-> DecimalMicros(c[i])]
           v == [i \in 1..n |-> DecimalMicros(w[i])]
<1>4. \A i \in 0..n : c[i] \in Decimals /\ DecimalMicros(c[i]) \in Int
  BY <1>1, <1>3, MicrosType DEF Amounts
<1>5. ASSUME NEW i \in 1..n
      PROVE  /\ w[i] # Refused /\ DecimalMicros(w[i]) \in Int
             /\ DecimalMicros(c[i]) = DecimalMicros(c[i - 1]) + DecimalMicros(w[i])
  <2>1. i \in 0..n /\ i - 1 \in 0..n
    OBVIOUS
  <2>2. c[i] = OpenAi!AddDecimal(c[i - 1], w[i]) /\ c[i] # Refused
    BY <1>1, <1>3, <2>1
  <2>3. c[i - 1] \in Amounts /\ w[i] \in Amounts
    BY <1>1, <2>1
  <2>4. w[i] # Refused /\ DecimalMicros(c[i]) = DecimalMicros(c[i - 1]) + DecimalMicros(w[i])
    BY <2>2, <2>3, AddDecimalIs DEF Amounts
  <2>5. w[i] \in Decimals
    BY <2>3, <2>4 DEF Amounts
  <2> QED
    BY <2>4, <2>5, MicrosType
<1>6. m \in [0..n -> Int] /\ v \in [1..n -> Int]
  BY <1>4, <1>5
<1>7. m[0] = 0
  <2>1. DecimalMicros(OpenAi!Zero) = 0
    <3>1. OpenAi!Zero.coefficient = 0 /\ OpenAi!Zero.scale = 0
      BY DEF OpenAi!Zero
    <3>2. 6 - OpenAi!Zero.scale = 6
      BY <3>1
    <3> QED
      BY <3>1, <3>2, PowersAre DEF DecimalMicros
  <2> QED
    BY <1>1, <2>1
<1>8. \A i \in 1..n : m[i] = m[i - 1] + v[i]
  <2> TAKE i \in 1..n
  <2>1. i \in 0..n /\ i - 1 \in 0..n
    OBVIOUS
  <2> QED
    BY <1>5, <2>1
<1>9. m[n] = DecimalMicros(c[n])
  OBVIOUS
<1> HIDE DEF m, v
<1>10. Accrues(m, n, v)
  BY <1>6, <1>7, <1>8 DEF Accrues
<1>11. Total(v) = m[n]
  BY <1>6, <1>10, TotalIs
<1>12. c[n] \in Decimals
  BY <1>4
<1> QED
  BY <1>1, <1>5, <1>9, <1>11, <1>12 DEF v

\* A result names an amount no finer than a millionth, or none that counts.
FineResult(r) == r.amount \in SourceAmounts => Fine(r.amount)

\* What a result costs, in millionths.
MicrosWorth ==
    [r \in OpenAi!RawCostResults |->
        IF IsAmount(r) /\ r.amount \in SourceAmounts /\ Fine(r.amount) THEN Micros(r.amount) ELSE 0]

\* It is an integer.
LEMMA MicrosWorthType == ASSUME PowersOfTen PROVE MicrosWorth \in [OpenAi!RawCostResults -> Int]
<1>1. \A a \in SourceAmounts : Fine(a) => Micros(a) \in Int
  BY FromSourceIs
<1> QED
  BY <1>1 DEF MicrosWorth

\* A cost that is not refused is the amount the result names.
LEMMA CostOfIs ==
    ASSUME PowersOfTen, NEW r \in OpenAi!RawCostResults, FineResult(r)
    PROVE  /\ OpenAi!CostOf(r) \in Amounts
           /\ OpenAi!CostOf(r) # Refused =>
                 /\ DecimalMicros(OpenAi!CostOf(r)) = MicrosWorth[r]
                 /\ IsAmount(r) => r.amount \in SourceAmounts
<1> DEFINE cost == OpenAi!CostOf(r)
<1>1. cost = IF r.amount = None \/ r.currency = None THEN OpenAi!Zero
             ELSE IF OpenAi!IsUsd(r.currency) /\ r.amount # Refused
             THEN OpenAi!FromSource(r.amount) ELSE Refused
  BY Zenon DEF OpenAi!CostOf
<1>2. r.amount \in {None, Refused} \cup SourceAmounts
  BY OpenAiRaw DEF SourceAmounts
<1>3. MicrosWorth[r] = IF IsAmount(r) /\ r.amount \in SourceAmounts /\ Fine(r.amount)
                       THEN Micros(r.amount) ELSE 0
  BY DEF MicrosWorth
<1> HIDE DEF cost
<1>4. CASE ~IsAmount(r)
  <2>1. cost = OpenAi!Zero /\ MicrosWorth[r] = 0
    BY <1>1, <1>3, <1>4 DEF IsAmount
  <2>2. OpenAi!Zero.coefficient = 0 /\ OpenAi!Zero.scale = 0 /\ OpenAi!Zero \in Decimals
    BY DEF OpenAi!Zero, Decimals
  <2>3. 6 - OpenAi!Zero.scale = 6
    BY <2>2
  <2>4. DecimalMicros(OpenAi!Zero) = 0
    BY <2>2, <2>3, PowersAre DEF DecimalMicros
  <2> QED
    BY <1>4, <2>1, <2>2, <2>4 DEF cost, Amounts
<1>5. CASE IsAmount(r) /\ cost = Refused
  BY <1>5 DEF cost, Amounts
<1>6. CASE IsAmount(r) /\ cost # Refused
  <2>1. r.amount # Refused /\ r.amount # None /\ cost = OpenAi!FromSource(r.amount)
    BY <1>1, <1>6, Zenon DEF IsAmount
  <2>2. r.amount \in SourceAmounts /\ Fine(r.amount)
    BY <1>2, <2>1 DEF FineResult
  <2>3. cost \in Amounts /\ DecimalMicros(cost) = Micros(r.amount)
    BY <1>6, <2>1, <2>2, FromSourceIs DEF Amounts
  <2> QED
    BY <1>3, <1>6, <2>2, <2>3 DEF cost
<1> QED
  BY <1>4, <1>5, <1>6

-----------------------------------------------------------------------------
(***************************************************************************)
(* What the rows of a report cost.                                         *)
(***************************************************************************)
\* Rows whose results are no finer than a millionth.
FineRow(row) == \A r \in ToSet(row.results) : FineResult(r)
FineRows(rows) == \A row \in ToSet(rows) : FineRow(row)

\* What the results of a row cost, each of them told.
RowMicros == RowWorth(Int, OpenAi!RawCostResults, MicrosWorth)
Told(row) == \A r \in ToSet(row.results) : IsAmount(r) => r.amount \in SourceAmounts

\* The rows of the cost pages, by their results.
LEMMA CostRowsAre == OpenAiCostRows = RowsOf(Int, OpenAi!RawCostResults)
  BY Zenon DEF OpenAiCostRows, RowsOf

\* The cost of a bucket that is not refused is what its results cost.
LEMMA BucketCostIs ==
    ASSUME PowersOfTen, NEW row \in OpenAiCostRows, FineRow(row)
    PROVE  /\ OpenAi!BucketCost(row) \in Amounts
           /\ OpenAi!BucketCost(row) # Refused =>
                 DecimalMicros(OpenAi!BucketCost(row)) = RowMicros[row] /\ Told(row)
<1> DEFINE T == OpenAi!RawCostResults
           s == row.results
           n == Len(s)
           w == [i \in DOMAIN s |-> OpenAi!CostOf(s[i])]
           v == [i \in 1..n |-> DecimalMicros(w[i])]
           cost == OpenAi!BucketCost(row)
<1>1. row \in RowsOf(Int, T) /\ s \in Seq(T)
  BY CostRowsAre DEF RowsOf
<1>2. MicrosWorth \in [T -> Int]
  BY MicrosWorthType
<1>3. RowMicros[row] = Worth(MicrosWorth, s)
  BY <1>1, <1>2, RowWorthType DEF RowMicros
<1>4. cost = OpenAi!SumDecimals(w)
  BY Zenon DEF OpenAi!BucketCost
<1> HIDE DEF T, s, cost
<1>5. n \in Nat /\ DOMAIN s = 1..n /\ \A i \in 1..n : s[i] \in T
  BY <1>1
<1> HIDE DEF n
<1>6. \A i \in 1..n : FineResult(s[i])
  <2> TAKE i \in 1..n
  <2>1. s[i] \in ToSet(s)
    BY <1>5 DEF ToSet
  <2> QED
    BY <2>1 DEF FineRow, s
<1>7. /\ DOMAIN w = 1..n
      /\ \A i \in 1..n : /\ w[i] = OpenAi!CostOf(s[i]) /\ w[i] \in Amounts
                         /\ w[i] # Refused => /\ DecimalMicros(w[i]) = MicrosWorth[s[i]]
                                              /\ IsAmount(s[i]) => s[i].amount \in SourceAmounts
  <2>1. DOMAIN w = 1..n /\ \A i \in 1..n : w[i] = OpenAi!CostOf(s[i])
    BY <1>5
  <2> HIDE DEF w
  <2> QED
    BY <1>5, <1>6, <2>1, CostOfIs DEF T
<1> HIDE DEF w
<1>8. cost \in Amounts
  <2>1. PICK c \in [0..n -> Amounts] : OpenAi!SumDecimals(w) = c[n]
    BY <1>5, <1>7, DecimalChain
  <2>2. n \in 0..n
    BY <1>5
  <2> QED
    BY <1>4, <2>1, <2>2
<1>9. ASSUME cost # Refused PROVE DecimalMicros(cost) = RowMicros[row] /\ Told(row)
  <2>1. (\A i \in 1..n : w[i] # Refused) /\ DecimalMicros(cost) = Total(v)
    BY <1>4, <1>5, <1>7, <1>9, DecimalExact
  <2>2. v = [i \in DOMAIN s |-> MicrosWorth[s[i]]]
    <3>1. \A i \in 1..n : DecimalMicros(w[i]) = MicrosWorth[s[i]]
      BY <1>7, <2>1
    <3> QED
      BY <1>5, <3>1, Zenon
  <2> HIDE DEF v
  <2>3. Worth(MicrosWorth, s) = Total(v)
    BY <2>2, Zenon DEF Worth
  <2>4. \A i \in 1..n : IsAmount(s[i]) => s[i].amount \in SourceAmounts
    BY <1>7, <2>1
  <2>5. Told(row)
    BY <1>5, <2>4, Zenon DEF Told, ToSet, s
  <2> QED
    BY <1>3, <2>1, <2>3, <2>5
<1> QED
  BY <1>8, <1>9 DEF cost

\* The cost of a span that is not refused is what its rows cost.
LEMMA CostOfSpanIs ==
    ASSUME PowersOfTen, NEW costs \in Seq(OpenAiCostRows), FineRows(costs), NEW span
    PROVE  /\ OpenAi!CostOfSpan(costs, span) \in Amounts
           /\ OpenAi!CostOfSpan(costs, span) # Refused =>
                 /\ DecimalMicros(OpenAi!CostOfSpan(costs, span))
                        = Worth(RowMicros, OpenAi!OfSpan(costs, span))
                 /\ \A row \in ToSet(costs) : OpenAi!Span(row) = span => Told(row)
<1> DEFINE P == {x \in ToSet(costs) : OpenAi!Span(x) = span}
           same == OpenAi!OfSpan(costs, span)
           n == Len(same)
           w == [i \in DOMAIN same |-> OpenAi!BucketCost(same[i])]
           v == [i \in 1..n |-> DecimalMicros(w[i])]
           cost == OpenAi!CostOfSpan(costs, span)
<1>1. cost = OpenAi!SumDecimals(w)
  BY Zenon DEF OpenAi!CostOfSpan
<1>2. same = Among(costs, P)
  BY OfSpanIs
<1>3. P \subseteq ToSet(costs) /\ \A row \in ToSet(costs) : row \in P <=> OpenAi!Span(row) = span
  OBVIOUS
<1> HIDE DEF P, same, cost
<1>4. same \in Seq(OpenAiCostRows) /\ ToSet(same) = P
  <2>1. same \in Seq(OpenAiCostRows) /\ ToSet(same) = ToSet(costs) \cap P
    BY <1>2, AmongIs
  <2> QED
    BY <1>3, <2>1
<1>5. n \in Nat /\ DOMAIN same = 1..n /\ \A i \in 1..n : same[i] \in OpenAiCostRows
  BY <1>4
<1> HIDE DEF n
<1>6. \A i \in 1..n : FineRow(same[i])
  <2> TAKE i \in 1..n
  <2>1. same[i] \in ToSet(same)
    BY <1>5 DEF ToSet
  <2> QED
    BY <1>3, <1>4, <2>1 DEF FineRows
<1>7. /\ DOMAIN w = 1..n
      /\ \A i \in 1..n : /\ w[i] \in Amounts
                         /\ w[i] # Refused => DecimalMicros(w[i]) = RowMicros[same[i]] /\ Told(same[i])
  <2>1. DOMAIN w = 1..n /\ \A i \in 1..n : w[i] = OpenAi!BucketCost(same[i])
    BY <1>5
  <2> HIDE DEF w
  <2> QED
    BY <1>5, <1>6, <2>1, BucketCostIs
<1> HIDE DEF w
<1>8. cost \in Amounts
  <2>1. PICK c \in [0..n -> Amounts] : OpenAi!SumDecimals(w) = c[n]
    BY <1>5, <1>7, DecimalChain
  <2>2. n \in 0..n
    BY <1>5
  <2> QED
    BY <1>1, <2>1, <2>2
<1>9. ASSUME cost # Refused
      PROVE  /\ DecimalMicros(cost) = Worth(RowMicros, same)
             /\ \A row \in ToSet(costs) : OpenAi!Span(row) = span => Told(row)
  <2>1. (\A i \in 1..n : w[i] # Refused) /\ DecimalMicros(cost) = Total(v)
    BY <1>1, <1>5, <1>7, <1>9, DecimalExact
  <2>2. v = [i \in DOMAIN same |-> RowMicros[same[i]]]
    <3>1. \A i \in 1..n : DecimalMicros(w[i]) = RowMicros[same[i]]
      BY <1>7, <2>1
    <3> QED
      BY <1>5, <3>1, Zenon
  <2> HIDE DEF v
  <2>3. Worth(RowMicros, same) = Total(v)
    BY <2>2, Zenon DEF Worth
  <2>4. \A i \in 1..n : Told(same[i])
    BY <1>7, <2>1
  <2>5. \A row \in P : Told(row)
    <3>1. \A row \in ToSet(same) : Told(row)
      BY <1>5, <2>4, Zenon DEF ToSet
    <3> QED
      BY <1>4, <3>1
  <2> QED
    BY <1>3, <2>1, <2>3, <2>5
<1> QED
  BY <1>8, <1>9 DEF cost, same

\* One value of a sequence counts what another does where it is in a set.
Picks(s, T, P, a, b) == s \in Seq(T) /\ a \in [T -> Int] /\ b \in [T -> Int] /\ OnlyIn(b, a, T, P)

\* Those in the set are worth what is counted.
LEMMA WorthPicked ==
    ASSUME NEW s, NEW T, NEW P, NEW a, NEW b, Picks(s, T, P, a, b)
    PROVE  Worth(a, Among(s, P)) = Worth(b, s)
<1>1. s \in Seq(T) /\ a \in [T -> Int] /\ b \in [T -> Int] /\ OnlyIn(b, a, T, P)
  BY Zenon DEF Picks
<1> QED
  BY <1>1, WorthChosen, SMTT(30)

\* The minutes that are not before a start.
MinutesFrom(start) == {x \in Int : x >= start}

\* What was spent since a start, unless it is refused, is what the rows since then
\* cost, rounded once.
LEMMA SpentSinceIs ==
    ASSUME PowersOfTen, RefusalIsApart, RoomToRound, NEW costs \in Seq(OpenAiCostRows), FineRows(costs),
           NEW start, OpenAi!SpentSince(start, costs) # Refused
    PROVE  LET T == OpenAi!RawCostResults
               K == MinutesFrom(start)
           IN /\ OpenAi!SpentSince(start, costs)
                   = Rounded(Worth(KeptRowWorth(Int, T, MicrosWorth, K), costs), 10000)
              /\ \A row \in ToSet(costs) : row.start \in K => Told(row)
<1> DEFINE R == OpenAiCostRows
           T == OpenAi!RawCostResults
           K == MinutesFrom(start)
           S == {s \in OpenAi!Spans(costs) : s[1] >= start}
           order == OpenAi!InOrder(S, OpenAi!SpanLess)
           m == Cardinality(S)
           w == [i \in DOMAIN order |-> OpenAi!CostOfSpan(costs, order[i])]
           sum == OpenAi!SumDecimals(w)
           V == KeptRowWorth(Int, T, MicrosWorth, K)
           kept == {row \in R : row.start \in K}
           recent == Among(costs, kept)
           key == [x \in R |-> OpenAi!Span(x)]
           groups == [i \in 1..m |-> DecimalMicros(w[i])]
<1>1. OpenAi!SpentSince(start, costs) = OpenAi!ToMinorUnits(sum)
  BY Zenon DEF OpenAi!SpentSince
<1> HIDE DEF sum
<1>2. sum # Refused
  BY <1>1, Zenon DEF OpenAi!ToMinorUnits
<1>3. R = RowsOf(Int, T) /\ MicrosWorth \in [T -> Int]
  BY CostRowsAre, MicrosWorthType
<1>4. \A row \in R : row.start \in Int /\ row.end \in Int
  BY DEF OpenAiCostRows
<1>5. Timed(costs) /\ ToSet(costs) \subseteq R
  <2>1. Listed(costs) /\ ToSet(costs) \subseteq R
    BY ListedOf
  <2> QED
    BY <1>4, <2>1 DEF Timed
<1>6. /\ OpenAi!Spans(costs) = {<<r.start, r.end>> : r \in ToSet(costs)}
      /\ OpenAi!Spans(costs) \in SUBSET AllSpans /\ IsFiniteSet(OpenAi!Spans(costs))
  BY <1>5, SpansAre
<1>7. S \in SUBSET AllSpans /\ IsFiniteSet(S)
  <2>1. S \subseteq OpenAi!Spans(costs)
    OBVIOUS
  <2> HIDE DEF S
  <2>2. IsFiniteSet(S)
    BY <1>6, <2>1, FS_Subset
  <2> QED
    BY <1>6, <2>1, <2>2
<1>8. \A s \in S : s \in OpenAi!Spans(costs) /\ s[1] \in K
  BY <1>6 DEF AllSpans, MinutesFrom
<1>9. \A row \in ToSet(costs) : row.start \in K => OpenAi!Span(row) \in S
  BY <1>6 DEF MinutesFrom, OpenAi!Span
<1> HIDE DEF S, R, T, K
<1>10. Lists(order, S, SpanPairs)
  BY <1>7, InOrderIs
<1> HIDE DEF order
<1>11. /\ m \in Nat /\ DOMAIN order = 1..m /\ \A i \in 1..m : order[i] \in S
       /\ \A s \in S : \E i \in 1..m : order[i] = s
  BY <1>10 DEF Lists
<1> HIDE DEF m
<1>12. DOMAIN w = 1..m /\ \A i \in 1..m : w[i] = OpenAi!CostOfSpan(costs, order[i])
  BY <1>11
<1>13. sum = OpenAi!SumDecimals(w)
  BY DEF sum
<1> HIDE DEF w
<1>14. \A i \in 1..m :
          /\ w[i] \in Amounts
          /\ w[i] # Refused =>
                /\ DecimalMicros(w[i]) = Worth(RowMicros, OpenAi!OfSpan(costs, order[i]))
                /\ \A row \in ToSet(costs) : OpenAi!Span(row) = order[i] => Told(row)
  BY <1>12, CostOfSpanIs DEF R
<1>15. /\ \A i \in 1..m : w[i] # Refused
       /\ sum \in Decimals /\ DecimalMicros(sum) = Total(groups)
  BY <1>2, <1>11, <1>12, <1>13, <1>14, DecimalExact
<1>16. OpenAi!ToMinorUnits(sum) = Rounded(DecimalMicros(sum), 10000)
  BY <1>1, <1>2, <1>15, MinorUnitsRound
<1>17. /\ RowMicros \in [R -> Int] /\ V \in [R -> Int]
       /\ \A row \in R : V[row] = IF row.start \in K THEN RowMicros[row] ELSE 0
  <2>1. RowMicros \in [R -> Int] /\ \A row \in R : RowMicros[row] = Worth(MicrosWorth, row.results)
    BY <1>3, RowWorthType DEF RowMicros, T
  <2>2. V = [row \in R |-> IF row.start \in K THEN Worth(MicrosWorth, row.results) ELSE 0]
    BY <1>3, Zenon DEF KeptRowWorth
  <2> HIDE DEF V
  <2>3. \A row \in R : RowMicros[row] \in Int /\ V[row] = IF row.start \in K THEN RowMicros[row] ELSE 0
    BY <2>1, <2>2
  <2>4. V = [row \in R |-> V[row]]
    BY <2>2
  <2> QED
    BY <2>1, <2>3, <2>4
<1> HIDE DEF V
<1>18. costs \in Seq(R) /\ recent \in Seq(R) /\ ToSet(recent) = ToSet(costs) \cap kept
  <2>1. costs \in Seq(R)
    BY DEF R
  <2> HIDE DEF kept
  <2> QED
    BY <2>1, AmongIs
<1>19. Worth(RowMicros, recent) = Worth(V, costs)
  <2>1. OnlyIn(V, RowMicros, R, kept)
    BY <1>17 DEF OnlyIn
  <2> HIDE DEF kept
  <2> QED
    BY <1>17, <1>18, <2>1, WorthChosen, SMTT(30)
<1>20. \A i \in 1..Len(recent) : key[recent[i]] \in S
  <2> TAKE i \in 1..Len(recent)
  <2>1. recent[i] \in ToSet(recent)
    <3>1. i \in DOMAIN recent
      BY <1>18
    <3> QED
      BY ONLY <3>1, Zenon DEF ToSet
  <2>2. recent[i] \in R /\ recent[i] \in ToSet(costs) /\ recent[i].start \in K
    BY <1>18, <2>1
  <2> HIDE DEF recent
  <2> QED
    BY <1>9, <2>2
<1>21. ASSUME NEW i \in 1..m
       PROVE  Worth(RowMicros, OpenAi!OfSpan(costs, order[i]))
                = Worth(RowMicros, Gathered(recent, key, order[i]))
  <2> DEFINE span == order[i]
             P == {x \in ToSet(costs) : OpenAi!Span(x) = span}
             Q == {x \in ToSet(recent) : key[x] = span}
             a == [x \in R |-> IF x \in Q THEN RowMicros[x] ELSE 0]
             b == [x \in R |-> IF x \in kept THEN a[x] ELSE 0]
  <2>1. span[1] \in K /\ \A x \in R : OpenAi!Span(x) = span => x.start \in K
    <3>1. span[1] \in K
      BY <1>8, <1>11
    <3>2. \A x : OpenAi!Span(x)[1] = x.start
      BY DEF OpenAi!Span
    <3> QED
      BY <3>1, <3>2
  <2>2. P = Q
    <3>1. \A x \in R : key[x] = OpenAi!Span(x)
      OBVIOUS
    <3>2. \A x \in ToSet(recent) : x \in R /\ x \in ToSet(costs)
      BY <1>5, <1>18
    <3>3. \A x \in ToSet(costs) : OpenAi!Span(x) = span => x \in ToSet(recent)
      BY <1>5, <1>18, <2>1
    <3> HIDE DEF key, recent, span
    <3> QED
      BY <1>5, <3>1, <3>2, <3>3
  <2>3. Q \subseteq kept
    BY <1>18
  <2> HIDE DEF P, Q, key, kept
  <2>4. a \in [R -> Int] /\ b \in [R -> Int] /\ a = b
    <3>1. \A x \in R : RowMicros[x] \in Int
      BY <1>17
    <3>2. \A x \in R : a[x] = (IF x \in Q THEN RowMicros[x] ELSE 0) /\ b[x] = IF x \in kept THEN a[x] ELSE 0
      OBVIOUS
    <3>3. \A x \in R : b[x] = a[x] /\ a[x] \in Int
      BY <2>3, <3>1, <3>2
    <3>4. a = [x \in R |-> a[x]] /\ b = [x \in R |-> b[x]]
      OBVIOUS
    <3> HIDE DEF a, b
    <3> QED
      BY <3>3, <3>4
  <2>5. OnlyIn(a, RowMicros, R, Q)
    BY DEF OnlyIn
  <2>11. OnlyIn(b, a, R, kept)
    BY DEF OnlyIn
  <2> DEFINE val == RowMicros
  <2>12. a \in [R -> Int] /\ b \in [R -> Int] /\ val \in [R -> Int] /\ OnlyIn(a, val, R, Q)
    BY <1>17, <2>4, <2>5
  <2>13. recent \in Seq(R) /\ costs \in Seq(R) /\ recent = Among(costs, kept)
    BY <1>18
  <2> HIDE DEF a, b, recent, val
  <2>15. Picks(recent, R, Q, val, a) /\ Picks(costs, R, kept, a, b) /\ Picks(costs, R, Q, val, a)
    BY ONLY <2>11, <2>12, <2>13, Zenon DEF Picks
  <2>6. Worth(val, Among(recent, Q)) = Worth(a, recent)
    BY ONLY <2>15, WorthPicked, Zenon
  <2>14. Worth(a, Among(costs, kept)) = Worth(b, costs)
    BY ONLY <2>15, WorthPicked, Zenon
  <2>7. Worth(a, recent) = Worth(b, costs)
    BY ONLY <2>13, <2>14
  <2>8. Worth(val, Among(costs, Q)) = Worth(a, costs)
    BY ONLY <2>15, WorthPicked, Zenon
  <2>9. OpenAi!OfSpan(costs, span) = Among(costs, P)
    BY OfSpanIs DEF P
  <2>10. Gathered(recent, key, span) = Among(recent, Q)
    BY Zenon DEF Gathered, Q
  <2> QED
    BY <2>2, <2>4, <2>6, <2>7, <2>8, <2>9, <2>10 DEF val
<1>22. groups \in [1..m -> Int] /\ \A i \in 1..m : groups[i] = DecimalMicros(w[i])
  <2>1. \A i \in 1..m : DecimalMicros(w[i]) \in Int
    BY <1>14, <1>15, MicrosType DEF Amounts
  <2> QED
    BY <2>1
<1> HIDE DEF groups, recent, key, kept
<1>23. \A i \in 1..m : groups[i] = Worth(RowMicros, Gathered(recent, key, order[i]))
  BY <1>14, <1>15, <1>21, <1>22
<1>24. Grouped(groups, RowMicros, recent, key, order, S)
  BY <1>20, <1>22, <1>23 DEF Grouped, m
<1>25. Total(groups) = Worth(RowMicros, recent)
  BY <1>10, <1>17, <1>18, <1>24, WorthGroups
<1>26. ASSUME NEW row \in ToSet(costs), row.start \in K PROVE Told(row)
  <2>1. PICK i \in 1..m : order[i] = OpenAi!Span(row)
    BY <1>9, <1>11, <1>26
  <2> QED
    BY <1>14, <1>15, <2>1
<1> QED
  BY <1>1, <1>15, <1>16, <1>19, <1>25, <1>26 DEF V, K, T

\* What the property takes an entry to cost, and the entries since a start.
EntryMicros(e) == IF IsAmount(e.result) THEN Micros(e.result.amount) ELSE 0
SpentEntries(rows, start) ==
    LET entries == EntriesOf(rows)
    IN Among(entries, {e \in ToSet(entries) : e.start >= start})
MicrosSince(rows, start) ==
    LET since == SpentEntries(rows, start)
    IN Total([i \in DOMAIN since |-> EntryMicros(since[i])])

\* Millionths in cents.
InCents(micros) == Rounded(micros, 10000)

\* Where each result since a start is told, they cost what the rows since then do.
LEMMA MicrosSinceAre ==
    ASSUME PowersOfTen, NEW costs \in Seq(OpenAiCostRows), FineRows(costs), NEW start,
           \A row \in ToSet(costs) : row.start \in MinutesFrom(start) => Told(row)
    PROVE  MicrosSince(costs, start)
             = Worth(KeptRowWorth(Int, OpenAi!RawCostResults, MicrosWorth, MinutesFrom(start)), costs)
<1> DEFINE T == OpenAi!RawCostResults
           K == MinutesFrom(start)
           E == EntrySet(Int, T)
           entries == EntriesOf(costs)
           P == {e \in ToSet(entries) : e.start >= start}
           V == EntryWorth(Int, T, MicrosWorth)
           W == KeptWorth(Int, T, MicrosWorth, K)
           since == SpentEntries(costs, start)
           micros == [i \in DOMAIN since |-> EntryMicros(since[i])]
           kept == {e \in E : e.start \in K}
<1>1. OpenAiCostRows = RowsOf(Int, T) /\ MicrosWorth \in [T -> Int]
  BY CostRowsAre, MicrosWorthType
<1>2. costs \in Seq(RowsOf(Int, T))
  BY <1>1
<1>3. /\ entries \in Seq(E)
      /\ \A e \in ToSet(entries) : \E row \in ToSet(costs) :
             /\ e.start = row.start /\ e.end = row.end /\ e.result \in ToSet(row.results)
  BY <1>2, EntriesAre
<1>4. \A e \in ToSet(entries) : e \in E
  BY <1>3 DEF ToSet
<1>5. since = Among(entries, P) /\ P \subseteq ToSet(entries)
  BY Zenon DEF SpentEntries
<1>6. \A e \in E : e.start \in Int /\ e.result \in T /\ V[e] = MicrosWorth[e.result]
  BY DEF EntrySet, EntryWorth
<1>7. \A e \in E : e.start \in K <=> e.start >= start
  BY <1>6 DEF MinutesFrom
<1>8. \A e \in ToSet(entries) : e \in P <=> e \in kept
  BY <1>4, <1>7
<1>9. /\ V \in [E -> Int] /\ W \in [E -> Int]
      /\ \A e \in E : W[e] = IF e.start \in K THEN V[e] ELSE 0
  BY <1>1 DEF EntrySet, EntryWorth, KeptWorth
<1>10. Worth(W, entries) = Worth(KeptRowWorth(Int, T, MicrosWorth, K), costs)
  <2> HIDE DEF T, K
  <2> QED
    BY <1>1, <1>2, WorthKept
<1>11. \A e \in P : e \in E /\ e.start \in K
  BY <1>4, <1>7
<1>12. OnlyIn(W, V, E, kept)
  BY <1>9 DEF OnlyIn
<1> HIDE DEF W, V, E, K, T, entries, since, P, kept
<1>13. since \in Seq(E) /\ ToSet(since) \subseteq P
  BY <1>3, <1>5, AmongIs
<1>14. ASSUME NEW e \in P PROVE EntryMicros(e) = V[e]
  <2>1. PICK row \in ToSet(costs) : e.start = row.start /\ e.result \in ToSet(row.results)
    BY <1>3, <1>5, <1>14
  <2>2. Told(row) /\ FineRow(row)
    BY <1>11, <1>14, <2>1 DEF K, FineRows
  <2>3. IsAmount(e.result) => e.result.amount \in SourceAmounts
    BY <2>1, <2>2, Zenon DEF Told
  <2>4. FineResult(e.result)
    BY <2>1, <2>2, Zenon DEF FineRow
  <2>5. e.result \in T /\ V[e] = MicrosWorth[e.result]
    BY <1>6, <1>11, <1>14
  <2>6. MicrosWorth[e.result]
          = IF IsAmount(e.result) /\ e.result.amount \in SourceAmounts /\ Fine(e.result.amount)
            THEN Micros(e.result.amount) ELSE 0
    BY <2>5 DEF MicrosWorth, T
  <2> QED
    BY <2>3, <2>4, <2>5, <2>6, Zenon DEF EntryMicros, FineResult
<1>15. \A i \in DOMAIN since : micros[i] = V[since[i]]
  <2> TAKE i \in DOMAIN since
  <2>1. since[i] \in ToSet(since)
    BY ONLY i \in DOMAIN since, Zenon DEF ToSet
  <2> QED
    BY <1>13, <1>14, <2>1
<1>16. Worth(V, since) = Total(micros)
  <2>1. DOMAIN micros = DOMAIN since /\ micros = [i \in DOMAIN micros |-> micros[i]]
    OBVIOUS
  <2> HIDE DEF micros
  <2>2. micros = [i \in DOMAIN since |-> V[since[i]]]
    BY <1>15, <2>1, Zenon
  <2> QED
    BY <2>2, Zenon DEF Worth
<1> HIDE DEF micros
<1>17. Among(entries, P) = Among(entries, kept)
  <2>1. \A i \in DOMAIN entries : entries[i] \in P <=> entries[i] \in kept
    BY <1>8, Zenon DEF ToSet
  <2>2. [i \in DOMAIN entries |-> IF entries[i] \in P THEN <<entries[i]>> ELSE <<>>]
          = [i \in DOMAIN entries |-> IF entries[i] \in kept THEN <<entries[i]>> ELSE <<>>]
    BY <2>1, Zenon
  <2> QED
    BY <2>2, Zenon DEF Among
<1>18. Worth(V, Among(entries, kept)) = Worth(W, entries)
  <2>1. Picks(entries, E, kept, V, W)
    BY <1>3, <1>9, <1>12, Zenon DEF Picks
  <2> QED
    BY <2>1, WorthPicked, Zenon
<1>19. MicrosSince(costs, start) = Total(micros)
  BY Zenon DEF MicrosSince, since, micros
<1> QED
  BY <1>5, <1>10, <1>16, <1>17, <1>18, <1>19 DEF T, K

\* The spend of a period is the amounts since its start, rounded once.
LEMMA OpenAiSpendExact ==
    ASSUME PowersOfTen, RefusalIsApart, RoomToRound, NEW raw,
           raw.usage \in Seq(OpenAi!RawPages("usage") \cup {Refused}),
           raw.costs \in Seq(OpenAi!RawPages("costs") \cup {Refused}),
           OpenAi!OpenAiAccount(raw) # Refused, FineRows(Rows(raw.costs)), NEW p \in Periods
    PROVE  OpenAi!OpenAiAccount(raw).budget[p].spent
             = Dollars(InCents(MicrosSince(Rows(raw.costs), raw.starts[p])))
<1> DEFINE account == OpenAi!OpenAiAccount(raw)
           usage == OpenAi!Rows(raw.usage)
           costs == OpenAi!Rows(raw.costs)
           buckets == OpenAi!MergeBuckets(usage, costs)
           models == OpenAi!ModelTotals(OpenAi!Results(usage))
           spent == [q \in OpenAi!Periods |-> OpenAi!SpentSince(raw.starts[q], costs)]
           budget == [q \in OpenAi!Periods |->
                         OpenAi!CalculateBudgetState(OpenAi!Dollars(spent[q]), None, None)]
           bad == \/ ~OpenAi!Parsed(raw.usage) \/ ~OpenAi!Parsed(raw.costs)
                  \/ OpenAi!Broken(buckets, models)
                  \/ Refused \in {spent[q] : q \in OpenAi!Periods}
           breakdown == OpenAi!ModelBreakdown(models)
           platform == OpenAi!PlatformAccount("openai-local", "openai", "openai.platform", budget,
                                              buckets, breakdown)
           start == raw.starts[p]
<1>1. account = IF bad THEN Refused ELSE platform
  BY Zenon DEF OpenAi!OpenAiAccount
<1>2. ~bad /\ account = platform
  <2> HIDE DEF bad, platform, account
  <2>1. account # Refused
    BY DEF account
  <2> QED
    BY <1>1, <2>1, Zenon
<1> HIDE DEF account
<1>3. Refused \notin ToSet(raw.costs) /\ \A q \in Periods : spent[q] # Refused
  <2> HIDE DEF buckets, spent, models
  <2> QED
    BY <1>2, OpenAiSet, OpenAiSpend, Zenon DEF OpenAi!Parsed
<1> HIDE DEF bad, models, buckets, breakdown
<1>4. costs = Rows(raw.costs)
  BY OpenAiRows
<1>5. costs \in Seq(OpenAiCostRows)
  BY <1>3, OpenAiPages, ParsedRows, OpenAiRows
<1> HIDE DEF costs
<1>6. account.budget = budget
  <2> HIDE DEF budget
  <2> QED
    BY <1>2, Zenon DEF OpenAi!PlatformAccount
<1> HIDE DEF platform
<1>7. spent[p] = OpenAi!SpentSince(start, costs)
  BY OpenAiSpend, Zenon
<1> HIDE DEF spent, start
<1>8. budget[p] = CalculateBudgetState(Dollars(spent[p]), None, None)
  BY OpenAiSpend, Zenon
<1> HIDE DEF budget
<1>9. account.budget[p].spent = Dollars(spent[p])
  BY <1>6, <1>8 DEF CalculateBudgetState
<1>10. FineRows(costs)
  BY <1>4
<1>11. /\ spent[p] = InCents(Worth(KeptRowWorth(Int, OpenAi!RawCostResults, MicrosWorth,
                                                 MinutesFrom(start)), costs))
       /\ \A row \in ToSet(costs) : row.start \in MinutesFrom(start) => Told(row)
  <2>1. OpenAi!SpentSince(start, costs) # Refused
    BY <1>3, <1>7
  <2> QED
    BY <1>5, <1>7, <1>10, <2>1, SpentSinceIs DEF InCents
<1>12. MicrosSince(costs, start)
         = Worth(KeptRowWorth(Int, OpenAi!RawCostResults, MicrosWorth, MinutesFrom(start)), costs)
  BY <1>5, <1>10, <1>11, MicrosSinceAre
<1>13. spent[p] = InCents(MicrosSince(costs, start))
  BY <1>11, <1>12, Zenon
<1> QED
  BY <1>4, <1>9, <1>13 DEF account, start

\* The amounts an OpenAI organization reports are no finer than a millionth.
FineCosts ==
    "openai" \in DOMAIN Pages =>
        \A page \in Pages["openai"]["costs"] : page # Refused => FineRows(page)

\* The rows of such pages are.
LEMMA FineReport ==
    ASSUME FineCosts, "openai" \in DOMAIN Pages, NEW pages \in Seq(Pages["openai"]["costs"]),
           Refused \notin ToSet(pages), pages \in Seq(OpenAi!RawPages("costs") \cup {Refused})
    PROVE  FineRows(Rows(pages))
<1>1. pages \in Seq(Seq(OpenAiCostRows))
  BY OpenAiPages, ParsedRows
<1>2. ToSet(FlattenSeq(pages)) = UNION {ToSet(pages[i]) : i \in DOMAIN pages}
  BY <1>1, FlattenIs
<1>3. \A i \in DOMAIN pages : pages[i] \in Pages["openai"]["costs"] /\ pages[i] # Refused
  BY DEF ToSet
<1>4. \A i \in DOMAIN pages : FineRows(pages[i])
  BY <1>3 DEF FineCosts
<1> QED
  BY <1>2, <1>4 DEF FineRows, Rows

\* The results of the cost pages since a start, as the property chooses them.
OpenAiEntriesSince(start) == Chosen(Entries("costs"), LAMBDA e : e.start >= start)

\* So it is in every shown account of an OpenAI organization.
LEMMA ShownSpendHolds ==
    ASSUME PowersOfTen, RefusalIsApart, RoomToRound, FineCosts, ReportInv, KnownPages,
           Shown("openai")
    PROVE  SpendExact
<1>1. source = "openai" /\ Accepted
  BY DEF Shown
<1>2. Account = Normalize(source, report) /\ Account # Refused
  BY <1>1, ShownIs
<1> HIDE DEF Account
<1>3. OfPages("openai", report) /\ "openai" \in DOMAIN Pages
  BY <1>1, <1>2, ShownIs, ReportAssumption DEF ReportInv, Plans
<1>4. /\ report.usage \in Seq(OpenAi!RawPages("usage") \cup {Refused})
      /\ report.costs \in Seq(OpenAi!RawPages("costs") \cup {Refused})
  BY <1>3 DEF OfPages, Feeds, RawPages
<1>5. Account = OpenAi!OpenAiAccount(report) /\ OpenAi!OpenAiAccount(report) # Refused
  BY <1>1, <1>2 DEF Normalize
<1>6. FineRows(Rows(report.costs))
  <2>1. Refused \notin ToSet(report.costs)
    BY <1>5, OpenAiSet, Zenon DEF OpenAi!OpenAiAccount, OpenAi!Parsed
  <2>2. report.costs \in Seq(Pages["openai"]["costs"])
    <3>1. source # None /\ source \in DOMAIN Pages /\ "costs" \in Feeds
      BY <1>1, <1>3, ShownIs DEF Feeds
    <3>2. report["costs"] \in Seq(Pages[source]["costs"])
      BY <3>1, Zenon DEF KnownPages
    <3> QED
      BY <1>1, <3>2
  <2> QED
    BY <1>3, <1>4, <2>1, <2>2, FineReport
<1>7. Entries("costs") = EntriesOf(Rows(report.costs))
  BY Zenon DEF Entries, EntriesOf
<1>8. \A start : OpenAiEntriesSince(start) = SpentEntries(Rows(report.costs), start)
  <2> TAKE start
  <2> DEFINE s == Entries("costs")
             P == {e \in ToSet(s) : e.start >= start}
             parts == [i \in DOMAIN s |-> IF s[i].start >= start THEN <<s[i]>> ELSE <<>>]
             among == [i \in DOMAIN s |-> IF s[i] \in P THEN <<s[i]>> ELSE <<>>]
  <2>1. OpenAiEntriesSince(start) = FlattenSeq(parts)
    BY Zenon DEF OpenAiEntriesSince, Chosen
  <2>2. SpentEntries(Rows(report.costs), start) = Among(s, P)
    BY <1>7, Zenon DEF SpentEntries
  <2>3. \A i \in DOMAIN s : s[i] \in P <=> s[i].start >= start
    BY Zenon DEF ToSet
  <2> HIDE DEF P, s
  <2>4. parts = among
    BY <2>3, Zenon
  <2> QED
    BY <2>1, <2>2, <2>4, Zenon DEF Among
<1>9. ASSUME NEW p \in Periods
      PROVE  Account.budget[p].spent
               = Dollars(InCents(SumOf(EntryMicros, OpenAiEntriesSince(report.starts[p]))))
  <2>1. Account.budget[p].spent
          = Dollars(InCents(MicrosSince(Rows(report.costs), report.starts[p])))
    BY <1>4, <1>5, <1>6, OpenAiSpendExact
  <2>2. MicrosSince(Rows(report.costs), report.starts[p])
          = SumOf(EntryMicros, OpenAiEntriesSince(report.starts[p]))
    <3> DEFINE since == SpentEntries(Rows(report.costs), report.starts[p])
    <3>1. MicrosSince(Rows(report.costs), report.starts[p])
            = Total([i \in DOMAIN since |-> EntryMicros(since[i])])
      BY Zenon DEF MicrosSince
    <3>2. OpenAiEntriesSince(report.starts[p]) = since
      BY <1>8
    <3> HIDE DEF since
    <3>3. Total([i \in DOMAIN since |-> EntryMicros(since[i])]) = SumOf(EntryMicros, since)
      BY Zenon DEF SumOf, Total
    <3> QED
      BY <3>1, <3>2, <3>3
  <2> QED
    BY <2>1, <2>2, Zenon
<1> QED
  BY <1>9, Zenon DEF SpendExact, OpenAiEntriesSince, EntryMicros, SumOf, InCents

\* What is not shown has nothing to be exact.
LEMMA SpendHolds ==
    ASSUME PowersOfTen, RefusalIsApart, RoomToRound, FineCosts, ReportInv, KnownPages
    PROVE  SpendExact
<1>1. CASE Shown("openai")
  BY <1>1, ShownSpendHolds
<1>2. CASE ~Shown("openai")
  BY <1>2 DEF SpendExact
<1> QED
  BY <1>1, <1>2

\* The spend of an OpenAI organization is the exact sum of the amounts its pages
\* name since the period's start, rounded once to cents, whatever pages, buckets
\* and scales they came in: given that a refusal is no value, that a coefficient
\* has room for the powers that round a millionth, that the amounts are no finer
\* than one, and what a power of ten is.
THEOREM ShownSpendExact ==
    PowersOfTen /\ RefusalIsApart /\ RoomToRound /\ FineCosts => (Spec => []SpendExact)
<1> SUFFICES ASSUME PowersOfTen, RefusalIsApart, RoomToRound, FineCosts
             PROVE  Spec => []SpendExact
  OBVIOUS
<1>1. ReportInv /\ KnownPages => SpendExact
  BY SpendHolds
<1> QED
  BY <1>1, KnownStays, PTL
===============================================================================
