---------------------------- MODULE TableProofs ----------------------------
(***************************************************************************)
(* Lemmas about the SSTables of logregator-tsdb, for records of any length *)
(* and any block size limit: what write and finalize do to a writer, what  *)
(* can be read of the file that they leave, and where a cursor over it     *)
(* begins and goes.                                                        *)
(***************************************************************************)
EXTENDS MergeIter, FiniteSetTheorems, WellFoundedInduction, TLAPS

\* A set of numbers has a least one.
LEMMA LeastNumber ==
  ASSUME NEW T \in SUBSET Nat, T # {}
  PROVE  \E c \in T : \A d \in T : c <= d
<1>1. PICK c \in T : \A d \in T : <<d, c>> \notin OpToRel(<, Nat)
  BY NatLessThanWellFounded, WFMin, Zenon
<1>2. \A d \in T : ~(d < c)
  BY <1>1 DEF OpToRel
<1> QED
  BY <1>2

-----------------------------------------------------------------------------
(* Sums of lengths.                                                          *)

\* The sums of the first lengths.
SumsOf(f, x, k) == f = [i \in 0 .. k |-> IF i = 0 THEN 0 ELSE f[i - 1] + x[i]]

LEMMA SumsExist ==
  ASSUME NEW n \in Nat, NEW x
  PROVE  \E f : SumsOf(f, x, n)
<1> DEFINE Solved(m) == \E f : SumsOf(f, x, m)
           T == {m \in 0 .. n : ~Solved(m)}
<1>1. SUFFICES ASSUME T # {} PROVE FALSE
  OBVIOUS
<1>2. PICK c \in T : \A d \in T : c <= d
  <2>1. T \in SUBSET Nat
    OBVIOUS
  <2> HIDE DEF T
  <2> QED
    BY <1>1, <2>1, LeastNumber
<1>3. CASE c = 0
  <2> DEFINE f == [i \in 0 .. 0 |-> 0]
  <2>1. f = [i \in 0 .. 0 |-> IF i = 0 THEN 0 ELSE f[i - 1] + x[i]]
    OBVIOUS
  <2>2. SumsOf(f, x, 0)
    BY <2>1, Zenon DEF SumsOf
  <2> QED
    BY <1>2, <1>3, <2>2
<1>4. CASE c # 0
  <2>1. c \in Nat /\ c - 1 \in 0 .. n /\ c - 1 \in Nat /\ c - 1 \notin T
    BY <1>2, <1>4
  <2>2. PICK g : SumsOf(g, x, c - 1)
    BY <2>1
  <2> DEFINE f == [i \in 0 .. c |-> IF i = c THEN g[c - 1] + x[c] ELSE g[i]]
  <2>3. \A i \in 0 .. (c - 1) : g[i] = IF i = 0 THEN 0 ELSE g[i - 1] + x[i]
    BY <2>2 DEF SumsOf
  <2>4. \A i \in 0 .. c : f[i] = IF i = 0 THEN 0 ELSE f[i - 1] + x[i]
    BY <1>4, <2>1, <2>3
  <2>5. f = [i \in 0 .. c |-> IF i = 0 THEN 0 ELSE f[i - 1] + x[i]]
    BY <2>4
  <2>6. SumsOf(f, x, c)
    BY <2>5, Zenon DEF SumsOf
  <2> QED
    BY <1>2, <2>6
<1> QED
  BY <1>3, <1>4

\* Total is the last of the sums.
LEMMA TotalSums ==
  ASSUME NEW x \in Seq(Nat)
  PROVE  \E f : SumsOf(f, x, Len(x)) /\ Total(x) = f[Len(x)] /\ \A i \in 0 .. Len(x) : f[i] \in Nat
<1> DEFINE n == CHOOSE n : n = [i \in 0 .. Len(x) |-> IF i = 0 THEN 0 ELSE n[i - 1] + x[i]]
<1>1. PICK k \in Nat : k = Len(x)
  OBVIOUS
<1>2. n = [i \in 0 .. Len(x) |-> IF i = 0 THEN 0 ELSE n[i - 1] + x[i]]
  <2>1. \E f : f = [i \in 0 .. Len(x) |-> IF i = 0 THEN 0 ELSE f[i - 1] + x[i]]
    BY <1>1, SumsExist, Zenon DEF SumsOf
  <2> QED
    BY <2>1, Zenon
<1>3. Total(x) = n[Len(x)]
  BY Zenon DEF Total
<1>4. SumsOf(n, x, Len(x))
  BY <1>2, Zenon DEF SumsOf
<1> HIDE DEF n
<1>5. n[0] = 0 /\ \A i \in 1 .. k : n[i] = n[i - 1] + x[i]
  BY <1>1, <1>2, SMTT(30)
<1> DEFINE T == {i \in 0 .. k : n[i] \notin Nat}
<1>6. T = {}
  <2> SUFFICES ASSUME T # {} PROVE FALSE
    OBVIOUS
  <2>1. PICK c \in T : \A d \in T : c <= d
    <3>1. T \in SUBSET Nat
      OBVIOUS
    <3> HIDE DEF T
    <3> QED
      BY <3>1, LeastNumber
  <2>2. c # 0 /\ c \in 1 .. k /\ c - 1 \in 0 .. k /\ c - 1 \notin T
    BY <1>5, <2>1
  <2>3. n[c - 1] \in Nat /\ n[c] = n[c - 1] + x[c] /\ x[c] \in Nat
    BY <1>1, <1>5, <2>2
  <2> QED
    BY <2>1, <2>3
<1> QED
  BY <1>1, <1>3, <1>4, <1>6, Zenon

\* Two sums over the same lengths agree.
Parallel(a, b, x, y, k) ==
  /\ a[0] = b[0] /\ \A i \in 1 .. k : x[i] = y[i]
  /\ \A i \in 1 .. k : a[i] = a[i - 1] + x[i] /\ b[i] = b[i - 1] + y[i]

LEMMA SumsAgree ==
  ASSUME NEW k \in Nat, NEW a, NEW b, NEW x, NEW y, Parallel(a, b, x, y, k)
  PROVE  a[k] = b[k]
<1> USE DEF Parallel
<1> DEFINE T == {i \in 0 .. k : a[i] # b[i]}
<1> SUFFICES ASSUME T # {} PROVE FALSE
  OBVIOUS
<1>1. PICK c \in T : \A d \in T : c <= d
  <2>1. T \in SUBSET Nat
    OBVIOUS
  <2> HIDE DEF T
  <2> QED
    BY <2>1, LeastNumber
<1>2. c # 0 /\ c \in 1 .. k /\ c - 1 \in 0 .. k /\ c - 1 \notin T
  BY <1>1
<1>3. a[c - 1] = b[c - 1] /\ x[c] = y[c] /\ a[c] = a[c - 1] + x[c] /\ b[c] = b[c - 1] + y[c]
  BY <1>2
<1>4. a[c] = b[c]
  BY <1>3
<1> QED
  BY <1>1, <1>4

LEMMA TotalEmpty == Total(<<>>) = 0
<1>1. PICK f : SumsOf(f, <<>>, Len(<<>>)) /\ Total(<<>>) = f[Len(<<>>)]
  <2>1. <<>> \in Seq(Nat)
    OBVIOUS
  <2> QED
    BY <2>1, TotalSums
<1>2. Len(<<>>) = 0
  OBVIOUS
<1> QED
  BY <1>1, <1>2 DEF SumsOf

LEMMA TotalAppend ==
  ASSUME NEW s \in Seq(Nat), NEW x \in Nat
  PROVE  Total(Append(s, x)) = Total(s) + x /\ Total(s) \in Nat
<1>1. PICK t \in Seq(Nat) : t = Append(s, x)
  <2>1. Append(s, x) \in Seq(Nat)
    OBVIOUS
  <2> QED
    BY <2>1, Zenon
<1>2. PICK k \in Nat : k = Len(s) /\ Len(t) = k + 1 /\ t[k + 1] = x /\ \A i \in 1 .. k : t[i] = s[i]
  BY <1>1
<1>3. PICK a : SumsOf(a, s, k) /\ Total(s) = a[k] /\ \A i \in 0 .. k : a[i] \in Nat
  BY <1>2, TotalSums
<1>4. PICK b : SumsOf(b, t, k + 1) /\ Total(t) = b[k + 1]
  BY <1>2, TotalSums
<1>5. a[0] = 0 /\ \A i \in 1 .. k : a[i] = a[i - 1] + s[i]
  BY <1>3 DEF SumsOf
<1>6. b[0] = 0 /\ b[k + 1] = b[k] + t[k + 1] /\ \A i \in 1 .. k : b[i] = b[i - 1] + t[i]
  BY <1>4 DEF SumsOf
<1>7. a[k] = b[k]
  <2>1. Parallel(a, b, s, t, k)
    BY <1>2, <1>5, <1>6 DEF Parallel
  <2> QED
    BY <2>1, SumsAgree, Zenon
<1>8. a[k] \in Nat
  BY <1>3
<1> QED
  BY <1>1, <1>2, <1>3, <1>4, <1>6, <1>7, <1>8

\* The sums step by step.
LEMMA LongerPrefix ==
  ASSUME NEW S, NEW s \in Seq(S), NEW k \in 1 .. Len(s)
  PROVE  /\ SubSeq(s, 1, k) = Append(SubSeq(s, 1, k - 1), s[k])
         /\ SubSeq(s, 1, k - 1) \in Seq(S) /\ SubSeq(s, 1, k) \in Seq(S) /\ s[k] \in S
         /\ Len(SubSeq(s, 1, k - 1)) = k - 1
<1> DEFINE t == SubSeq(s, 1, k - 1)
           u == SubSeq(s, 1, k)
           v == Append(t, s[k])
<1>1. t \in Seq(S) /\ Len(t) = k - 1 /\ \A i \in 1 .. (k - 1) : t[i] = s[i]
  OBVIOUS
<1>2. u \in Seq(S) /\ Len(u) = k /\ \A i \in 1 .. k : u[i] = s[i]
  OBVIOUS
<1>3. s[k] \in S
  OBVIOUS
<1> HIDE DEF t, u
<1>4. v \in Seq(S) /\ Len(v) = k /\ \A i \in 1 .. k : v[i] = s[i]
  BY <1>1, <1>3
<1> HIDE DEF v
<1>5. u = v
  BY <1>2, <1>4
<1> QED
  BY <1>1, <1>2, <1>3, <1>5, Zenon DEF t, u, v

LEMMA TotalUpTo ==
  ASSUME NEW s \in Seq(Nat), NEW k \in 1 .. Len(s)
  PROVE  /\ Total(SubSeq(s, 1, k)) = Total(SubSeq(s, 1, k - 1)) + s[k]
         /\ Total(SubSeq(s, 1, k - 1)) \in Nat /\ Total(SubSeq(s, 1, k)) \in Nat
         /\ s[k] \in Nat
<1>1. PICK t, u : t = SubSeq(s, 1, k - 1) /\ u = SubSeq(s, 1, k)
  OBVIOUS
<1>2. t \in Seq(Nat) /\ u = Append(t, s[k]) /\ s[k] \in Nat
  BY <1>1, LongerPrefix, Zenon
<1>3. Total(u) = Total(t) + s[k] /\ Total(t) \in Nat
  BY <1>2, TotalAppend
<1> QED
  BY <1>1, <1>2, <1>3

\* Where lengths are positive, no two sums are equal.
LEMMA TotalGrows ==
  ASSUME NEW s \in Seq(Nat), \A i \in 1 .. Len(s) : s[i] > 0,
         NEW j \in 0 .. Len(s), NEW k \in 0 .. Len(s), j < k
  PROVE  Total(SubSeq(s, 1, j)) < Total(SubSeq(s, 1, k))
<1> DEFINE U(i) == Total(SubSeq(s, 1, i))
           T == {i \in (j + 1) .. Len(s) : ~(U(j) < U(i))}
<1>1. ASSUME NEW i \in 1 .. Len(s) PROVE U(i - 1) < U(i) /\ U(i - 1) \in Nat /\ U(i) \in Nat
  <2>1. PICK a, b : a = U(i - 1) /\ b = U(i)
    OBVIOUS
  <2>2. b = a + s[i] /\ a \in Nat /\ b \in Nat /\ s[i] \in Nat
    BY <2>1, TotalUpTo, Zenon
  <2>3. a < b
    BY <2>2
  <2> QED
    BY <2>1, <2>2, <2>3, Zenon
<1> HIDE DEF U
<1> SUFFICES ASSUME T # {} PROVE FALSE
  <2>1. k \notin T /\ k \in (j + 1) .. Len(s)
    OBVIOUS
  <2> QED
    BY <2>1 DEF U
<1>2. PICK c \in T : \A d \in T : c <= d
  <2>1. T \in SUBSET Nat
    OBVIOUS
  <2> HIDE DEF T
  <2> QED
    BY <2>1, LeastNumber
<1>3. c # j + 1 /\ c - 1 \in (j + 1) .. Len(s) /\ c - 1 \notin T
  BY <1>1, <1>2, SMTT(30)
<1>4. U(j) < U(c - 1) /\ U(c - 1) < U(c)
  BY <1>1, <1>2, <1>3
<1>5. U(j) \in Nat /\ U(c - 1) \in Nat /\ U(c) \in Nat
  <2>1. j + 1 \in 1 .. Len(s) /\ (j + 1) - 1 = j /\ c \in 1 .. Len(s)
    BY <1>2
  <2> QED
    BY <1>1, <2>1
<1> QED
  BY <1>2, <1>4, <1>5

-----------------------------------------------------------------------------
(* Blocks.                                                                   *)

TableRecord == [key : Key, len : Nat]

WireLens(recs) == [i \in DOMAIN recs |-> wire_len(recs[i])]

LEMMA DataLenAppend ==
  ASSUME NEW s \in Seq(TableRecord), NEW r \in TableRecord
  PROVE  /\ DataLen(Append(s, r)) = DataLen(s) + wire_len(r)
         /\ DataLen(s) \in Nat /\ wire_len(r) \in Nat /\ wire_len(r) > 0
<1>1. \A x \in TableRecord : wire_len(x) \in Nat /\ wire_len(x) > 0
  BY DEF TableRecord, wire_len, KEY_SIZE, SZ_U32
<1> DEFINE a == WireLens(s)
           b == WireLens(Append(s, r))
<1>2. a \in Seq(Nat) /\ Len(a) = Len(s) /\ \A i \in 1 .. Len(s) : a[i] = wire_len(s[i])
  <2>1. \A i \in 1 .. Len(s) : s[i] \in TableRecord
    OBVIOUS
  <2> QED
    BY <1>1, <2>1 DEF WireLens
<1>3. b \in Seq(Nat) /\ Len(b) = Len(s) + 1 /\ b[Len(s) + 1] = wire_len(r)
      /\ \A i \in 1 .. Len(s) : b[i] = wire_len(s[i])
  <2>1. PICK t : t = Append(s, r)
    OBVIOUS
  <2>2. t \in Seq(TableRecord) /\ Len(t) = Len(s) + 1 /\ t[Len(s) + 1] = r
        /\ \A i \in 1 .. Len(s) : t[i] = s[i]
    BY <2>1
  <2>3. \A i \in 1 .. Len(t) : t[i] \in TableRecord
    BY <2>2
  <2>4. PICK c : c = WireLens(t)
    OBVIOUS
  <2>5. DOMAIN t = 1 .. Len(t) /\ c \in Seq(Nat) /\ Len(c) = Len(t)
        /\ \A i \in 1 .. Len(t) : c[i] = wire_len(t[i])
    BY <1>1, <2>2, <2>3, <2>4 DEF WireLens
  <2>6. Len(c) = Len(s) + 1 /\ c[Len(s) + 1] = wire_len(r) /\ \A i \in 1 .. Len(s) : c[i] = wire_len(s[i])
    BY <2>2, <2>5
  <2> QED
    BY <2>1, <2>4, <2>5, <2>6, Zenon
<1>4. PICK w \in Nat : w = wire_len(r)
  BY <1>1
<1> HIDE DEF a, b
<1>5. b = Append(a, w)
  <2>1. PICK c : c = Append(a, w)
    OBVIOUS
  <2>2. c \in Seq(Nat) /\ Len(c) = Len(s) + 1 /\ c[Len(s) + 1] = w /\ \A i \in 1 .. Len(s) : c[i] = a[i]
    BY <1>2, <2>1
  <2>3. ASSUME NEW i \in 1 .. (Len(s) + 1) PROVE c[i] = b[i]
    <3>1. CASE i = Len(s) + 1
      BY <1>3, <1>4, <2>2, <3>1, Zenon
    <3>2. CASE i # Len(s) + 1
      <4>1. i \in 1 .. Len(s)
        BY <3>2
      <4> QED
        BY <1>2, <1>3, <2>2, <4>1, Zenon
    <3> QED
      BY <3>1, <3>2
  <2>4. b = c
    BY <1>2, <1>3, <2>2, <2>3
  <2> QED
    BY <2>1, <2>4
<1>6. Total(b) = Total(a) + w /\ Total(a) \in Nat
  BY <1>2, <1>5, TotalAppend
<1>7. DataLen(s) = Total(a) /\ DataLen(Append(s, r)) = Total(b)
  BY Zenon DEF DataLen, WireLens, a, b
<1> QED
  BY <1>1, <1>4, <1>6, <1>7

LEMMA DataLenEmpty == DataLen(<<>>) = 0
<1>1. PICK e : e = WireLens(<<>>)
  OBVIOUS
<1>2. e = <<>>
  BY <1>1 DEF WireLens
<1> QED
  BY <1>1, <1>2, TotalEmpty, Zenon DEF DataLen, WireLens

\* The records of a block and where they start.
Filled(data, offsets) ==
  /\ data \in Seq(TableRecord) /\ \A i \in 1 .. Len(data) : CanEncode(data[i])
  /\ offsets \in Seq(Nat) /\ Len(offsets) = Len(data)
  /\ \A i \in 1 .. Len(data) : offsets[i] = DataLen(SubSeq(data, 1, i - 1))

LEMMA FilledEmpty == Filled(<<>>, <<>>)
<1>1. <<>> \in Seq(TableRecord) /\ <<>> \in Seq(Nat) /\ Len(<<>>) = 0
  OBVIOUS
<1> QED
  BY <1>1 DEF Filled

\* One more record.
LEMMA FilledAppend ==
  ASSUME NEW data, NEW offsets, Filled(data, offsets), NEW r \in TableRecord, CanEncode(r)
  PROVE  Filled(Append(data, r), Append(offsets, DataLen(data)))
<1>1. /\ data \in Seq(TableRecord) /\ offsets \in Seq(Nat) /\ Len(offsets) = Len(data)
      /\ \A i \in 1 .. Len(data) : CanEncode(data[i]) /\ offsets[i] = DataLen(SubSeq(data, 1, i - 1))
  BY DEF Filled
<1>2. PICK k \in Nat : k = Len(data)
  BY <1>1
<1>3. PICK n \in Nat : n = DataLen(data)
  BY <1>1, DataLenAppend
<1>4. PICK d, o : d = Append(data, r) /\ o = Append(offsets, n)
  OBVIOUS
<1>5. /\ d \in Seq(TableRecord) /\ Len(d) = k + 1 /\ d[k + 1] = r
      /\ \A i \in 1 .. k : d[i] = data[i]
  BY <1>1, <1>2, <1>4
<1>6. /\ o \in Seq(Nat) /\ Len(o) = k + 1 /\ o[k + 1] = n
      /\ \A i \in 1 .. k : o[i] = offsets[i]
  BY <1>1, <1>2, <1>3, <1>4
<1>7. ASSUME NEW i \in 1 .. (k + 1) PROVE SubSeq(d, 1, i - 1) = SubSeq(data, 1, i - 1)
  <2>1. PICK a, b : a = SubSeq(d, 1, i - 1) /\ b = SubSeq(data, 1, i - 1)
    OBVIOUS
  <2>2. a \in Seq(TableRecord) /\ Len(a) = i - 1 /\ \A j \in 1 .. (i - 1) : a[j] = d[j]
    BY <1>5, <2>1
  <2>3. b \in Seq(TableRecord) /\ Len(b) = i - 1 /\ \A j \in 1 .. (i - 1) : b[j] = data[j]
    BY <1>1, <1>2, <2>1
  <2>4. \A j \in 1 .. (i - 1) : a[j] = b[j]
    BY <1>5, <2>2, <2>3, SMTT(30)
  <2>5. a = b
    BY <2>2, <2>3, <2>4
  <2> QED
    BY <2>1, <2>5
<1>8. SubSeq(data, 1, (k + 1) - 1) = data
  BY <1>1, <1>2
<1>9. ASSUME NEW i \in 1 .. (k + 1) PROVE o[i] = DataLen(SubSeq(d, 1, i - 1)) /\ CanEncode(d[i])
  <2>1. CASE i = k + 1
    <3>1. DataLen(SubSeq(d, 1, i - 1)) = DataLen(data)
      BY <1>7, <1>8, <2>1, Zenon
    <3> QED
      BY <1>3, <1>5, <1>6, <2>1, <3>1, Zenon
  <2>2. CASE i # k + 1
    <3>1. i \in 1 .. k
      BY <2>2
    <3>2. o[i] = DataLen(SubSeq(data, 1, i - 1)) /\ CanEncode(d[i])
      BY <1>1, <1>2, <1>5, <1>6, <3>1, Zenon
    <3> QED
      BY <1>7, <3>2, Zenon
  <2> QED
    BY <2>1, <2>2
<1>10. Filled(d, o)
  BY <1>5, <1>6, <1>9, Zenon DEF Filled
<1> QED
  BY <1>3, <1>4, <1>10, Zenon

\* A record takes the bytes between its offset and the next.
LEMMA RecordBytes ==
  ASSUME NEW b, Filled(b.data, b.offsets), NEW i \in 0 .. (Len(b.offsets) - 1)
  PROVE  /\ RecordEnd(b, i) = b.offsets[i + 1] + wire_len(b.data[i + 1])
         /\ b.offsets[i + 1] \in Nat
         /\ wire_len(b.data[i + 1]) \in MIN_RECORD_WIRE_LENGTH .. MAX_RECORD_WIRE_LENGTH
<1>1. PICK d, o : d = b.data /\ o = b.offsets
  OBVIOUS
<1>2. /\ d \in Seq(TableRecord) /\ o \in Seq(Nat) /\ Len(o) = Len(d) /\ i \in 0 .. (Len(o) - 1)
      /\ \A j \in 1 .. Len(d) : CanEncode(d[j]) /\ o[j] = DataLen(SubSeq(d, 1, j - 1))
  BY <1>1, Zenon DEF Filled
<1>3. i + 1 \in 1 .. Len(d) /\ o[i + 1] \in Nat
  BY <1>2
<1>4. PICK t : t = SubSeq(d, 1, i)
  OBVIOUS
<1>5. /\ t \in Seq(TableRecord) /\ SubSeq(d, 1, i + 1) = Append(t, d[i + 1]) /\ d[i + 1] \in TableRecord
  <2>1. (i + 1) - 1 = i
    BY <1>2
  <2> QED
    BY <1>2, <1>3, <1>4, <2>1, LongerPrefix
<1>6. DataLen(SubSeq(d, 1, i + 1)) = DataLen(t) + wire_len(d[i + 1])
  BY <1>5, DataLenAppend
<1>7. o[i + 1] = DataLen(t)
  <2>1. (i + 1) - 1 = i
    BY <1>2
  <2> QED
    BY <1>2, <1>3, <1>4, <2>1
<1>8. RecordEnd(b, i) = DataLen(SubSeq(d, 1, i + 1))
  <2>1. CASE i + 1 < Len(o)
    <3>1. RecordEnd(b, i) = o[i + 2]
      BY <1>1, <2>1 DEF RecordEnd
    <3>2. i + 2 \in 1 .. Len(d) /\ (i + 2) - 1 = i + 1
      BY <1>2, <2>1
    <3> QED
      BY <1>2, <3>1, <3>2
  <2>2. CASE ~(i + 1 < Len(o))
    <3>1. RecordEnd(b, i) = DataLen(d)
      BY <1>1, <2>2 DEF RecordEnd
    <3>2. SubSeq(d, 1, i + 1) = d
      BY <1>2, <2>2
    <3> QED
      BY <3>1, <3>2
  <2> QED
    BY <2>1, <2>2
<1>9. wire_len(d[i + 1]) \in MIN_RECORD_WIRE_LENGTH .. MAX_RECORD_WIRE_LENGTH
  <2>1. PICK x \in TableRecord : x = d[i + 1] /\ CanEncode(x)
    BY <1>2, <1>3, <1>5
  <2>2. wire_len(x) \in MIN_RECORD_WIRE_LENGTH .. MAX_RECORD_WIRE_LENGTH
    BY <2>1, PayloadAssumption
       DEF CanEncode, check_payload_size, wire_len, MIN_RECORD_WIRE_LENGTH, MAX_RECORD_WIRE_LENGTH,
           KEY_SIZE, SZ_U32, TableRecord
  <2> QED
    BY <2>1, <2>2
<1> QED
  BY <1>1, <1>3, <1>6, <1>7, <1>8, <1>9

\* A block that was filled is decoded.
LEMMA FilledDecodes ==
  ASSUME NEW b, Filled(b.data, b.offsets)
  PROVE  decode_block(b) = <<b>>
<1>1. MIN_RECORD_WIRE_LENGTH \in Nat /\ MIN_RECORD_WIRE_LENGTH > 0 /\ MAX_RECORD_WIRE_LENGTH \in Nat
  BY PayloadAssumption DEF MIN_RECORD_WIRE_LENGTH, MAX_RECORD_WIRE_LENGTH, KEY_SIZE, SZ_U32
<1>2. ASSUME NEW i \in 0 .. (Len(b.offsets) - 1)
      PROVE  /\ b.offsets[i + 1] < RecordEnd(b, i)
             /\ RecordEnd(b, i) - b.offsets[i + 1] \in MIN_RECORD_WIRE_LENGTH .. MAX_RECORD_WIRE_LENGTH
  <2>1. PICK x, y, z : x = RecordEnd(b, i) /\ y = b.offsets[i + 1] /\ z = wire_len(b.data[i + 1])
    OBVIOUS
  <2>2. x = y + z /\ y \in Nat /\ z \in MIN_RECORD_WIRE_LENGTH .. MAX_RECORD_WIRE_LENGTH
    BY <2>1, RecordBytes, Zenon
  <2>3. y < x /\ x - y \in MIN_RECORD_WIRE_LENGTH .. MAX_RECORD_WIRE_LENGTH
    BY <1>1, <2>2
  <2> QED
    BY <2>1, <2>3, Zenon
<1>3. OffsetsIncrease(b)
  BY <1>2, Zenon DEF OffsetsIncrease
<1> QED
  BY <1>2, <1>3, Zenon DEF decode_block

\* The writer of a block keeps it so, with its first and its last key.
Filling(bw) ==
  /\ Filled(bw.buffer, bw.offsets) /\ bw.size = DataLen(bw.buffer)
  /\ IF bw.buffer = <<>> THEN bw.first_key = <<>>
     ELSE bw.first_key = <<bw.buffer[1].key>> /\ bw.last_key = <<bw.buffer[Len(bw.buffer)].key>>

LEMMA NewFilling == Filling(BlockWriter_new) /\ BlockWriter_new.buffer = <<>>
BY FilledEmpty, DataLenEmpty DEF Filling, BlockWriter_new

LEMMA WriteFilling ==
  ASSUME NEW bw, Filling(bw), NEW r \in TableRecord, NEW limit, block_write(bw, r, limit).out = "Written"
  PROVE  /\ Filling(block_write(bw, r, limit).bw)
         /\ block_write(bw, r, limit).bw.buffer = Append(bw.buffer, r)
<1>1. PICK new : new = block_write(bw, r, limit).bw
  OBVIOUS
<1>2. CanEncode(r) /\ new = [buffer |-> Append(bw.buffer, r),
                             offsets |-> Append(bw.offsets, bw.size),
                             size |-> bw.size + wire_len(r),
                             first_key |-> IF bw.first_key = <<>> THEN <<r.key>> ELSE bw.first_key,
                             last_key |-> <<r.key>>]
  BY <1>1 DEF block_write
<1>3. /\ new.buffer = Append(bw.buffer, r) /\ new.offsets = Append(bw.offsets, bw.size)
      /\ new.size = bw.size + wire_len(r) /\ new.last_key = <<r.key>>
      /\ new.first_key = IF bw.first_key = <<>> THEN <<r.key>> ELSE bw.first_key
  BY <1>2
<1>4. PICK d, o, n, k : d = bw.buffer /\ o = bw.offsets /\ n = bw.size /\ k = bw.first_key
  OBVIOUS
<1>5. Filled(d, o) /\ n = DataLen(d) /\ d \in Seq(TableRecord)
  BY <1>4, Zenon DEF Filling, Filled
<1>6. Filled(Append(d, r), Append(o, n)) /\ n + wire_len(r) = DataLen(Append(d, r))
  BY <1>2, <1>5, FilledAppend, DataLenAppend
<1>7. PICK e : e = Append(d, r)
  OBVIOUS
<1>8. e # <<>> /\ e[Len(e)] = r /\ e[1] = IF d = <<>> THEN r ELSE d[1]
  BY <1>5, <1>7
<1>9. k = IF d = <<>> THEN <<>> ELSE <<d[1].key>>
  BY <1>4, Zenon DEF Filling
<1>10. new.first_key = <<e[1].key>>
  <2>1. CASE d = <<>>
    BY <1>3, <1>4, <1>8, <1>9, <2>1, Zenon
  <2>2. CASE d # <<>>
    <3>1. <<d[1].key>> # <<>>
      OBVIOUS
    <3> QED
      BY <1>3, <1>4, <1>8, <1>9, <2>2, <3>1, Zenon
  <2> QED
    BY <2>1, <2>2
<1>11. Filling(new)
  BY <1>3, <1>4, <1>6, <1>7, <1>8, <1>10, Zenon DEF Filling
<1> QED
  BY <1>1, <1>3, <1>11, Zenon

-----------------------------------------------------------------------------
(* The file of a table.                                                      *)

SegLens(file) == [i \in DOMAIN file |-> file[i].len]

\* Segments of some length, and where each of them starts.
Segments(file) == /\ file \in Seq(Range(file))
                  /\ \A i \in 1 .. Len(file) : file[i].len \in Nat /\ file[i].len > 0

LEMMA SegmentLens ==
  ASSUME NEW f, Segments(f)
  PROVE  /\ SegLens(f) \in Seq(Nat) /\ Len(SegLens(f)) = Len(f)
         /\ \A i \in 1 .. Len(f) : SegLens(f)[i] = f[i].len /\ SegLens(f)[i] > 0
         /\ FileLen(f) = Total(SegLens(f)) /\ DOMAIN f = 1 .. Len(f) /\ Len(f) \in Nat
<1>1. f \in Seq(Range(f)) /\ \A i \in 1 .. Len(f) : f[i].len \in Nat /\ f[i].len > 0
  BY DEF Segments
<1>2. DOMAIN f = 1 .. Len(f) /\ Len(f) \in Nat
  BY <1>1
<1>3. PICK a : a = SegLens(f)
  OBVIOUS
<1>4. a \in Seq(Nat) /\ Len(a) = Len(f) /\ \A i \in 1 .. Len(f) : a[i] = f[i].len
  BY <1>1, <1>2, <1>3 DEF SegLens
<1>5. FileLen(f) = Total(a)
  BY <1>3, Zenon DEF FileLen, SegLens
<1> QED
  BY <1>1, <1>2, <1>3, <1>4, <1>5

LEMMA AppendSegment ==
  ASSUME NEW f, Segments(f), NEW seg, seg.len \in Nat, seg.len > 0
  PROVE  /\ Segments(Append(f, seg))
         /\ FileLen(Append(f, seg)) = FileLen(f) + seg.len
         /\ FileLen(f) \in Nat
         /\ Len(f) \in Nat /\ Len(Append(f, seg)) = Len(f) + 1
         /\ Append(f, seg)[Len(f) + 1] = seg
         /\ \A i \in 1 .. Len(f) : Append(f, seg)[i] = f[i]
<1>1. PICK g : g = Append(f, seg)
  OBVIOUS
<1>2. f \in Seq(Range(f) \cup {seg}) /\ Len(f) \in Nat /\ \A i \in 1 .. Len(f) : f[i].len \in Nat /\ f[i].len > 0
  BY DEF Segments
<1>3. g \in Seq(Range(f) \cup {seg}) /\ Len(g) = Len(f) + 1 /\ g[Len(f) + 1] = seg
      /\ \A i \in 1 .. Len(f) : g[i] = f[i]
  BY <1>1, <1>2
<1>4. \A i \in 1 .. Len(g) : g[i].len \in Nat /\ g[i].len > 0
  BY <1>2, <1>3
<1>5. g \in Seq(Range(g))
  <2>1. DOMAIN g = 1 .. Len(g) /\ \A i \in 1 .. Len(g) : g[i] \in Range(g)
    BY <1>3 DEF Range
  <2> QED
    BY <1>3, <2>1
<1>6. Segments(g)
  BY <1>4, <1>5 DEF Segments
<1>7. PICK a, b : a = SegLens(f) /\ b = SegLens(g)
  OBVIOUS
<1>8. a \in Seq(Nat) /\ Len(a) = Len(f) /\ (\A i \in 1 .. Len(f) : a[i] = f[i].len) /\ FileLen(f) = Total(a)
  BY <1>7, SegmentLens
<1>9. b \in Seq(Nat) /\ Len(b) = Len(g) /\ (\A i \in 1 .. Len(g) : b[i] = g[i].len) /\ FileLen(g) = Total(b)
  BY <1>6, <1>7, SegmentLens
<1>10. PICK x \in Nat : x = seg.len
  OBVIOUS
<1>11. b = Append(a, x)
  <2>1. PICK c : c = Append(a, x)
    OBVIOUS
  <2>2. c \in Seq(Nat) /\ Len(c) = Len(f) + 1 /\ c[Len(f) + 1] = x /\ \A i \in 1 .. Len(f) : c[i] = a[i]
    BY <1>8, <2>1
  <2>3. ASSUME NEW i \in 1 .. (Len(f) + 1) PROVE c[i] = b[i]
    <3>1. CASE i = Len(f) + 1
      BY <1>3, <1>9, <1>10, <2>2, <3>1, Zenon
    <3>2. CASE i # Len(f) + 1
      <4>1. i \in 1 .. Len(f) /\ i \in 1 .. Len(g)
        BY <1>2, <1>3, <3>2
      <4> QED
        BY <1>3, <1>8, <1>9, <2>2, <4>1, Zenon
    <3> QED
      BY <3>1, <3>2
  <2>4. b = c
    BY <1>3, <1>9, <2>2, <2>3
  <2> QED
    BY <2>1, <2>4
<1>12. Total(b) = Total(a) + x /\ Total(a) \in Nat
  BY <1>8, <1>11, TotalAppend
<1> QED
  BY <1>1, <1>2, <1>3, <1>6, <1>8, <1>9, <1>10, <1>12, Zenon

\* Where a segment starts is a sum of lengths.
LEMMA StartOfSum ==
  ASSUME NEW f, Segments(f), NEW i \in 1 .. (Len(f) + 1)
  PROVE  StartOf(f, i) = Total(SubSeq(SegLens(f), 1, i - 1))
<1>1. PICK a : a = SegLens(f)
  OBVIOUS
<1>2. /\ a \in Seq(Nat) /\ Len(a) = Len(f) /\ \A j \in 1 .. Len(f) : a[j] = f[j].len
      /\ Len(f) \in Nat
  BY <1>1, SegmentLens
<1>3. PICK g, b, c : g = SubSeq(f, 1, i - 1) /\ b = SegLens(g) /\ c = SubSeq(a, 1, i - 1)
  OBVIOUS
<1>4. Len(g) = i - 1 /\ DOMAIN g = 1 .. (i - 1) /\ \A j \in 1 .. (i - 1) : g[j] = f[j]
  BY <1>2, <1>3 DEF Segments
<1>5. c \in Seq(Nat) /\ Len(c) = i - 1 /\ \A j \in 1 .. (i - 1) : c[j] = f[j].len
  BY <1>2, <1>3
<1>6. b = [j \in 1 .. (i - 1) |-> f[j].len]
  <2>1. b = [j \in 1 .. (i - 1) |-> g[j].len]
    BY <1>3, <1>4 DEF SegLens
  <2> QED
    BY <1>4, <2>1
<1>7. DOMAIN c = 1 .. (i - 1)
  BY <1>5
<1>8. b = c
  BY <1>5, <1>6, <1>7
<1>9. StartOf(f, i) = Total(b)
  BY <1>3, Zenon DEF StartOf, FileLen, SegLens
<1> QED
  BY <1>1, <1>3, <1>8, <1>9

LEMMA StartOfNext ==
  ASSUME NEW f, Segments(f), NEW i \in 1 .. Len(f)
  PROVE  /\ StartOf(f, i + 1) = StartOf(f, i) + f[i].len
         /\ StartOf(f, i) \in Nat /\ StartOf(f, i + 1) \in Nat /\ f[i].len \in Nat
<1>1. PICK a : a = SegLens(f)
  OBVIOUS
<1>2. /\ a \in Seq(Nat) /\ Len(a) = Len(f) /\ \A j \in 1 .. Len(f) : a[j] = f[j].len
      /\ Len(f) \in Nat
  BY <1>1, SegmentLens
<1>3. PICK x, y : x = Total(SubSeq(a, 1, i - 1)) /\ y = Total(SubSeq(a, 1, i))
  OBVIOUS
<1>4. y = x + a[i] /\ x \in Nat /\ y \in Nat /\ a[i] \in Nat
  BY <1>2, <1>3, TotalUpTo
<1>5. StartOf(f, i) = x
  <2>1. i \in 1 .. (Len(f) + 1)
    BY <1>2
  <2> QED
    BY <1>1, <1>3, <2>1, StartOfSum, Zenon
<1>6. StartOf(f, i + 1) = y
  <2>1. i + 1 \in 1 .. (Len(f) + 1) /\ (i + 1) - 1 = i
    BY <1>2
  <2>2. StartOf(f, i + 1) = Total(SubSeq(SegLens(f), 1, (i + 1) - 1))
    BY <2>1, StartOfSum, Zenon
  <2> QED
    BY <1>1, <1>3, <2>1, <2>2, Zenon
<1> QED
  BY <1>2, <1>4, <1>5, <1>6

LEMMA StartOfGrows ==
  ASSUME NEW f, Segments(f), NEW i \in 1 .. Len(f), NEW j \in 1 .. Len(f), i < j
  PROVE  StartOf(f, i) < StartOf(f, j)
<1>1. PICK a : a = SegLens(f)
  OBVIOUS
<1>2. /\ a \in Seq(Nat) /\ Len(a) = Len(f) /\ \A k \in 1 .. Len(a) : a[k] > 0
      /\ Len(f) \in Nat
  BY <1>1, SegmentLens
<1>3. i - 1 \in 0 .. Len(a) /\ j - 1 \in 0 .. Len(a) /\ i - 1 < j - 1
      /\ i \in 1 .. (Len(f) + 1) /\ j \in 1 .. (Len(f) + 1)
  BY <1>2
<1>4. Total(SubSeq(a, 1, i - 1)) < Total(SubSeq(a, 1, j - 1))
  BY <1>2, <1>3, TotalGrows
<1> QED
  BY <1>1, <1>3, <1>4, StartOfSum, Zenon

LEMMA StartOfEnd ==
  ASSUME NEW f, Segments(f)
  PROVE  StartOf(f, Len(f) + 1) = FileLen(f)
<1>1. f \in Seq(Range(f))
  BY DEF Segments
<1>2. SubSeq(f, 1, (Len(f) + 1) - 1) = f
  BY <1>1
<1> QED
  BY <1>2, Zenon DEF StartOf

\* What is written behind a segment does not move it.
LEMMA StartOfKept ==
  ASSUME NEW f, Segments(f), NEW g, Segments(g), Len(f) <= Len(g), \A i \in 1 .. Len(f) : g[i] = f[i],
         NEW i \in 1 .. (Len(f) + 1)
  PROVE  StartOf(g, i) = StartOf(f, i)
<1>1. f \in Seq(Range(f)) /\ g \in Seq(Range(g))
  BY DEF Segments
<1>2. PICK a, b : a = SubSeq(f, 1, i - 1) /\ b = SubSeq(g, 1, i - 1)
  OBVIOUS
<1>3. a \in Seq(Range(f)) /\ Len(a) = i - 1 /\ \A j \in 1 .. (i - 1) : a[j] = f[j]
  BY <1>1, <1>2
<1>4. b \in Seq(Range(g)) /\ Len(b) = i - 1 /\ \A j \in 1 .. (i - 1) : b[j] = g[j]
  BY <1>1, <1>2
<1>5. \A j \in 1 .. (i - 1) : a[j] = b[j]
  BY <1>1, <1>3, <1>4
<1>6. a = b
  BY <1>3, <1>4, <1>5
<1> QED
  BY <1>2, <1>6, Zenon DEF StartOf

\* A read of exactly the bytes of a segment gives the segment.
LEMMA ReadSegment ==
  ASSUME NEW f, Segments(f), NEW i \in 1 .. Len(f), NEW b, b = StartOf(f, i + 1)
  PROVE  ReadAt(f, StartOf(f, i), b) = f[i]
<1> DEFINE E == {k \in 1 .. Len(f) : StartOf(f, k) = StartOf(f, i) /\ f[k].len = b - StartOf(f, i)}
<1>1. i \in E
  <2>1. PICK x, y : x = StartOf(f, i) /\ y = f[i].len
    OBVIOUS
  <2>2. b = x + y /\ x \in Nat /\ y \in Nat
    BY <2>1, StartOfNext, Zenon
  <2>3. y = b - x
    BY <2>2
  <2> QED
    BY <2>1, <2>3, Zenon
<1>2. ASSUME NEW k \in E PROVE k = i
  <2>1. k \in 1 .. Len(f) /\ StartOf(f, k) = StartOf(f, i)
    OBVIOUS
  <2>2. StartOf(f, i) \in Nat /\ StartOf(f, k) \in Nat
    BY <2>1, StartOfNext
  <2>3. ~(k < i) /\ ~(i < k)
    BY <2>1, <2>2, StartOfGrows
  <2>4. Len(f) \in Nat
    BY SegmentLens
  <2> QED
    BY <2>1, <2>3, <2>4
<1>3. E # {} /\ (CHOOSE k \in E : TRUE) = i
  <2> HIDE DEF E
  <2>1. (CHOOSE k \in E : TRUE) \in E
    BY <1>1
  <2> QED
    BY <1>1, <1>2, <2>1, Zenon
<1> QED
  BY <1>3, Zenon DEF ReadAt

-----------------------------------------------------------------------------
(* Sequences of sequences, one after the other.                              *)

\* What FlattenSeq has put together after each of them.
FlatOf(f, x, n) == f = [i \in 1 .. n |-> IF i = 1 THEN x[i] ELSE f[i - 1] \o x[i]]

LEMMA FlatExists ==
  ASSUME NEW n \in Nat, NEW x
  PROVE  \E f : FlatOf(f, x, n)
<1> DEFINE Solved(m) == \E f : FlatOf(f, x, m)
           T == {m \in 0 .. n : ~Solved(m)}
<1>1. SUFFICES ASSUME T # {} PROVE FALSE
  OBVIOUS
<1>2. PICK c \in T : \A d \in T : c <= d
  <2>1. T \in SUBSET Nat
    OBVIOUS
  <2> HIDE DEF T
  <2> QED
    BY <1>1, <2>1, LeastNumber
<1>3. CASE c = 0
  <2> DEFINE f == [i \in 1 .. 0 |-> 0]
  <2>1. f = [i \in 1 .. 0 |-> IF i = 1 THEN x[i] ELSE f[i - 1] \o x[i]]
    OBVIOUS
  <2>2. FlatOf(f, x, 0)
    BY <2>1, Zenon DEF FlatOf
  <2> QED
    BY <1>2, <1>3, <2>2
<1>4. CASE c # 0
  <2>1. c \in Nat /\ c - 1 \in 0 .. n /\ c - 1 \in Nat /\ c - 1 \notin T
    BY <1>2, <1>4
  <2>2. PICK g : FlatOf(g, x, c - 1)
    BY <2>1
  <2>3. \A i \in 1 .. (c - 1) : g[i] = IF i = 1 THEN x[i] ELSE g[i - 1] \o x[i]
    BY <2>2 DEF FlatOf
  <2>4. PICK last : last = IF c = 1 THEN x[c] ELSE g[c - 1] \o x[c]
    OBVIOUS
  <2>5. PICK f : f = [i \in 1 .. c |-> IF i = c THEN last ELSE g[i]]
    OBVIOUS
  <2>6. f[c] = last /\ \A i \in 1 .. (c - 1) : f[i] = g[i]
    BY <1>4, <2>1, <2>5
  <2>7. ASSUME NEW i \in 1 .. c PROVE f[i] = IF i = 1 THEN x[i] ELSE f[i - 1] \o x[i]
    <3>1. CASE i = c
      <4>1. i # 1 => f[i - 1] = g[c - 1]
        BY <2>1, <2>6, <3>1
      <4> QED
        BY <2>4, <2>6, <3>1, <4>1, Zenon
    <3>2. CASE i # c
      <4>1. i \in 1 .. (c - 1) /\ (i # 1 => i - 1 \in 1 .. (c - 1))
        BY <2>1, <3>2
      <4> QED
        BY <2>3, <2>6, <4>1, Zenon
    <3> QED
      BY <3>1, <3>2
  <2>8. f = [i \in 1 .. c |-> IF i = 1 THEN x[i] ELSE f[i - 1] \o x[i]]
    <3>1. PICK h : h = [i \in 1 .. c |-> IF i = 1 THEN x[i] ELSE f[i - 1] \o x[i]]
      OBVIOUS
    <3>2. \A i \in 1 .. c : f[i] = h[i]
      BY <2>7, <3>1, Zenon
    <3>3. f \in [1 .. c -> Range(f)] /\ h \in [1 .. c -> Range(h)]
      BY <2>5, <3>1 DEF Range
    <3>4. f = h
      BY <3>2, <3>3
    <3> QED
      BY <3>1, <3>4, Zenon
  <2>9. FlatOf(f, x, c)
    BY <2>8, Zenon DEF FlatOf
  <2> QED
    BY <1>2, <2>9
<1> QED
  BY <1>3, <1>4

LEMMA FlattenSteps ==
  ASSUME NEW S, NEW x \in Seq(Seq(S)), Len(x) # 0
  PROVE  \E f : /\ FlattenSeq(x) = f[Len(x)] /\ f[1] = x[1]
                /\ \A i \in 2 .. Len(x) : f[i] = f[i - 1] \o x[i]
                /\ \A i \in 1 .. Len(x) : f[i] \in Seq(S)
<1> DEFINE f == CHOOSE f : f = [i \in 1 .. Len(x) |-> IF i = 1 THEN x[i] ELSE f[i - 1] \o x[i]]
<1>1. PICK k \in Nat : k = Len(x) /\ k # 0
  OBVIOUS
<1>2. FlatOf(f, x, Len(x))
  <2>1. \E g : g = [i \in 1 .. Len(x) |-> IF i = 1 THEN x[i] ELSE g[i - 1] \o x[i]]
    BY <1>1, FlatExists, Zenon DEF FlatOf
  <2>2. f = [i \in 1 .. Len(x) |-> IF i = 1 THEN x[i] ELSE f[i - 1] \o x[i]]
    BY <2>1, Zenon
  <2> QED
    BY <2>2, Zenon DEF FlatOf
<1>3. FlattenSeq(x) = f[Len(x)]
  BY Zenon DEF FlattenSeq
<1> HIDE DEF f
<1>4. \A i \in 1 .. k : f[i] = IF i = 1 THEN x[i] ELSE f[i - 1] \o x[i]
  BY <1>1, <1>2, Zenon DEF FlatOf
<1>5. f[1] = x[1] /\ \A i \in 2 .. k : f[i] = f[i - 1] \o x[i]
  <2>1. 1 \in 1 .. k /\ \A i \in 2 .. k : i \in 1 .. k /\ i # 1
    BY <1>1
  <2> QED
    BY <1>4, <2>1, Zenon
<1> DEFINE T == {i \in 1 .. k : f[i] \notin Seq(S)}
<1>6. T = {}
  <2> SUFFICES ASSUME T # {} PROVE FALSE
    OBVIOUS
  <2>1. PICK c \in T : \A d \in T : c <= d
    <3>1. T \in SUBSET Nat
      OBVIOUS
    <3> HIDE DEF T
    <3> QED
      BY <3>1, LeastNumber
  <2>2. \A i \in 1 .. k : x[i] \in Seq(S)
    BY <1>1
  <2>3. CASE c = 1
    BY <1>5, <2>1, <2>2, <2>3
  <2>4. CASE c # 1
    <3>1. c \in 2 .. k /\ c - 1 \in 1 .. k /\ c - 1 \notin T
      BY <2>1, <2>4
    <3>2. f[c - 1] \in Seq(S) /\ f[c] = f[c - 1] \o x[c] /\ x[c] \in Seq(S)
      BY <1>5, <2>2, <3>1
    <3>3. f[c] \in Seq(S)
      BY <3>2
    <3> QED
      BY <2>1, <3>3
  <2> QED
    BY <2>3, <2>4
<1>7. \A i \in 1 .. k : f[i] \in Seq(S)
  BY <1>6
<1> QED
  BY <1>1, <1>3, <1>5, <1>7, Zenon

LEMMA FlattenEmpty == FlattenSeq(<<>>) = <<>>
BY DEF FlattenSeq

LEMMA FlattenType ==
  ASSUME NEW S, NEW x \in Seq(Seq(S))
  PROVE  FlattenSeq(x) \in Seq(S)
<1>1. CASE Len(x) # 0
  <2>1. Len(x) \in 1 .. Len(x)
    BY <1>1
  <2> QED
    BY <1>1, <2>1, FlattenSteps
<1>2. CASE Len(x) = 0
  <2>1. x = <<>>
    BY <1>2
  <2>2. <<>> \in Seq(S)
    OBVIOUS
  <2> QED
    BY <2>1, <2>2, FlattenEmpty, Zenon
<1> QED
  BY <1>1, <1>2

LEMMA FlattenAppend ==
  ASSUME NEW S, NEW x \in Seq(Seq(S)), NEW d \in Seq(S)
  PROVE  FlattenSeq(Append(x, d)) = FlattenSeq(x) \o d
<1>1. PICK y \in Seq(Seq(S)) : y = Append(x, d)
  <2>1. Append(x, d) \in Seq(Seq(S))
    OBVIOUS
  <2> QED
    BY <2>1, Zenon
<1>2. PICK k \in Nat : k = Len(x) /\ Len(y) = k + 1 /\ y[k + 1] = d /\ \A i \in 1 .. k : y[i] = x[i]
  BY <1>1, SMTT(30)
<1>3. PICK b : /\ FlattenSeq(y) = b[k + 1] /\ b[1] = y[1] /\ \A i \in 2 .. (k + 1) : b[i] = b[i - 1] \o y[i]
  <2>1. Len(y) # 0 /\ Len(y) = k + 1
    BY <1>2
  <2>2. PICK b : /\ FlattenSeq(y) = b[Len(y)] /\ b[1] = y[1]
                 /\ \A i \in 2 .. Len(y) : b[i] = b[i - 1] \o y[i]
                 /\ \A i \in 1 .. Len(y) : b[i] \in Seq(S)
    BY <2>1, FlattenSteps
  <2> QED
    BY <2>1, <2>2, Zenon
<1>4. CASE k = 0
  <2>1. x = <<>>
    <3>1. Len(x) = 0
      BY <1>2, <1>4
    <3> QED
      BY <3>1
  <2>2. FlattenSeq(y) = d
    BY <1>2, <1>3, <1>4
  <2>3. <<>> \o d = d
    OBVIOUS
  <2> QED
    BY <1>1, <2>1, <2>2, <2>3, FlattenEmpty, Zenon
<1>5. CASE k # 0
  <2>1. PICK a : /\ FlattenSeq(x) = a[k] /\ a[1] = x[1] /\ \A i \in 2 .. k : a[i] = a[i - 1] \o x[i]
    <3>1. Len(x) # 0 /\ Len(x) = k
      BY <1>2, <1>5
    <3>2. PICK a : /\ FlattenSeq(x) = a[Len(x)] /\ a[1] = x[1]
                   /\ \A i \in 2 .. Len(x) : a[i] = a[i - 1] \o x[i]
                   /\ \A i \in 1 .. Len(x) : a[i] \in Seq(S)
      BY <3>1, FlattenSteps
    <3> QED
      BY <3>1, <3>2, Zenon
  <2> DEFINE T == {i \in 1 .. k : a[i] # b[i]}
  <2>2. T = {}
    <3> SUFFICES ASSUME T # {} PROVE FALSE
      OBVIOUS
    <3>1. PICK c \in T : \A e \in T : c <= e
      <4>1. T \in SUBSET Nat
        OBVIOUS
      <4> HIDE DEF T
      <4> QED
        BY <4>1, LeastNumber
    <3>2. CASE c = 1
      BY <1>2, <1>3, <2>1, <3>1, <3>2
    <3>3. CASE c # 1
      <4>1. c \in 2 .. k /\ c \in 2 .. (k + 1) /\ c - 1 \in 1 .. k /\ c - 1 \notin T /\ c \in 1 .. k
        BY <3>1, <3>3
      <4>2. a[c - 1] = b[c - 1] /\ x[c] = y[c]
        BY <1>2, <4>1
      <4>3. a[c] = b[c]
        BY <1>3, <2>1, <4>1, <4>2, Zenon
      <4> QED
        BY <3>1, <4>3
    <3> QED
      BY <3>2, <3>3
  <2>3. k \in 1 .. k /\ k + 1 \in 2 .. (k + 1) /\ (k + 1) - 1 = k
    BY <1>5
  <2>4. a[k] = b[k]
    BY <2>2, <2>3
  <2>5. b[k + 1] = b[k] \o y[k + 1]
    BY <1>3, <2>3
  <2> QED
    BY <1>1, <1>2, <1>3, <2>1, <2>4, <2>5, Zenon
<1> QED
  BY <1>4, <1>5

-----------------------------------------------------------------------------
(* The writer of a table.                                                    *)

WriterFields == {"bw", "limit", "file", "hasher", "block_bytes_written", "block_meta",
                 "record_count", "first_key", "last_key", "bloom"}

\* A block with records in it.
BlockSeg(seg) ==
  seg.kind = "block" /\ Filled(seg.block.data, seg.block.offsets) /\ seg.block.data # <<>>

\* What the metadata says of a block.
MetaOf(seg, offset) ==
  [offset |-> offset, first_key |-> seg.block.data[1].key,
   last_key |-> seg.block.data[Len(seg.block.data)].key]

\* Blocks one after the other, and the metadata of each.
Laid(file, metas, bytes) ==
  /\ Segments(file) /\ \A i \in 1 .. Len(file) : BlockSeg(file[i])
  /\ metas \in Seq(Range(metas)) /\ Len(metas) = Len(file)
  /\ \A i \in 1 .. Len(file) : metas[i] = MetaOf(file[i], StartOf(file, i))
  /\ bytes = FileLen(file)

\* The records in the blocks of a file, and all that a writer has been given.
DataOf(file) == [i \in DOMAIN file |-> file[i].block.data]
Contents(w) == FlattenSeq(DataOf(w.file)) \o w.bw.buffer

\* The filter knows the streams of the records.
Known(bloom, recs) == \A i \in DOMAIN recs : may_contain(bloom, recs[i].key.stream_id)

WriterOK(w) ==
  /\ DOMAIN w = WriterFields /\ Filling(w.bw)
  /\ Laid(w.file, w.block_meta, w.block_bytes_written) /\ Known(w.bloom, Contents(w))

LEMMA TableRecordExists == TableRecord # {}
<1>1. [key |-> [stream_id |-> 0, timestamp |-> 0, sequence_num |-> 0, source_id |-> 0], len |-> 0]
        \in TableRecord
  BY DEF TableRecord, Key
<1> QED
  BY <1>1

\* Bytes and records come together.
LEMMA DataLenPositive ==
  ASSUME NEW d \in Seq(TableRecord)
  PROVE  DataLen(d) \in Nat /\ (d # <<>> => DataLen(d) > 0)
<1>1. DataLen(d) \in Nat
  BY TableRecordExists, DataLenAppend
<1>2. CASE d # <<>>
  <2>1. PICK k \in 1 .. Len(d) : k = Len(d)
    BY <1>2
  <2>2. /\ SubSeq(d, 1, k) = Append(SubSeq(d, 1, k - 1), d[k])
        /\ SubSeq(d, 1, k - 1) \in Seq(TableRecord) /\ d[k] \in TableRecord
    BY LongerPrefix, Zenon
  <2>3. SubSeq(d, 1, k) = d
    BY <2>1
  <2>4. PICK e \in Seq(TableRecord), r \in TableRecord : d = Append(e, r)
    BY <2>2, <2>3, Zenon
  <2>5. DataLen(d) = DataLen(e) + wire_len(r) /\ DataLen(e) \in Nat /\ wire_len(r) \in Nat /\ wire_len(r) > 0
    BY <2>4, DataLenAppend
  <2> QED
    BY <1>1, <2>5
<1> QED
  BY <1>1, <1>2

LEMMA DataOfSeq ==
  ASSUME NEW f, NEW ms, NEW n, Laid(f, ms, n)
  PROVE  DataOf(f) \in Seq(Seq(TableRecord)) /\ Len(DataOf(f)) = Len(f)
<1>1. DOMAIN f = 1 .. Len(f) /\ Len(f) \in Nat
  BY SegmentLens, Zenon DEF Laid
<1>2. \A i \in 1 .. Len(f) : f[i].block.data \in Seq(TableRecord)
  BY Zenon DEF Laid, BlockSeg, Filled
<1> QED
  BY <1>1, <1>2 DEF DataOf

LEMMA ContentsSeq ==
  ASSUME NEW w, WriterOK(w)
  PROVE  /\ Contents(w) \in Seq(TableRecord) /\ FlattenSeq(DataOf(w.file)) \in Seq(TableRecord)
         /\ w.bw.buffer \in Seq(TableRecord)
<1>1. DataOf(w.file) \in Seq(Seq(TableRecord))
  BY DataOfSeq, Zenon DEF WriterOK
<1>2. w.bw.buffer \in Seq(TableRecord)
  BY Zenon DEF WriterOK, Filling, Filled
<1>3. PICK a, b : a = FlattenSeq(DataOf(w.file)) /\ b = w.bw.buffer
  OBVIOUS
<1>4. a \in Seq(TableRecord) /\ b \in Seq(TableRecord)
  BY <1>1, <1>2, <1>3, FlattenType
<1>5. a \o b \in Seq(TableRecord)
  BY <1>4
<1> QED
  BY <1>3, <1>4, <1>5, Zenon DEF Contents

LEMMA NewWriter ==
  ASSUME NEW limit
  PROVE  WriterOK(writer_new(limit)) /\ Contents(writer_new(limit)) = <<>>
<1>1. PICK w : w = writer_new(limit)
  OBVIOUS
<1>2. /\ DOMAIN w = WriterFields /\ w.bw = BlockWriter_new /\ w.file = <<>> /\ w.block_meta = <<>>
      /\ w.block_bytes_written = 0
  BY <1>1 DEF writer_new, WriterFields
<1>3. Segments(<<>>) /\ Len(<<>>) = 0 /\ <<>> \in Seq(Range(<<>>))
  BY DEF Segments
<1>4. FileLen(<<>>) = 0
  <2>1. PICK e : e = SegLens(<<>>)
    OBVIOUS
  <2>2. e = <<>>
    BY <2>1 DEF SegLens
  <2> QED
    BY <2>1, <2>2, TotalEmpty, Zenon DEF FileLen, SegLens
<1>5. Laid(<<>>, <<>>, 0)
  BY <1>3, <1>4 DEF Laid
<1>6. Filling(w.bw) /\ w.bw.buffer = <<>>
  BY <1>2, NewFilling, Zenon
<1>7. Contents(w) = <<>>
  <2>1. DataOf(<<>>) = <<>>
    BY DEF DataOf
  <2>2. <<>> \o <<>> = <<>>
    OBVIOUS
  <2> QED
    BY <1>2, <1>6, <2>1, <2>2, FlattenEmpty, Zenon DEF Contents
<1>8. Known(w.bloom, <<>>)
  BY DEF Known
<1>9. WriterOK(w)
  BY <1>2, <1>5, <1>6, <1>7, <1>8, Zenon DEF WriterOK
<1> QED
  BY <1>1, <1>7, <1>9, Zenon

\* One more block.
LEMMA LaidAppend ==
  ASSUME NEW f, NEW ms, NEW n, Laid(f, ms, n), NEW seg, BlockSeg(seg), seg.len \in Nat, seg.len > 0
  PROVE  /\ Laid(Append(f, seg), Append(ms, MetaOf(seg, n)), n + seg.len)
         /\ FlattenSeq(DataOf(Append(f, seg))) = FlattenSeq(DataOf(f)) \o seg.block.data
<1>1. /\ Segments(f) /\ (\A i \in 1 .. Len(f) : BlockSeg(f[i])) /\ ms \in Seq(Range(ms))
      /\ Len(ms) = Len(f) /\ (\A i \in 1 .. Len(f) : ms[i] = MetaOf(f[i], StartOf(f, i))) /\ n = FileLen(f)
  BY DEF Laid
<1>2. PICK g, m, ns : g = Append(f, seg) /\ m = MetaOf(seg, n) /\ ns = Append(ms, m)
  OBVIOUS
<1>3. /\ Segments(g) /\ FileLen(g) = FileLen(f) + seg.len /\ Len(f) \in Nat /\ Len(g) = Len(f) + 1
      /\ g[Len(f) + 1] = seg /\ \A i \in 1 .. Len(f) : g[i] = f[i]
  <2>1. /\ Segments(Append(f, seg)) /\ FileLen(Append(f, seg)) = FileLen(f) + seg.len
        /\ FileLen(f) \in Nat /\ Len(f) \in Nat /\ Len(Append(f, seg)) = Len(f) + 1
        /\ Append(f, seg)[Len(f) + 1] = seg /\ \A i \in 1 .. Len(f) : Append(f, seg)[i] = f[i]
    BY <1>1, AppendSegment
  <2> QED
    BY <1>2, <2>1, Zenon
<1>4. ns \in Seq(Range(ns)) /\ Len(ns) = Len(f) + 1 /\ ns[Len(f) + 1] = m /\ \A i \in 1 .. Len(f) : ns[i] = ms[i]
  <2>1. ms \in Seq(Range(ms) \cup {m})
    BY <1>1
  <2>2. ns \in Seq(Range(ms) \cup {m}) /\ Len(ns) = Len(f) + 1 /\ ns[Len(f) + 1] = m
        /\ \A i \in 1 .. Len(f) : ns[i] = ms[i]
    BY <1>1, <1>2, <2>1
  <2>3. DOMAIN ns = 1 .. Len(ns) /\ \A i \in 1 .. Len(ns) : ns[i] \in Range(ns)
    BY <2>2 DEF Range
  <2>4. ns \in Seq(Range(ns))
    BY <2>2, <2>3
  <2> QED
    BY <2>2, <2>4
<1>5. ASSUME NEW i \in 1 .. Len(g) PROVE BlockSeg(g[i]) /\ ns[i] = MetaOf(g[i], StartOf(g, i))
  <2>1. Len(f) <= Len(g) /\ i \in 1 .. (Len(f) + 1)
    BY <1>3
  <2>2. StartOf(g, i) = StartOf(f, i)
    BY <1>1, <1>3, <2>1, StartOfKept
  <2>3. CASE i = Len(f) + 1
    <3>1. StartOf(f, i) = FileLen(f)
      BY <1>1, <2>3, StartOfEnd
    <3> QED
      BY <1>1, <1>2, <1>3, <1>4, <2>2, <2>3, <3>1, Zenon
  <2>4. CASE i # Len(f) + 1
    <3>1. i \in 1 .. Len(f)
      BY <1>3, <2>1, <2>4
    <3> QED
      BY <1>1, <1>3, <1>4, <2>2, <3>1, Zenon
  <2> QED
    BY <2>3, <2>4
<1>6. Laid(g, ns, n + seg.len)
  BY <1>1, <1>3, <1>4, <1>5, Zenon DEF Laid
<1>7. PICK x \in Seq(Seq(TableRecord)), y \in Seq(Seq(TableRecord)), d \in Seq(TableRecord) :
        x = DataOf(f) /\ y = DataOf(g) /\ d = seg.block.data /\ Len(x) = Len(f) /\ Len(y) = Len(g)
  <2>1. seg.block.data \in Seq(TableRecord)
    BY Zenon DEF BlockSeg, Filled
  <2> QED
    BY <1>6, <2>1, DataOfSeq, Zenon
<1>8. y = Append(x, d)
  <2>1. \A i \in 1 .. Len(f) : x[i] = f[i].block.data
    BY <1>1, <1>7, SegmentLens, Zenon DEF DataOf
  <2>2. \A i \in 1 .. Len(g) : y[i] = g[i].block.data
    BY <1>3, <1>7, SegmentLens, Zenon DEF DataOf
  <2>3. PICK z \in Seq(Seq(TableRecord)) : z = Append(x, d)
    <3>1. Append(x, d) \in Seq(Seq(TableRecord))
      OBVIOUS
    <3> QED
      BY <3>1, Zenon
  <2>4. Len(z) = Len(f) + 1 /\ z[Len(f) + 1] = d /\ \A i \in 1 .. Len(f) : z[i] = x[i]
    BY <1>7, <2>3
  <2>5. Len(y) = Len(f) + 1 /\ y[Len(f) + 1] = d /\ \A i \in 1 .. Len(f) : y[i] = x[i]
    <3>1. Len(f) + 1 \in 1 .. Len(g) /\ \A i \in 1 .. Len(f) : i \in 1 .. Len(g)
      BY <1>3
    <3> QED
      BY <1>3, <1>7, <2>1, <2>2, <3>1, Zenon
  <2>6. \A i \in 1 .. (Len(f) + 1) : i \in 1 .. Len(f) \/ i = Len(f) + 1
    BY <1>3
  <2>7. \A i \in 1 .. (Len(f) + 1) : y[i] = z[i]
    BY <2>4, <2>5, <2>6, Zenon
  <2>8. y = z
    BY <2>4, <2>5, <2>7
  <2> QED
    BY <2>3, <2>8, Zenon
<1>9. FlattenSeq(y) = FlattenSeq(x) \o d
  BY <1>8, FlattenAppend, Zenon
<1> QED
  BY <1>2, <1>6, <1>7, <1>9, Zenon

\* A block that is encoded has records.
LEMMA EncodedBlock ==
  ASSUME NEW bw, Filling(bw), encode_block(into_block(bw)) = "ok"
  PROVE  bw.buffer # <<>>
<1>1. into_block(bw).offsets # <<>> /\ into_block(bw).offsets = bw.offsets
  BY DEF encode_block, into_block
<1>2. PICK d, o : d = bw.buffer /\ o = bw.offsets
  OBVIOUS
<1>3. d \in Seq(TableRecord) /\ o \in Seq(Nat) /\ Len(o) = Len(d) /\ o # <<>>
  BY <1>1, <1>2, Zenon DEF Filling, Filled
<1>4. d # <<>>
  BY <1>3
<1> QED
  BY <1>2, <1>4

\* The segment of a block has a length.
LEMMA EncodedBytes ==
  ASSUME NEW b, Filled(b.data, b.offsets)
  PROVE  EncodedLen(b) \in Nat /\ EncodedLen(b) > 0
<1>1. PICK d, o : d = b.data /\ o = b.offsets
  OBVIOUS
<1>2. Filled(d, o)
  BY <1>1, Zenon
<1>3. d \in Seq(TableRecord) /\ Len(o) \in Nat
  BY <1>2 DEF Filled
<1>4. DataLen(d) \in Nat
  BY <1>3, DataLenPositive
<1>5. EncodedLen(b) = DataLen(d) + Len(o) * 2 + 2 + 4
  BY <1>1 DEF EncodedLen, BodyLen, SZ_U16, SZ_U32
<1> QED
  BY <1>3, <1>4, <1>5

\* A block goes to the file.
LEMMA FlushWriter ==
  ASSUME NEW w, WriterOK(w), flush_blocks(w).out = "ok"
  PROVE  /\ WriterOK(flush_blocks(w).w) /\ Contents(flush_blocks(w).w) = Contents(w)
         /\ flush_blocks(w).w.bw.buffer = <<>>
<1> DEFINE b == into_block(w.bw)
           seg == [kind |-> "block", len |-> EncodedLen(b), block |-> b]
           m == [offset |-> w.block_bytes_written,
                 first_key |-> w.bw.first_key[1], last_key |-> w.bw.last_key[1]]
<1>1. PICK v : v = flush_blocks(w).w
  OBVIOUS
<1>2. DOMAIN w = WriterFields /\ Filling(w.bw) /\ Laid(w.file, w.block_meta, w.block_bytes_written)
  BY DEF WriterOK
<1>3. v = [WriteSegment(w, seg) EXCEPT
             !.bw = BlockWriter_new,
             !.block_meta = Append(@, m),
             !.block_bytes_written = @ + seg.len,
             !.record_count = @ + Len(b.offsets),
             !.first_key = IF @ = <<>> THEN w.bw.first_key ELSE @,
             !.last_key = w.bw.last_key]
      /\ encode_block(b) = "ok"
  BY <1>1 DEF flush_blocks
<1>4. b.data = w.bw.buffer /\ b.offsets = w.bw.offsets
  BY DEF into_block
<1>5. w.bw.buffer # <<>>
  BY <1>2, <1>3, EncodedBlock, Zenon
<1>6. seg.kind = "block" /\ seg.block = b /\ seg.len = EncodedLen(b)
  OBVIOUS
<1>7. m = MetaOf(seg, w.block_bytes_written)
  <2>1. PICK d, f, l : d = w.bw.buffer /\ f = w.bw.first_key /\ l = w.bw.last_key
    OBVIOUS
  <2>2. f = <<d[1].key>> /\ l = <<d[Len(d)].key>>
    BY <1>2, <1>5, <2>1, Zenon DEF Filling
  <2>3. f[1] = d[1].key /\ l[1] = d[Len(d)].key
    BY <2>2
  <2>4. MetaOf(seg, w.block_bytes_written)
          = [offset |-> w.block_bytes_written, first_key |-> d[1].key, last_key |-> d[Len(d)].key]
    BY <1>4, <1>6, <2>1, Zenon DEF MetaOf
  <2> QED
    BY <2>1, <2>3, <2>4, Zenon
<1> HIDE DEF b, seg, m
<1>8. /\ DOMAIN v = WriterFields /\ v.bw = BlockWriter_new /\ v.file = Append(w.file, seg)
      /\ v.block_meta = Append(w.block_meta, m) /\ v.bloom = w.bloom
      /\ v.block_bytes_written = w.block_bytes_written + seg.len
  BY <1>2, <1>3 DEF WriteSegment, WriterFields
<1>9. BlockSeg(seg)
  BY <1>2, <1>4, <1>5, <1>6, Zenon DEF BlockSeg, Filling
<1>10. seg.len \in Nat /\ seg.len > 0
  BY <1>6, <1>9, EncodedBytes, Zenon DEF BlockSeg
<1>11. /\ Laid(v.file, v.block_meta, v.block_bytes_written)
       /\ FlattenSeq(DataOf(v.file)) = FlattenSeq(DataOf(w.file)) \o w.bw.buffer
  <2>1. PICK f, ms, n : f = w.file /\ ms = w.block_meta /\ n = w.block_bytes_written
    OBVIOUS
  <2>2. Laid(f, ms, n)
    BY <1>2, <2>1, Zenon
  <2>3. /\ Laid(Append(f, seg), Append(ms, MetaOf(seg, n)), n + seg.len)
        /\ FlattenSeq(DataOf(Append(f, seg))) = FlattenSeq(DataOf(f)) \o seg.block.data
    BY <1>9, <1>10, <2>2, LaidAppend
  <2> QED
    BY <1>4, <1>6, <1>7, <1>8, <2>1, <2>3, Zenon
<1>12. Filling(v.bw) /\ v.bw.buffer = <<>>
  BY <1>8, NewFilling, Zenon
<1>13. Contents(v) = Contents(w)
  <2>1. PICK x \in Seq(TableRecord) : x = Contents(w)
    BY ContentsSeq, Zenon
  <2>2. Contents(v) = x \o <<>>
    BY <1>11, <1>12, <2>1, Zenon DEF Contents
  <2>3. x \o <<>> = x
    OBVIOUS
  <2> QED
    BY <2>1, <2>2, <2>3, Zenon
<1>14. WriterOK(v)
  BY <1>8, <1>11, <1>12, <1>13, Zenon DEF WriterOK
<1> QED
  BY <1>1, <1>12, <1>13, <1>14, Zenon

\* The filter after one more record.
LEMMA KnownAppend ==
  ASSUME NEW bloom, NEW recs \in Seq(TableRecord), Known(bloom, recs), NEW r \in TableRecord
  PROVE  Known(bloom_insert(bloom, r.key.stream_id), Append(recs, r))
<1>1. PICK e : e = Append(recs, r)
  OBVIOUS
<1>2. DOMAIN e = 1 .. (Len(recs) + 1) /\ e[Len(recs) + 1] = r /\ DOMAIN recs = 1 .. Len(recs)
      /\ Len(recs) \in Nat /\ \A i \in 1 .. Len(recs) : e[i] = recs[i]
  BY <1>1
<1>3. PICK new : new = bloom_insert(bloom, r.key.stream_id)
  OBVIOUS
<1>4. bloom \subseteq new /\ may_contain(new, r.key.stream_id)
  BY <1>3 DEF bloom_insert, may_contain
<1>5. ASSUME NEW i \in DOMAIN e PROVE may_contain(new, e[i].key.stream_id)
  <2>1. CASE i = Len(recs) + 1
    BY <1>2, <1>4, <2>1, Zenon
  <2>2. CASE i # Len(recs) + 1
    <3>1. i \in DOMAIN recs /\ e[i] = recs[i]
      BY <1>2, <2>2
    <3>2. may_contain(bloom, e[i].key.stream_id)
      BY <3>1, Zenon DEF Known
    <3> QED
      BY <1>4, <3>2, Zenon DEF may_contain
  <2> QED
    BY <2>1, <2>2
<1>6. Known(new, e)
  BY <1>5, Zenon DEF Known
<1> QED
  BY <1>1, <1>3, <1>6, Zenon

\* A record goes to the block being filled.
LEMMA WriteBlock ==
  ASSUME NEW w, WriterOK(w), NEW r \in TableRecord, write_block(w, r).out = "ok"
  PROVE  WriterOK(write_block(w, r).w) /\ Contents(write_block(w, r).w) = Append(Contents(w), r)
<1>1. PICK v : v = write_block(w, r).w
  OBVIOUS
<1>2. PICK b : b = block_write(w.bw, r, w.limit)
  OBVIOUS
<1>3. write_block(w, r) = IF w.block_bytes_written >= MaxSstSize THEN [out |-> "SstFilledUp", w |-> w]
                          ELSE IF b.out # "Written" THEN [out |-> b.out, w |-> w]
                          ELSE [out |-> "ok",
                                w |-> [w EXCEPT !.bw = b.bw, !.bloom = bloom_insert(@, r.key.stream_id)]]
  BY <1>2, Zenon DEF write_block
<1>4. b.out = "Written"
  <2>1. \A q \in {"Full", "Err", "Written"} : q # "ok"
    OBVIOUS
  <2>2. b.out \in {"Full", "Err", "Written"}
    BY <1>2 DEF block_write
  <2> QED
    BY <1>3, <2>1, <2>2
<1>5. v = [w EXCEPT !.bw = b.bw, !.bloom = bloom_insert(@, r.key.stream_id)]
  <2>1. ~(w.block_bytes_written >= MaxSstSize)
    BY <1>3
  <2> QED
    BY <1>1, <1>3, <1>4, <2>1
<1>6. DOMAIN w = WriterFields /\ Filling(w.bw) /\ Laid(w.file, w.block_meta, w.block_bytes_written)
      /\ Known(w.bloom, Contents(w))
  BY DEF WriterOK
<1>7. PICK c : c = b.bw
  OBVIOUS
<1>8. /\ DOMAIN v = WriterFields /\ v.bw = c /\ v.file = w.file /\ v.block_meta = w.block_meta
      /\ v.block_bytes_written = w.block_bytes_written
      /\ v.bloom = bloom_insert(w.bloom, r.key.stream_id)
  BY <1>5, <1>6, <1>7 DEF WriterFields
<1>9. Filling(c) /\ c.buffer = Append(w.bw.buffer, r)
  <2>1. PICK bw, limit : bw = w.bw /\ limit = w.limit
    OBVIOUS
  <2>2. Filling(bw) /\ block_write(bw, r, limit).out = "Written" /\ c = block_write(bw, r, limit).bw
    BY <1>2, <1>4, <1>6, <1>7, <2>1, Zenon
  <2> QED
    BY <2>1, <2>2, WriteFilling, Zenon
<1>10. Contents(v) = Append(Contents(w), r) /\ Contents(w) \in Seq(TableRecord)
  <2>1. PICK x \in Seq(TableRecord), y \in Seq(TableRecord) : x = FlattenSeq(DataOf(w.file)) /\ y = w.bw.buffer
    BY ContentsSeq, Zenon
  <2>2. x \o Append(y, r) = Append(x \o y, r)
    OBVIOUS
  <2>3. Contents(v) = x \o Append(y, r) /\ Contents(w) = x \o y
    BY <1>8, <1>9, <2>1, Zenon DEF Contents
  <2> QED
    BY <2>2, <2>3, ContentsSeq, Zenon
<1>11. Known(v.bloom, Contents(v))
  BY <1>6, <1>8, <1>10, KnownAppend, Zenon
<1>12. WriterOK(v)
  BY <1>6, <1>8, <1>9, <1>11, Zenon DEF WriterOK
<1> QED
  BY <1>1, <1>10, <1>12, Zenon

\* write takes the record, in this block or in a new one.
LEMMA WriteRecord ==
  ASSUME NEW w, WriterOK(w), NEW r \in TableRecord, write(w, r).out = "ok"
  PROVE  WriterOK(write(w, r).w) /\ Contents(write(w, r).w) = Append(Contents(w), r)
<1>1. PICK v : v = write(w, r)
  OBVIOUS
<1>2. CASE write_block(w, r).out # "Full"
  <2>1. v = write_block(w, r)
    BY <1>1, <1>2, Zenon DEF write
  <2>2. write_block(w, r).out = "ok"
    BY <1>1, <2>1, Zenon
  <2> QED
    BY <1>1, <2>1, <2>2, WriteBlock, Zenon
<1>3. CASE write_block(w, r).out = "Full"
  <2>1. flush_blocks(w).out = "ok" /\ v = write_block(flush_blocks(w).w, r)
    <3>1. CASE flush_blocks(w).out = "ok"
      BY <1>1, <1>3, <3>1, Zenon DEF write
    <3>2. CASE flush_blocks(w).out # "ok"
      <4>1. v = flush_blocks(w)
        BY <1>1, <1>3, <3>2, Zenon DEF write
      <4> QED
        BY <1>1, <3>2, <4>1, Zenon
    <3> QED
      BY <3>1, <3>2
  <2>2. PICK u : u = flush_blocks(w).w
    OBVIOUS
  <2>3. WriterOK(u) /\ Contents(u) = Contents(w)
    BY <2>1, <2>2, FlushWriter, Zenon
  <2>4. v = write_block(u, r) /\ write_block(u, r).out = "ok"
    BY <1>1, <2>1, <2>2, Zenon
  <2>5. WriterOK(write_block(u, r).w) /\ Contents(write_block(u, r).w) = Append(Contents(u), r)
    BY <2>3, <2>4, WriteBlock, Zenon
  <2> QED
    BY <1>1, <2>3, <2>4, <2>5, Zenon
<1> QED
  BY <1>2, <1>3

\* A finished file: the blocks of the writer u, and three segments that are none.
Closed(u, v) ==
  /\ v.bw = u.bw /\ v.block_meta = u.block_meta /\ v.bloom = u.bloom
  /\ v.block_bytes_written = u.block_bytes_written
  /\ Segments(v.file) /\ Len(v.file) = Len(u.file) + 3
  /\ \A i \in 1 .. Len(u.file) : v.file[i] = u.file[i]
  /\ \A i \in (Len(u.file) + 1) .. (Len(u.file) + 3) : v.file[i].kind # "block"

\* The file g is f with k segments after it that are no blocks.
Tailed(f, g, k) ==
  /\ Segments(f) /\ Segments(g) /\ Len(g) = Len(f) + k
  /\ \A i \in 1 .. Len(f) : g[i] = f[i]
  /\ \A i \in (Len(f) + 1) .. (Len(f) + k) : g[i].kind # "block"

TailSeg(seg) == seg.len \in Nat /\ seg.len > 0 /\ seg.kind # "block"

\* A segment that is not a block.
LEMMA CloseStep ==
  ASSUME NEW f, NEW g, NEW k \in Nat, Tailed(f, g, k), NEW seg, TailSeg(seg)
  PROVE  Tailed(f, Append(g, seg), k + 1)
<1>0. /\ Segments(f) /\ Segments(g) /\ Len(g) = Len(f) + k /\ (\A i \in 1 .. Len(f) : g[i] = f[i])
      /\ (\A i \in (Len(f) + 1) .. (Len(f) + k) : g[i].kind # "block")
      /\ seg.len \in Nat /\ seg.len > 0 /\ seg.kind # "block"
  BY DEF Tailed, TailSeg
<1>1. /\ Segments(Append(g, seg)) /\ Len(g) \in Nat /\ Len(Append(g, seg)) = Len(g) + 1
      /\ Append(g, seg)[Len(g) + 1] = seg /\ \A i \in 1 .. Len(g) : Append(g, seg)[i] = g[i]
  BY <1>0, AppendSegment, ZenonT(60)
<1>2. PICK h : h = Append(g, seg)
  OBVIOUS
<1>3. /\ Segments(h) /\ Len(h) = Len(g) + 1 /\ h[Len(g) + 1] = seg /\ \A i \in 1 .. Len(g) : h[i] = g[i]
  BY <1>1, <1>2, Zenon
<1>4. PICK n \in Nat : n = Len(f)
  BY <1>0, SegmentLens
<1>5. Len(g) = n + k
  BY <1>0, <1>4
<1>6. \A i \in 1 .. n : i \in 1 .. (n + k)
  OBVIOUS
<1>7. \A i \in 1 .. n : h[i] = f[i]
  BY <1>0, <1>3, <1>4, <1>5, <1>6, Zenon
<1>8. ASSUME NEW i \in (n + 1) .. (n + (k + 1)) PROVE h[i].kind # "block"
  <2>1. CASE i = (n + k) + 1
    BY <1>0, <1>3, <1>5, <2>1, Zenon
  <2>2. CASE i # (n + k) + 1
    <3>1. i \in (n + 1) .. (n + k) /\ i \in 1 .. (n + k)
      BY <2>2
    <3> QED
      BY <1>0, <1>3, <1>4, <1>5, <3>1, Zenon
  <2> QED
    BY <2>1, <2>2
<1>9. Len(h) = n + (k + 1)
  BY <1>3, <1>5
<1> QED
  BY <1>0, <1>2, <1>3, <1>4, <1>7, <1>8, <1>9, Zenon DEF Tailed

\* finalize closes the file, after the block being filled.
LEMMA FinalizeWriter ==
  ASSUME NEW w, WriterOK(w), finalize(w).out = "ok"
  PROVE  \E u : /\ WriterOK(u) /\ Contents(u) = Contents(w) /\ u.bw.buffer = <<>>
                /\ Closed(u, finalize(w).w)
<1> DEFINE last == IF w.bw.size > 0 THEN flush_blocks(w) ELSE [out |-> "ok", w |-> w]
           metas == [kind |-> "metas", metas |-> last.w.block_meta,
                     len |-> SZ_U32 + Len(last.w.block_meta) * BLOCK_META_SIZE + SZ_U32]
           bloom == [kind |-> "bloom", bloom |-> last.w.bloom, len |-> bloom_wire_len]
           withMetas == WriteSegment(last.w, metas)
           withBloom == WriteSegment(withMetas, bloom)
           metaStart == last.w.block_bytes_written
           bloomStart == metaStart + metas.len
           footer == [kind |-> "footer", len |-> SST_FOOTER_SIZE,
                      blockmeta_offset |-> metaStart, bloom_offset |-> bloomStart,
                      checksum |-> withBloom.hasher \o
                                     <<OffsetBytes(metaStart), OffsetBytes(bloomStart)>>]
<1>1. PICK u, v : u = last.w /\ v = finalize(w).w
  OBVIOUS
<1>2. last.out = "ok" /\ v = [withBloom EXCEPT !.file = Append(@, footer)]
  <2>1. finalize(w) = IF last.out # "ok" THEN last
                      ELSE IF last.w.first_key = <<>> THEN [out |-> "FinalizeMissingKeys", w |-> last.w]
                      ELSE IF "bloom" \in Unfinished THEN [out |-> "panic", w |-> withMetas]
                      ELSE [out |-> "ok", w |-> [withBloom EXCEPT !.file = Append(@, footer)]]
    BY Zenon DEF finalize
  <2> HIDE DEF last, metas, bloom, withMetas, withBloom, metaStart, bloomStart, footer
  <2>2. last.out = "ok"
    BY <2>1
  <2>3. finalize(w) = [out |-> "ok", w |-> [withBloom EXCEPT !.file = Append(@, footer)]]
    BY <2>1, <2>2
  <2> QED
    BY <1>1, <2>2, <2>3
<1>3. WriterOK(u) /\ Contents(u) = Contents(w) /\ u.bw.buffer = <<>>
  <2>1. CASE w.bw.size > 0
    <3>1. last = flush_blocks(w)
      BY <2>1
    <3>2. flush_blocks(w).out = "ok" /\ u = flush_blocks(w).w
      BY <1>1, <1>2, <3>1, Zenon
    <3> QED
      BY <3>2, FlushWriter, Zenon
  <2>2. CASE ~(w.bw.size > 0)
    <3>1. u = w
      BY <1>1, <2>2
    <3>2. PICK d, n : d = w.bw.buffer /\ n = w.bw.size
      OBVIOUS
    <3>3. d \in Seq(TableRecord) /\ n = DataLen(d)
      BY <3>2, Zenon DEF WriterOK, Filling, Filled
    <3>4. ~(n > 0)
      BY <2>2, <3>2, Zenon
    <3>5. d = <<>>
      BY <3>3, <3>4, DataLenPositive
    <3> QED
      BY <3>1, <3>2, <3>5, Zenon
  <2> QED
    BY <2>1, <2>2
<1>4. /\ metas.kind = "metas" /\ metas.len = SZ_U32 + Len(u.block_meta) * BLOCK_META_SIZE + SZ_U32
      /\ bloom.kind = "bloom" /\ bloom.len = bloom_wire_len
      /\ footer.kind = "footer" /\ footer.len = SST_FOOTER_SIZE
      /\ withMetas = WriteSegment(u, metas)
  BY <1>1
<1> HIDE DEF last, metas, bloom, withMetas, metaStart, bloomStart, footer
<1>5. DOMAIN u = WriterFields /\ Laid(u.file, u.block_meta, u.block_bytes_written)
  BY <1>3, Zenon DEF WriterOK
<1>6. /\ DOMAIN withMetas = WriterFields /\ withMetas.file = Append(u.file, metas) /\ withMetas.bw = u.bw
      /\ withMetas.block_meta = u.block_meta /\ withMetas.bloom = u.bloom
      /\ withMetas.block_bytes_written = u.block_bytes_written
  BY <1>4, <1>5 DEF WriteSegment, WriterFields
<1>7. /\ DOMAIN withBloom = WriterFields /\ withBloom.file = Append(withMetas.file, bloom)
      /\ withBloom.bw = u.bw /\ withBloom.block_meta = u.block_meta /\ withBloom.bloom = u.bloom
      /\ withBloom.block_bytes_written = u.block_bytes_written
  BY <1>6 DEF WriteSegment, WriterFields
<1> HIDE DEF withBloom
<1>8. /\ v.file = Append(withBloom.file, footer) /\ v.bw = u.bw /\ v.block_meta = u.block_meta
      /\ v.bloom = u.bloom /\ v.block_bytes_written = u.block_bytes_written
  BY <1>2, <1>7 DEF WriterFields
<1>9. TailSeg(metas) /\ TailSeg(bloom) /\ TailSeg(footer)
  <2>1. Len(u.block_meta) \in Nat
    BY <1>5 DEF Laid
  <2>2. metas.len \in Nat /\ metas.len > 0
    <3>1. PICK n \in Nat : n = Len(u.block_meta)
      BY <2>1
    <3>2. metas.len = 4 + n * BLOCK_META_SIZE + 4 /\ BLOCK_META_SIZE \in Nat
      BY <1>4, <3>1 DEF SZ_U32, BLOCK_META_SIZE, KEY_SIZE
    <3>3. PICK s \in Nat : s = BLOCK_META_SIZE
      BY <3>2
    <3>4. n * s \in Nat
      OBVIOUS
    <3> QED
      BY <3>2, <3>3, <3>4
  <2>3. bloom.len \in Nat /\ bloom.len > 0
    BY <1>4, SstAssumption DEF bloom_wire_len
  <2>4. footer.len \in Nat /\ footer.len > 0
    BY <1>4 DEF SST_FOOTER_SIZE, SZ_U32
  <2> QED
    BY <1>4, <2>2, <2>3, <2>4 DEF TailSeg
<1>10. PICK f, g1, g2, g3 : f = u.file /\ g1 = withMetas.file /\ g2 = withBloom.file /\ g3 = v.file
  OBVIOUS
<1>11. Segments(f) /\ g1 = Append(f, metas) /\ g2 = Append(g1, bloom) /\ g3 = Append(g2, footer)
  BY <1>5, <1>6, <1>7, <1>8, <1>10, Zenon DEF Laid
<1>12. PICK k0 \in Nat, k1 \in Nat, k2 \in Nat, k3 \in Nat :
         k0 = 0 /\ k1 = k0 + 1 /\ k2 = k1 + 1 /\ k3 = k2 + 1 /\ k3 = 3
  OBVIOUS
<1>13. Tailed(f, f, k0)
  <2>1. Len(f) \in Nat
    BY <1>11, SegmentLens
  <2> QED
    BY <1>11, <1>12, <2>1 DEF Tailed
<1>14. Tailed(f, g1, k1)
  BY <1>9, <1>11, <1>12, <1>13, CloseStep, Zenon
<1>15. Tailed(f, g2, k2)
  BY <1>9, <1>11, <1>12, <1>14, CloseStep, Zenon
<1>15a. Tailed(f, g3, k3)
  BY <1>9, <1>11, <1>12, <1>15, CloseStep, Zenon
<1>16. Closed(u, v)
  BY <1>8, <1>10, <1>12, <1>15a, Zenon DEF Closed, Tailed
<1> QED
  BY <1>1, <1>3, <1>16, Zenon

\* Every block of a finished table is read back as it was written.
LEMMA ReadBlocks ==
  ASSUME NEW u, WriterOK(u), NEW v, Closed(u, v), NEW h, h = finalize_file(v)
  PROVE  /\ h.block_metadata = u.block_meta /\ h.bloom = u.bloom
         /\ DOMAIN h.block_metadata = 1 .. Len(u.file) /\ Len(u.file) \in Nat
         /\ \A i \in 1 .. Len(u.file) : read_block(h, i - 1) = <<u.file[i].block>>
<1>1. /\ h.file = v.file /\ h.block_metadata = v.block_meta /\ h.bloom = v.bloom
      /\ h.block_metadata_start_offset = v.block_bytes_written
  BY DEF finalize_file, Handle
<1>2. PICK f, g, ms, n : f = u.file /\ g = v.file /\ ms = u.block_meta /\ n = u.block_bytes_written
  OBVIOUS
<1>3. /\ h.file = g /\ h.block_metadata = ms /\ h.bloom = u.bloom /\ h.block_metadata_start_offset = n
      /\ Laid(f, ms, n) /\ Segments(g) /\ Len(g) = Len(f) + 3 /\ \A i \in 1 .. Len(f) : g[i] = f[i]
  BY <1>1, <1>2, Zenon DEF Closed, WriterOK
<1>4. /\ Segments(f) /\ (\A i \in 1 .. Len(f) : BlockSeg(f[i])) /\ ms \in Seq(Range(ms)) /\ Len(ms) = Len(f)
      /\ (\A i \in 1 .. Len(f) : ms[i] = MetaOf(f[i], StartOf(f, i))) /\ n = FileLen(f)
  BY <1>3, Zenon DEF Laid
<1>5. PICK l \in Nat : l = Len(f)
  BY <1>4, SegmentLens
<1>6. Len(g) = l + 3 /\ Len(f) <= Len(g) /\ DOMAIN ms = 1 .. l /\ Len(ms) = l
  BY <1>3, <1>4, <1>5
<1>7. ASSUME NEW i \in 1 .. l PROVE read_block(h, i - 1) = <<f[i].block>>
  <2>1. i + 1 \in 1 .. (l + 1) /\ i \in 1 .. (l + 1) /\ i \in 1 .. Len(g) /\ i \in Int
    BY <1>6
  <2>2. StartOf(g, i) = StartOf(f, i) /\ StartOf(g, i + 1) = StartOf(f, i + 1)
    BY <1>3, <1>4, <1>5, <1>6, <2>1, StartOfKept
  <2>3. PICK end : end = IF i - 1 = Len(ms) - 1 THEN n ELSE ms[(i - 1) + 2].offset
    OBVIOUS
  <2>4. end = StartOf(g, i + 1)
    <3>1. CASE i = l
      <4>1. i - 1 = Len(ms) - 1
        BY <1>6, <3>1
      <4>2. end = n
        BY <2>3, <4>1
      <4>3. StartOf(f, i + 1) = FileLen(f)
        BY <1>4, <1>5, <3>1, StartOfEnd
      <4> QED
        BY <1>4, <2>2, <4>2, <4>3, Zenon
    <3>2. CASE i # l
      <4>1. i - 1 # Len(ms) - 1 /\ (i - 1) + 2 = i + 1 /\ i + 1 \in 1 .. l
        BY <1>6, <3>2
      <4>2. end = ms[i + 1].offset
        BY <2>3, <4>1
      <4>3. ms[i + 1] = MetaOf(f[i + 1], StartOf(f, i + 1))
        BY <1>4, <1>5, <4>1, Zenon
      <4>4. ms[i + 1].offset = StartOf(f, i + 1)
        BY <4>3 DEF MetaOf
      <4> QED
        BY <2>2, <4>2, <4>4, Zenon
    <3> QED
      BY <3>1, <3>2
  <2>5. ReadAt(g, StartOf(g, i), end) = g[i]
    BY <1>3, <2>1, <2>4, ReadSegment
  <2>6. ms[(i - 1) + 1].offset = StartOf(g, i)
    <3>1. (i - 1) + 1 = i
      BY <2>1
    <3>2. ms[i] = MetaOf(f[i], StartOf(f, i))
      BY <1>4, <1>5, Zenon
    <3>3. ms[i].offset = StartOf(f, i)
      BY <3>2 DEF MetaOf
    <3> QED
      BY <2>2, <3>1, <3>3, Zenon
  <2>7. g[i] = f[i] /\ BlockSeg(f[i])
    BY <1>3, <1>4, <1>5, Zenon
  <2>8. i - 1 < Len(ms)
    BY <1>6
  <2>9. ReadAt(h.file, ms[(i - 1) + 1].offset, end) = f[i] /\ f[i].kind = "block"
    BY <1>3, <2>5, <2>6, <2>7, Zenon DEF BlockSeg
  <2>10. read_block(h, i - 1) = decode_block(f[i].block)
    BY <1>3, <2>3, <2>8, <2>9, Zenon DEF read_block
  <2>11. decode_block(f[i].block) = <<f[i].block>>
    BY <2>7, FilledDecodes, Zenon DEF BlockSeg
  <2> QED
    BY <2>10, <2>11, Zenon
<1> QED
  BY <1>2, <1>3, <1>5, <1>6, <1>7, Zenon
-----------------------------------------------------------------------------
(* Cursors over a finished table of ordered records.                         *)
\* The order of keys.
LEMMA KeyTotal ==
  /\ \A a, b, c \in Key : KeyLess(a, b) /\ KeyLess(b, c) => KeyLess(a, c)
  /\ \A a, b \in Key : a = b \/ KeyLess(a, b) \/ KeyLess(b, a)
  /\ \A a \in Key : ~KeyLess(a, a)
<1>1. ASSUME NEW a \in Key, NEW b \in Key, NEW c \in Key, KeyLess(a, b), KeyLess(b, c)
      PROVE  KeyLess(a, c)
  BY <1>1 DEF Key, KeyLess
<1>2. ASSUME NEW a \in Key, NEW b \in Key, ~KeyLess(a, b), ~KeyLess(b, a)
      PROVE  a = b
  <2>1. /\ a.stream_id = b.stream_id /\ a.timestamp = b.timestamp
        /\ a.sequence_num = b.sequence_num /\ a.source_id = b.source_id
    BY <1>2 DEF Key, KeyLess
  <2> QED
    BY <2>1 DEF Key
<1>3. \A a \in Key : ~KeyLess(a, a)
  BY DEF Key, KeyLess
<1> QED
  BY <1>1, <1>2, <1>3

\* The order of the keys compares the streams first.
LEMMA StreamsFirst ==
  \A x, y, k \in Key :
    /\ KeyLess(x, y) /\ x.stream_id >= k.stream_id => KeyLess(k, y) \/ x.stream_id = k.stream_id
    /\ y.stream_id < k.stream_id /\ (x = y \/ KeyLess(x, y)) => KeyLess(x, k) /\ ~KeyLess(k, x) /\ k # x
<1>1. ASSUME NEW x \in Key, NEW y \in Key, KeyLess(x, y) PROVE x.stream_id <= y.stream_id
  BY <1>1 DEF Key, KeyLess
<1>2. ASSUME NEW x \in Key, NEW y \in Key, x.stream_id < y.stream_id
      PROVE  KeyLess(x, y) /\ ~KeyLess(y, x) /\ y # x
  BY <1>2 DEF Key, KeyLess
<1>3. \A x \in Key : x.stream_id \in Nat
  BY DEF Key
<1> SUFFICES ASSUME NEW x \in Key, NEW y \in Key, NEW k \in Key
             PROVE  /\ KeyLess(x, y) /\ x.stream_id >= k.stream_id => KeyLess(k, y) \/ x.stream_id = k.stream_id
                    /\ y.stream_id < k.stream_id /\ (x = y \/ KeyLess(x, y))
                         => KeyLess(x, k) /\ ~KeyLess(k, x) /\ k # x
  OBVIOUS
<1>4. ASSUME KeyLess(x, y), x.stream_id >= k.stream_id, x.stream_id # k.stream_id PROVE KeyLess(k, y)
  <2>1. k.stream_id < y.stream_id
    BY <1>1, <1>3, <1>4
  <2> QED
    BY <1>2, <2>1
<1>5. ASSUME y.stream_id < k.stream_id, x = y \/ KeyLess(x, y)
      PROVE  KeyLess(x, k) /\ ~KeyLess(k, x) /\ k # x
  <2>1. x.stream_id < k.stream_id
    BY <1>1, <1>3, <1>5
  <2> QED
    BY <1>2, <2>1
<1> QED
  BY <1>4, <1>5, Zenon

\* A set of the first numbers has as many members as its last one says.
LEMMA FirstNumbers ==
  ASSUME NEW n \in Nat, NEW S \in SUBSET (1 .. n), \A i \in S : \A j \in 1 .. i : j \in S
  PROVE  Cardinality(S) \in 0 .. n /\ \A i \in 1 .. n : i \in S <=> i <= Cardinality(S)
<1> DEFINE T == {i \in 1 .. (n + 1) : i \notin S}
<1>1. PICK m \in T : \A d \in T : m <= d
  <2>1. T \in SUBSET Nat /\ n + 1 \in T
    OBVIOUS
  <2> HIDE DEF T
  <2> QED
    BY <2>1, LeastNumber
<1>2. m \in 1 .. (n + 1) /\ m \notin S
  BY <1>1
<1>3. ASSUME NEW i \in 1 .. n PROVE i \in S <=> i <= m - 1
  <2>1. CASE i <= m - 1
    <3>1. i \notin T
      BY <1>1, <1>2, <2>1
    <3> QED
      BY <2>1, <3>1
  <2>2. CASE ~(i <= m - 1)
    <3>1. m \in 1 .. i
      BY <1>2, <2>2
    <3> QED
      BY <1>2, <2>2, <3>1
  <2> QED
    BY <2>1, <2>2
<1>4. S = 1 .. (m - 1)
  <2>1. \A i : i \in S <=> i \in 1 .. (m - 1)
    <3>1. \A i \in 1 .. (m - 1) : i \in 1 .. n /\ i <= m - 1
      BY <1>2
    <3>2. \A i \in S : i \in 1 .. n
      OBVIOUS
    <3>3. \A i \in 1 .. n : i <= m - 1 => i \in 1 .. (m - 1)
      BY <1>2
    <3> QED
      BY <1>3, <3>1, <3>2, <3>3, Zenon
  <2> QED
    BY <2>1, Zenon
<1>5. Cardinality(1 .. (m - 1)) = m - 1
  <2>1. 1 \in Int /\ m - 1 \in Int
    BY <1>2
  <2>2. Cardinality(1 .. (m - 1)) = IF 1 > m - 1 THEN 0 ELSE (m - 1) - 1 + 1
    BY <2>1, FS_Interval
  <2> QED
    BY <1>2, <2>2
<1> QED
  BY <1>2, <1>3, <1>4, <1>5

\* Records in the order of their keys.
Ordered(s) == \A i, j \in 1 .. Len(s) : i < j => KeyLess(s[i].key, s[j].key)

\* How many records come before a key.
LEMMA KeysBefore ==
  ASSUME NEW s \in Seq(TableRecord), Ordered(s), NEW key \in Key
  PROVE  LET q == Cardinality({i \in DOMAIN s : KeyLess(s[i].key, key)})
         IN q \in 0 .. Len(s) /\ \A i \in 1 .. Len(s) : KeyLess(s[i].key, key) <=> i <= q
<1> DEFINE S == {i \in DOMAIN s : KeyLess(s[i].key, key)}
<1>1. PICK n \in Nat : n = Len(s) /\ DOMAIN s = 1 .. n
  OBVIOUS
<1>2. \A i \in 1 .. n : s[i].key \in Key
  <2>1. \A i \in 1 .. n : s[i] \in TableRecord
    BY <1>1
  <2> QED
    BY <2>1 DEF TableRecord
<1>3. \A i \in S : \A j \in 1 .. i : j \in S
  <2> SUFFICES ASSUME NEW i \in S, NEW j \in 1 .. i PROVE j \in S
    OBVIOUS
  <2>1. i \in 1 .. n /\ j \in 1 .. n /\ KeyLess(s[i].key, key)
    BY <1>1
  <2>2. j = i \/ KeyLess(s[j].key, s[i].key)
    BY <1>1, <2>1 DEF Ordered
  <2>3. KeyLess(s[j].key, key)
    BY <1>2, <2>1, <2>2, KeyTotal, Zenon
  <2> QED
    BY <1>1, <2>1, <2>3
<1>4. S \in SUBSET (1 .. n)
  BY <1>1
<1>5. \A i \in 1 .. n : i \in S <=> KeyLess(s[i].key, key)
  BY <1>1
<1> HIDE DEF S
<1>6. Cardinality(S) \in 0 .. n /\ \A i \in 1 .. n : i \in S <=> i <= Cardinality(S)
  BY <1>3, <1>4, FirstNumbers, Zenon
<1>7. Cardinality(S) \in 0 .. Len(s) /\ \A i \in 1 .. Len(s) : KeyLess(s[i].key, key) <=> i <= Cardinality(S)
  BY <1>1, <1>5, <1>6, Zenon
<1> QED
  BY <1>7, Zenon DEF S

\* Where record i of a block starts no other does.
LEMMA OffsetsDiffer ==
  ASSUME NEW d \in Seq(TableRecord), NEW i \in 1 .. Len(d), NEW j \in 1 .. Len(d),
         DataLen(SubSeq(d, 1, i - 1)) = DataLen(SubSeq(d, 1, j - 1))
  PROVE  i = j
<1> DEFINE L == WireLens(d)
<1>1. \A r \in TableRecord : wire_len(r) \in Nat /\ wire_len(r) > 0
  BY DEF TableRecord, wire_len, KEY_SIZE, SZ_U32
<1>2. \A k \in 1 .. Len(d) : d[k] \in TableRecord
  OBVIOUS
<1>3. L \in Seq(Nat) /\ Len(L) = Len(d) /\ \A k \in 1 .. Len(d) : L[k] = wire_len(d[k]) /\ L[k] > 0
  BY <1>1, <1>2, SMTT(30) DEF WireLens
<1>4. ASSUME NEW k \in 1 .. Len(d) PROVE DataLen(SubSeq(d, 1, k - 1)) = Total(SubSeq(L, 1, k - 1))
  <2>1. PICK t, v : t = SubSeq(d, 1, k - 1) /\ v = SubSeq(L, 1, k - 1)
    OBVIOUS
  <2>2. t \in Seq(TableRecord) /\ Len(t) = k - 1 /\ \A m \in 1 .. (k - 1) : t[m] = d[m]
    BY <2>1
  <2>3. v \in Seq(Nat) /\ Len(v) = k - 1 /\ \A m \in 1 .. (k - 1) : v[m] = L[m]
    <3> HIDE DEF L
    <3> QED
      BY <1>3, <2>1, SMTT(30)
  <2>4. PICK x : x = WireLens(t)
    OBVIOUS
  <2>5. \A m \in 1 .. (k - 1) : t[m] \in TableRecord
    BY <2>2
  <2>6. x \in Seq(Nat) /\ Len(x) = k - 1 /\ \A m \in 1 .. (k - 1) : x[m] = wire_len(t[m])
    <3>1. PICK l \in Nat : l = k - 1
      OBVIOUS
    <3>2. DOMAIN t = 1 .. l
      BY <2>2, <3>1
    <3>3. x = [m \in 1 .. l |-> wire_len(t[m])]
      BY <2>4, <3>2, Zenon DEF WireLens
    <3>4. \A m \in 1 .. l : wire_len(t[m]) \in Nat
      BY <1>1, <2>5, <3>1, Zenon
    <3>5. x \in Seq(Nat) /\ Len(x) = l /\ \A m \in 1 .. l : x[m] = wire_len(t[m])
      BY <3>3, <3>4
    <3> QED
      BY <3>1, <3>5, Zenon
  <2>7. \A m \in 1 .. (k - 1) : m \in 1 .. Len(d)
    OBVIOUS
  <2>8. \A m \in 1 .. (k - 1) : x[m] = v[m]
    <3> HIDE DEF L
    <3> QED
      BY <1>3, <2>2, <2>3, <2>6, <2>7, Zenon
  <2>9. x = v
    BY <2>3, <2>6, <2>8
  <2> QED
    BY <2>1, <2>4, <2>9, Zenon DEF DataLen, WireLens
<1> HIDE DEF L
<1>5. PICK a \in 0 .. Len(L), b \in 0 .. Len(L) : a = i - 1 /\ b = j - 1
  BY <1>3
<1>6. Total(SubSeq(L, 1, a)) = Total(SubSeq(L, 1, b))
  BY <1>4, <1>5, Zenon
<1>7. \A k \in 1 .. Len(L) : L[k] > 0
  BY <1>3
<1>8. Total(SubSeq(L, 1, a)) \in Nat
  <2>1. SubSeq(L, 1, a) \in Seq(Nat)
    BY <1>3, SMTT(30)
  <2> QED
    BY <2>1, TotalAppend
<1>9. ~(a < b)
  <2> SUFFICES ASSUME a < b PROVE FALSE
    OBVIOUS
  <2>1. Total(SubSeq(L, 1, a)) < Total(SubSeq(L, 1, b))
    BY <1>3, <1>7, TotalGrows
  <2> QED
    BY <1>6, <1>8, <2>1
<1>10. ~(b < a)
  <2> SUFFICES ASSUME b < a PROVE FALSE
    OBVIOUS
  <2>1. Total(SubSeq(L, 1, b)) < Total(SubSeq(L, 1, a))
    BY <1>3, <1>7, TotalGrows
  <2> QED
    BY <1>6, <1>8, <2>1
<1> QED
  BY <1>5, <1>9, <1>10

\* The record a cursor decodes in a block.
RecordAt(d, k) == IF k < Len(d) THEN <<d[k + 1]>> ELSE <<>>

\* A block cursor decodes the record at its index.
LEMMA BlockAt ==
  ASSUME NEW b, Filled(b.data, b.offsets), NEW k \in Nat
  PROVE  block_at(b, k) = [block |-> b, offset_idx |-> k, record |-> RecordAt(b.data, k)]
<1> DEFINE decoded == {n \in StartsAt(b, b.offsets[k + 1]) :
                         CanDecode(b.data[n], RecordEnd(b, k) - b.offsets[k + 1])}
<1>1. PICK d, o : d = b.data /\ o = b.offsets
  OBVIOUS
<1>2. /\ d \in Seq(TableRecord) /\ o \in Seq(Nat) /\ Len(o) = Len(d)
      /\ \A j \in 1 .. Len(d) : CanEncode(d[j]) /\ o[j] = DataLen(SubSeq(d, 1, j - 1))
  BY <1>1, Zenon DEF Filled
<1>3. CASE k < Len(d)
  <2>1. k + 1 \in 1 .. Len(d) /\ DOMAIN d = 1 .. Len(d)
    BY <1>2, <1>3
  <2>2. StartsAt(b, o[k + 1]) = {k + 1}
    <3>1. \A n \in 1 .. Len(d) : DataLen(SubSeq(d, 1, n - 1)) = o[k + 1] <=> n = k + 1
      BY <1>2, <2>1, OffsetsDiffer
    <3> QED
      BY <1>1, <2>1, <3>1 DEF StartsAt
  <2>3. CanDecode(d[k + 1], RecordEnd(b, k) - o[k + 1])
    <3>1. k \in 0 .. (Len(b.offsets) - 1)
      BY <1>1, <1>2, <1>3
    <3>2. PICK x, y, z : x = RecordEnd(b, k) /\ y = o[k + 1] /\ z = wire_len(d[k + 1])
      OBVIOUS
    <3>3. x = y + z /\ y \in Nat /\ z \in MIN_RECORD_WIRE_LENGTH .. MAX_RECORD_WIRE_LENGTH
      BY <1>1, <3>1, <3>2, RecordBytes, Zenon
    <3>4. MIN_RECORD_WIRE_LENGTH \in Nat /\ MAX_RECORD_WIRE_LENGTH \in Nat
      BY PayloadAssumption DEF MIN_RECORD_WIRE_LENGTH, MAX_RECORD_WIRE_LENGTH, KEY_SIZE, SZ_U32
    <3>5. z <= x - y
      BY <3>3, <3>4
    <3>6. check_payload_size(d[k + 1].len)
      BY <1>2, <2>1 DEF CanEncode
    <3> QED
      BY <3>2, <3>5, <3>6, Zenon DEF CanDecode
  <2>4. decoded = {k + 1}
    BY <1>1, <2>2, <2>3
  <2>5. decoded # {} /\ (CHOOSE n \in decoded : TRUE) = k + 1
    BY <2>4
  <2>6. k < Len(o)
    BY <1>2, <1>3
  <2> HIDE DEF decoded
  <2>7. RecordAt(d, k) = <<d[k + 1]>>
    BY <1>3 DEF RecordAt
  <2>8. block_at(b, k) = [block |-> b, offset_idx |-> k,
                          record |-> IF k < Len(b.offsets) /\ decoded # {}
                                     THEN <<b.data[CHOOSE n \in decoded : TRUE]>> ELSE <<>>]
    BY Zenon DEF block_at, decoded
  <2> QED
    BY <1>1, <2>5, <2>6, <2>7, <2>8, Zenon
<1>4. CASE ~(k < Len(d))
  <2>1. ~(k < Len(b.offsets))
    BY <1>1, <1>2, <1>4
  <2>2. RecordAt(d, k) = <<>>
    BY <1>4 DEF RecordAt
  <2> QED
    BY <1>1, <2>1, <2>2, Zenon DEF block_at
<1> QED
  BY <1>3, <1>4

\* Where the parts of a flattened sequence lie in it.
Positions(o, x, s) ==
  /\ o[0] = 0 /\ o[Len(x)] = Len(s)
  /\ \A i \in 1 .. Len(x) :
       /\ o[i - 1] \in Nat /\ o[i] = o[i - 1] + Len(x[i]) /\ o[i] <= Len(s)
       /\ \A j \in 1 .. Len(x[i]) : s[o[i - 1] + j] = x[i][j]

\* The parts of a flattened sequence have positions in it.
LEMMA FlattenPositions ==
  ASSUME NEW S, NEW x \in Seq(Seq(S))
  PROVE  \E o : Positions(o, x, FlattenSeq(x))
<1>1. CASE Len(x) = 0
  <2>1. x = <<>>
    BY <1>1
  <2>2. PICK s : s = FlattenSeq(x)
    OBVIOUS
  <2>3. s = <<>>
    BY <2>1, <2>2, FlattenEmpty, Zenon
  <2> DEFINE o == [i \in 0 .. 0 |-> 0]
  <2>4. Positions(o, x, s)
    BY <2>1, <2>3 DEF Positions
  <2> QED
    BY <2>2, <2>4, Zenon
<1>2. CASE Len(x) # 0
  <2>1. PICK f : /\ FlattenSeq(x) = f[Len(x)] /\ f[1] = x[1]
                 /\ \A i \in 2 .. Len(x) : f[i] = f[i - 1] \o x[i]
                 /\ \A i \in 1 .. Len(x) : f[i] \in Seq(S)
    BY <1>2, FlattenSteps
  <2>2. PICK k \in Nat : k = Len(x) /\ k # 0
    BY <1>2
  <2>3. \A i \in 1 .. k : x[i] \in Seq(S) /\ Len(x[i]) \in Nat /\ Len(f[i]) \in Nat
    BY <2>1, <2>2
  <2> DEFINE o == [i \in 0 .. k |-> IF i = 0 THEN 0 ELSE Len(f[i])]
  <2>4. o[0] = 0 /\ \A i \in 1 .. k : o[i] = Len(f[i])
    OBVIOUS
  <2> HIDE DEF o
  <2>5. ASSUME NEW i \in 1 .. k
        PROVE  /\ o[i - 1] \in Nat /\ o[i] = o[i - 1] + Len(x[i])
               /\ \A j \in 1 .. Len(x[i]) : f[i][o[i - 1] + j] = x[i][j]
               /\ i # 1 => \A j \in 1 .. o[i - 1] : f[i][j] = f[i - 1][j]
    <3>1. CASE i = 1
      <4>1. o[i - 1] = 0 /\ f[i] = x[i] /\ o[i] = Len(f[i])
        BY <2>1, <2>4, <3>1
      <4> QED
        BY <2>3, <3>1, <4>1
    <3>2. CASE i # 1
      <4>1. i \in 2 .. k /\ i - 1 \in 1 .. k
        BY <3>2
      <4>2. PICK a \in Seq(S), b \in Seq(S) : a = f[i - 1] /\ b = x[i]
        BY <2>1, <2>2, <2>3, <4>1
      <4>3. f[i] = a \o b /\ o[i - 1] = Len(a) /\ o[i] = Len(a \o b)
        BY <2>1, <2>2, <2>4, <4>1, <4>2, Zenon
      <4>4. Len(a \o b) = Len(a) + Len(b) /\ (\A j \in 1 .. Len(b) : (a \o b)[Len(a) + j] = b[j])
            /\ (\A j \in 1 .. Len(a) : (a \o b)[j] = a[j]) /\ Len(a) \in Nat
        OBVIOUS
      <4> QED
        BY <4>2, <4>3, <4>4, Zenon
    <3> QED
      BY <3>1, <3>2
  <2> DEFINE T == {n \in 1 .. k : \E i \in 1 .. n : ~(o[i] <= o[n] /\ \A j \in 1 .. o[i] : f[n][j] = f[i][j])}
  <2>6. T = {}
    <3> SUFFICES ASSUME T # {} PROVE FALSE
      OBVIOUS
    <3>1. PICK c \in T : \A e \in T : c <= e
      <4>1. T \in SUBSET Nat
        OBVIOUS
      <4> HIDE DEF T
      <4> QED
        BY <4>1, LeastNumber
    <3>2. PICK i \in 1 .. c : ~(o[i] <= o[c] /\ \A j \in 1 .. o[i] : f[c][j] = f[i][j])
      BY <3>1
    <3>3. c \in 1 .. k /\ i \in 1 .. k /\ o[i] \in Nat
      BY <2>3, <2>4, <3>1, SMTT(30)
    <3>4. i # c
      BY <3>2, <3>3
    <3>5. c - 1 \in 1 .. k /\ i \in 1 .. (c - 1) /\ c # 1 /\ c - 1 \notin T
      BY <3>1, <3>3, <3>4
    <3>6. o[i] <= o[c - 1] /\ \A j \in 1 .. o[i] : f[c - 1][j] = f[i][j]
      BY <3>5
    <3>7. o[c - 1] \in Nat /\ o[c] = o[c - 1] + Len(x[c]) /\ Len(x[c]) \in Nat
          /\ \A j \in 1 .. o[c - 1] : f[c][j] = f[c - 1][j]
      BY <2>3, <2>5, <3>3, <3>5
    <3>8. o[i] <= o[c]
      BY <3>3, <3>6, <3>7, SMTT(30)
    <3>9. \A j \in 1 .. o[i] : j \in 1 .. o[c - 1]
      BY <3>3, <3>6, <3>7, SMTT(30)
    <3> QED
      BY <3>2, <3>6, <3>7, <3>8, <3>9, Zenon
  <2>7. ASSUME NEW i \in 1 .. k PROVE o[i] <= o[k] /\ \A j \in 1 .. o[i] : f[k][j] = f[i][j]
    <3>1. k \in 1 .. k /\ k \notin T
      BY <2>2, <2>6, SMTT(30)
    <3> QED
      BY <3>1
  <2> HIDE DEF T
  <2>8. PICK s : s = FlattenSeq(x)
    OBVIOUS
  <2>9. s = f[k] /\ k \in 1 .. k /\ Len(s) = o[k]
    BY <2>1, <2>2, <2>4, <2>8
  <2>10. ASSUME NEW i \in 1 .. k, NEW j \in 1 .. Len(x[i]) PROVE s[o[i - 1] + j] = x[i][j]
    <3>1. o[i - 1] + j \in 1 .. o[i]
      BY <2>3, <2>5, SMTT(30)
    <3>2. s[o[i - 1] + j] = f[i][o[i - 1] + j]
      BY <2>7, <2>9, <3>1, Zenon
    <3> QED
      BY <2>5, <3>2, Zenon
  <2>11. Positions(o, x, s)
    BY <2>2, <2>4, <2>5, <2>7, <2>9, <2>10, Zenon DEF Positions
  <2> QED
    BY <2>8, <2>11, Zenon
<1> QED
  BY <1>1, <1>2

\* Block i of a table holds the records from o[i - 1] on up to o[i].
BlockHolds(h, s, o, i) ==
  /\ o[i - 1] \in Nat /\ o[i] \in Nat /\ o[i - 1] < o[i] /\ o[i] <= Len(s)
  /\ h.block_metadata[i].first_key = s[o[i - 1] + 1].key
  /\ h.block_metadata[i].last_key = s[o[i]].key
  /\ \E b : /\ read_block(h, i - 1) = <<b>> /\ Filled(b.data, b.offsets)
            /\ Len(b.data) = o[i] - o[i - 1]
            /\ \A j \in 1 .. Len(b.data) : b.data[j] = s[o[i - 1] + j]

\* The handle h is one on a table of the records s.
Table(h, s, o) ==
  /\ s \in Seq(TableRecord) /\ Ordered(s)
  /\ h.block_metadata \in Seq(Range(h.block_metadata))
  /\ o[0] = 0 /\ o[Len(h.block_metadata)] = Len(s)
  /\ \A i \in 1 .. Len(h.block_metadata) : BlockHolds(h, s, o, i)

\* A finished table is one of the records written.
LEMMA TableHolds ==
  ASSUME NEW u, WriterOK(u), NEW v, Closed(u, v), NEW h, h = finalize_file(v),
         NEW s, Contents(u) = s, u.bw.buffer = <<>>, Ordered(s)
  PROVE  \E o : Table(h, s, o)
<1>1. /\ h.block_metadata = u.block_meta /\ h.bloom = u.bloom
      /\ DOMAIN h.block_metadata = 1 .. Len(u.file) /\ Len(u.file) \in Nat
      /\ \A i \in 1 .. Len(u.file) : read_block(h, i - 1) = <<u.file[i].block>>
  BY ReadBlocks
<1>2. PICK f, ms, n : f = u.file /\ ms = u.block_meta /\ n = u.block_bytes_written
  OBVIOUS
<1>3. Laid(f, ms, n)
  BY <1>2, Zenon DEF WriterOK
<1>4. /\ (\A i \in 1 .. Len(f) : BlockSeg(f[i])) /\ ms \in Seq(Range(ms)) /\ Len(ms) = Len(f)
      /\ (\A i \in 1 .. Len(f) : ms[i] = MetaOf(f[i], StartOf(f, i)))
  BY <1>3, Zenon DEF Laid
<1>5. PICK x : x = DataOf(f)
  OBVIOUS
<1>6. x \in Seq(Seq(TableRecord)) /\ Len(x) = Len(f) /\ Len(f) \in Nat /\ DOMAIN f = 1 .. Len(f)
  <2>1. DOMAIN f = 1 .. Len(f) /\ Len(f) \in Nat
    BY <1>3, SegmentLens, Zenon DEF Laid
  <2> QED
    BY <1>3, <1>5, <2>1, DataOfSeq, Zenon
<1>7. s = FlattenSeq(x) /\ s \in Seq(TableRecord)
  <2>1. PICK y \in Seq(TableRecord) : y = FlattenSeq(DataOf(u.file))
    BY ContentsSeq, Zenon
  <2>2. s = y \o <<>>
    BY <2>1, Zenon DEF Contents
  <2>3. y \o <<>> = y
    OBVIOUS
  <2> QED
    BY <1>2, <1>5, <2>1, <2>2, <2>3, Zenon
<1>8. PICK o : Positions(o, x, s)
  BY <1>6, <1>7, FlattenPositions, Zenon
<1>9. ASSUME NEW i \in 1 .. Len(f) PROVE BlockHolds(h, s, o, i)
  <2>1. PICK b : b = f[i].block
    OBVIOUS
  <2>2. x[i] = b.data /\ Filled(b.data, b.offsets) /\ b.data # <<>>
    BY <1>4, <1>5, <1>6, <2>1, Zenon DEF DataOf, BlockSeg
  <2>3. PICK d \in Seq(TableRecord) : d = b.data /\ d # <<>>
    BY <2>2, Zenon DEF Filled
  <2>4. Len(d) \in Nat /\ Len(d) > 0 /\ 1 \in 1 .. Len(d) /\ Len(d) \in 1 .. Len(d)
    BY <2>3
  <2>5. /\ o[i - 1] \in Nat /\ o[i] = o[i - 1] + Len(d) /\ o[i] <= Len(s)
        /\ \A j \in 1 .. Len(d) : s[o[i - 1] + j] = d[j]
    <3>1. i \in 1 .. Len(x) /\ x[i] = d
      BY <1>6, <2>2, <2>3, Zenon
    <3> QED
      BY <1>8, <3>1, Zenon DEF Positions
  <2>6. o[i] \in Nat /\ o[i - 1] < o[i] /\ Len(d) = o[i] - o[i - 1]
    BY <2>4, <2>5
  <2>7. ms[i] = MetaOf(f[i], StartOf(f, i))
    BY <1>4, Zenon
  <2>8. ms[i].first_key = d[1].key /\ ms[i].last_key = d[Len(d)].key
    BY <2>1, <2>3, <2>7 DEF MetaOf
  <2>9. d[1] = s[o[i - 1] + 1] /\ d[Len(d)] = s[o[i]]
    BY <2>4, <2>5, Zenon
  <2>10. read_block(h, i - 1) = <<b>>
    BY <1>1, <1>2, <2>1, Zenon
  <2>11. \A j \in 1 .. Len(b.data) : b.data[j] = s[o[i - 1] + j]
    BY <2>3, <2>5, Zenon
  <2>12. h.block_metadata[i].first_key = s[o[i - 1] + 1].key /\ h.block_metadata[i].last_key = s[o[i]].key
    BY <1>1, <1>2, <2>8, <2>9, Zenon
  <2> QED
    BY <2>2, <2>3, <2>5, <2>6, <2>10, <2>11, <2>12, Zenon DEF BlockHolds
<1>10. o[0] = 0 /\ o[Len(ms)] = Len(s)
  BY <1>4, <1>6, <1>8, Zenon DEF Positions
<1> QED
  BY <1>1, <1>2, <1>4, <1>7, <1>9, <1>10, Zenon DEF Table

\* The cursor c stands in a block of the table, and p records are behind it,
\* with the one it stands on.
Stands(h, s, o, c, p) ==
  \E b \in 0 .. (Len(h.block_metadata) - 1) : \E k \in 0 .. (o[b + 1] - o[b]) :
    /\ c = [ok |-> TRUE, block_idx |-> b,
            bc |-> [block |-> read_block(h, b)[1], offset_idx |-> k, record |-> c.bc.record]]
    /\ p = IF k < o[b + 1] - o[b] THEN o[b] + k + 1 ELSE o[b + 1]

\* The cursor that stands at place k of block b.
Standing(h, b, k) == [ok |-> TRUE, block_idx |-> b, bc |-> block_at(read_block(h, b)[1], k)]

\* A place in a block, and the record there.
LEMMA PlaceStands ==
  ASSUME NEW h, NEW s, NEW o, Table(h, s, o), NEW b \in 0 .. (Len(h.block_metadata) - 1),
         NEW k \in 0 .. (o[b + 1] - o[b])
  PROVE  /\ o[b] \in Nat /\ o[b + 1] \in Nat /\ o[b] < o[b + 1] /\ o[b + 1] <= Len(s) /\ Len(s) \in Nat
         /\ Standing(h, b, k) = [ok |-> TRUE, block_idx |-> b,
              bc |-> [block |-> read_block(h, b)[1], offset_idx |-> k,
                      record |-> IF k < o[b + 1] - o[b] THEN <<s[o[b] + k + 1]>> ELSE <<>>]]
         /\ Stands(h, s, o, Standing(h, b, k), IF k < o[b + 1] - o[b] THEN o[b] + k + 1 ELSE o[b + 1])
<1>1. Len(h.block_metadata) \in Nat /\ s \in Seq(TableRecord) /\ Len(s) \in Nat
  BY DEF Table
<1>2. PICK i \in 1 .. Len(h.block_metadata) : i = b + 1 /\ i - 1 = b
  BY <1>1
<1>3. BlockHolds(h, s, o, i)
  BY Zenon DEF Table
<1>4. o[b] \in Nat /\ o[b + 1] \in Nat /\ o[b] < o[b + 1] /\ o[b + 1] <= Len(s)
  BY <1>2, <1>3, Zenon DEF BlockHolds
<1>5. PICK e : /\ read_block(h, b) = <<e>> /\ Filled(e.data, e.offsets)
               /\ Len(e.data) = o[b + 1] - o[b]
               /\ \A j \in 1 .. Len(e.data) : e.data[j] = s[o[b] + j]
  BY <1>2, <1>3, Zenon DEF BlockHolds
<1>6. PICK size \in Nat : size = o[b + 1] - o[b] /\ k \in 0 .. size
  BY <1>4
<1>7. k \in Nat
  BY <1>6
<1>8. block_at(e, k) = [block |-> e, offset_idx |-> k, record |-> RecordAt(e.data, k)]
  BY <1>5, <1>7, BlockAt
<1>9. RecordAt(e.data, k) = IF k < size THEN <<s[o[b] + k + 1]>> ELSE <<>>
  <2>1. CASE k < size
    <3>1. k + 1 \in 1 .. size /\ o[b] + (k + 1) = o[b] + k + 1
      BY <1>4, <1>6, <2>1
    <3> QED
      BY <1>5, <1>6, <2>1, <3>1 DEF RecordAt
  <2>2. CASE ~(k < size)
    BY <1>5, <1>6, <2>2 DEF RecordAt
  <2> QED
    BY <2>1, <2>2
<1>10. read_block(h, b)[1] = e
  BY <1>5
<1>11. PICK c, r : c = Standing(h, b, k) /\ r = IF k < size THEN <<s[o[b] + k + 1]>> ELSE <<>>
  OBVIOUS
<1>12. c = [ok |-> TRUE, block_idx |-> b, bc |-> [block |-> e, offset_idx |-> k, record |-> r]]
  BY <1>8, <1>9, <1>10, <1>11, Zenon DEF Standing
<1>13. c.bc.record = r
  BY <1>12
<1>14. Stands(h, s, o, c, IF k < o[b + 1] - o[b] THEN o[b] + k + 1 ELSE o[b + 1])
  BY <1>10, <1>12, <1>13, Zenon DEF Stands
<1> QED
  BY <1>1, <1>4, <1>6, <1>10, <1>11, <1>12, <1>14, Zenon

\* update_current: the first record of a block.
LEMMA AtStands ==
  ASSUME NEW h, NEW s, NEW o, Table(h, s, o), NEW b \in 0 .. (Len(h.block_metadata) - 1)
  PROVE  /\ cursor_at(h, b) = Standing(h, b, 0) /\ cursor_at(h, b).ok
         /\ o[b] \in Nat /\ o[b] < Len(s) /\ Len(s) \in Nat
         /\ cursor_record(cursor_at(h, b)) = <<s[o[b] + 1]>>
         /\ Stands(h, s, o, cursor_at(h, b), o[b] + 1)
<1>1. Len(h.block_metadata) \in Nat /\ s \in Seq(TableRecord) /\ Len(s) \in Nat
  BY DEF Table
<1>2. PICK i \in 1 .. Len(h.block_metadata) : i = b + 1 /\ i - 1 = b
  BY <1>1
<1>3. BlockHolds(h, s, o, i)
  BY Zenon DEF Table
<1>4. o[b] \in Nat /\ o[b + 1] \in Nat /\ o[b] < o[b + 1] /\ o[b + 1] <= Len(s)
  BY <1>2, <1>3, Zenon DEF BlockHolds
<1>5. PICK e : read_block(h, b) = <<e>>
  BY <1>2, <1>3, Zenon DEF BlockHolds
<1>6. PICK k \in 0 .. (o[b + 1] - o[b]) : k = 0 /\ k < o[b + 1] - o[b] /\ o[b] + k + 1 = o[b] + 1
  BY <1>4
<1>7. PICK c : c = Standing(h, b, k)
  OBVIOUS
<1>8. /\ c = [ok |-> TRUE, block_idx |-> b,
              bc |-> [block |-> read_block(h, b)[1], offset_idx |-> k,
                      record |-> IF k < o[b + 1] - o[b] THEN <<s[o[b] + k + 1]>> ELSE <<>>]]
      /\ Stands(h, s, o, c, IF k < o[b + 1] - o[b] THEN o[b] + k + 1 ELSE o[b + 1])
  BY <1>7, PlaceStands
<1>9. Stands(h, s, o, c, o[b] + 1) /\ c.ok /\ c.bc.record = <<s[o[b] + 1]>>
  BY <1>6, <1>8
<1>10. cursor_at(h, b) = c
  <2>1. read_block(h, b) # <<>>
    BY <1>5
  <2>2. cursor_at(h, b) = [ok |-> TRUE, block_idx |-> b, bc |-> block_at(read_block(h, b)[1], 0)]
    BY <2>1, Zenon DEF cursor_at
  <2> QED
    BY <1>6, <1>7, <2>2, Zenon DEF Standing
<1>11. cursor_record(c) = <<s[o[b] + 1]>>
  BY <1>9 DEF cursor_record
<1>12. o[b] < Len(s)
  BY <1>1, <1>4
<1> QED
  BY <1>1, <1>4, <1>6, <1>7, <1>9, <1>10, <1>11, <1>12, Zenon

\* There is no cursor behind the last block.
LEMMA AtEnd ==
  ASSUME NEW h, NEW s, NEW o, Table(h, s, o), NEW b, b = Len(h.block_metadata)
  PROVE  cursor_at(h, b) = NoCursor
<1>1. ~(b < Len(h.block_metadata))
  BY DEF Table
<1>2. read_block(h, b) = <<>>
  BY <1>1, Zenon DEF read_block
<1> QED
  BY <1>2, Zenon DEF cursor_at

\* The end bound allows a key.
Within(k, end) ==
  CASE end.kind = "Included" -> KeyLeq(k, end.key)
    [] end.kind = "Excluded" -> KeyLess(k, end.key)
    [] OTHER -> TRUE

\* What next does: one record on, or the end of the table or of the range.
Moved(h, s, o, d, p, end) ==
  \/ /\ d.ok /\ p < Len(s) /\ cursor_record(d) = <<s[p + 1]>> /\ Stands(h, s, o, d, p + 1)
  \/ /\ d = NoCursor /\ cursor_record(d) = <<>>
     /\ p = Len(s) \/ (p < Len(s) /\ ~Within(s[p + 1].key, end))

\* next moves a cursor that stands in the table.
LEMMA NextMoves ==
  ASSUME NEW h, NEW s, NEW o, Table(h, s, o), NEW c, NEW p, Stands(h, s, o, c, p), NEW end
  PROVE  /\ p \in 0 .. Len(s) /\ Len(s) \in Nat /\ c.ok
         /\ Moved(h, s, o, cursor_next(h, c, end), p, end)
<1>1. Len(h.block_metadata) \in Nat /\ s \in Seq(TableRecord) /\ Len(s) \in Nat
  BY DEF Table
<1>2. PICK b \in 0 .. (Len(h.block_metadata) - 1) : \E k \in 0 .. (o[b + 1] - o[b]) :
        /\ c = [ok |-> TRUE, block_idx |-> b,
                bc |-> [block |-> read_block(h, b)[1], offset_idx |-> k, record |-> c.bc.record]]
        /\ p = IF k < o[b + 1] - o[b] THEN o[b] + k + 1 ELSE o[b + 1]
  BY Zenon DEF Stands
<1>3. PICK k \in 0 .. (o[b + 1] - o[b]) :
        /\ c = [ok |-> TRUE, block_idx |-> b,
                bc |-> [block |-> read_block(h, b)[1], offset_idx |-> k, record |-> c.bc.record]]
        /\ p = IF k < o[b + 1] - o[b] THEN o[b] + k + 1 ELSE o[b + 1]
  BY <1>2, Zenon
<1>4. PICK i \in 1 .. Len(h.block_metadata) : i = b + 1 /\ i - 1 = b
  BY <1>1
<1>5. BlockHolds(h, s, o, i)
  BY Zenon DEF Table
<1>6. o[b] \in Nat /\ o[b + 1] \in Nat /\ o[b] < o[b + 1] /\ o[b + 1] <= Len(s)
  BY <1>4, <1>5, Zenon DEF BlockHolds
<1>7. PICK e : /\ read_block(h, b) = <<e>> /\ Filled(e.data, e.offsets) /\ Len(e.data) = o[b + 1] - o[b]
               /\ \A j \in 1 .. Len(e.data) : e.data[j] = s[o[b] + j]
  BY <1>4, <1>5, Zenon DEF BlockHolds
<1>8. read_block(h, b)[1] = e
  BY <1>7
<1>9. PICK size \in Nat : size = o[b + 1] - o[b] /\ k \in 0 .. size /\ size > 0
  BY <1>6
<1>10. /\ c.ok /\ c.block_idx = b /\ c.bc.block = e /\ c.bc.offset_idx = k
       /\ DOMAIN c = {"ok", "block_idx", "bc"}
  <2>1. PICK r : c = [ok |-> TRUE, block_idx |-> b, bc |-> [block |-> e, offset_idx |-> k, record |-> r]]
    BY <1>3, <1>8, Zenon
  <2> QED
    BY <2>1
<1>11. k + 1 \in Nat
  BY <1>9
<1>12. block_next(c.bc) = [block |-> e, offset_idx |-> k + 1, record |-> RecordAt(e.data, k + 1)]
  BY <1>7, <1>10, <1>11, BlockAt, Zenon DEF block_next
<1>12a. PICK a \in Nat : a = o[b] /\ o[b + 1] = a + size
  BY <1>6, <1>9
<1>12b. p = IF k < size THEN a + k + 1 ELSE a + size
  BY <1>3, <1>9, <1>12a, Zenon
<1>13. p \in 0 .. Len(s)
  <2>1. a + size <= Len(s)
    BY <1>6, <1>12a, Zenon
  <2> QED
    BY <1>1, <1>9, <1>12b, <2>1
<1> DEFINE d == cursor_next(h, c, end)
<1>14. d = IF block_next(c.bc).record # <<>> THEN [c EXCEPT !.bc = block_next(c.bc)]
           ELSE IF next_block_may_be_in_bounds(h, b + 1, end) THEN cursor_at(h, b + 1)
           ELSE NoCursor
  BY <1>10, Zenon DEF cursor_next
<1>15. CASE k + 1 < size
  <2>1. PICK r : r = s[o[b] + (k + 1) + 1]
    OBVIOUS
  <2>2. RecordAt(e.data, k + 1) = <<r>>
    <3>1. (k + 1) + 1 \in 1 .. size /\ o[b] + ((k + 1) + 1) = o[b] + (k + 1) + 1
      BY <1>6, <1>9, <1>15, SMTT(30)
    <3> QED
      BY <1>7, <1>9, <1>15, <2>1, <3>1 DEF RecordAt
  <2>3. block_next(c.bc).record # <<>>
    <3>1. PICK x : x = block_next(c.bc)
      OBVIOUS
    <3>2. x = [block |-> e, offset_idx |-> k + 1, record |-> <<r>>]
      BY <1>12, <2>2, <3>1, Zenon
    <3>3. x.record # <<>>
      BY <3>2
    <3> QED
      BY <3>1, <3>3, Zenon
  <2>4. d = [c EXCEPT !.bc = block_next(c.bc)]
    BY <1>14, <2>3, Zenon
  <2>5. d = Standing(h, b, k + 1)
    <3>1. PICK bc : bc = block_next(c.bc)
      OBVIOUS
    <3>2. bc = block_at(e, k + 1)
      BY <1>10, <3>1, Zenon DEF block_next
    <3>3. [c EXCEPT !.bc = bc] = [ok |-> TRUE, block_idx |-> b, bc |-> bc]
      <4>1. PICK t : t = TRUE
        OBVIOUS
      <4>2. PICK z : c = [ok |-> t, block_idx |-> b, bc |-> z]
        BY <1>3, <1>8, <4>1, Zenon
      <4>3. [c EXCEPT !.bc = bc] = [ok |-> t, block_idx |-> b, bc |-> bc]
        BY <4>2
      <4> QED
        BY <4>1, <4>3, Zenon
    <3> QED
      BY <1>8, <2>4, <3>1, <3>2, <3>3, Zenon DEF Standing
  <2>6. PICK m \in 0 .. (o[b + 1] - o[b]) : m = k + 1 /\ m < o[b + 1] - o[b]
    BY <1>9, <1>15
  <2>7. /\ Standing(h, b, m) = [ok |-> TRUE, block_idx |-> b,
              bc |-> [block |-> read_block(h, b)[1], offset_idx |-> m,
                      record |-> IF m < o[b + 1] - o[b] THEN <<s[o[b] + m + 1]>> ELSE <<>>]]
        /\ Stands(h, s, o, Standing(h, b, m), IF m < o[b + 1] - o[b] THEN o[b] + m + 1 ELSE o[b + 1])
    BY PlaceStands
  <2>8. p = o[b] + k + 1 /\ o[b] + m + 1 = p + 1 /\ p < Len(s)
    <3>1. a + size <= Len(s)
      BY <1>6, <1>12a, Zenon
    <3>2. p = a + k + 1 /\ a + m + 1 = p + 1 /\ p < Len(s)
      BY <1>1, <1>9, <1>12b, <1>15, <2>6, <3>1
    <3> QED
      BY <1>12a, <3>2, Zenon
  <2> HIDE DEF d
  <2>9. Stands(h, s, o, d, p + 1)
    BY <2>5, <2>6, <2>7, <2>8, Zenon
  <2>10. cursor_record(d) = <<s[p + 1]>> /\ d.ok
    <3>1. d = [ok |-> TRUE, block_idx |-> b,
               bc |-> [block |-> read_block(h, b)[1], offset_idx |-> m, record |-> <<s[p + 1]>>]]
      BY <2>5, <2>6, <2>7, <2>8, Zenon
    <3> QED
      BY <3>1 DEF cursor_record
  <2> QED
    BY <1>1, <1>10, <1>13, <2>8, <2>9, <2>10, Zenon DEF Moved, d
<1>16. CASE ~(k + 1 < size)
  <2>1. block_next(c.bc).record = <<>>
    BY <1>7, <1>9, <1>12, <1>16 DEF RecordAt
  <2>2. d = IF next_block_may_be_in_bounds(h, b + 1, end) THEN cursor_at(h, b + 1) ELSE NoCursor
    BY <1>14, <2>1, Zenon
  <2>3. p = o[b + 1]
    <3>1. p = a + size
      BY <1>9, <1>12b, <1>16
    <3> QED
      BY <1>12a, <3>1, Zenon
  <2> HIDE DEF d
  <2>4. ~NoCursor.ok /\ cursor_record(NoCursor) = <<>>
    BY DEF NoCursor, cursor_record
  <2>5. CASE b + 1 = Len(h.block_metadata)
    <3>1. ~(b + 1 < Len(h.block_metadata))
      BY <1>1, <2>5
    <3>2. d = NoCursor
      BY <2>2, <3>1, Zenon DEF next_block_may_be_in_bounds
    <3>3. p = Len(s)
      BY <2>3, <2>5, Zenon DEF Table
    <3> QED
      BY <1>1, <1>10, <1>13, <2>4, <3>2, <3>3, Zenon DEF Moved, d
  <2>6. CASE b + 1 # Len(h.block_metadata)
    <3>1. PICK b1 \in 0 .. (Len(h.block_metadata) - 1) : b1 = b + 1 /\ b1 < Len(h.block_metadata)
      BY <1>1, <2>6
    <3>2. PICK i1 \in 1 .. Len(h.block_metadata) : i1 = b1 + 1 /\ i1 - 1 = b1
      BY <1>1, <3>1
    <3>3. BlockHolds(h, s, o, i1)
      BY Zenon DEF Table
    <3>4. h.block_metadata[b1 + 1].first_key = s[o[b1] + 1].key
      BY <3>2, <3>3, Zenon DEF BlockHolds
    <3>5. /\ cursor_at(h, b1).ok /\ o[b1] < Len(s) /\ cursor_record(cursor_at(h, b1)) = <<s[o[b1] + 1]>>
          /\ Stands(h, s, o, cursor_at(h, b1), o[b1] + 1)
      BY AtStands
    <3>6. p = o[b1] /\ p < Len(s)
      BY <2>3, <3>1, <3>5
    <3>7. next_block_may_be_in_bounds(h, b1, end) <=> Within(s[p + 1].key, end)
      BY <3>1, <3>4, <3>6, Zenon DEF next_block_may_be_in_bounds, Within
    <3>8. CASE Within(s[p + 1].key, end)
      <4>1. d = cursor_at(h, b1)
        BY <2>2, <3>1, <3>7, <3>8, Zenon
      <4> QED
        BY <1>1, <1>10, <1>13, <3>5, <3>6, <4>1, Zenon DEF Moved, d
    <3>9. CASE ~Within(s[p + 1].key, end)
      <4>1. d = NoCursor
        BY <2>2, <3>1, <3>7, <3>9, Zenon
      <4> QED
        BY <1>1, <1>10, <1>13, <2>4, <3>6, <3>9, <4>1, Zenon DEF Moved, d
    <3> QED
      BY <3>8, <3>9
  <2> QED
    BY <2>5, <2>6
<1> QED
  BY <1>15, <1>16

\* Two members are the same where there is at most one.
LEMMA AtMostOne ==
  ASSUME NEW n \in Nat, NEW S \in SUBSET (0 .. n), Cardinality(S) <= 1, NEW a \in S, NEW b \in S
  PROVE  a = b
<1>1. IsFiniteSet(S)
  <2>1. IsFiniteSet(0 .. n)
    <3>1. 0 \in Int /\ n \in Int
      OBVIOUS
    <3> QED
      BY <3>1, FS_Interval
  <2> QED
    BY <2>1, FS_Subset
<1>2. Cardinality(S) \in Nat /\ Cardinality(S) # 0
  BY <1>1, FS_CardinalityType, FS_EmptySet
<1>3. Cardinality(S) = 1
  BY <1>2
<1>4. \E x : S = {x}
  BY <1>1, <1>3, FS_Singleton, Zenon
<1> QED
  BY <1>4

\* The blocks follow each other, and so do their last keys.
LEMMA BlocksFollow ==
  ASSUME NEW h, NEW s, NEW o, Table(h, s, o),
         NEW i \in 1 .. Len(h.block_metadata), NEW j \in 1 .. Len(h.block_metadata), i < j
  PROVE  o[i] < o[j] /\ KeyLess(h.block_metadata[i].last_key, h.block_metadata[j].last_key)
<1>1. PICK n \in Nat : n = Len(h.block_metadata)
  BY DEF Table
<1>2. \A m \in 1 .. n : o[m - 1] \in Nat /\ o[m] \in Nat /\ o[m - 1] < o[m] /\ o[m] <= Len(s)
  BY <1>1, Zenon DEF Table, BlockHolds
<1>2a. \A m \in 1 .. n : h.block_metadata[m].last_key = s[o[m]].key
  BY <1>1, Zenon DEF Table, BlockHolds
<1> DEFINE T == {m \in (i + 1) .. n : ~(o[i] < o[m])}
<1>3. T = {}
  <2> SUFFICES ASSUME T # {} PROVE FALSE
    OBVIOUS
  <2>1. PICK c \in T : \A e \in T : c <= e
    <3>1. T \in SUBSET Nat
      OBVIOUS
    <3> HIDE DEF T
    <3> QED
      BY <3>1, LeastNumber
  <2>2. c \in 1 .. n /\ i \in 1 .. n /\ c - 1 \in i .. n /\ c - 1 \notin T
    BY <1>1, <2>1
  <2>3. o[i] <= o[c - 1]
    <3>1. CASE c - 1 = i
      BY <1>2, <2>2, <3>1
    <3>2. CASE c - 1 # i
      <4>1. c - 1 \in (i + 1) .. n /\ c - 1 \in 1 .. n
        BY <2>2, <3>2
      <4> QED
        BY <1>2, <2>2, <4>1, SMTT(30)
    <3> QED
      BY <3>1, <3>2
  <2>4. PICK x \in Nat, y \in Nat, z \in Nat : x = o[i] /\ y = o[c - 1] /\ z = o[c] /\ y < z
    BY <1>2, <2>2
  <2>5. x < z
    BY <2>3, <2>4
  <2> QED
    BY <2>1, <2>4, <2>5
<1>4. o[i] < o[j]
  BY <1>1, <1>3
<1>5. o[i] \in 1 .. Len(s) /\ o[j] \in 1 .. Len(s)
  <2>1. Len(s) \in Nat
    BY DEF Table
  <2>2. ASSUME NEW m \in 1 .. n PROVE o[m] \in 1 .. Len(s)
    <3>1. PICK x \in Nat, y \in Nat : x = o[m - 1] /\ y = o[m] /\ x < y /\ y <= Len(s)
      BY <1>2
    <3> QED
      BY <2>1, <3>1
  <2> QED
    BY <1>1, <2>2
<1>6. KeyLess(s[o[i]].key, s[o[j]].key)
  BY <1>4, <1>5, Zenon DEF Table, Ordered
<1> QED
  BY <1>1, <1>2a, <1>4, <1>6, Zenon

\* The last key of a block is that of its last record.
LEMMA LastKeys ==
  ASSUME NEW h, NEW s, NEW o, Table(h, s, o), NEW i \in 1 .. Len(h.block_metadata)
  PROVE  /\ o[i] \in 1 .. Len(s) /\ h.block_metadata[i].last_key = s[o[i]].key
         /\ h.block_metadata[i].last_key \in Key
<1>1. s \in Seq(TableRecord) /\ Len(s) \in Nat /\ BlockHolds(h, s, o, i)
  BY DEF Table
<1>2. o[i - 1] \in Nat /\ o[i] \in Nat /\ o[i - 1] < o[i] /\ o[i] <= Len(s)
      /\ h.block_metadata[i].last_key = s[o[i]].key
  BY <1>1, Zenon DEF BlockHolds
<1>3. o[i] \in 1 .. Len(s)
  BY <1>1, <1>2
<1>4. s[o[i]] \in TableRecord
  BY <1>1, <1>3
<1>5. s[o[i]].key \in Key
  BY <1>4 DEF TableRecord
<1> QED
  BY <1>2, <1>3, <1>5, Zenon

\* The block the search for a stream ends in, if at most one block ends in it.
Found(h, stream, b) ==
  /\ b \in 0 .. Len(h.block_metadata)
  /\ \A i \in 1 .. b : h.block_metadata[i].last_key.stream_id < stream
  /\ b < Len(h.block_metadata) => h.block_metadata[b + 1].last_key.stream_id >= stream
  /\ \A i \in 1 .. Len(h.block_metadata) : h.block_metadata[i].last_key.stream_id = stream => i = b + 1

\* block_idx_for_stream_id finds the block, if there is one to choose.
LEMMA SearchFinds ==
  ASSUME NEW h, NEW s, NEW o, Table(h, s, o), NEW stream \in Nat,
         Cardinality(block_idx_for_stream_id(h, stream)) <= 1,
         NEW b \in block_idx_for_stream_id(h, stream)
  PROVE  Found(h, stream, b)
<1> DEFINE E(i) == h.block_metadata[i].last_key.stream_id
           hits == {i \in DOMAIN h.block_metadata : E(i) = stream}
           below == {i \in DOMAIN h.block_metadata : E(i) < stream}
<1>1. PICK n \in Nat : n = Len(h.block_metadata) /\ DOMAIN h.block_metadata = 1 .. n
  BY DEF Table
<1>2. block_idx_for_stream_id(h, stream) = IF hits # {} THEN {i - 1 : i \in hits} ELSE {Cardinality(below)}
  BY Zenon DEF block_idx_for_stream_id
<1>3. \A i \in 1 .. n : E(i) \in Nat
  <2>1. \A i \in 1 .. n : h.block_metadata[i].last_key \in Key
    BY <1>1, LastKeys
  <2> QED
    BY <2>1 DEF Key
<1>4. \A i, j \in 1 .. n : i < j => E(i) <= E(j)
  <2> SUFFICES ASSUME NEW i \in 1 .. n, NEW j \in 1 .. n, i < j PROVE E(i) <= E(j)
    OBVIOUS
  <2>1. KeyLess(h.block_metadata[i].last_key, h.block_metadata[j].last_key)
    BY <1>1, BlocksFollow
  <2>2. E(i) < E(j) \/ E(i) = E(j)
    BY <2>1 DEF KeyLess
  <2> QED
    BY <1>3, <2>2
<1>5. CASE hits # {}
  <2>1. \A i \in hits : i - 1 \in 0 .. n
    BY <1>1
  <2>2. \A i, j \in hits : i = j
    <3> SUFFICES ASSUME NEW i \in hits, NEW j \in hits PROVE i = j
      OBVIOUS
    <3>1. PICK S \in SUBSET (0 .. n) : S = {k - 1 : k \in hits}
      BY <2>1
    <3>2. i - 1 \in S /\ j - 1 \in S /\ Cardinality(S) <= 1
      BY <1>2, <1>5, <3>1
    <3>3. i - 1 = j - 1
      BY <3>2, AtMostOne, Zenon
    <3>4. i \in 1 .. n /\ j \in 1 .. n
      BY <1>1
    <3> QED
      BY <3>3, <3>4
  <2>3. PICK i \in hits : b = i - 1
    BY <1>2, <1>5
  <2>4. i \in 1 .. n /\ b \in 0 .. n /\ b + 1 = i /\ E(i) = stream
    BY <1>1, <2>3
  <2>5. \A j \in 1 .. b : E(j) < stream
    <3> SUFFICES ASSUME NEW j \in 1 .. b PROVE E(j) < stream
      OBVIOUS
    <3>1. j \in 1 .. n /\ j < i
      BY <2>4
    <3>2. j \notin hits
      BY <2>2, <2>3, <2>4, <3>1
    <3>3. E(j) <= stream /\ E(j) # stream
      BY <1>1, <1>4, <2>4, <3>1, <3>2
    <3> QED
      BY <1>3, <3>1, <3>3
  <2>6. \A j \in 1 .. n : E(j) = stream => j = b + 1
    BY <1>1, <2>2, <2>3, <2>4
  <2>7. E(b + 1) >= stream
    BY <2>4
  <2> QED
    BY <1>1, <2>4, <2>5, <2>6, <2>7 DEF Found
<1>6. CASE hits = {}
  <2>1. b = Cardinality(below)
    BY <1>2, <1>6
  <2>2. \A i \in below : \A j \in 1 .. i : j \in below
    <3> SUFFICES ASSUME NEW i \in below, NEW j \in 1 .. i PROVE j \in below
      OBVIOUS
    <3>1. i \in 1 .. n /\ j \in 1 .. n /\ E(i) < stream
      BY <1>1
    <3>2. E(j) <= E(i)
      BY <1>3, <1>4, <3>1
    <3> QED
      BY <1>1, <1>3, <3>1, <3>2
  <2>3. below \in SUBSET (1 .. n) /\ \A i \in 1 .. n : i \in below <=> E(i) < stream
    BY <1>1
  <2>4. \A i \in 1 .. n : E(i) # stream
    BY <1>1, <1>6
  <2> HIDE DEF below
  <2>5. b \in 0 .. n /\ \A i \in 1 .. n : i \in below <=> i <= b
    BY <2>1, <2>2, <2>3, FirstNumbers, Zenon
  <2>6. \A i \in 1 .. b : E(i) < stream
    <3>1. \A i \in 1 .. b : i \in 1 .. n /\ i <= b
      BY <2>5
    <3> QED
      BY <2>3, <2>5, <3>1, Zenon
  <2>7. b < n => E(b + 1) >= stream
    <3> SUFFICES ASSUME b < n PROVE E(b + 1) >= stream
      OBVIOUS
    <3>1. b + 1 \in 1 .. n /\ ~(b + 1 <= b)
      BY <2>5
    <3>2. ~(E(b + 1) < stream)
      BY <2>3, <2>5, <3>1
    <3> QED
      BY <1>3, <3>1, <3>2
  <2> QED
    BY <1>1, <2>4, <2>5, <2>6, <2>7 DEF Found
<1> QED
  BY <1>5, <1>6

\* Records of a table and their keys.
LEMMA TableKeys ==
  ASSUME NEW h, NEW s, NEW o, Table(h, s, o)
  PROVE  /\ Len(s) \in Nat /\ \A i \in 1 .. Len(s) : s[i] \in TableRecord /\ s[i].key \in Key
         /\ \A i, j \in 1 .. Len(s) : i <= j => s[i].key = s[j].key \/ KeyLess(s[i].key, s[j].key)
<1>1. s \in Seq(TableRecord) /\ Len(s) \in Nat
  BY DEF Table
<1>2. \A i \in 1 .. Len(s) : s[i] \in TableRecord
  BY <1>1
<1>3. \A i \in 1 .. Len(s) : s[i].key \in Key
  BY <1>2 DEF TableRecord
<1>4. \A i, j \in 1 .. Len(s) : i <= j => i = j \/ i < j
  BY <1>1
<1>5. \A i, j \in 1 .. Len(s) : i < j => KeyLess(s[i].key, s[j].key)
  BY Zenon DEF Table, Ordered
<1> QED
  BY <1>1, <1>2, <1>3, <1>4, <1>5, Zenon

\* seek in a block ends behind the records before the key.
LEMMA SeekPlace ==
  ASSUME NEW h, NEW s, NEW o, Table(h, s, o), NEW b \in 0 .. (Len(h.block_metadata) - 1), NEW key \in Key
  PROVE  \E q \in 0 .. (o[b + 1] - o[b]) :
           /\ block_seek(cursor_at(h, b).bc, key) = block_at(read_block(h, b)[1], q)
           /\ \A i \in (o[b] + 1) .. o[b + 1] : KeyLess(s[i].key, key) <=> i <= o[b] + q
<1>1. Len(h.block_metadata) \in Nat /\ Len(s) \in Nat
  BY DEF Table
<1>2. PICK i \in 1 .. Len(h.block_metadata) : i = b + 1 /\ i - 1 = b
  BY <1>1
<1>3. BlockHolds(h, s, o, i)
  BY Zenon DEF Table
<1>4. o[b] \in Nat /\ o[b + 1] \in Nat /\ o[b] < o[b + 1] /\ o[b + 1] <= Len(s)
  BY <1>2, <1>3, Zenon DEF BlockHolds
<1>5. PICK e : /\ read_block(h, b) = <<e>> /\ Filled(e.data, e.offsets)
               /\ Len(e.data) = o[b + 1] - o[b]
               /\ \A j \in 1 .. Len(e.data) : e.data[j] = s[o[b] + j]
  BY <1>2, <1>3, Zenon DEF BlockHolds
<1>6. PICK d \in Seq(TableRecord) : d = e.data
  BY <1>5, Zenon DEF Filled
<1>7. PICK lo \in Nat, size \in Nat : lo = o[b] /\ size = o[b + 1] - o[b] /\ o[b + 1] = lo + size /\ size = Len(d)
  BY <1>4, <1>5, <1>6, SMTT(30)
<1>8. \A j \in 1 .. size : d[j] = s[lo + j]
  BY <1>5, <1>6, <1>7, Zenon
<1>9. Ordered(d)
  <2> SUFFICES ASSUME NEW j \in 1 .. size, NEW m \in 1 .. size, j < m PROVE KeyLess(d[j].key, d[m].key)
    BY <1>7 DEF Ordered
  <2>1. lo + j \in 1 .. Len(s) /\ lo + m \in 1 .. Len(s) /\ lo + j < lo + m
    <3>1. lo + size <= Len(s)
      BY <1>4, <1>7, Zenon
    <3> QED
      BY <1>1, <3>1
  <2>2. KeyLess(s[lo + j].key, s[lo + m].key)
    BY <2>1, Zenon DEF Table, Ordered
  <2> QED
    BY <1>8, <2>2, Zenon
<1>10. PICK q : q = Cardinality({j \in DOMAIN d : KeyLess(d[j].key, key)})
  OBVIOUS
<1>11. q \in 0 .. size /\ \A j \in 1 .. size : KeyLess(d[j].key, key) <=> j <= q
  BY <1>7, <1>9, <1>10, KeysBefore, Zenon
<1>12. block_seek(cursor_at(h, b).bc, key) = block_at(e, q)
  <2>1. PICK bc : bc = block_at(e, 0)
    OBVIOUS
  <2>2. read_block(h, b)[1] = e
    BY <1>5
  <2>3. cursor_at(h, b).bc = bc
    <3>1. cursor_at(h, b) = Standing(h, b, 0)
      BY AtStands
    <3>2. Standing(h, b, 0).bc = block_at(read_block(h, b)[1], 0)
      BY DEF Standing
    <3> QED
      BY <2>1, <2>2, <3>1, <3>2, Zenon
  <2>4. bc = [block |-> e, offset_idx |-> 0, record |-> RecordAt(e.data, 0)]
    BY <1>5, <2>1, BlockAt
  <2>5. bc.block = e
    BY <2>4
  <2> QED
    BY <1>6, <1>10, <2>3, <2>5, Zenon DEF block_seek
<1>13. ASSUME NEW j \in (o[b] + 1) .. o[b + 1] PROVE KeyLess(s[j].key, key) <=> j <= o[b] + q
  <2>1. PICK m \in 1 .. size : j = lo + m
    <3>1. j - lo \in 1 .. size /\ j = lo + (j - lo)
      BY <1>7, SMTT(30)
    <3> QED
      BY <3>1
  <2>2. KeyLess(s[j].key, key) <=> m <= q
    BY <1>8, <1>11, <2>1, Zenon
  <2>3. m <= q <=> j <= lo + q
    <3>1. q \in Nat
      BY <1>11
    <3> QED
      BY <2>1, <3>1
  <2> QED
    BY <1>7, <2>2, <2>3, Zenon
<1>14. read_block(h, b)[1] = e /\ q \in 0 .. (o[b + 1] - o[b])
  BY <1>5, <1>7, <1>11
<1> QED
  BY <1>12, <1>13, <1>14, Zenon

\* How the records lie to a key sought in the block found.
LEMMA SearchSplits ==
  ASSUME NEW h, NEW s, NEW o, Table(h, s, o), NEW key \in Key,
         NEW b \in 0 .. (Len(h.block_metadata) - 1), Found(h, key.stream_id, b),
         NEW q \in 0 .. (o[b + 1] - o[b]),
         \A i \in (o[b] + 1) .. o[b + 1] : KeyLess(s[i].key, key) <=> i <= o[b] + q
  PROVE  /\ \A i \in 1 .. (o[b] + q) : KeyLess(s[i].key, key)
         /\ \A i \in (o[b] + q + 1) .. o[b + 1] : ~KeyLess(s[i].key, key)
         /\ \A i \in (o[b + 1] + 1) .. Len(s) :
              /\ KeyLess(h.block_metadata[b + 1].last_key, s[i].key)
              /\ KeyLess(key, s[i].key) \/ h.block_metadata[b + 1].last_key.stream_id = key.stream_id
<1>1. Len(h.block_metadata) \in Nat /\ Len(s) \in Nat
  BY DEF Table
<1>2. PICK m \in 1 .. Len(h.block_metadata) : m = b + 1 /\ m - 1 = b /\ b < Len(h.block_metadata)
  BY <1>1
<1>3. BlockHolds(h, s, o, m)
  BY Zenon DEF Table
<1>4. PICK lo \in Nat, hi \in Nat : lo = o[b] /\ hi = o[b + 1] /\ lo < hi /\ hi <= Len(s) /\ q \in 0 .. (hi - lo)
  BY <1>2, <1>3, Zenon DEF BlockHolds
<1>5. \A i \in 1 .. Len(s) : s[i].key \in Key
  BY TableKeys
<1>6. ASSUME NEW i \in 1 .. lo PROVE KeyLess(s[i].key, key)
  <2>1. b # 0
    <3>1. o[0] = 0
      BY Zenon DEF Table
    <3> QED
      BY <1>4, <3>1
  <2>2. PICK p \in 1 .. Len(h.block_metadata) : p = b /\ p \in 1 .. b
    BY <1>1, <2>1
  <2>3. o[p] \in 1 .. Len(s) /\ h.block_metadata[p].last_key = s[o[p]].key
    BY LastKeys
  <2>4. s[o[p]].key.stream_id < key.stream_id
    BY <2>2, <2>3, Zenon DEF Found
  <2>5. lo \in 1 .. Len(s) /\ i \in 1 .. Len(s) /\ i <= lo /\ o[p] = lo
    BY <1>1, <1>4, <2>2, SMTT(30)
  <2>6. s[i].key = s[lo].key \/ KeyLess(s[i].key, s[lo].key)
    BY <2>5, TableKeys
  <2>7. PICK x \in Key, y \in Key : x = s[i].key /\ y = s[lo].key
    BY <1>5, <2>5
  <2>8. y.stream_id < key.stream_id /\ (x = y \/ KeyLess(x, y))
    BY <2>4, <2>5, <2>6, <2>7, Zenon
  <2>9. KeyLess(x, key)
    BY <2>8, StreamsFirst, Zenon
  <2> QED
    BY <2>7, <2>9, Zenon
<1>7. ASSUME NEW i \in 1 .. (lo + q) PROVE KeyLess(s[i].key, key)
  <2>1. CASE i <= lo
    <3>1. i \in 1 .. lo
      BY <2>1
    <3> QED
      BY <1>6, <3>1
  <2>2. CASE ~(i <= lo)
    <3>1. i \in (lo + 1) .. hi /\ i <= lo + q
      BY <1>4, <2>2, SMTT(30)
    <3> QED
      BY <1>4, <3>1, Zenon
  <2> QED
    BY <2>1, <2>2
<1>8. ASSUME NEW i \in (lo + q + 1) .. hi PROVE ~KeyLess(s[i].key, key)
  <2>1. i \in (lo + 1) .. hi /\ ~(i <= lo + q)
    BY <1>4, SMTT(30)
  <2> QED
    BY <1>4, <2>1, Zenon
<1>9. ASSUME NEW i \in (hi + 1) .. Len(s)
      PROVE  /\ KeyLess(h.block_metadata[b + 1].last_key, s[i].key)
             /\ KeyLess(key, s[i].key) \/ h.block_metadata[b + 1].last_key.stream_id = key.stream_id
  <2>1. hi \in 1 .. Len(s) /\ i \in 1 .. Len(s) /\ hi < i
    BY <1>1, <1>4, SMTT(30)
  <2>2. KeyLess(s[hi].key, s[i].key)
    BY <2>1, Zenon DEF Table, Ordered
  <2>3. h.block_metadata[b + 1].last_key = s[hi].key
    BY <1>2, <1>3, <1>4, Zenon DEF BlockHolds
  <2>4. h.block_metadata[b + 1].last_key.stream_id >= key.stream_id
    BY <1>2, Zenon DEF Found
  <2>5. PICK x \in Key, y \in Key : x = s[hi].key /\ y = s[i].key
    BY <1>5, <2>1
  <2>6. KeyLess(x, y) /\ x.stream_id >= key.stream_id
    BY <2>2, <2>3, <2>4, <2>5, Zenon
  <2>7. KeyLess(key, y) \/ x.stream_id = key.stream_id
    BY <2>6, StreamsFirst, Zenon
  <2> QED
    BY <2>3, <2>5, <2>6, <2>7, Zenon
<1> QED
  BY <1>4, <1>7, <1>8, <1>9, Zenon

\* The keys a scan from a bound is to visit, and those it visits too, because
\* they follow on a block that ends in its stream.
After(start, k) ==
  CASE start.kind = "Included" -> KeyLeq(start.key, k)
    [] start.kind = "Excluded" -> KeyLess(start.key, k)
    [] OTHER -> TRUE

\* The key lies after a block that ends in the stream of the bound.
Beyond(h, start, k) ==
  /\ start.kind # "Unbounded"
  /\ \E i \in DOMAIN h.block_metadata :
       /\ h.block_metadata[i].last_key.stream_id = start.key.stream_id
       /\ KeyLess(h.block_metadata[i].last_key, k)

\* A cursor before the record after the first n.
Begun(h, s, o, c, n) ==
  /\ n \in 0 .. Len(s) /\ cursor_record(c) \in {<<>>, <<s[n + 1]>>}
  /\ n + Len(cursor_record(c)) <= Len(s)
  /\ IF c.ok THEN Stands(h, s, o, c, n + Len(cursor_record(c))) ELSE n = Len(s)

\* A place in a block is a place in the table.
LEMMA PlaceWithin ==
  \A lo, hi, l \in Nat : lo < hi /\ hi <= l => \A k \in 0 .. (hi - lo) :
    /\ k < hi - lo => lo + k \in 0 .. l /\ (lo + k) + 1 <= l
    /\ ~(k < hi - lo) => lo + k = hi /\ hi + 0 = hi /\ lo + k \in 0 .. l
OBVIOUS

\* A scan may begin at any place.
LEMMA PlaceBegun ==
  ASSUME NEW h, NEW s, NEW o, Table(h, s, o), NEW b \in 0 .. (Len(h.block_metadata) - 1),
         NEW k \in 0 .. (o[b + 1] - o[b])
  PROVE  Begun(h, s, o, Standing(h, b, k), o[b] + k)
<1>1. PICK c : c = Standing(h, b, k)
  OBVIOUS
<1>2. /\ o[b] \in Nat /\ o[b + 1] \in Nat /\ o[b] < o[b + 1] /\ o[b + 1] <= Len(s) /\ Len(s) \in Nat
      /\ c = [ok |-> TRUE, block_idx |-> b,
              bc |-> [block |-> read_block(h, b)[1], offset_idx |-> k,
                      record |-> IF k < o[b + 1] - o[b] THEN <<s[o[b] + k + 1]>> ELSE <<>>]]
      /\ Stands(h, s, o, c, IF k < o[b + 1] - o[b] THEN o[b] + k + 1 ELSE o[b + 1])
  BY <1>1, PlaceStands
<1>3. PICK lo \in Nat, hi \in Nat : lo = o[b] /\ hi = o[b + 1] /\ lo < hi /\ hi <= Len(s) /\ k \in 0 .. (hi - lo)
  BY <1>2
<1>4. c.ok /\ cursor_record(c) = IF k < hi - lo THEN <<s[lo + k + 1]>> ELSE <<>>
  <2>1. PICK r : r = IF k < o[b + 1] - o[b] THEN <<s[o[b] + k + 1]>> ELSE <<>>
    OBVIOUS
  <2>2. c = [ok |-> TRUE, block_idx |-> b,
             bc |-> [block |-> read_block(h, b)[1], offset_idx |-> k, record |-> r]]
    BY <1>2, <2>1, Zenon
  <2>3. c.ok /\ cursor_record(c) = r
    BY <2>2 DEF cursor_record
  <2> QED
    BY <1>3, <2>1, <2>3, Zenon
<1>5. Stands(h, s, o, c, IF k < hi - lo THEN lo + k + 1 ELSE hi)
  BY <1>2, <1>3, Zenon
<1>6. CASE k < hi - lo
  <2>1. PICK r : r = cursor_record(c)
    OBVIOUS
  <2>2. r = <<s[(lo + k) + 1]>> /\ Len(r) = 1 /\ (lo + k) + Len(r) = lo + k + 1
    BY <1>3, <1>4, <1>6, <2>1
  <2>3. lo + k \in 0 .. Len(s) /\ (lo + k) + 1 <= Len(s)
    BY <1>2, <1>3, <1>6, PlaceWithin, Zenon
  <2>4. Stands(h, s, o, c, (lo + k) + Len(r))
    BY <1>5, <1>6, <2>2, Zenon
  <2>5. (lo + k) + Len(r) <= Len(s)
    BY <2>2, <2>3
  <2> QED
    BY <1>1, <1>3, <1>4, <2>1, <2>2, <2>3, <2>4, <2>5, Zenon DEF Begun
<1>7. CASE ~(k < hi - lo)
  <2>1. PICK r : r = cursor_record(c)
    OBVIOUS
  <2>2. r = <<>> /\ Len(r) = 0
    BY <1>4, <1>7, <2>1
  <2>2a. lo + k = hi /\ hi + 0 = hi /\ lo + k \in 0 .. Len(s)
    BY <1>2, <1>3, <1>7, PlaceWithin, Zenon
  <2>2b. (lo + k) + Len(r) = hi
    BY <2>2, <2>2a, Zenon
  <2>3. lo + k \in 0 .. Len(s) /\ (lo + k) + Len(r) <= Len(s)
    BY <1>3, <2>2a, <2>2b, Zenon
  <2>4. Stands(h, s, o, c, (lo + k) + Len(r))
    BY <1>5, <1>7, <2>2b, Zenon
  <2> QED
    BY <1>1, <1>3, <1>4, <2>1, <2>2, <2>3, <2>4, Zenon DEF Begun
<1> QED
  BY <1>6, <1>7

\* A bound with a key.
Bounded(start) == start.kind \in {"Included", "Excluded"} /\ start.key \in Key

\* A scan that begins in the block found begins at its bound.
LEMMA FoundBegun ==
  ASSUME NEW h, NEW s, NEW o, Table(h, s, o), NEW start, Bounded(start),
         NEW b \in 0 .. (Len(h.block_metadata) - 1), Found(h, start.key.stream_id, b),
         NEW c, c = cursor_new(h, start, b)
  PROVE  \E n : /\ Begun(h, s, o, c, n)
                /\ \A i \in 1 .. Len(s) : n < i <=> After(start, s[i].key) \/ Beyond(h, start, s[i].key)
<1>1. PICK key \in Key : key = start.key
  BY DEF Bounded
<1>2. PICK q \in 0 .. (o[b + 1] - o[b]) :
        /\ block_seek(cursor_at(h, b).bc, key) = block_at(read_block(h, b)[1], q)
        /\ \A i \in (o[b] + 1) .. o[b + 1] : KeyLess(s[i].key, key) <=> i <= o[b] + q
  BY SeekPlace
<1>3. /\ o[b] \in Nat /\ o[b + 1] \in Nat /\ o[b] < o[b + 1] /\ o[b + 1] <= Len(s) /\ Len(s) \in Nat
      /\ Standing(h, b, q) = [ok |-> TRUE, block_idx |-> b,
              bc |-> [block |-> read_block(h, b)[1], offset_idx |-> q,
                      record |-> IF q < o[b + 1] - o[b] THEN <<s[o[b] + q + 1]>> ELSE <<>>]]
  BY PlaceStands
<1>4. PICK lo \in Nat, hi \in Nat : lo = o[b] /\ hi = o[b + 1] /\ lo < hi /\ hi <= Len(s) /\ q \in 0 .. (hi - lo)
  BY <1>3
<1>4a. PICK l \in Nat : l = Len(s) /\ hi <= l
  BY <1>3, <1>4
<1>4b. lo < hi /\ q \in Nat /\ q <= hi - lo
  BY <1>4
<1>5. /\ \A i \in 1 .. (lo + q) : KeyLess(s[i].key, key)
      /\ \A i \in (lo + q + 1) .. hi : ~KeyLess(s[i].key, key)
      /\ \A i \in (hi + 1) .. Len(s) :
           /\ KeyLess(h.block_metadata[b + 1].last_key, s[i].key)
           /\ KeyLess(key, s[i].key) \/ h.block_metadata[b + 1].last_key.stream_id = key.stream_id
  <2>1. Found(h, key.stream_id, b)
    BY <1>1, Zenon
  <2>2. /\ \A i \in 1 .. (o[b] + q) : KeyLess(s[i].key, key)
        /\ \A i \in (o[b] + q + 1) .. o[b + 1] : ~KeyLess(s[i].key, key)
        /\ \A i \in (o[b + 1] + 1) .. Len(s) :
             /\ KeyLess(h.block_metadata[b + 1].last_key, s[i].key)
             /\ KeyLess(key, s[i].key) \/ h.block_metadata[b + 1].last_key.stream_id = key.stream_id
    BY <1>2, <2>1, SearchSplits, SMTT(30)
  <2> QED
    BY <1>4, <2>2, Zenon
<1>6. PICK e, r : e = read_block(h, b)[1] /\ r = IF q < hi - lo THEN <<s[lo + q + 1]>> ELSE <<>>
  OBVIOUS
<1>7. PICK found : found = block_seek(cursor_at(h, b).bc, key)
  OBVIOUS
<1>8. found = block_at(e, q) /\ found = [block |-> e, offset_idx |-> q, record |-> r]
  <2>1. Standing(h, b, q).bc = block_at(e, q)
    BY <1>6 DEF Standing
  <2>2. PICK p : p = Standing(h, b, q)
    OBVIOUS
  <2>3. p = [ok |-> TRUE, block_idx |-> b, bc |-> [block |-> e, offset_idx |-> q, record |-> r]]
    BY <1>3, <1>4, <1>6, <2>2, Zenon
  <2>4. p.bc = [block |-> e, offset_idx |-> q, record |-> r]
    BY <2>3
  <2> QED
    BY <1>2, <1>6, <1>7, <2>1, <2>2, <2>4, Zenon
<1>9. found.record = r /\ block_next(found) = block_at(e, q + 1)
  <2>1. found.block = e /\ found.offset_idx = q /\ found.record = r
    BY <1>8
  <2> QED
    BY <2>1, Zenon DEF block_next
<1> DEFINE past == found.record # <<>> /\ found.record[1].key = key
<1>10. c = Standing(h, b, IF start.kind = "Excluded" /\ past THEN q + 1 ELSE q)
  <2>1. PICK c0 : c0 = cursor_at(h, b)
    OBVIOUS
  <2>2. c0.ok /\ c0 = Standing(h, b, 0)
    BY <2>1, AtStands
  <2>3. start.kind # "Unbounded"
    BY DEF Bounded
  <2>4. c = [c0 EXCEPT !.bc = IF start.kind = "Excluded" /\ past THEN block_next(found) ELSE found]
    BY <1>1, <1>7, <2>1, <2>2, <2>3, Zenon DEF cursor_new
  <2>5a. PICK t : t = TRUE
    OBVIOUS
  <2>5. PICK z : c0 = [ok |-> t, block_idx |-> b, bc |-> z]
    BY <2>2, <2>5a, Zenon DEF Standing
  <2>6. PICK y : y = IF start.kind = "Excluded" /\ past THEN block_next(found) ELSE found
    OBVIOUS
  <2>7. [c0 EXCEPT !.bc = y] = [ok |-> t, block_idx |-> b, bc |-> y]
    BY <2>5
  <2>8. c = [ok |-> TRUE, block_idx |-> b, bc |-> y]
    BY <2>4, <2>5a, <2>6, <2>7, Zenon
  <2>9. CASE start.kind = "Excluded" /\ past
    BY <1>6, <1>9, <2>6, <2>8, <2>9, Zenon DEF Standing
  <2>10. CASE ~(start.kind = "Excluded" /\ past)
    BY <1>6, <1>8, <2>6, <2>8, <2>10, Zenon DEF Standing
  <2> QED
    BY <2>9, <2>10
<1>11. /\ \A i \in 1 .. Len(s) : s[i].key \in Key
       /\ \A i, j \in 1 .. Len(s) : i < j => KeyLess(s[i].key, s[j].key)
  BY TableKeys, Zenon DEF Table, Ordered
<1>12. PICK last : last = h.block_metadata[b + 1].last_key /\ last = s[hi].key
  <2>1. b + 1 \in 1 .. Len(h.block_metadata)
    BY DEF Table
  <2> QED
    BY <1>4, <2>1, LastKeys, SMTT(30)
<1>13. ASSUME NEW i \in 1 .. hi PROVE ~Beyond(h, start, s[i].key)
  <2> SUFFICES ASSUME NEW m \in DOMAIN h.block_metadata,
                      h.block_metadata[m].last_key.stream_id = start.key.stream_id,
                      KeyLess(h.block_metadata[m].last_key, s[i].key)
               PROVE  FALSE
    BY Zenon DEF Beyond
  <2>1. m \in 1 .. Len(h.block_metadata)
    BY DEF Table
  <2>2. m = b + 1
    BY <2>1, Zenon DEF Found
  <2>3. KeyLess(s[hi].key, s[i].key)
    BY <1>12, <2>2, Zenon
  <2>4. i \in 1 .. Len(s) /\ hi \in 1 .. Len(s) /\ (i = hi \/ i < hi)
    BY <1>4a
  <2>5. i = hi \/ KeyLess(s[i].key, s[hi].key)
    BY <1>11, <2>4, Zenon
  <2> QED
    <3>1. PICK x \in Key, y \in Key : x = s[hi].key /\ y = s[i].key
      BY <1>11, <2>4
    <3>2. KeyLess(x, y) /\ (x = y \/ KeyLess(y, x))
      BY <2>3, <2>5, <3>1, Zenon
    <3> QED
      BY <3>2, KeyTotal, Zenon
<1>14. ASSUME NEW i \in (hi + 1) .. Len(s) PROVE After(start, s[i].key) \/ Beyond(h, start, s[i].key)
  <2>1. CASE KeyLess(key, s[i].key)
    BY <1>1, <2>1 DEF After, Bounded, KeyLeq
  <2>2. CASE h.block_metadata[b + 1].last_key.stream_id = key.stream_id
    <3>1. b + 1 \in DOMAIN h.block_metadata
      BY DEF Table
    <3>2. KeyLess(h.block_metadata[b + 1].last_key, s[i].key)
      BY <1>5
    <3>3. start.kind # "Unbounded"
      BY DEF Bounded
    <3> QED
      BY <1>1, <2>2, <3>1, <3>2, <3>3, Zenon DEF Beyond
  <2> QED
    BY <1>5, <2>1, <2>2
<1>15. CASE start.kind = "Excluded" /\ past
  <2>1. q < hi - lo /\ r = <<s[lo + q + 1]>>
    BY <1>6, <1>9, <1>15
  <2>2. s[lo + q + 1].key = key
    <3>1. r[1].key = key
      BY <1>9, <1>15, Zenon
    <3> QED
      BY <2>1, <3>1
  <2>3. PICK k \in 0 .. (o[b + 1] - o[b]), n \in Nat : k = q + 1 /\ n = lo + q + 1 /\ n = o[b] + k /\ n \in 1 .. hi
    <3>1. q + 1 \in 0 .. (hi - lo) /\ lo + q + 1 = lo + (q + 1) /\ lo + q + 1 \in 1 .. hi /\ lo + q + 1 \in Nat
      BY <1>4b, <2>1
    <3> QED
      BY <1>4, <3>1
  <2>4. Begun(h, s, o, c, n)
    BY <1>10, <1>15, <2>3, PlaceBegun, Zenon
  <2>5. ASSUME NEW i \in 1 .. Len(s)
        PROVE  n < i <=> After(start, s[i].key) \/ Beyond(h, start, s[i].key)
    <3>1. CASE i <= n
      <4>1. i \in 1 .. hi /\ n \in 1 .. Len(s) /\ (i = n \/ i < n)
        BY <1>4a, <2>3, <3>1
      <4>2. ~KeyLess(key, s[i].key)
        <5>1. i = n \/ KeyLess(s[i].key, key)
          BY <1>11, <2>2, <2>3, <4>1, Zenon
        <5>2. s[i].key \in Key
          BY <1>11, Zenon
        <5>3. i = n => s[i].key = key
          BY <2>2, <2>3, Zenon
        <5> QED
          BY <5>1, <5>2, <5>3, KeyTotal, Zenon
      <4>3. ~After(start, s[i].key)
        BY <1>1, <1>15, <4>2 DEF After
      <4>4. ~(n < i)
        BY <2>3, <3>1
      <4> QED
        BY <1>13, <4>1, <4>3, <4>4
    <3>2. CASE ~(i <= n)
      <4>1. n \in 1 .. Len(s) /\ n < i
        BY <1>4a, <2>3, <3>2
      <4>2. KeyLess(key, s[i].key)
        BY <1>11, <2>2, <2>3, <4>1, Zenon
      <4>3. After(start, s[i].key)
        BY <1>1, <1>15, <4>2 DEF After
      <4> QED
        BY <4>1, <4>3
    <3> QED
      BY <3>1, <3>2
  <2> QED
    BY <2>4, <2>5
<1>16. CASE ~(start.kind = "Excluded" /\ past)
  <2>1. PICK n \in Nat : n = lo + q /\ n = o[b] + q /\ n <= hi
    BY <1>4
  <2>2. Begun(h, s, o, c, n)
    BY <1>10, <1>16, <2>1, PlaceBegun, Zenon
  <2>3. ASSUME NEW i \in 1 .. Len(s)
        PROVE  n < i <=> After(start, s[i].key) \/ Beyond(h, start, s[i].key)
    <3>1. CASE i <= n
      <4>1. i \in 1 .. hi /\ i \in 1 .. (lo + q)
        BY <1>4a, <1>4b, <2>1, <3>1
      <4>2. KeyLess(s[i].key, key) /\ s[i].key \in Key
        BY <1>5, <1>11, <4>1
      <4>3. ~KeyLess(key, s[i].key) /\ key # s[i].key
        BY <4>2, KeyTotal, Zenon
      <4>4. ~After(start, s[i].key)
        BY <1>1, <4>3 DEF After, Bounded, KeyLeq
      <4>5. ~(n < i)
        BY <2>1, <3>1
      <4> QED
        BY <1>13, <4>1, <4>4, <4>5
    <3>2. CASE ~(i <= n) /\ i <= hi
      <4>1. i \in (lo + q + 1) .. hi /\ n < i
        BY <1>4, <2>1, <3>2, SMTT(30)
      <4>2. ~KeyLess(s[i].key, key) /\ s[i].key \in Key
        BY <1>5, <1>11, <4>1
      <4>3. KeyLeq(key, s[i].key)
        BY <4>2, KeyTotal, Zenon DEF KeyLeq
      <4>4. CASE start.kind = "Included"
        BY <1>1, <4>1, <4>3, <4>4 DEF After
      <4>5. CASE start.kind = "Excluded"
        <5>1. s[i].key # key
          <6>1. CASE i = lo + q + 1
            <7>1. q < hi - lo
              BY <1>4, <4>1, SMTT(30)
            <7>2. r = <<s[i]>>
              BY <1>6, <6>1, <7>1
            <7>3. r # <<>> /\ r[1] = s[i]
              BY <7>2
            <7> QED
              BY <1>9, <1>16, <4>5, <7>3, Zenon
          <6>2. CASE i # lo + q + 1
            <7>1. lo + q + 1 \in (lo + q + 1) .. hi /\ lo + q + 1 \in 1 .. Len(s) /\ lo + q + 1 < i
              BY <1>4a, <1>4b, <4>1, <6>2
            <7>2. ~KeyLess(s[lo + q + 1].key, key) /\ KeyLess(s[lo + q + 1].key, s[i].key)
              BY <1>5, <1>11, <7>1, Zenon
            <7> QED
              BY <7>2, Zenon
          <6> QED
            BY <6>1, <6>2
        <5>2. KeyLess(key, s[i].key)
          BY <4>3, <5>1, Zenon DEF KeyLeq
        <5> QED
          BY <1>1, <4>1, <4>5, <5>2 DEF After
      <4> QED
        BY <4>4, <4>5 DEF Bounded
    <3>3. CASE ~(i <= hi)
      <4>1. i \in (hi + 1) .. Len(s) /\ n < i
        BY <1>4a, <1>4b, <2>1, <3>3
      <4> QED
        BY <1>14, <4>1, Zenon
    <3> QED
      BY <3>1, <3>2, <3>3
  <2> QED
    BY <2>2, <2>3
<1> QED
  BY <1>15, <1>16

\* Where the search ends behind the last block, nothing is to be visited.
LEMMA EndBegun ==
  ASSUME NEW h, NEW s, NEW o, Table(h, s, o), NEW start, Bounded(start),
         NEW b, b = Len(h.block_metadata), Found(h, start.key.stream_id, b),
         NEW c, c = cursor_new(h, start, b)
  PROVE  \E n : /\ Begun(h, s, o, c, n)
                /\ \A i \in 1 .. Len(s) : n < i <=> After(start, s[i].key) \/ Beyond(h, start, s[i].key)
<1>1. c = NoCursor
  <2>1. cursor_at(h, b) = NoCursor
    BY AtEnd
  <2>2. ~NoCursor.ok
    BY DEF NoCursor
  <2> QED
    BY <2>1, <2>2, Zenon DEF cursor_new
<1>2. Len(s) \in Nat /\ Len(h.block_metadata) \in Nat /\ DOMAIN h.block_metadata = 1 .. Len(h.block_metadata)
  BY DEF Table
<1>3. PICK n \in Nat : n = Len(s)
  BY <1>2
<1>4. Begun(h, s, o, c, n)
  <2>1. cursor_record(NoCursor) = <<>> /\ ~NoCursor.ok
    BY DEF NoCursor, cursor_record
  <2>2. Len(<<>>) = 0 /\ n \in 0 .. Len(s) /\ n + 0 <= Len(s)
    BY <1>2, <1>3
  <2> QED
    BY <1>1, <1>3, <2>1, <2>2 DEF Begun
<1>5. PICK key \in Key : key = start.key
  BY DEF Bounded
<1>6. \A i \in 1 .. Len(h.block_metadata) : h.block_metadata[i].last_key.stream_id < key.stream_id
  BY <1>5, Zenon DEF Found
<1>7. ASSUME NEW i \in 1 .. Len(s)
      PROVE  ~(n < i) /\ ~After(start, s[i].key) /\ ~Beyond(h, start, s[i].key)
  <2>1. ~(n < i)
    BY <1>2, <1>3
  <2>2. ~Beyond(h, start, s[i].key)
    <3> SUFFICES ASSUME NEW m \in DOMAIN h.block_metadata,
                        h.block_metadata[m].last_key.stream_id = start.key.stream_id
                 PROVE  FALSE
      BY Zenon DEF Beyond
    <3>1. m \in 1 .. Len(h.block_metadata)
      BY <1>2
    <3>2. h.block_metadata[m].last_key.stream_id < key.stream_id
      BY <1>6, <3>1
    <3>3. key.stream_id \in Nat
      BY DEF Key
    <3> QED
      BY <1>5, <3>2, <3>3
  <2>3. b # 0
    <3>1. o[0] = 0 /\ o[b] = Len(s)
      BY Zenon DEF Table
    <3> QED
      BY <1>2, <3>1
  <2>4. PICK m \in 1 .. Len(h.block_metadata) : m = Len(h.block_metadata)
    BY <1>2, <2>3
  <2>5. o[m] = Len(s) /\ h.block_metadata[m].last_key = s[o[m]].key
    <3>1. o[m] = Len(s)
      BY <2>4, Zenon DEF Table
    <3>2. h.block_metadata[m].last_key = s[o[m]].key
      BY LastKeys
    <3> QED
      BY <3>1, <3>2
  <2>6. s[Len(s)].key.stream_id < key.stream_id
    BY <1>6, <2>5, Zenon
  <2>7. Len(s) \in 1 .. Len(s) /\ i <= Len(s)
    BY <1>2
  <2>8. s[i].key = s[Len(s)].key \/ KeyLess(s[i].key, s[Len(s)].key)
    BY <2>7, TableKeys
  <2>9. PICK x \in Key, y \in Key : x = s[i].key /\ y = s[Len(s)].key
    BY <2>7, TableKeys
  <2>10. y.stream_id < key.stream_id /\ (x = y \/ KeyLess(x, y))
    BY <2>6, <2>8, <2>9, Zenon
  <2>11. ~KeyLess(key, x) /\ key # x
    BY <2>10, StreamsFirst, Zenon
  <2>12. ~After(start, s[i].key)
    BY <1>5, <2>9, <2>11 DEF After, Bounded, KeyLeq
  <2> QED
    BY <2>1, <2>2, <2>12
<1> QED
  BY <1>4, <1>7

\* SstHandle::cursor begins its scan at the start bound.
LEMMA NewBegun ==
  ASSUME NEW h, NEW s, NEW o, Table(h, s, o), NEW start, Bounded(start),
         Cardinality(block_idx_for_stream_id(h, start.key.stream_id)) <= 1,
         NEW b \in StartBlocks(h, start), NEW c, c = cursor_new(h, start, b)
  PROVE  \E n : /\ Begun(h, s, o, c, n)
                /\ \A i \in 1 .. Len(s) : n < i <=> After(start, s[i].key) \/ Beyond(h, start, s[i].key)
<1>1. start.kind # "Unbounded" /\ start.key.stream_id \in Nat
  BY DEF Bounded, Key
<1>2. b \in block_idx_for_stream_id(h, start.key.stream_id)
  BY <1>1, Zenon DEF StartBlocks
<1>3. Found(h, start.key.stream_id, b)
  BY <1>1, <1>2, SearchFinds
<1>4. Len(h.block_metadata) \in Nat /\ b \in 0 .. Len(h.block_metadata)
  BY <1>3 DEF Found, Table
<1>5. CASE b = Len(h.block_metadata)
  BY <1>3, <1>5, EndBegun, Zenon
<1>6. CASE b # Len(h.block_metadata)
  <2>1. b \in 0 .. (Len(h.block_metadata) - 1)
    BY <1>4, <1>6
  <2> QED
    BY <1>3, <2>1, FoundBegun, Zenon
<1> QED
  BY <1>5, <1>6

\* A scan of everything begins with the first record.
LEMMA FirstBegun ==
  ASSUME NEW h, NEW s, NEW o, Table(h, s, o)
  PROVE  Begun(h, s, o, cursor_at(h, 0), 0)
<1>1. Len(h.block_metadata) \in Nat /\ Len(s) \in Nat /\ o[0] = 0
  BY DEF Table
<1>2. CASE Len(h.block_metadata) = 0
  <2>1. cursor_at(h, 0) = NoCursor
    BY <1>2, AtEnd
  <2>2. Len(s) = 0
    BY <1>1, <1>2 DEF Table
  <2>3. cursor_record(NoCursor) = <<>> /\ ~NoCursor.ok /\ Len(<<>>) = 0 /\ 0 + 0 <= Len(s) /\ 0 \in 0 .. Len(s)
    BY <1>1 DEF NoCursor, cursor_record
  <2> QED
    BY <2>1, <2>2, <2>3 DEF Begun
<1>3. CASE Len(h.block_metadata) # 0
  <2>1. PICK b \in 0 .. (Len(h.block_metadata) - 1) : b = 0
    BY <1>1, <1>3
  <2>2. cursor_at(h, b) = Standing(h, b, 0)
    BY AtStands
  <2>3. PICK k \in 0 .. (o[b + 1] - o[b]) : k = 0 /\ o[b] + k = 0
    <3>1. PICK m \in 1 .. Len(h.block_metadata) : m = b + 1 /\ m - 1 = b
      BY <1>1, <2>1
    <3>2. BlockHolds(h, s, o, m)
      BY Zenon DEF Table
    <3>3. o[b] \in Nat /\ o[b + 1] \in Nat /\ o[b] < o[b + 1]
      BY <3>1, <3>2, Zenon DEF BlockHolds
    <3> QED
      BY <1>1, <2>1, <3>3
  <2>4. Begun(h, s, o, Standing(h, b, k), o[b] + k)
    BY PlaceBegun
  <2> QED
    BY <2>1, <2>2, <2>3, <2>4, Zenon
<1> QED
  BY <1>2, <1>3

\* A cursor that has passed the records v, those after the first n: it stands
\* behind them, or there is nothing left in the range.
Scanned(h, s, o, c, v, n, end) ==
  /\ n \in 0 .. Len(s) /\ v \in Seq(TableRecord) /\ n + Len(v) <= Len(s)
  /\ \A i \in 1 .. Len(v) : v[i] = s[n + i]
  /\ IF c.ok THEN Stands(h, s, o, c, n + Len(v))
     ELSE \A i \in (n + Len(v) + 1) .. Len(s) : ~Within(s[i].key, end)

\* A scan that begins has passed the record it stands on.
LEMMA BegunScanned ==
  ASSUME NEW h, NEW s, NEW o, Table(h, s, o), NEW c, NEW n, Begun(h, s, o, c, n), NEW end
  PROVE  Scanned(h, s, o, c, cursor_record(c), n, end)
<1>1. PICK v : v = cursor_record(c)
  OBVIOUS
<1>2. /\ n \in 0 .. Len(s) /\ v \in {<<>>, <<s[n + 1]>>} /\ n + Len(v) <= Len(s)
      /\ IF c.ok THEN Stands(h, s, o, c, n + Len(v)) ELSE n = Len(s)
  BY <1>1, Zenon DEF Begun
<1>3. Len(s) \in Nat /\ \A i \in 1 .. Len(s) : s[i] \in TableRecord
  BY TableKeys
<1>4. v \in Seq(TableRecord) /\ \A i \in 1 .. Len(v) : v[i] = s[n + i]
  <2>1. CASE v = <<>>
    <3>1. v \in Seq(TableRecord) /\ Len(v) = 0
      BY <2>1
    <3> QED
      BY <3>1
  <2>2. CASE v = <<s[n + 1]>>
    <3>1. Len(v) = 1 /\ v[1] = s[n + 1]
      BY <2>2
    <3>2. n + 1 \in 1 .. Len(s)
      BY <1>2, <1>3, <3>1
    <3>3. s[n + 1] \in TableRecord
      BY <1>3, <3>2
    <3>4. v \in Seq(TableRecord)
      BY <2>2, <3>3
    <3>5. \A i \in 1 .. Len(v) : i = 1
      BY <3>1
    <3> QED
      BY <3>1, <3>4, <3>5
  <2> QED
    BY <1>2, <2>1, <2>2
<1>5. CASE c.ok
  BY <1>1, <1>2, <1>4, <1>5, Zenon DEF Scanned
<1>6. CASE ~c.ok
  <2>1. n = Len(s) /\ Len(v) \in Nat
    BY <1>2, <1>4, <1>6
  <2>2. \A i \in (n + Len(v) + 1) .. Len(s) : FALSE
    BY <1>3, <2>1
  <2> QED
    BY <1>1, <1>2, <1>4, <1>6, <2>2, Zenon DEF Scanned
<1> QED
  BY <1>5, <1>6

\* What lies after a record past the end bound is past it too.
LEMMA PastEnd ==
  ASSUME NEW a \in Key, NEW b \in Key, KeyLess(a, b), NEW end, end = Unbounded \/ Bounded(end), ~Within(a, end)
  PROVE  ~Within(b, end)
<1>1. end # Unbounded
  <2>1. Unbounded.kind = "Unbounded"
    BY DEF Unbounded
  <2> QED
    BY <2>1 DEF Within
<1>2. PICK e \in Key : e = end.key
  BY <1>1 DEF Bounded
<1>3. CASE end.kind = "Included"
  <2>1. ~KeyLeq(a, e)
    BY <1>2, <1>3 DEF Within
  <2>2. ~KeyLeq(b, e)
    BY <2>1, KeyTotal, Zenon DEF KeyLeq
  <2> QED
    BY <1>2, <1>3, <2>2 DEF Within
<1>4. CASE end.kind = "Excluded"
  <2>1. ~KeyLess(a, e)
    BY <1>2, <1>4 DEF Within
  <2>2. ~KeyLess(b, e)
    BY <2>1, KeyTotal, Zenon
  <2> QED
    BY <1>2, <1>4, <2>2 DEF Within
<1> QED
  BY <1>1, <1>3, <1>4 DEF Bounded

\* next takes the scan one record on, or ends it.
LEMMA NextScanned ==
  ASSUME NEW h, NEW s, NEW o, Table(h, s, o), NEW c, c.ok, NEW v, NEW n,
         NEW end, end = Unbounded \/ Bounded(end), Scanned(h, s, o, c, v, n, end),
         NEW d, d = cursor_next(h, c, end)
  PROVE  Scanned(h, s, o, d, v \o cursor_record(d), n, end)
<1>1. /\ n \in 0 .. Len(s) /\ v \in Seq(TableRecord) /\ n + Len(v) <= Len(s)
      /\ \A i \in 1 .. Len(v) : v[i] = s[n + i]
      /\ Stands(h, s, o, c, n + Len(v))
  BY Zenon DEF Scanned
<1>2. /\ Len(s) \in Nat /\ \A i \in 1 .. Len(s) : s[i] \in TableRecord /\ s[i].key \in Key
      /\ \A i, j \in 1 .. Len(s) : i < j => KeyLess(s[i].key, s[j].key)
  BY TableKeys, Zenon DEF Table, Ordered
<1>3. PICK p \in Nat : p = n + Len(v) /\ p <= Len(s)
  BY <1>1, <1>2
<1>4. Moved(h, s, o, d, p, end)
  <2>1. Stands(h, s, o, c, p)
    BY <1>1, <1>3, Zenon
  <2> QED
    BY <2>1, NextMoves, Zenon
<1>5. CASE d.ok /\ p < Len(s) /\ cursor_record(d) = <<s[p + 1]>> /\ Stands(h, s, o, d, p + 1)
  <2>1. PICK u : u = v \o cursor_record(d)
    OBVIOUS
  <2>2. PICK r \in TableRecord : r = s[p + 1]
    <3>1. p + 1 \in 1 .. Len(s)
      BY <1>2, <1>5
    <3> QED
      BY <1>2, <3>1
  <2>3. u = v \o <<r>>
    BY <1>5, <2>1, <2>2, Zenon
  <2>4. u \in Seq(TableRecord) /\ Len(u) = Len(v) + 1 /\ (\A i \in 1 .. Len(v) : u[i] = v[i]) /\ u[Len(v) + 1] = r
    BY <1>1, <2>3
  <2>5. n + Len(u) = p + 1 /\ p + 1 <= Len(s) /\ n + (Len(v) + 1) = p + 1
    BY <1>1, <1>2, <1>3, <1>5, <2>4
  <2>6. ASSUME NEW i \in 1 .. Len(u) PROVE u[i] = s[n + i]
    <3>1. CASE i \in 1 .. Len(v)
      BY <1>1, <2>4, <3>1
    <3>2. CASE i = Len(v) + 1
      BY <2>2, <2>4, <2>5, <3>2, Zenon
    <3>3. i \in 1 .. Len(v) \/ i = Len(v) + 1
      BY <1>1, <2>4
    <3> QED
      BY <3>1, <3>2, <3>3
  <2>7. n + Len(u) <= Len(s) /\ Stands(h, s, o, d, n + Len(u))
    BY <1>5, <2>5, Zenon
  <2> QED
    BY <1>1, <1>5, <2>1, <2>4, <2>6, <2>7, Zenon DEF Scanned
<1>6. CASE /\ d = NoCursor /\ cursor_record(d) = <<>>
           /\ p = Len(s) \/ (p < Len(s) /\ ~Within(s[p + 1].key, end))
  <2>1. v \o cursor_record(d) = v
    <3>1. v \o <<>> = v
      BY <1>1
    <3> QED
      BY <1>6, <3>1, Zenon
  <2>2. ~d.ok
    BY <1>6 DEF NoCursor
  <2>3. ASSUME NEW i \in (n + Len(v) + 1) .. Len(s) PROVE ~Within(s[i].key, end)
    <3>1. i \in 1 .. Len(s) /\ p < i /\ p < Len(s) /\ p + 1 \in 1 .. Len(s) /\ (i = p + 1 \/ p + 1 < i)
      BY <1>1, <1>2, <1>3
    <3>2. ~Within(s[p + 1].key, end)
      BY <1>3, <1>6, <3>1
    <3>3. PICK x \in Key, y \in Key : x = s[p + 1].key /\ y = s[i].key
      BY <1>2, <3>1
    <3>4. x = y \/ KeyLess(x, y)
      BY <1>2, <3>1, <3>3, Zenon
    <3>5. ~Within(y, end)
      BY <3>2, <3>3, <3>4, PastEnd, Zenon
    <3> QED
      BY <3>3, <3>5, Zenon
  <2> QED
    BY <1>1, <2>1, <2>2, <2>3, Zenon DEF Scanned
<1> QED
  BY <1>4, <1>5, <1>6, Zenon DEF Moved

\* seek in a table of one block that does not start after the key.
LEMMA SeekBegun ==
  ASSUME NEW h, NEW s, NEW o, Table(h, s, o), NEW key \in Key, Len(h.block_metadata) = 1,
         KeyLeq(h.block_metadata[1].first_key, key), NEW b \in SeekBlocks(h, key),
         NEW c, c = cursor_seek(h, key, b)
  PROVE  \E n : Begun(h, s, o, c, n) /\ \A i \in 1 .. Len(s) : n < i <=> KeyLeq(key, s[i].key)
<1>1. /\ Len(s) \in Nat /\ \A i \in 1 .. Len(s) : s[i].key \in Key
  BY TableKeys
<1>2. b \in 0 .. (Len(h.block_metadata) - 1) /\ b = 0
  <2>1. PICK i \in 1 .. Len(h.block_metadata) : i = 1 /\ i - 1 = 0
    OBVIOUS
  <2>2. BlockHolds(h, s, o, i)
    BY Zenon DEF Table
  <2>3. o[0] \in Nat /\ o[1] \in Nat /\ o[0] < o[1] /\ o[1] <= Len(s) /\ h.block_metadata[1].first_key = s[o[0] + 1].key
    BY <2>1, <2>2, Zenon DEF BlockHolds
  <2>4. o[0] + 1 \in 1 .. Len(s)
    BY <1>1, <2>3
  <2>5. PICK f \in Key : f = h.block_metadata[1].first_key
    BY <1>1, <2>3, <2>4
  <2>6. ~KeyLess(key, f)
    BY <2>5, KeyTotal, Zenon DEF KeyLeq
  <2>7. ~(Len(h.block_metadata) > 1)
    OBVIOUS
  <2>8. b = 0
    BY <2>5, <2>6, <2>7 DEF SeekBlocks
  <2> QED
    BY <2>8
<1>3. PICK q \in 0 .. (o[b + 1] - o[b]) :
        /\ block_seek(cursor_at(h, b).bc, key) = block_at(read_block(h, b)[1], q)
        /\ \A i \in (o[b] + 1) .. o[b + 1] : KeyLess(s[i].key, key) <=> i <= o[b] + q
  BY <1>2, SeekPlace
<1>4. o[0] = 0 /\ o[b] = 0 /\ o[b + 1] = Len(s)
  <2>1. o[0] = 0 /\ o[1] = Len(s)
    BY Zenon DEF Table
  <2>2. b + 1 = 1
    BY <1>2
  <2> QED
    BY <1>2, <2>1, <2>2, Zenon
<1>5. q \in 0 .. Len(s) /\ \A i \in 1 .. Len(s) : KeyLess(s[i].key, key) <=> i <= q
  <2>1. q \in 0 .. Len(s)
    BY <1>1, <1>3, <1>4
  <2>2. 0 + 1 = 1 /\ 0 + q = q
    BY <2>1
  <2> QED
    BY <1>3, <1>4, <2>1, <2>2, Zenon
<1>6. c = Standing(h, b, q)
  <2>1. PICK c0 : c0 = cursor_at(h, b)
    OBVIOUS
  <2>2. c0.ok /\ c0 = Standing(h, b, 0)
    BY <1>2, <2>1, AtStands
  <2>3. c = [c0 EXCEPT !.bc = block_seek(c0.bc, key)]
    BY <2>1, <2>2, Zenon DEF cursor_seek
  <2>4. PICK t : t = TRUE
    OBVIOUS
  <2>5. PICK z : c0 = [ok |-> t, block_idx |-> b, bc |-> z]
    BY <2>2, <2>4, Zenon DEF Standing
  <2>6. PICK y : y = block_seek(c0.bc, key)
    OBVIOUS
  <2>7. [c0 EXCEPT !.bc = y] = [ok |-> t, block_idx |-> b, bc |-> y]
    BY <2>5
  <2>8. c = [ok |-> TRUE, block_idx |-> b, bc |-> y]
    BY <2>3, <2>4, <2>6, <2>7, Zenon
  <2> QED
    BY <1>3, <2>1, <2>6, <2>8, Zenon DEF Standing
<1>7. Begun(h, s, o, c, q)
  <2>1. Begun(h, s, o, c, o[b] + q)
    BY <1>2, <1>6, PlaceBegun, Zenon
  <2>2. o[b] + q = q
    BY <1>4, <1>5
  <2> QED
    BY <2>1, <2>2
<1>8. ASSUME NEW i \in 1 .. Len(s) PROVE q < i <=> KeyLeq(key, s[i].key)
  <2>1. KeyLeq(key, s[i].key) <=> ~KeyLess(s[i].key, key)
    BY <1>1, KeyTotal, Zenon DEF KeyLeq
  <2>2. q < i <=> ~(i <= q)
    BY <1>1, <1>5
  <2> QED
    BY <1>5, <2>1, <2>2, Zenon
<1> QED
  BY <1>7, <1>8

-----------------------------------------------------------------------------
(* The merge of MergeIter: its sources in the order of their keys.           *)

\* No length is above the sum, and a sum of nothing is none.
LEMMA TotalParts ==
  ASSUME NEW x \in Seq(Nat)
  PROVE  /\ Total(x) \in Nat /\ \A i \in 1 .. Len(x) : x[i] <= Total(x)
         /\ (\A i \in 1 .. Len(x) : x[i] = 0) => Total(x) = 0
<1>1. PICK k \in Nat : k = Len(x)
  OBVIOUS
<1>2. PICK f : SumsOf(f, x, k) /\ Total(x) = f[k] /\ \A i \in 0 .. k : f[i] \in Nat
  BY <1>1, TotalSums
<1>3. f[0] = 0 /\ \A i \in 1 .. k : f[i] = f[i - 1] + x[i]
  BY <1>2 DEF SumsOf
<1>4. \A i \in 1 .. k : x[i] \in Nat
  BY <1>1
<1>5. ASSUME NEW i \in 1 .. k PROVE x[i] <= f[k]
  <2> DEFINE T == {j \in i .. k : ~(x[i] <= f[j])}
  <2> SUFFICES ASSUME T # {} PROVE FALSE
    OBVIOUS
  <2>1. PICK c \in T : \A d \in T : c <= d
    <3>1. T \in SUBSET Nat
      OBVIOUS
    <3> HIDE DEF T
    <3> QED
      BY <3>1, LeastNumber
  <2>2. CASE c = i
    <3>1. f[i] = f[i - 1] + x[i] /\ f[i - 1] \in Nat /\ x[i] \in Nat
      BY <1>2, <1>3, <1>4
    <3> QED
      BY <2>1, <2>2, <3>1
  <2>3. CASE c # i
    <3>1. c - 1 \in i .. k /\ c \in 1 .. k /\ c - 1 \notin T
      BY <2>1, <2>3
    <3>2. x[i] <= f[c - 1] /\ f[c] = f[c - 1] + x[c] /\ f[c - 1] \in Nat /\ x[c] \in Nat /\ x[i] \in Nat
      BY <1>2, <1>3, <1>4, <3>1
    <3> QED
      BY <2>1, <3>2, SMTT(30)
  <2> QED
    BY <2>2, <2>3
<1>6. ASSUME \A i \in 1 .. k : x[i] = 0 PROVE f[k] = 0
  <2> DEFINE T == {j \in 0 .. k : f[j] # 0}
  <2> SUFFICES ASSUME T # {} PROVE FALSE
    OBVIOUS
  <2>1. PICK c \in T : \A d \in T : c <= d
    <3>1. T \in SUBSET Nat
      OBVIOUS
    <3> HIDE DEF T
    <3> QED
      BY <3>1, LeastNumber
  <2>2. c # 0 /\ c \in 1 .. k /\ c - 1 \in 0 .. k /\ c - 1 \notin T
    BY <1>3, <2>1
  <2>3. f[c - 1] = 0 /\ f[c] = f[c - 1] + x[c] /\ x[c] = 0
    BY <1>3, <1>6, <2>2
  <2> QED
    BY <2>1, <2>3
<1> QED
  BY <1>1, <1>2, <1>5, <1>6

\* The sums step by step.
SumSteps(f, x, k) == f[0] = 0 /\ \A i \in 1 .. k : f[i] = f[i - 1] + x[i]

LEMMA SumsSteps ==
  ASSUME NEW k \in Nat, NEW f, NEW x, SumsOf(f, x, k)
  PROVE  SumSteps(f, x, k)
BY DEF SumsOf, SumSteps

AllNat(f, a, k) == \A i \in a .. k : f[i] \in Nat

OneMore(x, y, m, k) == \A i \in 1 .. k : x[i] = IF i = m THEN y[i] + 1 ELSE y[i]

\* One summand less by one makes the sum less by one.
LEMMA SumsDrop ==
  ASSUME NEW k \in Nat, NEW m \in 1 .. k, NEW f, NEW g, NEW x, NEW y,
         SumSteps(f, x, k), SumSteps(g, y, k), AllNat(g, 0, k), AllNat(y, 1, k), OneMore(x, y, m, k)
  PROVE  f[k] = g[k] + 1
<1> USE DEF SumSteps, AllNat, OneMore
<1> DEFINE T == {j \in 0 .. k : f[j] # IF j < m THEN g[j] ELSE g[j] + 1}
<1>1. T = {}
  <2> SUFFICES ASSUME T # {} PROVE FALSE
    OBVIOUS
  <2>1. PICK c \in T : \A d \in T : c <= d
    <3>1. T \in SUBSET Nat
      OBVIOUS
    <3> HIDE DEF T
    <3> QED
      BY <3>1, LeastNumber
  <2>2. c # 0 /\ c \in 1 .. k /\ c - 1 \in 0 .. k /\ c - 1 \notin T
    BY <2>1
  <2>3. /\ f[c] = f[c - 1] + x[c] /\ g[c] = g[c - 1] + y[c]
        /\ f[c - 1] = IF c - 1 < m THEN g[c - 1] ELSE g[c - 1] + 1
        /\ g[c - 1] \in Nat /\ y[c] \in Nat /\ x[c] = IF c = m THEN y[c] + 1 ELSE y[c]
    BY <2>2
  <2>4. f[c] = IF c < m THEN g[c] ELSE g[c] + 1
    BY <2>2, <2>3
  <2> QED
    BY <2>1, <2>4
<1> QED
  BY <1>1

LEMMA TotalDrop ==
  ASSUME NEW x \in Seq(Nat), NEW y \in Seq(Nat), Len(x) = Len(y), NEW m \in 1 .. Len(x),
         x[m] = y[m] + 1, \A i \in 1 .. Len(x) : i # m => x[i] = y[i]
  PROVE  Total(x) = Total(y) + 1
<1>1. PICK k \in Nat : k = Len(x) /\ k = Len(y)
  OBVIOUS
<1>2. PICK f : SumsOf(f, x, k) /\ Total(x) = f[k]
  BY <1>1, TotalSums
<1>3. PICK g : SumsOf(g, y, k) /\ Total(y) = g[k] /\ AllNat(g, 0, k)
  <2>1. \E g : SumsOf(g, y, k) /\ Total(y) = g[k] /\ \A i \in 0 .. k : g[i] \in Nat
    BY <1>1, TotalSums
  <2> QED
    BY <2>1 DEF AllNat
<1>4. SumSteps(f, x, k) /\ SumSteps(g, y, k)
  BY <1>2, <1>3, SumsSteps, Zenon
<1>6. m \in 1 .. k /\ AllNat(y, 1, k) /\ OneMore(x, y, m, k)
  BY <1>1, SMTT(30) DEF AllNat, OneMore
<1>7. f[k] = g[k] + 1
  BY <1>3, <1>4, <1>6, SumsDrop, Zenon
<1> QED
  BY <1>2, <1>3, <1>7, Zenon

\* A set of keys has a least one.
LEMMA LeastKey ==
  ASSUME NEW S \in SUBSET Key, S # {}
  PROVE  \E k \in S : \A l \in S : KeyLeq(k, l)
<1>1. \A k \in S : /\ k.stream_id \in Nat /\ k.timestamp \in Nat /\ k.sequence_num \in Nat /\ k.source_id \in Nat
                   /\ k \in Key
  BY DEF Key
<1>2. PICK a \in {k.stream_id : k \in S} : \A d \in {k.stream_id : k \in S} : a <= d
  <2>1. {k.stream_id : k \in S} \in SUBSET Nat /\ {k.stream_id : k \in S} # {}
    BY <1>1
  <2> QED
    BY <2>1, LeastNumber
<1> DEFINE A == {k \in S : k.stream_id = a}
<1>3. PICK b \in {k.timestamp : k \in A} : \A d \in {k.timestamp : k \in A} : b <= d
  <2>1. {k.timestamp : k \in A} \in SUBSET Nat /\ {k.timestamp : k \in A} # {}
    BY <1>1, <1>2
  <2> QED
    BY <2>1, LeastNumber
<1> DEFINE B == {k \in A : k.timestamp = b}
<1>4. PICK c \in {k.sequence_num : k \in B} : \A d \in {k.sequence_num : k \in B} : c <= d
  <2>1. {k.sequence_num : k \in B} \in SUBSET Nat /\ {k.sequence_num : k \in B} # {}
    BY <1>1, <1>3
  <2> QED
    BY <2>1, LeastNumber
<1> DEFINE C == {k \in B : k.sequence_num = c}
<1>5. PICK e \in {k.source_id : k \in C} : \A d \in {k.source_id : k \in C} : e <= d
  <2>1. {k.source_id : k \in C} \in SUBSET Nat /\ {k.source_id : k \in C} # {}
    BY <1>1, <1>4
  <2> QED
    BY <2>1, LeastNumber
<1>6. PICK k \in C : k.source_id = e
  BY <1>5
<1>7. k \in S /\ k.stream_id = a /\ k.timestamp = b /\ k.sequence_num = c
  BY <1>6
<1>8. ASSUME NEW l \in S PROVE ~KeyLess(l, k)
  <2>1. a <= l.stream_id
    BY <1>2
  <2>2. l.stream_id = a => b <= l.timestamp
    BY <1>3
  <2>3. l.stream_id = a /\ l.timestamp = b => c <= l.sequence_num
    BY <1>4
  <2>4. l.stream_id = a /\ l.timestamp = b /\ l.sequence_num = c => e <= l.source_id
    BY <1>5
  <2> HIDE DEF A, B, C
  <2>5. a \in Nat /\ b \in Nat /\ c \in Nat /\ e \in Nat
    BY <1>1, <1>6, <1>7
  <2>6. l.stream_id \in Nat /\ l.timestamp \in Nat /\ l.sequence_num \in Nat /\ l.source_id \in Nat
    BY <1>1
  <2> QED
    BY <1>6, <1>7, <2>1, <2>2, <2>3, <2>4, <2>5, <2>6 DEF KeyLess
<1>9. \A l \in S : KeyLeq(k, l)
  BY <1>1, <1>7, <1>8, KeyTotal, Zenon DEF KeyLeq
<1> QED
  BY <1>7, <1>9

\* Sources of a merge: each gives its records in order.
Sources(x) == x \in Seq(Seq(TableRecord)) /\ \A i \in 1 .. Len(x) : Ordered(x[i])

Lens(x) == [i \in DOMAIN x |-> Len(x[i])]

LEMMA SourceFacts ==
  ASSUME NEW x, Sources(x)
  PROVE  /\ Len(x) \in Nat /\ DOMAIN x = 1 .. Len(x) /\ Lens(x) \in Seq(Nat) /\ Len(Lens(x)) = Len(x)
         /\ \A i \in 1 .. Len(x) :
              /\ x[i] \in Seq(TableRecord) /\ Len(x[i]) \in Nat /\ Lens(x)[i] = Len(x[i])
              /\ \A a \in 1 .. Len(x[i]) : x[i][a] \in TableRecord /\ x[i][a].key \in Key
              /\ \A a, b \in 1 .. Len(x[i]) : a < b => KeyLess(x[i][a].key, x[i][b].key)
<1>1. x \in Seq(Seq(TableRecord)) /\ \A i \in 1 .. Len(x) : Ordered(x[i])
  BY Zenon DEF Sources
<1>2. Len(x) \in Nat /\ DOMAIN x = 1 .. Len(x)
  BY <1>1
<1>3. \A i \in 1 .. Len(x) : x[i] \in Seq(TableRecord)
  BY <1>1
<1>4. \A s \in Seq(TableRecord) : Len(s) \in Nat /\ \A a \in 1 .. Len(s) : s[a] \in TableRecord
  OBVIOUS
<1>5. \A r \in TableRecord : r.key \in Key
  BY DEF TableRecord
<1>6. \A i \in 1 .. Len(x) : Len(x[i]) \in Nat
  BY <1>3, <1>4, Zenon
<1>7. Lens(x) \in Seq(Nat) /\ Len(Lens(x)) = Len(x) /\ \A i \in 1 .. Len(x) : Lens(x)[i] = Len(x[i])
  <2>1. PICK n \in Nat : n = Len(x)
    BY <1>2, Zenon
  <2>2. Lens(x) = [i \in 1 .. n |-> Len(x[i])]
    BY <1>2, <2>1, Zenon DEF Lens
  <2>3. Lens(x) \in [1 .. n -> Nat]
    BY <1>6, <2>1, <2>2
  <2>4. Lens(x) \in Seq(Nat) /\ Len(Lens(x)) = n
    BY <2>3
  <2>5. \A i \in 1 .. n : Lens(x)[i] = Len(x[i])
    BY <2>2
  <2> QED
    BY <2>1, <2>4, <2>5, ZenonT(60)
<1>8. ASSUME NEW i \in 1 .. Len(x)
      PROVE  /\ \A a \in 1 .. Len(x[i]) : x[i][a] \in TableRecord /\ x[i][a].key \in Key
             /\ \A a, b \in 1 .. Len(x[i]) : a < b => KeyLess(x[i][a].key, x[i][b].key)
  BY <1>1, <1>3, <1>4, <1>5, Zenon DEF Ordered
<1> QED
  BY <1>2, <1>3, <1>6, <1>7, <1>8, Zenon

\* The head of source m is the least.
LeastOf(l, m) ==
  /\ m \in 1 .. Len(l) /\ l[m] # <<>> /\ Len(l[m]) > 0
  /\ \A j \in 1 .. Len(l) : \A a \in 1 .. Len(l[j]) : KeyLeq(l[m][1].key, l[j][a].key)

LEMMA LeastExists ==
  ASSUME NEW l, Sources(l), NEW e \in 1 .. Len(l), Len(l[e]) > 0
  PROVE  LeastOf(l, Least(l))
<1>1. /\ Len(l) \in Nat /\ DOMAIN l = 1 .. Len(l)
      /\ \A i \in 1 .. Len(l) :
           /\ l[i] \in Seq(TableRecord) /\ Len(l[i]) \in Nat
           /\ \A a \in 1 .. Len(l[i]) : l[i][a].key \in Key
           /\ \A a, b \in 1 .. Len(l[i]) : a < b => KeyLess(l[i][a].key, l[i][b].key)
  BY SourceFacts, Zenon
<1>2. \A i \in 1 .. Len(l) : (l[i] # <<>> <=> Len(l[i]) > 0) /\ (l[i] # <<>> => Head(l[i]) = l[i][1])
  <2>1. \A s \in Seq(TableRecord) : (s # <<>> <=> Len(s) > 0) /\ (s # <<>> => Head(s) = s[1])
    OBVIOUS
  <2> QED
    BY <1>1, <2>1, Zenon
<1> DEFINE F == {i \in 1 .. Len(l) : l[i] # <<>>}
           S == {l[i][1].key : i \in F}
<1>3. S \in SUBSET Key /\ S # {}
  <2>1. ASSUME NEW i \in F PROVE l[i][1].key \in Key
    <3>1. Len(l[i]) \in Nat /\ Len(l[i]) > 0
      BY <1>1, <1>2, Zenon
    <3>2. 1 \in 1 .. Len(l[i])
      BY <3>1
    <3> QED
      BY <1>1, <3>2, Zenon
  <2>2. e \in F
    BY <1>2
  <2> QED
    BY <2>1, <2>2
<1>4. PICK k \in S : \A j \in S : KeyLeq(k, j)
  <2> HIDE DEF S
  <2> QED
    BY <1>3, LeastKey
<1>5. PICK i \in F : k = l[i][1].key
  BY <1>4
<1> DEFINE Best(i0) == l[i0] # <<>> /\ \A j \in DOMAIN l : l[j] # <<>> => KeyLeq(Head(l[i0]).key, Head(l[j]).key)
<1>6. i \in DOMAIN l /\ Best(i)
  <2>1. ASSUME NEW j \in DOMAIN l, l[j] # <<>> PROVE KeyLeq(Head(l[i]).key, Head(l[j]).key)
    <3>1. j \in F /\ l[j][1].key \in S
      BY <1>1, <2>1
    <3>2. KeyLeq(l[i][1].key, l[j][1].key)
      BY <1>4, <1>5, <3>1
    <3>3. Head(l[i]) = l[i][1] /\ Head(l[j]) = l[j][1]
      BY <1>2, <2>1, <3>1
    <3> QED
      BY <3>2, <3>3, Zenon
  <2> QED
    BY <1>1, <2>1
<1>7. PICK m : m = Least(l)
  OBVIOUS
<1>8. m \in DOMAIN l /\ Best(m)
  <2>1. m = CHOOSE i0 \in DOMAIN l : Best(i0)
    BY <1>7, Zenon DEF Least
  <2> HIDE DEF Best
  <2> QED
    BY <1>6, <2>1, Zenon
<1>9. m \in 1 .. Len(l) /\ l[m] # <<>> /\ Len(l[m]) > 0 /\ Head(l[m]) = l[m][1] /\ l[m][1].key \in Key
  <2>1. m \in 1 .. Len(l) /\ l[m] # <<>> /\ Len(l[m]) > 0 /\ Head(l[m]) = l[m][1]
    BY <1>1, <1>2, <1>8
  <2>2. 1 \in 1 .. Len(l[m])
    BY <1>1, <2>1
  <2> QED
    BY <1>1, <2>1, <2>2, Zenon
<1>10. ASSUME NEW j \in 1 .. Len(l), NEW a \in 1 .. Len(l[j]) PROVE KeyLeq(l[m][1].key, l[j][a].key)
  <2>1. Len(l[j]) \in Nat
    BY <1>1
  <2>2. Len(l[j]) > 0 /\ 1 \in 1 .. Len(l[j]) /\ (a = 1 \/ 1 < a)
    BY <2>1
  <2>3. j \in DOMAIN l /\ l[j] # <<>> /\ Head(l[j]) = l[j][1]
    BY <1>1, <1>2, <2>2
  <2>4. KeyLeq(l[m][1].key, l[j][1].key)
    BY <1>8, <1>9, <2>3
  <2>5. a = 1 \/ KeyLess(l[j][1].key, l[j][a].key)
    BY <1>1, <2>2, Zenon
  <2>6. PICK p \in Key, q \in Key, r \in Key : p = l[m][1].key /\ q = l[j][1].key /\ r = l[j][a].key
    BY <1>1, <1>9, <2>2, Zenon
  <2>7. KeyLeq(p, q) /\ (q = r \/ KeyLess(q, r))
    BY <2>4, <2>5, <2>6, Zenon
  <2>8. KeyLeq(p, r)
    BY <2>7, KeyTotal, Zenon DEF KeyLeq
  <2> QED
    BY <2>6, <2>8, Zenon
<1> QED
  BY <1>7, <1>9, <1>10, Zenon DEF LeastOf

\* Source m gives its first record.
Popped(l, u, m) ==
  /\ Sources(u) /\ Len(u) = Len(l) /\ Total(Lens(l)) = Total(Lens(u)) + 1
  /\ \A j \in 1 .. Len(l) : j # m => u[j] = l[j]
  /\ Len(l[m]) = Len(u[m]) + 1 /\ \A a \in 1 .. Len(u[m]) : u[m][a] = l[m][a + 1]

LEMMA PopSource ==
  ASSUME NEW l, Sources(l), NEW m \in 1 .. Len(l), Len(l[m]) > 0
  PROVE  Popped(l, [l EXCEPT ![m] = Tail(@)], m)
<1>1. /\ Len(l) \in Nat /\ DOMAIN l = 1 .. Len(l) /\ Lens(l) \in Seq(Nat) /\ Len(Lens(l)) = Len(l)
      /\ \A i \in 1 .. Len(l) :
           /\ l[i] \in Seq(TableRecord) /\ Len(l[i]) \in Nat /\ Lens(l)[i] = Len(l[i])
           /\ \A a, b \in 1 .. Len(l[i]) : a < b => KeyLess(l[i][a].key, l[i][b].key)
  BY SourceFacts, Zenon
<1>2. PICK s \in Seq(TableRecord) : s = l[m] /\ Len(s) > 0
  BY <1>1
<1>3. PICK t : t = Tail(s)
  OBVIOUS
<1>4. t \in Seq(TableRecord) /\ Len(t) \in Nat /\ Len(s) = Len(t) + 1 /\ \A a \in 1 .. Len(t) : t[a] = s[a + 1]
  BY <1>2, <1>3
<1>5. Ordered(t)
  <2>1. ASSUME NEW a \in 1 .. Len(t), NEW b \in 1 .. Len(t), a < b PROVE KeyLess(t[a].key, t[b].key)
    <3>1. a + 1 \in 1 .. Len(s) /\ b + 1 \in 1 .. Len(s) /\ a + 1 < b + 1
      BY <1>4, <2>1
    <3>2. KeyLess(s[a + 1].key, s[b + 1].key)
      BY <1>1, <1>2, <3>1, Zenon
    <3> QED
      BY <1>4, <3>2
  <2> QED
    BY <2>1, Zenon DEF Ordered
<1>6. PICK u : u = [l EXCEPT ![m] = Tail(@)]
  OBVIOUS
<1>7. u = [l EXCEPT ![m] = t]
  BY <1>2, <1>3, <1>6, Zenon
<1>8. l \in Seq(Seq(TableRecord))
  BY Zenon DEF Sources
<1>9. u \in Seq(Seq(TableRecord)) /\ Len(u) = Len(l) /\ u[m] = t /\ \A j \in 1 .. Len(l) : j # m => u[j] = l[j]
  BY <1>4, <1>7, <1>8
<1>10. Sources(u)
  <2>1. ASSUME NEW i \in 1 .. Len(u) PROVE Ordered(u[i])
    <3>1. CASE i = m
      BY <1>5, <1>9, <3>1, Zenon
    <3>2. CASE i # m
      BY <1>9, <3>2, Zenon DEF Sources
    <3> QED
      BY <3>1, <3>2
  <2> QED
    BY <1>9, <2>1, Zenon DEF Sources
<1>11. Total(Lens(l)) = Total(Lens(u)) + 1
  <2>1. PICK p, q : p = Lens(l) /\ q = Lens(u)
    OBVIOUS
  <2>2. p \in Seq(Nat) /\ Len(p) = Len(l) /\ q \in Seq(Nat) /\ Len(q) = Len(l)
    BY <1>1, <1>9, <1>10, <2>1, SourceFacts, Zenon
  <2>3. \A i \in 1 .. Len(l) : p[i] = Len(l[i]) /\ q[i] = Len(u[i])
    BY <1>1, <1>9, <1>10, <2>1, SourceFacts, Zenon
  <2>4. p[m] = q[m] + 1
    BY <1>2, <1>4, <1>9, <2>3
  <2>5. \A i \in 1 .. Len(p) : i # m => p[i] = q[i]
    BY <1>9, <2>2, <2>3
  <2>6. Len(p) = Len(q) /\ m \in 1 .. Len(p)
    BY <2>2
  <2>7. Total(p) = Total(q) + 1
    BY <2>2, <2>4, <2>5, <2>6, TotalDrop
  <2> QED
    BY <2>1, <2>7
<1> QED
  BY <1>2, <1>4, <1>6, <1>9, <1>10, <1>11, Zenon DEF Popped

\* Some source has the record.
Among(x, r) == \E i \in 1 .. Len(x) : \E a \in 1 .. Len(x[i]) : x[i][a] = r

\* No two sources have a record with the same key.
Apart(x) ==
  \A i, j \in 1 .. Len(x) : i # j =>
    \A a \in 1 .. Len(x[i]) : \A b \in 1 .. Len(x[j]) : x[i][a].key # x[j][b].key

LEMMA AmongRecords ==
  ASSUME NEW x, Sources(x), NEW r, Among(x, r)
  PROVE  r \in TableRecord /\ r.key \in Key
<1>1. PICK i \in 1 .. Len(x) : \E a \in 1 .. Len(x[i]) : x[i][a] = r
  BY Zenon DEF Among
<1>2. PICK a \in 1 .. Len(x[i]) : x[i][a] = r
  BY <1>1
<1> QED
  BY <1>1, <1>2, SourceFacts, Zenon

\* What is left when source m has given its first record.
LEMMA PoppedRecords ==
  ASSUME NEW l, Sources(l), NEW m, LeastOf(l, m), NEW u, Popped(l, u, m)
  PROVE  /\ l[m][1] \in TableRecord /\ l[m][1].key \in Key
         /\ \A r : Among(l, r) <=> (r = l[m][1] \/ Among(u, r))
         /\ \A r : Among(l, r) => KeyLeq(l[m][1].key, r.key)
         /\ Apart(l) => Apart(u) /\ \A r : Among(u, r) => r.key # l[m][1].key
<1>1. /\ m \in 1 .. Len(l) /\ Len(l[m]) > 0
      /\ \A j \in 1 .. Len(l) : \A a \in 1 .. Len(l[j]) : KeyLeq(l[m][1].key, l[j][a].key)
  BY Zenon DEF LeastOf
<1>2. /\ Len(l) \in Nat
      /\ \A i \in 1 .. Len(l) :
           /\ Len(l[i]) \in Nat
           /\ \A a \in 1 .. Len(l[i]) : l[i][a] \in TableRecord /\ l[i][a].key \in Key
           /\ \A a, b \in 1 .. Len(l[i]) : a < b => KeyLess(l[i][a].key, l[i][b].key)
  BY SourceFacts, Zenon
<1>3. /\ Sources(u) /\ Len(u) = Len(l) /\ \A j \in 1 .. Len(l) : j # m => u[j] = l[j]
      /\ Len(l[m]) = Len(u[m]) + 1 /\ \A a \in 1 .. Len(u[m]) : u[m][a] = l[m][a + 1]
  BY Zenon DEF Popped
<1>4. Len(u[m]) \in Nat /\ 1 \in 1 .. Len(l[m])
  <2>1. Len(u[m]) \in Nat
    BY <1>1, <1>3, SourceFacts, Zenon
  <2> QED
    BY <1>3, <2>1
<1>5. PICK h : h = l[m][1]
  OBVIOUS
<1>6. h \in TableRecord /\ h.key \in Key
  BY <1>1, <1>2, <1>4, <1>5, Zenon
<1>7. ASSUME NEW r, Among(l, r) PROVE (r = h \/ Among(u, r)) /\ KeyLeq(h.key, r.key)
  <2>1. PICK i \in 1 .. Len(l) : \E a \in 1 .. Len(l[i]) : l[i][a] = r
    BY <1>7, Zenon DEF Among
  <2>2. PICK a \in 1 .. Len(l[i]) : l[i][a] = r
    BY <2>1
  <2>3. KeyLeq(h.key, r.key)
    BY <1>1, <1>5, <2>2, Zenon
  <2>4. CASE i # m
    <3>1. i \in 1 .. Len(u) /\ u[i] = l[i]
      BY <1>3, <2>4
    <3>2. Among(u, r)
      BY <2>2, <3>1, Zenon DEF Among
    <3> QED
      BY <2>3, <3>2
  <2>5. CASE i = m /\ a = 1
    BY <1>5, <2>2, <2>3, <2>5
  <2>6. CASE i = m /\ a # 1
    <3>1. a - 1 \in 1 .. Len(u[m]) /\ (a - 1) + 1 = a
      BY <1>3, <1>4, <2>2, <2>6
    <3>2. u[m][a - 1] = r
      BY <1>3, <2>2, <2>6, <3>1
    <3>3. m \in 1 .. Len(u)
      BY <1>1, <1>3
    <3>4. Among(u, r)
      BY <3>1, <3>2, <3>3, Zenon DEF Among
    <3> QED
      BY <2>3, <3>4
  <2> QED
    BY <2>4, <2>5, <2>6
\* Where a record of what is left was.
<1>8. ASSUME NEW i \in 1 .. Len(u), NEW a \in 1 .. Len(u[i])
      PROVE  \E b \in 1 .. Len(l[i]) : l[i][b] = u[i][a] /\ (i = m => 1 < b)
  <2>1. CASE i # m
    BY <1>3, <2>1, Zenon
  <2>2. CASE i = m
    <3>1. a + 1 \in 1 .. Len(l[m]) /\ 1 < a + 1 /\ u[m][a] = l[m][a + 1]
      BY <1>3, <1>4, <2>2
    <3> QED
      BY <2>2, <3>1
  <2> QED
    BY <2>1, <2>2
<1>9. ASSUME NEW r, r = h \/ Among(u, r) PROVE Among(l, r)
  <2>1. CASE r = h
    BY <1>1, <1>4, <1>5, <2>1, Zenon DEF Among
  <2>2. CASE Among(u, r)
    <3>1. PICK i \in 1 .. Len(u) : \E a \in 1 .. Len(u[i]) : u[i][a] = r
      BY <2>2, Zenon DEF Among
    <3>2. PICK a \in 1 .. Len(u[i]) : u[i][a] = r
      BY <3>1
    <3>3. i \in 1 .. Len(l) /\ \E b \in 1 .. Len(l[i]) : l[i][b] = r
      BY <1>3, <1>8, <3>2, Zenon
    <3> QED
      BY <3>3, Zenon DEF Among
  <2> QED
    BY <1>9, <2>1, <2>2
<1>10. ASSUME Apart(l) PROVE Apart(u) /\ \A r : Among(u, r) => r.key # h.key
  <2>1. ASSUME NEW i \in 1 .. Len(u), NEW j \in 1 .. Len(u), i # j,
               NEW a \in 1 .. Len(u[i]), NEW b \in 1 .. Len(u[j])
        PROVE  u[i][a].key # u[j][b].key
    <3>1. PICK c \in 1 .. Len(l[i]) : l[i][c] = u[i][a]
      BY <1>8, Zenon
    <3>2. PICK d \in 1 .. Len(l[j]) : l[j][d] = u[j][b]
      BY <1>8, Zenon
    <3>3. i \in 1 .. Len(l) /\ j \in 1 .. Len(l)
      BY <1>3
    <3>4. l[i][c].key # l[j][d].key
      BY <1>10, <2>1, <3>3, Zenon DEF Apart
    <3> QED
      BY <3>1, <3>2, <3>4, Zenon
  <2>2. Apart(u)
    BY <2>1, Zenon DEF Apart
  <2>3. ASSUME NEW r, Among(u, r) PROVE r.key # h.key
    <3>1. PICK i \in 1 .. Len(u) : \E a \in 1 .. Len(u[i]) : u[i][a] = r
      BY <2>3, Zenon DEF Among
    <3>2. PICK a \in 1 .. Len(u[i]) : u[i][a] = r
      BY <3>1
    <3>3. PICK b \in 1 .. Len(l[i]) : l[i][b] = r /\ (i = m => 1 < b)
      BY <1>8, <3>2, Zenon
    <3>4. i \in 1 .. Len(l)
      BY <1>3
    <3>5. CASE i = m
      <4>1. KeyLess(h.key, r.key)
        BY <1>2, <1>4, <1>5, <3>3, <3>4, <3>5, Zenon
      <4>2. ~KeyLess(h.key, h.key)
        BY <1>6, KeyTotal, Zenon
      <4> QED
        BY <4>1, <4>2, Zenon
    <3>6. CASE i # m
      <4>1. l[i][b].key # l[m][1].key
        BY <1>1, <1>4, <1>10, <3>4, <3>6, Zenon DEF Apart
      <4> QED
        BY <1>5, <3>3, <4>1, Zenon
    <3> QED
      BY <3>5, <3>6
  <2> QED
    BY <2>2, <2>3
<1> QED
  BY <1>5, <1>6, <1>7, <1>9, <1>10, Zenon

Rising(v) == \A i, j \in 1 .. Len(v) : i < j => KeyLeq(v[i].key, v[j].key)

\* The sources x have given v and have l left.
Merged(x, l, v) ==
  /\ Sources(l) /\ v \in Seq(TableRecord)
  /\ \A r : (Among(l, r) \/ \E i \in 1 .. Len(v) : v[i] = r) <=> Among(x, r)
  /\ Rising(v) /\ \A i \in 1 .. Len(v) : \A r : Among(l, r) => KeyLeq(v[i].key, r.key)

\* Without a key given twice.
MergedApart(l, v) ==
  /\ Apart(l) /\ Ordered(v)
  /\ \A i \in 1 .. Len(v) : \A r : Among(l, r) => KeyLess(v[i].key, r.key)

LEMMA MergedStep ==
  ASSUME NEW x, NEW l, NEW v, Merged(x, l, v), NEW m, LeastOf(l, m), NEW u, Popped(l, u, m)
  PROVE  /\ Merged(x, u, Append(v, l[m][1]))
         /\ MergedApart(l, v) => MergedApart(u, Append(v, l[m][1]))
<1>0. PICK w : w = Append(v, l[m][1])
  OBVIOUS
<1>1. /\ Sources(l) /\ v \in Seq(TableRecord)
      /\ \A r : (Among(l, r) \/ \E i \in 1 .. Len(v) : v[i] = r) <=> Among(x, r)
      /\ Rising(v) /\ \A i \in 1 .. Len(v) : \A r : Among(l, r) => KeyLeq(v[i].key, r.key)
  BY Zenon DEF Merged
<1>2. PICK h : h = l[m][1]
  OBVIOUS
<1>3. /\ h \in TableRecord /\ h.key \in Key
      /\ \A r : Among(l, r) <=> (r = h \/ Among(u, r))
      /\ \A r : Among(l, r) => KeyLeq(h.key, r.key)
      /\ Apart(l) => Apart(u) /\ \A r : Among(u, r) => r.key # h.key
  <2>1. /\ l[m][1] \in TableRecord /\ l[m][1].key \in Key
        /\ \A r : Among(l, r) <=> (r = l[m][1] \/ Among(u, r))
        /\ \A r : Among(l, r) => KeyLeq(l[m][1].key, r.key)
        /\ Apart(l) => Apart(u) /\ \A r : Among(u, r) => r.key # l[m][1].key
    BY <1>1, PoppedRecords
  <2> QED
    BY <1>2, <2>1
<1>4. PICK n \in Nat : n = Len(v)
  BY <1>1
<1>5. w \in Seq(TableRecord) /\ Len(w) = n + 1 /\ w[n + 1] = h /\ \A i \in 1 .. n : w[i] = v[i]
  BY <1>0, <1>1, <1>2, <1>3, <1>4
<1>6. \A i \in 1 .. n : i \in 1 .. (n + 1) /\ i # n + 1 /\ i < n + 1 /\ ~(n + 1 < i)
  BY <1>4
<1>7. n + 1 \in 1 .. (n + 1) /\ ~(n + 1 < n + 1) /\ \A i \in 1 .. (n + 1) : i \in 1 .. n \/ i = n + 1
  BY <1>4
<1>8. Sources(u)
  BY Zenon DEF Popped
<1>9. ASSUME NEW r PROVE (Among(u, r) \/ \E i \in 1 .. Len(w) : w[i] = r) <=> Among(x, r)
  <2>1. (\E i \in 1 .. Len(w) : w[i] = r) <=> (r = h \/ \E i \in 1 .. Len(v) : v[i] = r)
    BY <1>4, <1>5, <1>6, <1>7
  <2> QED
    BY <1>1, <1>3, <2>1, Zenon
<1>10. Among(l, h)
  BY <1>3
<1>11. Rising(w)
  <2>1. ASSUME NEW i \in 1 .. Len(w), NEW j \in 1 .. Len(w), i < j PROVE KeyLeq(w[i].key, w[j].key)
    <3>1. i \in 1 .. n
      BY <1>4, <1>5, <2>1
    <3>2. CASE j = n + 1
      BY <1>1, <1>4, <1>5, <1>10, <3>1, <3>2
    <3>3. CASE j \in 1 .. n
      BY <1>1, <1>4, <1>5, <2>1, <3>1, <3>3 DEF Rising
    <3> QED
      BY <1>5, <1>7, <3>2, <3>3
  <2> QED
    BY <2>1, Zenon DEF Rising
<1>12. ASSUME NEW i \in 1 .. Len(w), NEW r, Among(u, r) PROVE KeyLeq(w[i].key, r.key)
  <2>1. Among(l, r)
    BY <1>3, <1>12
  <2>2. CASE i = n + 1
    BY <1>3, <1>5, <2>1, <2>2
  <2>3. CASE i \in 1 .. n
    BY <1>1, <1>4, <1>5, <2>1, <2>3
  <2> QED
    BY <1>5, <1>7, <2>2, <2>3
<1>13. Merged(x, u, w)
  BY <1>5, <1>8, <1>9, <1>11, <1>12, Zenon DEF Merged
<1>14. ASSUME MergedApart(l, v) PROVE MergedApart(u, w)
  <2>1. /\ Apart(l) /\ Ordered(v)
        /\ \A i \in 1 .. Len(v) : \A r : Among(l, r) => KeyLess(v[i].key, r.key)
    BY <1>14, Zenon DEF MergedApart
  <2>2. ASSUME NEW i \in 1 .. Len(w), NEW j \in 1 .. Len(w), i < j PROVE KeyLess(w[i].key, w[j].key)
    <3>1. i \in 1 .. n
      BY <1>4, <1>5, <2>2
    <3>2. CASE j = n + 1
      BY <1>4, <1>5, <1>10, <2>1, <3>1, <3>2
    <3>3. CASE j \in 1 .. n
      BY <1>4, <1>5, <2>1, <2>2, <3>1, <3>3 DEF Ordered
    <3> QED
      BY <1>5, <1>7, <3>2, <3>3
  <2>3. ASSUME NEW i \in 1 .. Len(w), NEW r, Among(u, r) PROVE KeyLess(w[i].key, r.key)
    <3>1. Among(l, r) /\ r.key # h.key
      BY <1>3, <2>1, <2>3
    <3>2. CASE i = n + 1
      <4>1. KeyLeq(h.key, r.key)
        BY <1>3, <3>1
      <4>2. KeyLess(h.key, r.key)
        BY <3>1, <4>1, Zenon DEF KeyLeq
      <4> QED
        BY <1>5, <3>2, <4>2
    <3>3. CASE i \in 1 .. n
      BY <1>4, <1>5, <2>1, <3>1, <3>3
    <3> QED
      BY <1>5, <1>7, <3>2, <3>3
  <2> QED
    BY <1>3, <2>1, <2>2, <2>3, Zenon DEF MergedApart, Ordered
<1> QED
  BY <1>0, <1>13, <1>14, Zenon

\* The merge record by record.
MergesOf(f, x, k) ==
  f = [n \in 0 .. k |-> IF n = 0 THEN [left |-> x, out |-> <<>>] ELSE pop_least(f[n - 1])]

LEMMA MergesExist ==
  ASSUME NEW n \in Nat, NEW x
  PROVE  \E f : MergesOf(f, x, n)
<1> DEFINE start == [left |-> x, out |-> <<>>]
           Solved(m) == \E f : MergesOf(f, x, m)
           T == {m \in 0 .. n : ~Solved(m)}
<1> HIDE DEF start
<1>0. \A f, m : MergesOf(f, x, m) <=> f = [i \in 0 .. m |-> IF i = 0 THEN start ELSE pop_least(f[i - 1])]
  BY Zenon DEF MergesOf, start
<1>1. SUFFICES ASSUME T # {} PROVE FALSE
  OBVIOUS
<1>2. PICK c \in T : \A d \in T : c <= d
  <2>1. T \in SUBSET Nat
    OBVIOUS
  <2> HIDE DEF T
  <2> QED
    BY <1>1, <2>1, LeastNumber
<1>3. CASE c = 0
  <2> DEFINE f == [i \in 0 .. 0 |-> start]
  <2>1. f = [i \in 0 .. 0 |-> IF i = 0 THEN start ELSE pop_least(f[i - 1])]
    OBVIOUS
  <2>2. MergesOf(f, x, 0)
    BY <1>0, <2>1, Zenon
  <2> QED
    BY <1>2, <1>3, <2>2
<1>4. CASE c # 0
  <2>1. c \in Nat /\ c - 1 \in 0 .. n /\ c - 1 \in Nat /\ c - 1 \notin T
    BY <1>2, <1>4
  <2>2. PICK g : MergesOf(g, x, c - 1)
    BY <2>1
  <2> DEFINE f == [i \in 0 .. c |-> IF i = c THEN pop_least(g[c - 1]) ELSE g[i]]
  <2>3. \A i \in 0 .. (c - 1) : g[i] = IF i = 0 THEN start ELSE pop_least(g[i - 1])
    <3>1. g = [i \in 0 .. (c - 1) |-> IF i = 0 THEN start ELSE pop_least(g[i - 1])]
      BY <1>0, <2>2, Zenon
    <3> QED
      BY <3>1
  <2>4. \A i \in 0 .. c : f[i] = IF i = 0 THEN start ELSE pop_least(f[i - 1])
    BY <1>4, <2>1, <2>3
  <2>5. f = [i \in 0 .. c |-> IF i = 0 THEN start ELSE pop_least(f[i - 1])]
    BY <2>4
  <2>6. MergesOf(f, x, c)
    BY <1>0, <2>5, Zenon
  <2> QED
    BY <1>2, <2>6
<1> QED
  BY <1>3, <1>4
\* What a merge gives: the records of its sources, in the order of their keys.
LEMMA MergeGives ==
  ASSUME NEW x, Sources(x)
  PROVE  /\ merge(x) \in Seq(TableRecord) /\ Rising(merge(x))
         /\ \A r : (\E i \in 1 .. Len(merge(x)) : merge(x)[i] = r) <=> Among(x, r)
         /\ Apart(x) => Ordered(merge(x))
<1>1. PICK k : k = Total(Lens(x))
  OBVIOUS
<1>2. k \in Nat
  BY <1>1, SourceFacts, TotalParts, Zenon
<1> DEFINE at == CHOOSE at :
                   at = [n \in 0 .. Total(Lens(x)) |->
                           IF n = 0 THEN [left |-> x, out |-> <<>>] ELSE pop_least(at[n - 1])]
<1>3. at = [n \in 0 .. Total(Lens(x)) |->
              IF n = 0 THEN [left |-> x, out |-> <<>>] ELSE pop_least(at[n - 1])]
  <2>1. \E f : f = [n \in 0 .. Total(Lens(x)) |->
                     IF n = 0 THEN [left |-> x, out |-> <<>>] ELSE pop_least(f[n - 1])]
    <3>1. \E f : MergesOf(f, x, k)
      BY <1>2, MergesExist
    <3>2. \E f : MergesOf(f, x, Total(Lens(x)))
      BY <1>1, <3>1, Zenon
    <3> QED
      BY <3>2, Zenon DEF MergesOf
  <2> QED
    BY <2>1, Zenon
<1>4. merge(x) = at[Total(Lens(x))].out
  BY Zenon DEF merge, Lens
<1> HIDE DEF at
<1>5. at[0] = [left |-> x, out |-> <<>>] /\ \A n \in 1 .. k : at[n] = pop_least(at[n - 1])
  BY <1>1, <1>2, <1>3
<1> DEFINE Good(n) == /\ Merged(x, at[n].left, at[n].out) /\ Total(Lens(at[n].left)) + n = k
                      /\ Apart(x) => MergedApart(at[n].left, at[n].out)
           T == {n \in 0 .. k : ~Good(n)}
<1>6. Good(0)
  <2>1. PICK v : v = <<>>
    OBVIOUS
  <2>2. at[0].left = x /\ at[0].out = v
    BY <1>5, <2>1
  <2>3. v \in Seq(TableRecord) /\ Len(v) = 0 /\ \A i : i \notin 1 .. Len(v)
    BY <2>1
  <2>4. Merged(x, x, v)
    BY <2>3, Zenon DEF Merged, Rising
  <2>5. Apart(x) => MergedApart(x, v)
    BY <2>3, Zenon DEF MergedApart, Ordered
  <2>6. Total(Lens(x)) + 0 = k
    BY <1>1, <1>2
  <2> QED
    BY <2>2, <2>4, <2>5, <2>6, Zenon
<1>7. ASSUME NEW n \in 1 .. k, Good(n - 1) PROVE Good(n)
  <2>1. PICK l, v : l = at[n - 1].left /\ v = at[n - 1].out
    OBVIOUS
  <2>2. /\ Merged(x, l, v) /\ Total(Lens(l)) + (n - 1) = k
        /\ Apart(x) => MergedApart(l, v)
    BY <1>7, <2>1, Zenon
  <2>3. Sources(l)
    BY <2>2, Zenon DEF Merged
  <2>4. /\ Len(l) \in Nat /\ Lens(l) \in Seq(Nat) /\ Len(Lens(l)) = Len(l)
        /\ \A i \in 1 .. Len(l) : Len(l[i]) \in Nat /\ Lens(l)[i] = Len(l[i])
    BY <2>3, SourceFacts, Zenon
  <2>5. Total(Lens(l)) \in Nat /\ ((\A i \in 1 .. Len(Lens(l)) : Lens(l)[i] = 0) => Total(Lens(l)) = 0)
    BY <2>4, TotalParts
  <2>6. Total(Lens(l)) # 0
    BY <1>2, <2>2, <2>5
  <2>7. PICK e \in 1 .. Len(l) : Len(l[e]) > 0
    BY <2>4, <2>5, <2>6
  <2>8. PICK m : m = Least(l)
    OBVIOUS
  <2>9. LeastOf(l, m)
    BY <2>3, <2>7, <2>8, LeastExists, Zenon
  <2>10. PICK u : u = [l EXCEPT ![m] = Tail(@)]
    OBVIOUS
  <2>11. m \in 1 .. Len(l) /\ Len(l[m]) > 0 /\ l[m] # <<>>
    BY <2>9, Zenon DEF LeastOf
  <2>12. Popped(l, u, m)
    BY <2>3, <2>10, <2>11, PopSource, Zenon
  <2>13. PICK w : w = Append(v, l[m][1])
    OBVIOUS
  <2>14. Merged(x, u, w) /\ (MergedApart(l, v) => MergedApart(u, w))
    <3>1. /\ Merged(x, u, Append(v, l[m][1]))
          /\ MergedApart(l, v) => MergedApart(u, Append(v, l[m][1]))
      BY <2>2, <2>9, <2>12, MergedStep
    <3> QED
      BY <2>13, <3>1, Zenon
  <2>15. Total(Lens(l)) = Total(Lens(u)) + 1 /\ Sources(u)
    BY <2>12, Zenon DEF Popped
  <2>16. Total(Lens(u)) \in Nat
    BY <2>15, SourceFacts, TotalParts, Zenon
  <2>17. Total(Lens(u)) + n = k
    BY <1>2, <2>2, <2>15, <2>16
  <2>18. Head(l[m]) = l[m][1]
    <3>1. l[m] \in Seq(TableRecord)
      BY <2>3, <2>11, SourceFacts, Zenon
    <3> QED
      BY <2>11, <3>1
  <2>19. at[n] = Pop(at[n - 1], m)
    BY <1>5, <2>1, <2>8, Zenon DEF pop_least
  <2>20. at[n].left = u /\ at[n].out = w
    BY <2>1, <2>10, <2>13, <2>18, <2>19 DEF Pop
  <2> QED
    BY <2>2, <2>14, <2>17, <2>20, Zenon
<1>8. T = {}
  <2> SUFFICES ASSUME T # {} PROVE FALSE
    OBVIOUS
  <2>1. PICK c \in T : \A d \in T : c <= d
    <3>1. T \in SUBSET Nat
      OBVIOUS
    <3> HIDE DEF T
    <3> QED
      BY <3>1, LeastNumber
  <2>2. c \in 0 .. k /\ ~Good(c) /\ c # 0
    BY <1>6, <2>1
  <2> HIDE DEF Good
  <2>3. c \in 1 .. k /\ c - 1 \in 0 .. k /\ c - 1 \notin T
    BY <1>2, <2>1, <2>2
  <2>4. Good(c - 1)
    BY <2>3
  <2> QED
    BY <1>7, <2>2, <2>3, <2>4
<1>9. Good(k)
  <2> HIDE DEF Good
  <2> QED
    BY <1>2, <1>8
<1>10. PICK l, v : l = at[k].left /\ v = at[k].out
  OBVIOUS
<1>11. Merged(x, l, v) /\ Total(Lens(l)) + k = k /\ (Apart(x) => MergedApart(l, v))
  BY <1>9, <1>10, Zenon
<1>12. Sources(l)
  BY <1>11, Zenon DEF Merged
<1>13. Total(Lens(l)) = 0
  <2>1. Total(Lens(l)) \in Nat
    BY <1>12, SourceFacts, TotalParts, Zenon
  <2> QED
    BY <1>2, <1>11, <2>1
<1>14. \A r : ~Among(l, r)
  <2>1. /\ Len(l) \in Nat /\ Lens(l) \in Seq(Nat) /\ Len(Lens(l)) = Len(l)
        /\ \A i \in 1 .. Len(l) : Len(l[i]) \in Nat /\ Lens(l)[i] = Len(l[i])
    BY <1>12, SourceFacts, Zenon
  <2>2. \A i \in 1 .. Len(Lens(l)) : Lens(l)[i] <= 0
    BY <1>13, <2>1, TotalParts
  <2>3. \A i \in 1 .. Len(l) : Len(l[i]) = 0
    BY <2>1, <2>2
  <2>4. ASSUME NEW i \in 1 .. Len(l), NEW a \in 1 .. Len(l[i]) PROVE FALSE
    BY <2>3, <2>4
  <2> QED
    BY <2>4, Zenon DEF Among
<1>15. merge(x) = v
  BY <1>1, <1>4, <1>10, Zenon
<1> QED
  BY <1>11, <1>14, <1>15, Zenon DEF Merged, MergedApart

-----------------------------------------------------------------------------
(* What MergeIter takes from a table.                                        *)

\* take_current leaves a cursor where it stands.
LEMMA TakeStands ==
  ASSUME NEW h, NEW s, NEW o, NEW c, NEW p, Stands(h, s, o, c, p)
  PROVE  Stands(h, s, o, cursor_take(c), p)
<1>1. PICK b \in 0 .. (Len(h.block_metadata) - 1) : \E k \in 0 .. (o[b + 1] - o[b]) :
        /\ c = [ok |-> TRUE, block_idx |-> b,
                bc |-> [block |-> read_block(h, b)[1], offset_idx |-> k, record |-> c.bc.record]]
        /\ p = IF k < o[b + 1] - o[b] THEN o[b] + k + 1 ELSE o[b + 1]
  BY Zenon DEF Stands
<1>2. PICK k \in 0 .. (o[b + 1] - o[b]) :
        /\ c = [ok |-> TRUE, block_idx |-> b,
                bc |-> [block |-> read_block(h, b)[1], offset_idx |-> k, record |-> c.bc.record]]
        /\ p = IF k < o[b + 1] - o[b] THEN o[b] + k + 1 ELSE o[b + 1]
  BY <1>1
<1>3. PICK x, r : x = read_block(h, b)[1] /\ r = c.bc.record
  OBVIOUS
<1>4. c = [ok |-> TRUE, block_idx |-> b, bc |-> [block |-> x, offset_idx |-> k, record |-> r]]
  BY <1>2, <1>3, Zenon
<1>5. PICK d : d = cursor_take(c)
  OBVIOUS
<1>6. d = [ok |-> TRUE, block_idx |-> b, bc |-> [block |-> x, offset_idx |-> k, record |-> <<>>]]
  BY <1>4, <1>5 DEF cursor_take, block_take
<1>7. d.bc.record = <<>>
  BY <1>6
<1>8. d = [ok |-> TRUE, block_idx |-> b,
           bc |-> [block |-> read_block(h, b)[1], offset_idx |-> k, record |-> d.bc.record]]
  BY <1>3, <1>6, <1>7, Zenon
<1>9. Stands(h, s, o, d, p)
  BY <1>2, <1>8, Zenon DEF Stands
<1> QED
  BY <1>5, <1>9, Zenon

\* The blocks of a table hold its records.
LEMMA RecordsCounted ==
  ASSUME NEW h, NEW s, NEW o, Table(h, s, o)
  PROVE  RecordCount(h) = Len(s) /\ Len(s) \in Nat
<1>1. /\ s \in Seq(TableRecord) /\ h.block_metadata \in Seq(Range(h.block_metadata))
      /\ o[0] = 0 /\ o[Len(h.block_metadata)] = Len(s)
      /\ \A i \in 1 .. Len(h.block_metadata) : BlockHolds(h, s, o, i)
  BY Zenon DEF Table
<1>2. PICK k : k = Len(h.block_metadata)
  OBVIOUS
<1>3. k \in Nat /\ DOMAIN h.block_metadata = 1 .. k /\ Len(s) \in Nat
  BY <1>1, <1>2
<1>4. PICK x : x = [i \in DOMAIN h.block_metadata |-> Len(read_block(h, i - 1)[1].data)]
  OBVIOUS
<1>5. \A i \in 1 .. k : o[i - 1] \in Nat /\ o[i] \in Nat /\ x[i] = o[i] - o[i - 1] /\ x[i] \in Nat
  <2> SUFFICES ASSUME NEW i \in 1 .. k
               PROVE  o[i - 1] \in Nat /\ o[i] \in Nat /\ x[i] = o[i] - o[i - 1] /\ x[i] \in Nat
    OBVIOUS
  <2>1. BlockHolds(h, s, o, i)
    BY <1>1, <1>2
  <2>2. o[i - 1] \in Nat /\ o[i] \in Nat /\ o[i - 1] < o[i]
    BY <2>1, Zenon DEF BlockHolds
  <2>3. PICK b : read_block(h, i - 1) = <<b>> /\ Len(b.data) = o[i] - o[i - 1]
    BY <2>1, Zenon DEF BlockHolds
  <2>4. read_block(h, i - 1)[1] = b
    BY <2>3
  <2>5. x[i] = Len(b.data)
    BY <1>3, <1>4, <2>4
  <2> QED
    BY <2>2, <2>3, <2>5
<1>6. x \in Seq(Nat) /\ Len(x) = k
  <2>1. x \in [1 .. k -> Nat]
    <3>1. x = [i \in 1 .. k |-> x[i]]
      BY <1>3, <1>4
    <3> QED
      BY <1>5, <3>1
  <2> QED
    BY <1>3, <2>1
<1>7. PICK f : SumsOf(f, x, k) /\ Total(x) = f[k]
  BY <1>6, TotalSums
<1>8. f[0] = 0 /\ \A i \in 1 .. k : f[i] = f[i - 1] + x[i]
  BY <1>3, <1>7, SumsSteps DEF SumSteps
<1> DEFINE T == {i \in 0 .. k : f[i] # o[i]}
<1>9. T = {}
  <2> SUFFICES ASSUME T # {} PROVE FALSE
    OBVIOUS
  <2>1. PICK c \in T : \A d \in T : c <= d
    <3>1. T \in SUBSET Nat
      BY <1>3
    <3> HIDE DEF T
    <3> QED
      BY <3>1, LeastNumber
  <2>2. c # 0 /\ c \in 1 .. k /\ c - 1 \in 0 .. k /\ c - 1 \notin T
    BY <1>1, <1>3, <1>8, <2>1
  <2>3. f[c] = f[c - 1] + x[c] /\ f[c - 1] = o[c - 1]
    BY <1>8, <2>2
  <2>4. f[c] = o[c]
    BY <1>5, <2>2, <2>3
  <2> QED
    BY <2>1, <2>4
<1>10. f[k] = o[k]
  BY <1>3, <1>9
<1>11. RecordCount(h) = Total(x)
  BY <1>4, Zenon DEF RecordCount
<1> QED
  BY <1>1, <1>2, <1>3, <1>7, <1>10, <1>11

\* What a table gives a merge, record by record.
YieldsOf(f, h, c, end, k) ==
  f = [n \in 0 .. k |-> IF n = 0 THEN [c |-> c, out |-> <<>>, done |-> FALSE]
                                 ELSE fill_from_single(h, f[n - 1], end)]

LEMMA YieldsExist ==
  ASSUME NEW n \in Nat, NEW h, NEW cur, NEW end
  PROVE  \E f : YieldsOf(f, h, cur, end, n)
<1> DEFINE start == [c |-> cur, out |-> <<>>, done |-> FALSE]
           Solved(m) == \E f : YieldsOf(f, h, cur, end, m)
           T == {m \in 0 .. n : ~Solved(m)}
<1> HIDE DEF start
<1>0. \A f, m : YieldsOf(f, h, cur, end, m)
                  <=> f = [i \in 0 .. m |-> IF i = 0 THEN start ELSE fill_from_single(h, f[i - 1], end)]
  BY Zenon DEF YieldsOf, start
<1>1. SUFFICES ASSUME T # {} PROVE FALSE
  OBVIOUS
<1>2. PICK c \in T : \A d \in T : c <= d
  <2>1. T \in SUBSET Nat
    OBVIOUS
  <2> HIDE DEF T
  <2> QED
    BY <1>1, <2>1, LeastNumber
<1>3. CASE c = 0
  <2> DEFINE f == [i \in 0 .. 0 |-> start]
  <2>1. f = [i \in 0 .. 0 |-> IF i = 0 THEN start ELSE fill_from_single(h, f[i - 1], end)]
    OBVIOUS
  <2>2. YieldsOf(f, h, cur, end, 0)
    BY <1>0, <2>1, Zenon
  <2> QED
    BY <1>2, <1>3, <2>2
<1>4. CASE c # 0
  <2>1. c \in Nat /\ c - 1 \in 0 .. n /\ c - 1 \in Nat /\ c - 1 \notin T
    BY <1>2, <1>4
  <2>2. PICK g : YieldsOf(g, h, cur, end, c - 1)
    BY <2>1
  <2> DEFINE f == [i \in 0 .. c |-> IF i = c THEN fill_from_single(h, g[c - 1], end) ELSE g[i]]
  <2>3. \A i \in 0 .. (c - 1) : g[i] = IF i = 0 THEN start ELSE fill_from_single(h, g[i - 1], end)
    <3>1. g = [i \in 0 .. (c - 1) |-> IF i = 0 THEN start ELSE fill_from_single(h, g[i - 1], end)]
      BY <1>0, <2>2, Zenon
    <3> QED
      BY <3>1
  <2>4. \A i \in 0 .. c : f[i] = IF i = 0 THEN start ELSE fill_from_single(h, f[i - 1], end)
    BY <1>4, <2>1, <2>3
  <2>5. f = [i \in 0 .. c |-> IF i = 0 THEN start ELSE fill_from_single(h, f[i - 1], end)]
    BY <2>4
  <2>6. YieldsOf(f, h, cur, end, c)
    BY <1>0, <2>5, Zenon
  <2> QED
    BY <1>2, <2>6
<1> QED
  BY <1>3, <1>4

\* The records from p + 1 on have been taken, n of them or all that are wanted.
Taking(h, s, o, acc, p, n, end) ==
  /\ acc = [c |-> acc.c, out |-> acc.out, done |-> acc.done] /\ acc.done \in BOOLEAN
  /\ IF acc.done THEN Scanned(h, s, o, NoCursor, acc.out, p, end)
     ELSE acc.c.ok /\ Scanned(h, s, o, acc.c, acc.out, p, end) /\ Len(acc.out) = n

LEMMA TakingStep ==
  ASSUME NEW h, NEW s, NEW o, Table(h, s, o), NEW end, end = Unbounded \/ Bounded(end),
         NEW n \in Nat, NEW p, NEW acc, Taking(h, s, o, acc, p, n, end)
  PROVE  Taking(h, s, o, fill_from_single(h, acc, end), p, n + 1, end)
<1>1. /\ acc = [c |-> acc.c, out |-> acc.out, done |-> acc.done] /\ acc.done \in BOOLEAN
      /\ IF acc.done THEN Scanned(h, s, o, NoCursor, acc.out, p, end)
         ELSE acc.c.ok /\ Scanned(h, s, o, acc.c, acc.out, p, end) /\ Len(acc.out) = n
  BY Zenon DEF Taking
<1>2. CASE acc.done
  <2>1. fill_from_single(h, acc, end) = acc
    BY <1>2, Zenon DEF fill_from_single
  <2>2. Taking(h, s, o, acc, p, n + 1, end)
    BY <1>1, <1>2, Zenon DEF Taking
  <2> QED
    BY <2>1, <2>2, Zenon
<1>3. CASE ~acc.done
  <2>1. PICK c, v : c = acc.c /\ v = acc.out
    OBVIOUS
  <2>2. c.ok /\ Scanned(h, s, o, c, v, p, end) /\ Len(v) = n
    BY <1>1, <1>3, <2>1, Zenon
  <2>3. acc = [c |-> c, out |-> v, done |-> FALSE]
    <3>1. acc.done = FALSE
      BY <1>1, <1>3
    <3> QED
      BY <1>1, <2>1, <3>1, Zenon
  <2>4. /\ p \in 0 .. Len(s) /\ v \in Seq(TableRecord) /\ p + Len(v) <= Len(s)
        /\ \A i \in 1 .. Len(v) : v[i] = s[p + i]
        /\ Stands(h, s, o, c, p + Len(v))
    BY <2>2, Zenon DEF Scanned
  <2>5. PICK t : t = cursor_take(c)
    OBVIOUS
  <2>6. Stands(h, s, o, t, p + Len(v))
    BY <2>4, <2>5, TakeStands, Zenon
  <2>7. PICK q : q = p + Len(v)
    OBVIOUS
  <2>8. Stands(h, s, o, t, q)
    BY <2>6, <2>7, Zenon
  <2>9. PICK d : d = cursor_next(h, t, end)
    OBVIOUS
  <2>10. t.ok /\ Moved(h, s, o, d, q, end)
    BY <2>8, <2>9, NextMoves, Zenon
  <2>11. Scanned(h, s, o, t, v, p, end)
    BY <2>4, <2>6, <2>10, Zenon DEF Scanned
  <2>12. Scanned(h, s, o, d, v \o cursor_record(d), p, end)
    BY <2>9, <2>10, <2>11, NextScanned
  <2>13. PICK f : f = fill_from_single(h, acc, end)
    OBVIOUS
  <2>14. f = Yielded(acc, d)
    BY <1>3, <2>1, <2>5, <2>9, <2>13, Zenon DEF fill_from_single
  <2>15. CASE cursor_record(d) = <<>>
    <3>1. f = [c |-> c, out |-> v, done |-> TRUE]
      BY <2>3, <2>14, <2>15 DEF Yielded
    <3>2. d = NoCursor
      <4>1. \A e : <<e>> # <<>>
        OBVIOUS
      <4> QED
        BY <2>10, <2>15, <4>1, Zenon DEF Moved
    <3>3. v \o cursor_record(d) = v
      BY <2>4, <2>15
    <3>4. Scanned(h, s, o, NoCursor, v, p, end)
      BY <2>12, <3>2, <3>3, Zenon
    <3>5. f.c = c /\ f.out = v /\ f.done = TRUE
      BY <3>1
    <3>6. Taking(h, s, o, f, p, n + 1, end)
      BY <3>1, <3>4, <3>5, Zenon DEF Taking
    <3> QED
      BY <2>13, <3>6, Zenon
  <2>16. CASE cursor_record(d) # <<>>
    <3>1. d.ok /\ cursor_record(d) = <<s[q + 1]>>
      BY <2>10, <2>16, Zenon DEF Moved
    <3>2. PICK w : w = v \o cursor_record(d)
      OBVIOUS
    <3>3. f = [c |-> d, out |-> w, done |-> FALSE]
      BY <2>3, <2>14, <2>16, <3>2 DEF Yielded
    <3>4. Len(w) = n + 1
      <4>1. PICK e : e = s[q + 1]
        OBVIOUS
      <4>2. w = v \o <<e>>
        BY <3>1, <3>2, <4>1, Zenon
      <4> QED
        BY <2>2, <2>4, <4>2
    <3>5. f.c = d /\ f.out = w /\ f.done = FALSE
      BY <3>3
    <3>6. Scanned(h, s, o, d, w, p, end)
      BY <2>12, <3>2, Zenon
    <3>7. Taking(h, s, o, f, p, n + 1, end)
      BY <3>1, <3>3, <3>4, <3>5, <3>6, Zenon DEF Taking
    <3> QED
      BY <2>13, <3>7, Zenon
  <2> QED
    BY <2>15, <2>16
<1> QED
  BY <1>2, <1>3

\* From where the cursor stands a table gives all records within the end bound.
YieldsFrom(s, v, p, end) ==
  /\ v \in Seq(TableRecord) /\ p \in 0 .. Len(s) /\ p + Len(v) <= Len(s)
  /\ \A i \in 1 .. Len(v) : v[i] = s[p + i]
  /\ \A i \in (p + Len(v) + 1) .. Len(s) : ~Within(s[i].key, end)

LEMMA YieldGives ==
  ASSUME NEW h, NEW s, NEW o, Table(h, s, o), NEW end, end = Unbounded \/ Bounded(end),
         NEW cur, NEW p, Stands(h, s, o, cur, p)
  PROVE  YieldsFrom(s, cursor_yield(h, cur, end), p, end)
<1>1. PICK k : k = RecordCount(h)
  OBVIOUS
<1>2. k \in Nat /\ k = Len(s)
  BY <1>1, RecordsCounted, Zenon
<1> DEFINE at == CHOOSE at :
                   at = [n \in 0 .. RecordCount(h) |->
                           IF n = 0 THEN [c |-> cur, out |-> <<>>, done |-> FALSE]
                                    ELSE fill_from_single(h, at[n - 1], end)]
<1>3. at = [n \in 0 .. RecordCount(h) |->
              IF n = 0 THEN [c |-> cur, out |-> <<>>, done |-> FALSE]
                       ELSE fill_from_single(h, at[n - 1], end)]
  <2>1. \E f : f = [n \in 0 .. RecordCount(h) |->
                      IF n = 0 THEN [c |-> cur, out |-> <<>>, done |-> FALSE]
                               ELSE fill_from_single(h, f[n - 1], end)]
    <3>1. \E f : YieldsOf(f, h, cur, end, k)
      BY <1>2, YieldsExist
    <3>2. \E f : YieldsOf(f, h, cur, end, RecordCount(h))
      BY <1>1, <3>1, Zenon
    <3> QED
      BY <3>2, Zenon DEF YieldsOf
  <2> QED
    BY <2>1, Zenon
<1>4. cursor_yield(h, cur, end) = at[RecordCount(h)].out
  BY Zenon DEF cursor_yield
<1> HIDE DEF at
<1>5. /\ at[0] = [c |-> cur, out |-> <<>>, done |-> FALSE]
      /\ \A n \in 1 .. k : at[n] = fill_from_single(h, at[n - 1], end)
  <2>1. PICK start : start = [c |-> cur, out |-> <<>>, done |-> FALSE]
    OBVIOUS
  <2>2. at = [n \in 0 .. k |-> IF n = 0 THEN start ELSE fill_from_single(h, at[n - 1], end)]
    BY <1>1, <1>3, <2>1, Zenon
  <2>3. at[0] = start /\ \A n \in 1 .. k : at[n] = fill_from_single(h, at[n - 1], end)
    BY <1>2, <2>2
  <2> QED
    BY <2>1, <2>3, Zenon
<1>6. Taking(h, s, o, at[0], p, 0, end)
  <2>1. p \in 0 .. Len(s) /\ Len(s) \in Nat /\ cur.ok
    BY NextMoves, Zenon
  <2>2. PICK v : v = <<>>
    OBVIOUS
  <2>3. v \in Seq(TableRecord) /\ Len(v) = 0 /\ p + Len(v) = p /\ p <= Len(s) /\ \A i : i \notin 1 .. Len(v)
    BY <2>1, <2>2
  <2>4. Scanned(h, s, o, cur, v, p, end)
    BY <2>1, <2>3, Zenon DEF Scanned
  <2>5. at[0] = [c |-> cur, out |-> v, done |-> FALSE]
    BY <1>5, <2>2, Zenon
  <2>6. at[0].c = cur /\ at[0].out = v /\ at[0].done = FALSE
    BY <2>5
  <2> QED
    BY <2>1, <2>3, <2>4, <2>5, <2>6, Zenon DEF Taking
<1> DEFINE Good(n) == Taking(h, s, o, at[n], p, n, end)
           T == {n \in 0 .. k : ~Good(n)}
<1>7. ASSUME NEW n \in 1 .. k, Good(n - 1) PROVE Good(n)
  <2>1. n - 1 \in Nat /\ (n - 1) + 1 = n
    BY <1>2
  <2>2. PICK j, a : j = n - 1 /\ a = at[n - 1]
    OBVIOUS
  <2>3. j \in Nat /\ j + 1 = n /\ Taking(h, s, o, a, p, j, end)
    BY <1>7, <2>1, <2>2, Zenon
  <2>4. Taking(h, s, o, fill_from_single(h, a, end), p, j + 1, end)
    BY <2>3, TakingStep
  <2> QED
    BY <1>5, <2>2, <2>3, <2>4, Zenon
<1>8. T = {}
  <2> SUFFICES ASSUME T # {} PROVE FALSE
    OBVIOUS
  <2>1. PICK c \in T : \A d \in T : c <= d
    <3>1. T \in SUBSET Nat
      BY <1>2
    <3> HIDE DEF T
    <3> QED
      BY <3>1, LeastNumber
  <2>2. c \in 0 .. k /\ ~Good(c) /\ c # 0
    BY <1>6, <2>1
  <2> HIDE DEF Good
  <2>3. c \in 1 .. k /\ c - 1 \in 0 .. k /\ c - 1 \notin T
    BY <1>2, <2>1, <2>2
  <2>4. Good(c - 1)
    BY <2>3
  <2> QED
    BY <1>7, <2>2, <2>3, <2>4
<1>9. Good(k)
  <2> HIDE DEF Good
  <2> QED
    BY <1>2, <1>8
<1>10. PICK a, v : a = at[k] /\ v = a.out
  OBVIOUS
<1>11. Taking(h, s, o, a, p, k, end)
  BY <1>9, <1>10, Zenon
<1>12. v = cursor_yield(h, cur, end)
  BY <1>1, <1>4, <1>10, Zenon
<1>13. CASE a.done
  <2>1. Scanned(h, s, o, NoCursor, v, p, end)
    BY <1>10, <1>11, <1>13, Zenon DEF Taking
  <2>2. ~NoCursor.ok
    BY DEF NoCursor
  <2>3. YieldsFrom(s, v, p, end)
    BY <2>1, <2>2, Zenon DEF Scanned, YieldsFrom
  <2> QED
    BY <1>12, <2>3, Zenon
<1>14. CASE ~a.done
  <2>1. Scanned(h, s, o, a.c, v, p, end) /\ Len(v) = k
    BY <1>10, <1>11, <1>14, Zenon DEF Taking
  <2>2. /\ p \in 0 .. Len(s) /\ v \in Seq(TableRecord) /\ p + Len(v) <= Len(s)
        /\ \A i \in 1 .. Len(v) : v[i] = s[p + i]
    BY <2>1, Zenon DEF Scanned
  <2>3. \A i : i \notin (p + Len(v) + 1) .. Len(s)
    BY <1>2, <2>1, <2>2
  <2>4. YieldsFrom(s, v, p, end)
    BY <2>2, <2>3, Zenon DEF YieldsFrom
  <2> QED
    BY <1>12, <2>4, Zenon
<1> QED
  BY <1>13, <1>14

\* A search ends at a block or after the last one.
LEMMA SearchEnds ==
  ASSUME NEW h, NEW s, NEW o, Table(h, s, o), NEW stream, NEW b \in block_idx_for_stream_id(h, stream)
  PROVE  Len(h.block_metadata) \in Nat /\ b \in 0 .. Len(h.block_metadata)
<1> DEFINE E(i) == h.block_metadata[i].last_key.stream_id
           hits == {i \in DOMAIN h.block_metadata : E(i) = stream}
           below == {i \in DOMAIN h.block_metadata : E(i) < stream}
<1>1. PICK n \in Nat : n = Len(h.block_metadata) /\ DOMAIN h.block_metadata = 1 .. n
  BY DEF Table
<1>2. block_idx_for_stream_id(h, stream) = IF hits # {} THEN {i - 1 : i \in hits} ELSE {Cardinality(below)}
  BY Zenon DEF block_idx_for_stream_id
<1>3. CASE hits # {}
  <2>1. PICK i \in hits : b = i - 1
    BY <1>2, <1>3
  <2>2. i \in 1 .. n
    BY <1>1
  <2> QED
    BY <1>1, <2>1, <2>2
<1>4. CASE hits = {}
  <2>1. b = Cardinality(below)
    BY <1>2, <1>4
  <2>2. below \subseteq 1 .. n
    BY <1>1
  <2>3. IsFiniteSet(1 .. n) /\ Cardinality(1 .. n) = n
    BY FS_Interval
  <2>4. IsFiniteSet(below) /\ Cardinality(below) <= n
    <3> HIDE DEF below
    <3> QED
      BY <2>2, <2>3, FS_Subset
  <2>5. Cardinality(below) \in Nat
    <3> HIDE DEF below
    <3> QED
      BY <2>4, FS_CardinalityType
  <2> QED
    BY <1>1, <2>1, <2>4, <2>5
<1> QED
  BY <1>3, <1>4

\* A cursor that could be opened stands somewhere in its table.
LEMMA StartStands ==
  ASSUME NEW h, NEW s, NEW o, Table(h, s, o), NEW key \in Key,
         NEW b \in StartBlocks(h, Included(key)), cursor_new(h, Included(key), b).ok
  PROVE  \E p : Stands(h, s, o, cursor_new(h, Included(key), b), p)
<1>1. PICK start : start = Included(key)
  OBVIOUS
<1>2. start.kind = "Included" /\ start.key = key
  BY <1>1 DEF Included
<1>3. b \in block_idx_for_stream_id(h, key.stream_id)
  BY <1>1, <1>2, Zenon DEF StartBlocks
<1>4. Len(h.block_metadata) \in Nat /\ b \in 0 .. Len(h.block_metadata)
  BY <1>3, SearchEnds, Zenon
<1>5. PICK c0, c : c0 = cursor_at(h, b) /\ c = cursor_new(h, start, b)
  OBVIOUS
<1>6. CASE b = Len(h.block_metadata)
  <2>1. c0 = NoCursor
    BY <1>5, <1>6, AtEnd, Zenon
  <2>2. ~c0.ok
    BY <2>1 DEF NoCursor
  <2>3. c = c0
    BY <1>5, <2>2, Zenon DEF cursor_new
  <2> QED
    BY <1>1, <1>5, <2>2, <2>3, Zenon
<1>7. CASE b # Len(h.block_metadata)
  <2>1. b \in 0 .. (Len(h.block_metadata) - 1)
    BY <1>4, <1>7
  <2>2. PICK q \in 0 .. (o[b + 1] - o[b]) :
          block_seek(cursor_at(h, b).bc, key) = block_at(read_block(h, b)[1], q)
    BY <2>1, SeekPlace
  <2>3. c0.ok /\ c0 = Standing(h, b, 0)
    BY <1>5, <2>1, AtStands
  <2>4. PICK found : found = block_at(read_block(h, b)[1], q)
    OBVIOUS
  <2>5. start.kind # "Unbounded" /\ start.kind # "Excluded"
    BY <1>2
  <2>6. c = [c0 EXCEPT !.bc = found]
    BY <1>2, <1>5, <2>2, <2>3, <2>4, <2>5, Zenon DEF cursor_new
  <2>7. PICK t : t = TRUE
    OBVIOUS
  <2>8. PICK z : c0 = [ok |-> t, block_idx |-> b, bc |-> z]
    BY <2>3, <2>7, Zenon DEF Standing
  <2>9. c = [ok |-> t, block_idx |-> b, bc |-> found]
    BY <2>6, <2>8
  <2>10. c = Standing(h, b, q)
    BY <2>4, <2>7, <2>9, Zenon DEF Standing
  <2>11. \E p : Stands(h, s, o, Standing(h, b, q), p)
    BY <2>1, PlaceStands, Zenon
  <2> QED
    BY <1>1, <1>5, <2>10, <2>11, Zenon
<1> QED
  BY <1>6, <1>7

\* What a merge gets of a table: some of its records, in order.
LEMMA YieldPart ==
  ASSUME NEW h, NEW s, NEW o, Table(h, s, o), NEW v, NEW p, NEW end, YieldsFrom(s, v, p, end)
  PROVE  v \in Seq(TableRecord) /\ Ordered(v) /\ \A a \in 1 .. Len(v) : \E i \in 1 .. Len(s) : v[a] = s[i]
<1>1. /\ v \in Seq(TableRecord) /\ p \in 0 .. Len(s) /\ p + Len(v) <= Len(s)
      /\ \A i \in 1 .. Len(v) : v[i] = s[p + i]
  BY Zenon DEF YieldsFrom
<1>2. s \in Seq(TableRecord) /\ Ordered(s)
  BY Zenon DEF Table
<1>3. Len(v) \in Nat /\ Len(s) \in Nat
  BY <1>1, <1>2
<1>4. \A i \in 1 .. Len(v) : p + i \in 1 .. Len(s)
  BY <1>1, <1>3
<1>5. ASSUME NEW i \in 1 .. Len(v), NEW j \in 1 .. Len(v), i < j PROVE KeyLess(v[i].key, v[j].key)
  <2>1. p + i < p + j
    BY <1>1, <1>3, <1>5
  <2>2. KeyLess(s[p + i].key, s[p + j].key)
    BY <1>2, <1>4, <2>1, Zenon DEF Ordered
  <2> QED
    BY <1>1, <2>2
<1> QED
  BY <1>1, <1>4, <1>5, Zenon DEF Ordered

\* Of the records in the range, v has all but the n-th of s.
AllBut(s, v, n, key, end) ==
  \A i \in 1 .. Len(s) :
    i # n /\ KeyLeq(key, s[i].key) /\ KeyLeq(s[i].key, end) => \E a \in 1 .. Len(v) : v[a] = s[i]

\* Where one block at most ends in the stream, at most one record of the range
\* is passed over: the one the cursor begins at.
LEMMA StartLoses ==
  ASSUME NEW h, NEW s, NEW o, Table(h, s, o), NEW key \in Key, NEW end \in Key,
         Cardinality(block_idx_for_stream_id(h, key.stream_id)) <= 1,
         NEW b \in StartBlocks(h, Included(key)), cursor_new(h, Included(key), b).ok
  PROVE  \E v, n : /\ v = cursor_yield(h, cursor_new(h, Included(key), b), Included(end)) /\ n \in Nat
                   /\ AllBut(s, v, n, key, end)
<1>0. PICK c : c = cursor_new(h, Included(key), b) /\ c.ok
  OBVIOUS
<1>1. PICK start, last : start = Included(key) /\ last = Included(end)
  OBVIOUS
<1>2. start.kind = "Included" /\ start.key = key /\ last.kind = "Included" /\ last.key = end
  BY <1>1 DEF Included
<1>3. Bounded(start) /\ Bounded(last)
  BY <1>2 DEF Bounded
<1>4. PICK n : /\ Begun(h, s, o, c, n)
               /\ \A i \in 1 .. Len(s) : n < i <=> After(start, s[i].key) \/ Beyond(h, start, s[i].key)
  <2>1. /\ Cardinality(block_idx_for_stream_id(h, start.key.stream_id)) <= 1
        /\ b \in StartBlocks(h, start) /\ c = cursor_new(h, start, b)
    BY <1>0, <1>1, <1>2, Zenon
  <2> QED
    BY <1>3, <2>1, NewBegun
<1>5. PICK r : r = cursor_record(c)
  OBVIOUS
<1>6. n \in 0 .. Len(s) /\ r \in {<<>>, <<s[n + 1]>>} /\ Stands(h, s, o, c, n + Len(r))
  BY <1>0, <1>4, <1>5, Zenon DEF Begun
<1>7. Len(r) \in {0, 1}
  BY <1>6
<1>8. Len(s) \in Nat
  BY RecordsCounted, Zenon
<1>9. PICK v, p : v = cursor_yield(h, c, last) /\ p = n + Len(r)
  OBVIOUS
<1>10. YieldsFrom(s, v, p, last)
  BY <1>3, <1>6, <1>9, YieldGives, Zenon
<1>11. /\ v \in Seq(TableRecord) /\ p \in 0 .. Len(s) /\ p + Len(v) <= Len(s)
       /\ \A i \in 1 .. Len(v) : v[i] = s[p + i]
       /\ \A i \in (p + Len(v) + 1) .. Len(s) : ~Within(s[i].key, last)
  BY <1>10, Zenon DEF YieldsFrom
<1>12. ASSUME NEW i \in 1 .. Len(s), i # n + 1, KeyLeq(key, s[i].key), KeyLeq(s[i].key, end)
       PROVE  \E a \in 1 .. Len(v) : v[a] = s[i]
  <2>1. After(start, s[i].key) /\ Within(s[i].key, last)
    BY <1>2, <1>12 DEF After, Within
  <2>2. n < i
    BY <1>4, <2>1
  <2>3. Len(v) \in Nat /\ n \in Nat /\ (p = n \/ p = n + 1)
    <3>1. n \in Nat
      BY <1>6, <1>8
    <3>2. Len(v) \in Nat
      BY <1>11
    <3>3. PICK l : l = Len(r)
      OBVIOUS
    <3>4. l \in {0, 1} /\ p = n + l
      BY <1>7, <1>9, <3>3, Zenon
    <3> QED
      BY <3>1, <3>2, <3>4
  <2>4. p < i
    BY <1>12, <2>2, <2>3
  <2>5. ~(i > p + Len(v))
    <3> SUFFICES ASSUME i > p + Len(v) PROVE FALSE
      BY <2>3
    <3>1. i \in (p + Len(v) + 1) .. Len(s)
      BY <1>8, <2>3
    <3> QED
      BY <1>11, <2>1, <3>1, Zenon
  <2>6. i - p \in 1 .. Len(v) /\ p + (i - p) = i
    BY <2>3, <2>4, <2>5
  <2>7. v[i - p] = s[i]
    BY <1>11, <2>6
  <2> QED
    BY <2>6, <2>7
<1>13. n + 1 \in Nat
  BY <1>6, <1>8
<1>14. v = cursor_yield(h, cursor_new(h, Included(key), b), Included(end))
  BY <1>0, <1>1, <1>9, Zenon
<1>15. PICK m : m = n + 1
  OBVIOUS
<1>16. m \in Nat /\ AllBut(s, v, m, key, end)
  BY <1>12, <1>13, <1>15 DEF AllBut
<1> QED
  BY <1>14, <1>16

\* Two sequences in the same order with the same records are the same.
LEMMA OrderedSame ==
  ASSUME NEW s \in Seq(TableRecord), Ordered(s), NEW t \in Seq(TableRecord), Ordered(t),
         \A r : (\E i \in 1 .. Len(s) : s[i] = r) <=> (\E i \in 1 .. Len(t) : t[i] = r)
  PROVE  s = t
<1>1. PICK m, n : m = Len(s) /\ n = Len(t)
  OBVIOUS
<1>2. m \in Nat /\ n \in Nat /\ DOMAIN s = 1 .. m /\ DOMAIN t = 1 .. n
  BY <1>1
<1>3. \A i, j \in 1 .. m : i < j => KeyLess(s[i].key, s[j].key)
  BY <1>1, Zenon DEF Ordered
<1>4. \A i, j \in 1 .. n : i < j => KeyLess(t[i].key, t[j].key)
  BY <1>1, Zenon DEF Ordered
<1>5. (\A i \in 1 .. m : s[i].key \in Key) /\ (\A i \in 1 .. n : t[i].key \in Key)
  <2>1. (\A i \in 1 .. m : s[i] \in TableRecord) /\ (\A i \in 1 .. n : t[i] \in TableRecord)
    BY <1>1, <1>2
  <2> QED
    BY <2>1 DEF TableRecord
<1>6. (\A i \in 1 .. m : \E j \in 1 .. n : t[j] = s[i]) /\ (\A i \in 1 .. n : \E j \in 1 .. m : s[j] = t[i])
  BY <1>1
\* The first place where they differ.
<1> DEFINE Same(i) == i <= m /\ i <= n /\ s[i] = t[i]
           T == {i \in Nat : 1 <= i /\ (i <= m \/ i <= n) /\ ~Same(i)}
<1>7. T = {}
  <2> SUFFICES ASSUME T # {} PROVE FALSE
    OBVIOUS
  <2>1. PICK c \in T : \A d \in T : c <= d
    <3>1. T \in SUBSET Nat
      OBVIOUS
    <3> HIDE DEF T
    <3> QED
      BY <3>1, LeastNumber
  <2>2. c \in Nat /\ 1 <= c /\ (c <= m \/ c <= n) /\ ~Same(c)
    BY <2>1
  <2>3. \A i \in 1 .. (c - 1) : i \in 1 .. m /\ i \in 1 .. n /\ s[i] = t[i]
    <3> SUFFICES ASSUME NEW i \in 1 .. (c - 1) PROVE Same(i)
      BY <1>2, <2>2
    <3>1. i \in Nat /\ 1 <= i /\ ~(c <= i) /\ i \notin T
      BY <2>1, <2>2
    <3>2. i <= m \/ i <= n
      BY <1>2, <2>2, <3>1
    <3> QED
      BY <3>1, <3>2
  <2> HIDE DEF T
  <2>4. ASSUME NEW i \in 1 .. m, NEW j \in 1 .. n, s[i] = t[j], c <= i PROVE c <= j
    <3> SUFFICES ASSUME ~(c <= j) PROVE FALSE
      OBVIOUS
    <3>1. j \in 1 .. (c - 1) /\ j < i
      BY <1>2, <2>2, <2>4
    <3>2. s[j] = s[i] /\ j \in 1 .. m
      BY <2>3, <2>4, <3>1
    <3>3. KeyLess(s[j].key, s[i].key)
      BY <1>3, <3>1, <3>2
    <3> QED
      BY <1>5, <3>2, <3>3, KeyTotal
  <2>5. ASSUME NEW i \in 1 .. m, NEW j \in 1 .. n, s[i] = t[j], c <= j PROVE c <= i
    <3> SUFFICES ASSUME ~(c <= i) PROVE FALSE
      OBVIOUS
    <3>1. i \in 1 .. (c - 1) /\ i < j
      BY <1>2, <2>2, <2>5
    <3>2. t[i] = t[j] /\ i \in 1 .. n
      BY <2>3, <2>5, <3>1
    <3>3. KeyLess(t[i].key, t[j].key)
      BY <1>4, <3>1, <3>2
    <3> QED
      BY <1>5, <3>2, <3>3, KeyTotal
  <2>6. CASE c <= m
    <3>1. c \in 1 .. m
      BY <1>2, <2>2, <2>6
    <3>2. PICK j \in 1 .. n : t[j] = s[c]
      BY <1>6, <3>1
    <3>3. c <= j /\ c \in 1 .. n
      <4>1. c <= j
        BY <2>2, <2>4, <3>1, <3>2
      <4> QED
        BY <1>2, <2>2, <4>1
    <3>4. PICK i \in 1 .. m : s[i] = t[c]
      BY <1>6, <3>3
    <3>5. c <= i
      BY <2>2, <2>5, <3>3, <3>4
    <3>6. s[c] # t[c]
      BY <1>2, <2>2, <3>1, <3>3
    <3>7. c < i /\ c < j
      BY <2>2, <3>2, <3>3, <3>4, <3>5, <3>6
    <3>8. KeyLess(s[c].key, s[i].key) /\ KeyLess(t[c].key, t[j].key)
      BY <1>3, <1>4, <3>1, <3>3, <3>7
    <3>9. PICK a \in Key, b \in Key : a = s[c].key /\ b = t[c].key
      BY <1>5, <3>1, <3>3
    <3>10. KeyLess(a, b) /\ KeyLess(b, a)
      BY <3>2, <3>4, <3>8, <3>9, Zenon
    <3>11. KeyLess(a, a)
      BY <3>10, KeyTotal
    <3> QED
      BY <3>11, KeyTotal
  <2>7. CASE ~(c <= m)
    <3>1. c \in 1 .. n
      BY <1>2, <2>2, <2>7
    <3>2. PICK i \in 1 .. m : s[i] = t[c]
      BY <1>6, <3>1
    <3>3. c <= i
      BY <2>2, <2>5, <3>1, <3>2
    <3> QED
      BY <1>2, <2>2, <2>7, <3>2, <3>3
  <2> QED
    BY <2>6, <2>7
<1>8. m = n
  <2>1. m \notin T /\ n \notin T
    BY <1>7
  <2>2. m >= 1 => m <= n
    BY <1>2, <2>1
  <2>3. n >= 1 => n <= m
    BY <1>2, <2>1
  <2> QED
    BY <1>2, <2>2, <2>3
<1>9. \A i \in 1 .. m : s[i] = t[i]
  BY <1>2, <1>7
<1> QED
  BY <1>1, <1>2, <1>8, <1>9
=============================================================================
