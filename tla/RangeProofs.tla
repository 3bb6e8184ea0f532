---------------------------- MODULE RangeProofs -----------------------------
(***************************************************************************)
(* Proof that a range query returns the records it asked for: for every    *)
(* log, every placement of its records in memory and in any number of      *)
(* SSTables, every batch size and channel capacity.                        *)
(***************************************************************************)
EXTENDS RangeProps, WellFoundedInduction, TLAPS

\* A sorted iterator that has records has exactly one first record.
LEMMA FirstFacts ==
  ASSUME NEW R \in SUBSET Nat
  PROVE  /\ First(R) \subseteq R
         /\ R # {} => First(R) # {}
         /\ \A a, b \in First(R) : a = b
         /\ \A a \in First(R) : \A x \in R \ First(R) : a < x
<1>1. R # {} => First(R) # {}
  <2>1. SUFFICES ASSUME R # {} PROVE \E c \in R : \A d \in R : c <= d
    BY DEF First
  <2>2. PICK c \in R : \A d \in R : <<d, c>> \notin OpToRel(<, Nat)
    BY <2>1, NatLessThanWellFounded, WFMin, Zenon
  <2>3. \A d \in R : ~(d < c)
    BY <2>2 DEF OpToRel
  <2> QED
    BY <2>3
<1>2. \A a, b \in First(R) : a = b
  BY SMT DEF First
<1>3. \A a \in First(R) : \A x \in R \ First(R) : a < x
  BY SMT DEF First
<1> QED
  BY <1>1, <1>2, <1>3 DEF First

\* What appending and concatenating do to the elements of a sequence.
LEMMA ElementsAppend ==
  ASSUME NEW S, NEW s \in Seq(S), NEW e \in S
  PROVE  /\ Append(s, e) \in Seq(S)
         /\ Elements(Append(s, e)) = Elements(s) \cup {e}
<1>1. \A i \in 1 .. Len(s) : Append(s, e)[i] = s[i]
  OBVIOUS
<1>2. Append(s, e)[Len(s) + 1] = e /\ DOMAIN Append(s, e) = 1 .. (Len(s) + 1)
  OBVIOUS
<1>3. DOMAIN s = 1 .. Len(s) /\ Len(s) \in Nat
  OBVIOUS
<1> QED
  BY <1>1, <1>2, <1>3, SMT DEF Elements

LEMMA ElementsConcat ==
  ASSUME NEW S, NEW s \in Seq(S), NEW t \in Seq(S)
  PROVE  /\ s \o t \in Seq(S)
         /\ Elements(s \o t) = Elements(s) \cup Elements(t)
<1>1. /\ DOMAIN (s \o t) = 1 .. (Len(s) + Len(t))
      /\ DOMAIN s = 1 .. Len(s) /\ DOMAIN t = 1 .. Len(t)
      /\ Len(s) \in Nat /\ Len(t) \in Nat
  OBVIOUS
<1>2. \A i \in 1 .. Len(s) : (s \o t)[i] = s[i]
  OBVIOUS
<1>3. \A i \in 1 .. Len(t) : (s \o t)[Len(s) + i] = t[i]
  OBVIOUS
<1>4. \A i \in 1 .. (Len(s) + Len(t)) :
        i \in 1 .. Len(s) \/ \E j \in 1 .. Len(t) : i = Len(s) + j
  <2> TAKE i \in 1 .. (Len(s) + Len(t))
  <2>1. CASE i <= Len(s)
    BY <1>1, <2>1
  <2>2. CASE i > Len(s)
    <3>1. i - Len(s) \in 1 .. Len(t) /\ i = Len(s) + (i - Len(s))
      BY <1>1, <2>2
    <3> QED
      BY <3>1
  <2> QED
    BY <1>1, <2>1, <2>2
<1>5. Elements(s \o t) \subseteq Elements(s) \cup Elements(t)
  BY <1>1, <1>2, <1>3, <1>4 DEF Elements
<1>6. Elements(s) \subseteq Elements(s \o t)
  <2>1. \A i \in 1 .. Len(s) : i \in 1 .. (Len(s) + Len(t))
    BY <1>1
  <2> QED
    BY <1>1, <1>2, <2>1 DEF Elements
<1>7. Elements(t) \subseteq Elements(s \o t)
  <2>1. \A i \in 1 .. Len(t) : Len(s) + i \in 1 .. (Len(s) + Len(t))
    BY <1>1
  <2> QED
    BY <1>1, <1>3, <2>1 DEF Elements
<1>8. s \o t \in Seq(S)
  OBVIOUS
<1> QED
  BY <1>5, <1>6, <1>7, <1>8

\* What a send and a receive do to the records in a channel of batches.
LEMMA InBatchesAppend ==
  ASSUME NEW S, NEW s \in Seq(Seq(S)), NEW b \in Seq(S)
  PROVE  /\ Append(s, b) \in Seq(Seq(S))
         /\ InBatches(Append(s, b)) = InBatches(s) \cup Elements(b)
<1>1. \A i \in 1 .. Len(s) : Append(s, b)[i] = s[i]
  OBVIOUS
<1>2. Append(s, b)[Len(s) + 1] = b /\ DOMAIN Append(s, b) = 1 .. (Len(s) + 1)
  OBVIOUS
<1>3. DOMAIN s = 1 .. Len(s) /\ Len(s) \in Nat
  OBVIOUS
<1>4. DOMAIN Append(s, b) = DOMAIN s \cup {Len(s) + 1}
  BY <1>2, <1>3
<1>5. \A x : (\E i \in DOMAIN Append(s, b) : x \in Elements(Append(s, b)[i]))
             <=> (\E i \in DOMAIN s : x \in Elements(s[i])) \/ x \in Elements(b)
  BY <1>1, <1>2, <1>3, <1>4, Zenon
<1>6. Append(s, b) \in Seq(Seq(S))
  OBVIOUS
<1> QED
  BY <1>5, <1>6, Zenon DEF InBatches

LEMMA InBatchesTail ==
  ASSUME NEW S, NEW s \in Seq(Seq(S)), s # <<>>
  PROVE  /\ Head(s) \in Seq(S)
         /\ Tail(s) \in Seq(Seq(S))
         /\ InBatches(s) = Elements(Head(s)) \cup InBatches(Tail(s))
<1>1. /\ Len(s) \in Nat /\ Len(s) >= 1
      /\ DOMAIN s = 1 .. Len(s)
      /\ DOMAIN Tail(s) = 1 .. (Len(s) - 1)
      /\ Head(s) = s[1]
      /\ \A i \in 1 .. (Len(s) - 1) : Tail(s)[i] = s[i + 1]
  OBVIOUS
<1>2. \A i \in 1 .. Len(s) : i = 1 \/ (i - 1 \in 1 .. (Len(s) - 1) /\ (i - 1) + 1 = i)
  BY <1>1
<1>3. InBatches(s) \subseteq Elements(Head(s)) \cup InBatches(Tail(s))
  <2> SUFFICES ASSUME NEW i \in DOMAIN s, NEW x \in Elements(s[i])
               PROVE  x \in Elements(Head(s)) \cup InBatches(Tail(s))
    BY DEF InBatches
  <2>1. CASE i = 1
    BY <1>1, <2>1
  <2>2. CASE i # 1
    <3>1. i - 1 \in DOMAIN Tail(s) /\ Tail(s)[i - 1] = s[i]
      BY <1>1, <1>2, <2>2
    <3> QED
      BY <3>1 DEF InBatches
  <2> QED
    BY <2>1, <2>2
<1>4. Elements(Head(s)) \subseteq InBatches(s)
  <2>1. 1 \in DOMAIN s
    BY <1>1
  <2> QED
    BY <1>1, <2>1 DEF InBatches
<1>5. InBatches(Tail(s)) \subseteq InBatches(s)
  <2> SUFFICES ASSUME NEW i \in DOMAIN Tail(s), NEW x \in Elements(Tail(s)[i])
               PROVE  x \in InBatches(s)
    BY DEF InBatches
  <2>1. i + 1 \in DOMAIN s /\ Tail(s)[i] = s[i + 1]
    BY <1>1
  <2> QED
    BY <2>1 DEF InBatches
<1>6. Head(s) \in Seq(S) /\ Tail(s) \in Seq(Seq(S))
  BY <1>1
<1> QED
  BY <1>3, <1>4, <1>5, <1>6

\* Both iterators select by source, key, time and filter: the order of the
\* encoded records agrees with the order of the fields between the bounds.
LEMMA SelectExact ==
  ASSUME NEW R \in SUBSET (DOMAIN Log), NEW q \in Queries,
         0 <= q.start, q.start <= q.end
  PROVE  /\ MemSelect(R, q) = {r \in R : Matches(r, q)}
         /\ SstSelect(R, q) = {r \in R : Matches(r, q)}
<1>1. /\ IntBound \in Nat \ {0}
      /\ q.sid \in -IntBound .. (IntBound - 1)
      /\ q.start \in -IntBound .. (IntBound - 1)
      /\ q.end \in -IntBound .. (IntBound - 1)
      /\ q.key \in Nat
  BY QueryAssumption, Zenon
<1>2. ASSUME NEW r \in R, NEW key \in Nat
      PROVE  /\ ~CmpLess(Log[r], Bound(q.sid, q.start, key))
             /\ CmpLess(Log[r], Bound(q.sid, q.end, key))
             <=>
             /\ Log[r].sid = q.sid
             /\ q.start <= Log[r].ts
             /\ Log[r].ts < q.end
  <2> DEFINE a == Log[r]
  <2>1. /\ a.sid \in -IntBound .. (IntBound - 1)
        /\ a.ts \in -IntBound .. (IntBound - 1)
    BY LogAssumption, Zenon
  <2>2. a.seq \in Nat \ {0}
    <3> DEFINE Fields == [sid : Int, ts : Int, seq : Nat \ {0}, key : Nat, val : STRING]
    <3>1. Log \in Seq(Fields)
      BY LogAssumption, Zenon
    <3> HIDE DEF Fields
    <3>2. a \in Fields
      BY <3>1
    <3> QED
      BY <3>2 DEF Fields
  <2>3. \A t : CmpLess(a, Bound(q.sid, t, key)) <=>
                 \/ Bytes(a.sid) < Bytes(q.sid)
                 \/ /\ a.sid = q.sid
                    /\ \/ Bytes(a.ts) < Bytes(t)
                       \/ /\ a.ts = t
                          /\ \/ a.seq < 0
                             \/ a.seq = 0 /\ a.key < key
    BY DEF CmpLess, Bound
  <2> HIDE DEF a
  <2>4. \A t : CmpLess(a, Bound(q.sid, t, key)) <=>
                 \/ Bytes(a.sid) < Bytes(q.sid)
                 \/ a.sid = q.sid /\ Bytes(a.ts) < Bytes(t)
    BY <2>2, <2>3
  <2>5. /\ ~CmpLess(a, Bound(q.sid, q.start, key))
        /\ CmpLess(a, Bound(q.sid, q.end, key))
        <=> a.sid = q.sid /\ q.start <= a.ts /\ a.ts < q.end
    BY <1>1, <2>1, <2>4 DEF Bytes
  <2> QED
    BY <2>5 DEF a
<1>3. EmptyKey \in Nat
  BY DEF EmptyKey
<1>4. \A r \in R : r \in Between(R, Bound(q.sid, q.start, EmptyKey),
                                     Bound(q.sid, q.end, EmptyKey))
                  <=> /\ Log[r].sid = q.sid
                      /\ q.start <= Log[r].ts
                      /\ Log[r].ts < q.end
  BY <1>2, <1>3, Zenon DEF Between
<1>5. \A r \in R : r \in Between(R, Bound(q.sid, q.start, q.key),
                                     Bound(q.sid, q.end, q.key))
                  <=> /\ Log[r].sid = q.sid
                      /\ q.start <= Log[r].ts
                      /\ Log[r].ts < q.end
  BY <1>1, <1>2, Zenon DEF Between
<1>6. \A lo, hi : Between(R, lo, hi) \subseteq R
  BY DEF Between
<1>7. \A r \in R : Log[r].ts >= q.start <=> q.start <= Log[r].ts
  OBVIOUS
<1>8. MemSelect(R, q) = {r \in R : Matches(r, q)}
  BY <1>4, <1>6, <1>7 DEF MemSelect, Matches
<1>9. SstSelect(R, q) = {r \in R : Matches(r, q)}
  BY <1>5, <1>6 DEF SstSelect, Matches
<1> QED
  BY <1>8, <1>9

-----------------------------------------------------------------------------
\* Records are positions in the log, above NoRecord.
LEMMA RecordsNat == DOMAIN Log \subseteq Nat \ {0}
<1> DEFINE Fields == [sid : Int, ts : Int, seq : Nat \ {0}, key : Nat, val : STRING]
<1>1. Log \in Seq(Fields)
  BY LogAssumption, Zenon
<1> HIDE DEF Fields
<1> QED
  BY <1>1

\* A pop with its refill keeps the heap in order, leaves nothing below the
\* popped record and, unless an SSTable cannot be read, loses only that one.
LEMMA PopKeeps ==
  ASSUME RangeTypeOK, HeapHoldsNext, NEW item \in heap, Pop(item)
  PROVE  /\ rest' \in [Sources -> SUBSET (DOMAIN Log)]
         /\ heap' \subseteq (DOMAIN Log) \X Sources
         /\ lost' \in BOOLEAN
         /\ HeapHoldsNext'
         /\ \A x \in heap' : item[1] <= x[1]
         /\ ~lost' => ~lost /\ Pending' \cup {item[1]} = Pending
<1> DEFINE D == DOMAIN Log
           s == item[2]
           others == heap \ {item}
           F == First(rest[s])
<1>1. D \subseteq Nat
  BY RecordsNat
<1>2. /\ rest \in [Sources -> SUBSET D]
      /\ heap \subseteq D \X Sources
      /\ lost \in BOOLEAN
  BY DEF RangeTypeOK
<1>3. s \in Sources /\ item[1] \in D /\ item = <<item[1], s>>
  BY <1>2
<1>4. \A x \in others : x \in heap /\ x[2] # s
  BY DEF HeapHoldsNext
<1>5. /\ F \subseteq rest[s]
      /\ rest[s] # {} => F # {}
      /\ \A a, b \in F : a = b
      /\ \A a \in F : \A x \in rest[s] \ F : a < x
  <2>1. rest[s] \in SUBSET Nat
    BY <1>1, <1>2, <1>3
  <2> QED
    BY <2>1, FirstFacts
<1>6. \A r \in rest[s] : item[1] < r
  BY DEF HeapHoldsNext
<1>7. \A x \in heap : item[1] <= x[1]
  BY DEF Pop
<1> HIDE DEF D, F
<1>8. CASE Refil(s, others)
  <2>1. /\ heap' = others \cup (F \X {s})
        /\ rest' = [rest EXCEPT ![s] = @ \ F]
        /\ lost' = lost
    BY <1>8 DEF Refil, F
  <2> HIDE DEF others, s
  <2>2. /\ rest'[s] = rest[s] \ F
        /\ \A t \in Sources \ {s} : rest'[t] = rest[t]
        /\ rest' \in [Sources -> SUBSET D]
    BY <1>2, <1>3, <2>1
  <2>3. \A x \in heap' : \/ x \in heap /\ x \in others /\ x[2] # s
                         \/ x[2] = s /\ x[1] \in F /\ x = <<x[1], s>>
    <3>1. \A x \in F \X {s} : x[2] = s /\ x[1] \in F /\ x = <<x[1], s>>
      OBVIOUS
    <3>2. \A x \in heap' : x \in others \/ x \in F \X {s}
      BY <2>1
    <3> QED
      BY <1>4, <3>1, <3>2, Zenon
  <2>4. heap' \subseteq D \X Sources
    BY <1>2, <1>3, <1>5, <2>3
  <2>5. HeapHoldsNext'
    <3>1. ASSUME NEW a \in heap', NEW b \in heap', a[2] = b[2]
          PROVE  a = b
      BY <1>5, <2>3, <3>1 DEF HeapHoldsNext
    <3>2. ASSUME NEW x \in heap', NEW r \in rest'[x[2]]
          PROVE  x[1] < r
      <4>1. CASE x \in heap /\ x[2] # s
        <5>1. x[2] \in Sources
          BY <2>4
        <5> QED
          BY <2>2, <3>2, <4>1, <5>1 DEF HeapHoldsNext
      <4>2. CASE x[2] = s /\ x[1] \in F
        BY <1>5, <2>2, <3>2, <4>2
      <4> QED
        BY <2>3, <4>1, <4>2
    <3>3. ASSUME NEW t \in Sources, rest'[t] # {}
          PROVE  \E x \in heap' : x[2] = t
      <4>1. CASE t = s
        <5>1. PICK r \in F : TRUE
          BY <1>5, <2>2, <3>3, <4>1
        <5>2. <<r, s>> \in heap'
          BY <2>1, <5>1
        <5> QED
          BY <4>1, <5>2
      <4>2. CASE t # s
        <5>1. PICK x \in heap : x[2] = t
          BY <2>2, <3>3, <4>2 DEF HeapHoldsNext
        <5>2. x \in heap'
          BY <2>1, <4>2, <5>1 DEF others, s
        <5> QED
          BY <5>1, <5>2
      <4> QED
        BY <4>1, <4>2
    <3> QED
      BY <3>1, <3>2, <3>3 DEF HeapHoldsNext
  <2>6. \A x \in heap' : item[1] <= x[1]
    <3> TAKE x \in heap'
    <3>1. CASE x \in heap
      BY <1>7, <3>1
    <3>2. CASE x[1] \in F
      <4>1. item[1] < x[1] /\ x[1] \in Nat /\ item[1] \in Nat
        BY <1>1, <1>2, <1>3, <1>5, <1>6, <3>2
      <4> QED
        BY <4>1
    <3> QED
      BY <2>3, <3>1, <3>2
  <2>7. Pending' \cup {item[1]} = Pending
    <3> DEFINE New == {x[1] : x \in heap'} \cup (UNION {rest'[t] : t \in Sources}) \cup {item[1]}
               Old == {x[1] : x \in heap} \cup UNION {rest[t] : t \in Sources}
    <3>1. ASSUME NEW x \in heap' PROVE x[1] \in Old
      BY <1>3, <1>5, <2>3
    <3>2. ASSUME NEW t \in Sources PROVE rest'[t] \subseteq Old
      BY <2>2
    <3>3. ASSUME NEW x \in heap PROVE x[1] \in New
      <4>1. CASE x = item
        BY <4>1
      <4>2. CASE x # item
        <5>1. x \in heap'
          BY <2>1, <4>2 DEF others
        <5> QED
          BY <5>1
      <4> QED
        BY <4>1, <4>2
    <3>4. ASSUME NEW t \in Sources, NEW r \in rest[t] PROVE r \in New
      <4>1. CASE t = s /\ r \in F
        <5>1. <<r, s>> \in heap'
          BY <2>1, <4>1
        <5>2. r = <<r, s>>[1]
          OBVIOUS
        <5> QED
          BY <5>1, <5>2
      <4>2. CASE ~(t = s /\ r \in F)
        <5>1. r \in rest'[t]
          BY <2>2, <3>4, <4>2
        <5> QED
          BY <5>1
      <4> QED
        BY <4>1, <4>2
    <3>5. New \subseteq Old
      <4>1. item[1] \in Old
        OBVIOUS
      <4> HIDE DEF Old
      <4> QED
        BY <3>1, <3>2, <4>1
    <3>6. Old \subseteq New
      <4> HIDE DEF New
      <4> QED
        BY <3>3, <3>4
    <3> QED
      BY <3>5, <3>6 DEF Pending
  <2> QED
    BY <1>2, <2>1, <2>2, <2>4, <2>5, <2>6, <2>7 DEF D
<1>9. CASE RefilFails(s, others)
  <2>1. /\ heap' = others
        /\ rest' = [rest EXCEPT ![s] = {}]
        /\ lost' = TRUE
    BY <1>9 DEF RefilFails
  <2>2. /\ rest'[s] = {}
        /\ \A t \in Sources \ {s} : rest'[t] = rest[t]
        /\ rest' \in [Sources -> SUBSET D]
    BY <1>2, <1>3, <2>1
  <2>3. HeapHoldsNext'
    <3>1. \A a, b \in heap' : a[2] = b[2] => a = b
      BY <2>1 DEF HeapHoldsNext
    <3>2. \A x \in heap' : \A r \in rest'[x[2]] : x[1] < r
      BY <1>2, <1>4, <2>1, <2>2 DEF HeapHoldsNext
    <3>3. \A t \in Sources : rest'[t] # {} => \E x \in heap' : x[2] = t
      BY <2>1, <2>2 DEF HeapHoldsNext
    <3> QED
      BY <3>1, <3>2, <3>3 DEF HeapHoldsNext
  <2> QED
    BY <1>2, <1>7, <2>1, <2>2, <2>3 DEF D
<1> QED
  BY <1>8, <1>9 DEF Pop

\* A record that MergeIter::next returns is above all returned before.
LEMMA ReturnKeeps ==
  ASSUME RangeTypeOK, HeapHoldsNext, MergedSoFar, NEW item \in heap, Return(item)
  PROVE  /\ out' \in Seq(DOMAIN Log)
         /\ last' \in DOMAIN Log
         /\ item[1] \in DOMAIN Log
         /\ MergedSoFar'
         /\ Elements(out') = Elements(out) \cup {item[1]}
<1> DEFINE D == DOMAIN Log
           r == item[1]
<1>1. D \subseteq Nat \ {0}
  BY RecordsNat
<1>2. r \in D /\ out \in Seq(D) /\ last \in D \cup {0}
  BY DEF RangeTypeOK, NoRecord
<1>3. out' = Append(out, r) /\ last' = r /\ r # last
  BY DEF Return
<1>4. out' \in Seq(D) /\ Elements(out') = Elements(out) \cup {r}
  BY <1>2, <1>3, ElementsAppend
<1>5. \A x \in heap' : r <= x[1]
  BY PopKeeps DEF Return
<1>6. last < r
  <2>1. last <= r
    BY DEF MergedSoFar
  <2> QED
    BY <1>1, <1>2, <1>3, <2>1
<1> HIDE DEF D, r
<1>7. /\ DOMAIN out = 1 .. Len(out) /\ Len(out) \in Nat
      /\ DOMAIN out' = 1 .. (Len(out) + 1)
      /\ \A i \in 1 .. Len(out) : out'[i] = out[i] /\ out[i] \in D
      /\ out'[Len(out) + 1] = r
  BY <1>2, <1>3
<1>8. \A i \in DOMAIN out : out[i] < r /\ out[i] \in Nat
  <2> TAKE i \in DOMAIN out
  <2>1. out[i] <= last
    BY DEF MergedSoFar
  <2>2. out[i] \in D
    BY <1>7
  <2>3. out[i] \in Nat
    BY <1>1, <2>2
  <2>4. r \in Nat
    BY <1>1, <1>2
  <2>5. last \in Nat
    <3>1. CASE last = 0
      BY <3>1
    <3>2. CASE last \in D
      BY <1>1, <3>2
    <3> QED
      BY <1>2, <3>1, <3>2
  <2> QED
    BY <1>6, <2>1, <2>3, <2>4, <2>5
<1>9. Increasing(out')
  <2> SUFFICES ASSUME NEW i \in DOMAIN out', NEW j \in DOMAIN out', i < j
               PROVE  out'[i] < out'[j]
    BY DEF Increasing
  <2>1. CASE j = Len(out) + 1
    BY <1>7, <1>8, <2>1
  <2>2. CASE j # Len(out) + 1
    <3>1. i \in DOMAIN out /\ j \in DOMAIN out
      BY <1>7, <2>2
    <3>2. out[i] < out[j]
      BY <3>1 DEF MergedSoFar, Increasing
    <3> QED
      BY <1>7, <3>1, <3>2
  <2> QED
    BY <2>1, <2>2
<1>10. \A i \in DOMAIN out' : out'[i] <= last'
  BY <1>1, <1>2, <1>3, <1>7, <1>8
<1>11. last' \in Elements(out')
  BY <1>3, <1>4
<1>12. MergedSoFar'
  BY <1>3, <1>5, <1>9, <1>10, <1>11 DEF MergedSoFar
<1> QED
  BY <1>2, <1>3, <1>4, <1>12 DEF D, r

\* The query and the tables it reads do not change under it.
LEMMA SelectionFixed ==
  ASSUME query' = query, source' = source
  PROVE  AllSelected' = AllSelected /\ Rejected' = Rejected
BY DEF AllSelected, Selected, Rejected

-----------------------------------------------------------------------------
\* The invariant holds initially.
LEMMA RangeInitInv == RangeInit => RangeInv
<1> SUFFICES ASSUME RangeInit PROVE RangeInv
  OBVIOUS
<1> USE DEF RangeInit
<1>1. RangeTypeOK
  <2>1. rest \in [Sources -> SUBSET (DOMAIN Log)]
    OBVIOUS
  <2>2. batch \in Seq(DOMAIN Log) /\ got \in Seq(DOMAIN Log) /\ out \in Seq(DOMAIN Log)
    OBVIOUS
  <2>3. chan \in Seq(Seq(DOMAIN Log))
    OBVIOUS
  <2> QED
    BY <2>1, <2>2, <2>3 DEF RangeTypeOK
<1>2. HeapHoldsNext
  BY DEF HeapHoldsNext
<1>3. MergedSoFar
  BY DEF MergedSoFar, Increasing
<1>4. Conserved
  BY DEF Conserved
<1>5. Delivered
  BY DEF Delivered, Elements, InBatches
<1>6. EndMeansAll
  BY DEF EndMeansAll
<1> QED
  BY <1>1, <1>2, <1>3, <1>4, <1>5, <1>6 DEF RangeInv

\* A refused query has nothing to deliver.
LEMMA RejectKeeps == ASSUME RangeInv, RejectRange PROVE RangeInv'
<1> USE DEF RejectRange, iterVars, clientVars, RangeInv
<1>1. RangeTypeOK'
  BY DEF RangeTypeOK
<1>2. HeapHoldsNext' /\ MergedSoFar'
  BY DEF HeapHoldsNext, MergedSoFar
<1>3. Rejected'
  BY DEF Rejected
<1>4. Conserved' /\ Delivered'
  BY <1>3 DEF Conserved, Delivered
<1>5. batch = <<>> /\ client # "ok"
  BY DEF EndMeansAll
<1>6. EndMeansAll'
  BY <1>3, <1>5 DEF EndMeansAll
<1> QED
  BY <1>1, <1>2, <1>4, <1>6

\* The heap starts with the first record of every iterator.
LEMMA StartKeeps == ASSUME RangeInv, StartRange PROVE RangeInv'
<1>1. PICK opened \in SUBSET Sources :
        /\ rest' = [s \in Sources |->
                      IF s \in opened THEN Selected(s) \ First(Selected(s)) ELSE {}]
        /\ heap' = UNION {First(Selected(s)) \X {s} : s \in opened}
        /\ lost' = (opened # Sources)
  BY DEF StartRange
<1>2. /\ task = "idle" /\ task' = "merging" /\ ~Rejected
      /\ UNCHANGED <<query, source, last, out, batch, loop_err, end, chan, client, got>>
  BY DEF StartRange, clientVars
<1>3. AllSelected' = AllSelected /\ Rejected' = Rejected
  BY <1>2, SelectionFixed
<1>4. out = <<>> /\ last = 0 /\ end = "none"
  BY <1>2 DEF RangeInv, EndMeansAll, NoRecord
<1>5. \A s \in Sources :
        /\ Selected(s) \in SUBSET (DOMAIN Log)
        /\ First(Selected(s)) \subseteq Selected(s)
        /\ Selected(s) # {} => First(Selected(s)) # {}
        /\ \A a, b \in First(Selected(s)) : a = b
        /\ \A a \in First(Selected(s)) : \A x \in Selected(s) \ First(Selected(s)) : a < x
  <2> TAKE s \in Sources
  <2>1. Selected(s) \in SUBSET (DOMAIN Log)
    <3>1. source[s] \in SUBSET (DOMAIN Log)
      BY DEF RangeInv, RangeTypeOK
    <3>2. \A lo, hi : Between(source[s], lo, hi) \subseteq source[s]
      BY DEF Between
    <3> QED
      BY <3>1, <3>2 DEF Selected, MemSelect, SstSelect
  <2>2. Selected(s) \in SUBSET Nat
    BY <2>1, RecordsNat
  <2> QED
    BY <2>1, <2>2, FirstFacts
<1>6. \A item \in heap' : /\ item[2] \in opened
                           /\ item[1] \in First(Selected(item[2]))
                           /\ item = <<item[1], item[2]>>
  BY <1>1
<1>7. \A s \in opened : \A r \in First(Selected(s)) : <<r, s>> \in heap'
  BY <1>1
<1>8. \A s \in Sources : rest'[s] = IF s \in opened THEN Selected(s) \ First(Selected(s)) ELSE {}
  BY <1>1
<1>9. RangeTypeOK'
  <2>1. rest' \in [Sources -> SUBSET (DOMAIN Log)]
    BY <1>1, <1>5
  <2>2. heap' \subseteq (DOMAIN Log) \X Sources
    BY <1>5, <1>6
  <2>3. lost' \in BOOLEAN
    BY <1>1
  <2> QED
    BY <1>2, <2>1, <2>2, <2>3 DEF RangeInv, RangeTypeOK
<1>10. HeapHoldsNext'
  <2>1. ASSUME NEW a \in heap', NEW b \in heap', a[2] = b[2] PROVE a = b
    <3>1. a[2] \in Sources /\ a[1] \in First(Selected(a[2])) /\ b[1] \in First(Selected(a[2]))
      BY <1>6, <2>1
    <3>2. a[1] = b[1]
      BY <1>5, <3>1
    <3> QED
      BY <1>6, <2>1, <3>2
  <2>2. ASSUME NEW item \in heap', NEW r \in rest'[item[2]] PROVE item[1] < r
    <3>1. item[2] \in Sources /\ item[2] \in opened /\ item[1] \in First(Selected(item[2]))
      BY <1>6
    <3>2. r \in Selected(item[2]) \ First(Selected(item[2]))
      BY <1>8, <2>2, <3>1
    <3> QED
      BY <1>5, <3>1, <3>2
  <2>3. ASSUME NEW s \in Sources, rest'[s] # {} PROVE \E item \in heap' : item[2] = s
    <3>1. s \in opened /\ Selected(s) # {}
      BY <1>8, <2>3
    <3>2. PICK r \in First(Selected(s)) : TRUE
      BY <1>5, <3>1
    <3>3. <<r, s>> \in heap'
      BY <1>7, <3>1, <3>2
    <3> QED
      BY <3>3
  <2> QED
    BY <2>1, <2>2, <2>3 DEF HeapHoldsNext
<1>11. MergedSoFar'
  <2>1. \A item \in heap' : last' <= item[1]
    <3> TAKE item \in heap'
    <3>1. item[1] \in Nat
      BY <1>5, <1>6, RecordsNat
    <3> QED
      BY <1>2, <1>4, <3>1
  <2> QED
    BY <1>2, <1>4, <2>1 DEF MergedSoFar, Increasing, NoRecord
<1>12. Conserved'
  <2>1. SUFFICES ASSUME ~lost' PROVE Elements(out') \cup Pending' = AllSelected'
    BY DEF Conserved
  <2>2. opened = Sources
    BY <1>1, <2>1
  <2>3. Elements(out') = {}
    BY <1>2, <1>4 DEF Elements
  <2>4. Pending' \subseteq AllSelected
    <3>1. \A item \in heap' : item[1] \in AllSelected
      BY <1>5, <1>6 DEF AllSelected
    <3>2. \A s \in Sources : rest'[s] \subseteq AllSelected
      BY <1>8 DEF AllSelected
    <3> HIDE DEF AllSelected
    <3> QED
      BY <3>1, <3>2 DEF Pending
  <2>5. AllSelected \subseteq Pending'
    <3> SUFFICES ASSUME NEW s \in Sources, NEW r \in Selected(s) PROVE r \in Pending'
      BY DEF AllSelected
    <3>1. CASE r \in First(Selected(s))
      <4>1. <<r, s>> \in heap' /\ <<r, s>>[1] = r
        BY <1>7, <2>2, <3>1
      <4> QED
        BY <4>1 DEF Pending
    <3>2. CASE r \notin First(Selected(s))
      <4>1. r \in rest'[s]
        BY <1>8, <2>2, <3>2
      <4> QED
        BY <4>1 DEF Pending
    <3> QED
      BY <3>1, <3>2
  <2> QED
    BY <1>3, <2>3, <2>4, <2>5
<1>13. Delivered'
  BY <1>2 DEF RangeInv, Delivered
<1>14. EndMeansAll'
  BY <1>2, <1>3, <1>4 DEF RangeInv, EndMeansAll
<1> QED
  BY <1>9, <1>10, <1>11, <1>12, <1>13, <1>14 DEF RangeInv

\* A duplicate has been returned before: dropping it loses nothing.
LEMMA SkipKeeps ==
  ASSUME RangeInv, NEW item \in heap, SkipDuplicate(item)
  PROVE  RangeInv'
<1>1. /\ RangeTypeOK /\ HeapHoldsNext /\ MergedSoFar
      /\ Conserved /\ Delivered /\ EndMeansAll
  BY DEF RangeInv
<1>2. /\ Pop(item) /\ item[1] = last /\ task = "merging"
      /\ UNCHANGED <<query, source, task, last, out, batch, loop_err, end, chan, client, got>>
  BY DEF SkipDuplicate, Pop, clientVars
<1>3. /\ rest' \in [Sources -> SUBSET (DOMAIN Log)]
      /\ heap' \subseteq (DOMAIN Log) \X Sources
      /\ lost' \in BOOLEAN
      /\ HeapHoldsNext'
      /\ \A x \in heap' : item[1] <= x[1]
      /\ ~lost' => ~lost /\ Pending' \cup {item[1]} = Pending
  BY <1>1, <1>2, PopKeeps
<1>4. RangeTypeOK'
  BY <1>1, <1>2, <1>3 DEF RangeTypeOK
<1>5. MergedSoFar'
  BY <1>1, <1>2, <1>3 DEF MergedSoFar
<1>6. Conserved'
  <2>1. last \in Elements(out)
    <3>1. item[1] \in DOMAIN Log
      BY <1>1 DEF RangeTypeOK
    <3>2. last # NoRecord
      BY <1>2, <3>1, RecordsNat DEF NoRecord
    <3> QED
      BY <1>1, <3>2 DEF MergedSoFar
  <2>2. Elements(out') = Elements(out)
    BY <1>2
  <2> QED
    BY <1>1, <1>2, <1>3, <2>1, <2>2, SelectionFixed DEF Conserved
<1>7. Delivered'
  BY <1>1, <1>2 DEF Delivered
<1>8. EndMeansAll'
  BY <1>1, <1>2, SelectionFixed DEF EndMeansAll
<1> QED
  BY <1>3, <1>4, <1>5, <1>6, <1>7, <1>8 DEF RangeInv

\* What holds after a record was returned, whatever handle_range does with it.
LEMMA ReturnStep ==
  ASSUME RangeInv, NEW item \in heap, Return(item), UNCHANGED <<query, source>>,
         task' # "idle"
  PROVE  /\ HeapHoldsNext' /\ MergedSoFar' /\ Conserved'
         /\ rest' \in [Sources -> SUBSET (DOMAIN Log)]
         /\ heap' \subseteq (DOMAIN Log) \X Sources
         /\ lost' \in BOOLEAN
         /\ out' \in Seq(DOMAIN Log)
         /\ last' \in DOMAIN Log
         /\ item[1] \in DOMAIN Log
         /\ Elements(out') = Elements(out) \cup {item[1]}
<1>1. RangeTypeOK /\ HeapHoldsNext /\ MergedSoFar /\ Conserved
  BY DEF RangeInv
<1>2. Pop(item) /\ task = "merging"
  BY DEF Return, Pop
<1>3. /\ rest' \in [Sources -> SUBSET (DOMAIN Log)]
      /\ heap' \subseteq (DOMAIN Log) \X Sources
      /\ lost' \in BOOLEAN
      /\ HeapHoldsNext'
      /\ ~lost' => ~lost /\ Pending' \cup {item[1]} = Pending
  BY <1>1, <1>2, PopKeeps
<1>4. /\ out' \in Seq(DOMAIN Log)
      /\ last' \in DOMAIN Log
      /\ item[1] \in DOMAIN Log
      /\ MergedSoFar'
      /\ Elements(out') = Elements(out) \cup {item[1]}
  BY <1>1, ReturnKeeps
<1>5. Conserved'
  BY <1>1, <1>2, <1>3, <1>4, SelectionFixed DEF Conserved
<1> QED
  BY <1>3, <1>4, <1>5

\* handle_range puts the record it takes into the batch.
LEMMA TakeKeeps ==
  ASSUME RangeInv, NEW item \in heap, TakeRecord(item)
  PROVE  RangeInv'
<1>1. RangeTypeOK /\ Delivered /\ EndMeansAll
  BY DEF RangeInv
<1>2. /\ Return(item) /\ task = "merging" /\ task' \in {"merging", "sending"}
      /\ batch' = Append(batch, item[1])
      /\ UNCHANGED <<query, source, loop_err, end, chan, client, got>>
  BY DEF TakeRecord, Return, Pop, clientVars
<1>3. /\ HeapHoldsNext' /\ MergedSoFar' /\ Conserved'
      /\ rest' \in [Sources -> SUBSET (DOMAIN Log)]
      /\ heap' \subseteq (DOMAIN Log) \X Sources
      /\ lost' \in BOOLEAN
      /\ out' \in Seq(DOMAIN Log)
      /\ last' \in DOMAIN Log
      /\ item[1] \in DOMAIN Log
      /\ Elements(out') = Elements(out) \cup {item[1]}
  BY <1>2, ReturnStep
<1>4. batch' \in Seq(DOMAIN Log) /\ Elements(batch') = Elements(batch) \cup {item[1]}
  <2>1. batch \in Seq(DOMAIN Log)
    BY <1>1 DEF RangeTypeOK
  <2> QED
    BY <1>2, <1>3, <2>1, ElementsAppend
<1>5. RangeTypeOK'
  BY <1>1, <1>2, <1>3, <1>4 DEF RangeTypeOK
<1>6. Delivered'
  <2>1. Elements(got') = Elements(got) /\ InBatches(chan') = InBatches(chan)
    BY <1>2
  <2> QED
    BY <1>1, <1>2, <1>3, <1>4, <2>1 DEF Delivered
<1>7. EndMeansAll'
  BY <1>1, <1>2, SelectionFixed DEF EndMeansAll
<1> QED
  BY <1>3, <1>5, <1>6, <1>7 DEF RangeInv

\* A record that does not decode ends the loop with an error.
LEMMA TakeFailsKeeps ==
  ASSUME RangeInv, NEW item \in heap, TakeRecordFails(item)
  PROVE  RangeInv'
<1>1. RangeTypeOK /\ EndMeansAll
  BY DEF RangeInv
<1>2. /\ Return(item) /\ task = "merging" /\ task' = "draining" /\ loop_err' = TRUE
      /\ UNCHANGED <<query, source, batch, end, chan, client, got>>
  BY DEF TakeRecordFails, Return, Pop, clientVars
<1>3. /\ HeapHoldsNext' /\ MergedSoFar' /\ Conserved'
      /\ rest' \in [Sources -> SUBSET (DOMAIN Log)]
      /\ heap' \subseteq (DOMAIN Log) \X Sources
      /\ lost' \in BOOLEAN
      /\ out' \in Seq(DOMAIN Log)
      /\ last' \in DOMAIN Log
  BY <1>2, ReturnStep
<1>4. RangeTypeOK'
  BY <1>1, <1>2, <1>3 DEF RangeTypeOK
<1>5. Delivered'
  BY <1>2 DEF Delivered
<1>6. EndMeansAll'
  BY <1>1, <1>2, SelectionFixed DEF EndMeansAll
<1> QED
  BY <1>3, <1>4, <1>5, <1>6 DEF RangeInv

-----------------------------------------------------------------------------
\* Steps that leave the merge alone keep its part of the invariant.
LEMMA MergeUntouched ==
  ASSUME RangeInv, UNCHANGED <<query, source, iterVars>>, task # "idle"
  PROVE  /\ HeapHoldsNext' /\ MergedSoFar' /\ Conserved'
         /\ Rejected' = Rejected
<1>1. UNCHANGED <<query, source, rest, heap, last, out, lost>>
  BY DEF iterVars
<1>2. HeapHoldsNext'
  BY <1>1 DEF RangeInv, HeapHoldsNext
<1>3. MergedSoFar'
  BY <1>1 DEF RangeInv, MergedSoFar
<1>4. Pending' = Pending /\ Elements(out') = Elements(out)
  BY <1>1 DEF Pending
<1>5. Conserved' /\ Rejected' = Rejected
  BY <1>1, <1>4, SelectionFixed DEF RangeInv, Conserved
<1> QED
  BY <1>2, <1>3, <1>5

\* A batch is sent, or dropped when nobody receives.
LEMMA SendKeeps == ASSUME RangeInv, SendBatch PROVE RangeInv'
<1>1. RangeTypeOK /\ Delivered /\ EndMeansAll
  BY DEF RangeInv
<1>2. /\ task = "sending" /\ batch' = <<>>
      /\ UNCHANGED <<query, source, iterVars, loop_err, end, client, got>>
  BY DEF SendBatch
<1>3. HeapHoldsNext' /\ MergedSoFar' /\ Conserved' /\ Rejected' = Rejected
  BY <1>2, MergeUntouched
<1>4. UNCHANGED <<rest, heap, last, out, lost>>
  BY <1>2 DEF iterVars
<1>5. Elements(batch') = {} /\ batch' \in Seq(DOMAIN Log)
  BY <1>2 DEF Elements
<1>6. CASE client = "gone" /\ task' = "draining" /\ UNCHANGED chan
  <2>1. RangeTypeOK'
    BY <1>1, <1>2, <1>4, <1>5, <1>6 DEF RangeTypeOK
  <2>2. Delivered'
    BY <1>2, <1>6 DEF Delivered
  <2>3. EndMeansAll'
    BY <1>1, <1>2, <1>3, <1>4, <1>6 DEF EndMeansAll
  <2> QED
    BY <1>3, <2>1, <2>2, <2>3 DEF RangeInv
<1>7. CASE client # "gone" /\ task' = "merging" /\ chan' = Append(chan, batch)
  <2>1. /\ chan' \in Seq(Seq(DOMAIN Log))
        /\ InBatches(chan') = InBatches(chan) \cup Elements(batch)
    BY <1>1, <1>7, InBatchesAppend DEF RangeTypeOK
  <2>2. RangeTypeOK'
    BY <1>1, <1>2, <1>4, <1>5, <1>7, <2>1 DEF RangeTypeOK
  <2>3. Elements(got') = Elements(got) /\ Elements(out') = Elements(out)
    BY <1>2, <1>4
  <2>4. Delivered'
    BY <1>1, <1>2, <1>5, <2>1, <2>3 DEF Delivered
  <2>5. EndMeansAll'
    BY <1>1, <1>2, <1>3, <1>4, <1>7 DEF EndMeansAll
  <2> QED
    BY <1>3, <2>2, <2>4, <2>5 DEF RangeInv
<1> QED
  BY <1>6, <1>7 DEF SendBatch

\* The merge has returned everything.
LEMMA EndMergeKeeps == ASSUME RangeInv, EndMerge PROVE RangeInv'
<1>1. RangeTypeOK /\ Delivered /\ EndMeansAll
  BY DEF RangeInv
<1>2. /\ task = "merging" /\ task' = "draining" /\ heap = {}
      /\ UNCHANGED <<query, source, iterVars, batch, loop_err, end, chan, client, got>>
  BY DEF EndMerge, clientVars
<1>3. HeapHoldsNext' /\ MergedSoFar' /\ Conserved' /\ Rejected' = Rejected
  BY <1>2, MergeUntouched
<1>4. UNCHANGED <<rest, heap, last, out, lost>>
  BY <1>2 DEF iterVars
<1>5. RangeTypeOK' /\ Delivered'
  BY <1>1, <1>2, <1>4 DEF RangeTypeOK, Delivered
<1>6. EndMeansAll'
  BY <1>1, <1>2, <1>3, <1>4 DEF EndMeansAll
<1> QED
  BY <1>3, <1>5, <1>6 DEF RangeInv

\* The last batch is sent before the result.
LEMMA FinishKeeps == ASSUME RangeInv, FinishTask PROVE RangeInv'
<1>1. RangeTypeOK /\ Delivered /\ EndMeansAll
  BY DEF RangeInv
<1>2. /\ task = "draining" /\ task' = "done" /\ batch' = <<>>
      /\ end' = IF loop_err THEN "error" ELSE "ok"
      /\ UNCHANGED <<query, source, iterVars, loop_err, client, got>>
  BY DEF FinishTask
<1>3. HeapHoldsNext' /\ MergedSoFar' /\ Conserved' /\ Rejected' = Rejected
  BY <1>2, MergeUntouched
<1>4. UNCHANGED <<rest, heap, last, out, lost>>
  BY <1>2 DEF iterVars
<1>5. Elements(batch') = {} /\ batch' \in Seq(DOMAIN Log)
  BY <1>2 DEF Elements
<1>6. /\ chan' \in Seq(Seq(DOMAIN Log))
      /\ client = "gone" \/ InBatches(chan') = InBatches(chan) \cup Elements(batch)
  <2>1. CASE (batch = <<>> \/ client = "gone") /\ UNCHANGED chan
    <3>1. batch = <<>> => Elements(batch) = {}
      BY DEF Elements
    <3>2. InBatches(chan') = InBatches(chan)
      BY <2>1
    <3> QED
      BY <1>1, <2>1, <3>1, <3>2 DEF RangeTypeOK
  <2>2. CASE chan' = Append(chan, batch)
    BY <1>1, <2>2, InBatchesAppend DEF RangeTypeOK
  <2> QED
    BY <2>1, <2>2 DEF FinishTask
<1>7. RangeTypeOK'
  BY <1>1, <1>2, <1>4, <1>5, <1>6 DEF RangeTypeOK
<1>8. Elements(got') = Elements(got) /\ Elements(out') = Elements(out)
  BY <1>2, <1>4
<1>9. Delivered'
  BY <1>1, <1>2, <1>5, <1>6, <1>8 DEF Delivered
<1>10. client # "ok"
  BY <1>1, <1>2 DEF EndMeansAll
<1>11. EndMeansAll'
  BY <1>1, <1>2, <1>3, <1>4, <1>10 DEF EndMeansAll, RangeTypeOK
<1> QED
  BY <1>3, <1>7, <1>9, <1>11 DEF RangeInv

\* The connection handler passes a batch on.
LEMMA ForwardKeeps == ASSUME RangeInv, ConnForward PROVE RangeInv'
<1>1. RangeTypeOK /\ Delivered /\ EndMeansAll
  BY DEF RangeInv
<1>2. /\ client = "waiting" /\ chan # <<>>
      /\ got' = got \o Head(chan) /\ chan' = Tail(chan)
      /\ UNCHANGED <<query, source, task, iterVars, batch, loop_err, end, client>>
  BY DEF ConnForward
<1>3. task # "idle"
  BY <1>1, <1>2 DEF EndMeansAll
<1>4. HeapHoldsNext' /\ MergedSoFar' /\ Conserved' /\ Rejected' = Rejected
  BY <1>2, <1>3, MergeUntouched
<1>5. UNCHANGED <<rest, heap, last, out, lost>>
  BY <1>2 DEF iterVars
<1>6. /\ Head(chan) \in Seq(DOMAIN Log)
      /\ chan' \in Seq(Seq(DOMAIN Log))
      /\ InBatches(chan) = Elements(Head(chan)) \cup InBatches(chan')
  BY <1>1, <1>2, InBatchesTail DEF RangeTypeOK
<1>7. got' \in Seq(DOMAIN Log) /\ Elements(got') = Elements(got) \cup Elements(Head(chan))
  BY <1>1, <1>2, <1>6, ElementsConcat DEF RangeTypeOK
<1>8. RangeTypeOK'
  BY <1>1, <1>2, <1>5, <1>6, <1>7 DEF RangeTypeOK
<1>9. Elements(batch') = Elements(batch) /\ Elements(out') = Elements(out)
  BY <1>2, <1>5
<1>10. Delivered'
  BY <1>1, <1>2, <1>6, <1>7, <1>9 DEF Delivered
<1>11. EndMeansAll'
  BY <1>1, <1>2, <1>4, <1>5 DEF EndMeansAll
<1> QED
  BY <1>4, <1>8, <1>10, <1>11 DEF RangeInv

\* RangeEnd or Error is sent once the channel is closed and empty.
LEMMA ReplyKeeps == ASSUME RangeInv, ConnReply PROVE RangeInv'
<1>1. RangeTypeOK /\ Delivered /\ EndMeansAll
  BY DEF RangeInv
<1>2. /\ client = "waiting" /\ task = "done" /\ chan = <<>>
      /\ client' = IF end = "ok" THEN "ok" ELSE "error"
      /\ UNCHANGED <<query, source, task, iterVars, batch, loop_err, end, chan, got>>
  BY DEF ConnReply, ClientRange
<1>3. HeapHoldsNext' /\ MergedSoFar' /\ Conserved' /\ Rejected' = Rejected
  BY <1>2, MergeUntouched
<1>4. UNCHANGED <<rest, heap, last, out, lost>>
  BY <1>2 DEF iterVars
<1>5. end \in {"ok", "error"}
  BY <1>1, <1>2 DEF RangeTypeOK, EndMeansAll
<1>6. RangeTypeOK' /\ Delivered'
  BY <1>1, <1>2, <1>4, <1>5 DEF RangeTypeOK, Delivered
<1>7. EndMeansAll'
  BY <1>1, <1>2, <1>3, <1>4, <1>5 DEF EndMeansAll
<1> QED
  BY <1>3, <1>6, <1>7 DEF RangeInv

\* Nothing is promised to a client that is gone.
LEMMA ConnFailsKeeps == ASSUME RangeInv, ConnFails PROVE RangeInv'
<1>1. RangeTypeOK /\ EndMeansAll
  BY DEF RangeInv
<1>2. /\ client' = "gone" /\ chan' = <<>>
      /\ UNCHANGED <<query, source, task, iterVars, batch, loop_err, end, got>>
  BY DEF ConnFails
<1>3. HeapHoldsNext' /\ MergedSoFar' /\ Conserved' /\ Rejected' = Rejected
  <2>1. task # "idle"
    BY <1>1 DEF ConnFails, EndMeansAll
  <2> QED
    BY <1>2, <2>1, MergeUntouched
<1>4. UNCHANGED <<rest, heap, last, out, lost>>
  BY <1>2 DEF iterVars
<1>5. chan' \in Seq(Seq(DOMAIN Log))
  BY <1>2
<1>6. RangeTypeOK' /\ Delivered'
  BY <1>1, <1>2, <1>4, <1>5 DEF RangeTypeOK, Delivered
<1>7. EndMeansAll'
  BY <1>1, <1>2, <1>3, <1>4 DEF EndMeansAll
<1> QED
  BY <1>3, <1>6, <1>7 DEF RangeInv

\* Every step of the query preserves the invariant.
LEMMA RangeNextInv == RangeInv /\ [RangeNext]_rangeVars => RangeInv'
<1> SUFFICES ASSUME RangeInv, [RangeNext]_rangeVars PROVE RangeInv'
  OBVIOUS
<1>1. CASE RejectRange
  BY <1>1, RejectKeeps
<1>2. CASE StartRange
  BY <1>2, StartKeeps
<1>3. CASE \E item \in heap : SkipDuplicate(item)
  BY <1>3, SkipKeeps
<1>4. CASE \E item \in heap : TakeRecord(item)
  BY <1>4, TakeKeeps
<1>5. CASE \E item \in heap : TakeRecordFails(item)
  BY <1>5, TakeFailsKeeps
<1>6. CASE SendBatch
  BY <1>6, SendKeeps
<1>7. CASE EndMerge
  BY <1>7, EndMergeKeeps
<1>8. CASE FinishTask
  BY <1>8, FinishKeeps
<1>9. CASE ConnForward
  BY <1>9, ForwardKeeps
<1>10. CASE ConnReply
  BY <1>10, ReplyKeeps
<1>11. CASE ConnFails
  BY <1>11, ConnFailsKeeps
<1>12. CASE UNCHANGED rangeVars
  <2>1. UNCHANGED <<query, source, task, rest, heap, last, out, lost, batch, loop_err,
                    end, chan, client, got>>
    BY <1>12 DEF rangeVars, iterVars, clientVars
  <2>2. Pending' = Pending /\ AllSelected' = AllSelected /\ Rejected' = Rejected
    BY <2>1, SelectionFixed DEF Pending
  <2>3. RangeTypeOK' /\ HeapHoldsNext' /\ MergedSoFar'
    BY <2>1 DEF RangeInv, RangeTypeOK, HeapHoldsNext, MergedSoFar
  <2>4. Conserved' /\ Delivered' /\ EndMeansAll'
    BY <2>1, <2>2 DEF RangeInv, Conserved, Delivered, EndMeansAll
  <2> QED
    BY <2>3, <2>4 DEF RangeInv
<1> QED
  BY <1>1, <1>2, <1>3, <1>4, <1>5, <1>6, <1>7, <1>8, <1>9, <1>10, <1>11, <1>12
     DEF RangeNext

\* The merge of Engine::range and the delivery of handle_range and
\* handle_conn keep every selected record, in the order of Record::cmp.
THEOREM RangeInvariance == RangeSpec => []RangeInv
BY RangeInitInv, RangeNextInv, PTL DEF RangeSpec

\* What both kinds of iterators select is what the query asks for.
LEMMA SelectedIsWanted ==
  ASSUME RangeTypeOK, ~Rejected
  PROVE  AllSelected = Wanted
<1>1. query \in Queries /\ 0 <= query.start /\ query.start <= query.end
  <2>1. /\ query \in Queries
        /\ query.start \in -IntBound .. (IntBound - 1)
        /\ query.end \in -IntBound .. (IntBound - 1)
        /\ IntBound \in Nat
    BY QueryAssumption DEF RangeTypeOK
  <2> QED
    BY <2>1 DEF Rejected
<1>2. \A s \in Sources : Selected(s) = {r \in source[s] : Matches(r, query)}
  <2> TAKE s \in Sources
  <2>1. source[s] \in SUBSET (DOMAIN Log)
    BY DEF RangeTypeOK
  <2> QED
    BY <1>1, <2>1, SelectExact DEF Selected
<1>3. AllSelected \subseteq Wanted
  BY <1>2 DEF AllSelected, Wanted
<1>4. Wanted \subseteq AllSelected
  BY <1>2 DEF AllSelected, Wanted
<1> QED
  BY <1>3, <1>4

\* Client::range returns exactly the records the query asked for, whatever the
\* placement of the records, the batch size and the capacity of the channel,
\* provided that every SSTable could be read.
THEOREM RangeReturnsExactly == RangeSpec => []RangeExact
<1>1. RangeInv => RangeExact
  <2> SUFFICES ASSUME RangeInv, client = "ok", ~lost
               PROVE  Elements(got) = Wanted
    BY DEF RangeExact
  <2>1. /\ task = "done" /\ ~Rejected /\ ~loop_err
        /\ chan = <<>> /\ batch = <<>> /\ heap = {}
    BY DEF RangeInv, EndMeansAll
  <2>2. \A s \in Sources : rest[s] = {}
    BY <2>1 DEF RangeInv, HeapHoldsNext
  <2>3. Pending = {}
    BY <2>1, <2>2 DEF Pending
  <2>4. InBatches(chan) = {} /\ Elements(batch) = {}
    BY <2>1 DEF InBatches, Elements
  <2>5. Elements(got) = Elements(out)
    BY <2>1, <2>4 DEF RangeInv, Delivered
  <2>6. Elements(out) = AllSelected
    BY <2>1, <2>3 DEF RangeInv, Conserved
  <2>7. AllSelected = Wanted
    BY <2>1, SelectedIsWanted DEF RangeInv
  <2> QED
    BY <2>5, <2>6, <2>7
<1> QED
  BY <1>1, RangeInvariance, PTL

-----------------------------------------------------------------------------
(* The order of the answer.                                                  *)

\* A sequence stays in order when something greater joins its end.
LEMMA IncreasingAppend ==
  ASSUME NEW s \in Seq(Nat), NEW e \in Nat, Increasing(s), \A x \in Elements(s) : x < e
  PROVE  Increasing(Append(s, e))
<1>1. /\ Len(s) \in Nat /\ DOMAIN s = 1 .. Len(s)
      /\ DOMAIN Append(s, e) = 1 .. (Len(s) + 1)
      /\ Append(s, e)[Len(s) + 1] = e
      /\ \A i \in 1 .. Len(s) : Append(s, e)[i] = s[i]
  OBVIOUS
<1>2. \A i \in 1 .. Len(s) : s[i] < e
  BY <1>1 DEF Elements
<1> QED
  BY <1>1, <1>2 DEF Increasing

LEMMA IncreasingConcat ==
  ASSUME NEW s \in Seq(Nat), NEW t \in Seq(Nat), Increasing(s), Increasing(t), Before(s, t)
  PROVE  Increasing(s \o t)
<1>1. /\ Len(s) \in Nat /\ DOMAIN s = 1 .. Len(s)
      /\ Len(t) \in Nat /\ DOMAIN t = 1 .. Len(t)
      /\ DOMAIN (s \o t) = 1 .. (Len(s) + Len(t))
      /\ \A i \in 1 .. (Len(s) + Len(t)) :
           (s \o t)[i] = IF i <= Len(s) THEN s[i] ELSE t[i - Len(s)]
  OBVIOUS
<1>2. \A i \in DOMAIN s, j \in DOMAIN t : s[i] < t[j]
  BY DEF Before, Elements
<1>3. /\ \A i, j \in DOMAIN s : i < j => s[i] < s[j]
      /\ \A i, j \in DOMAIN t : i < j => t[i] < t[j]
  BY DEF Increasing
<1> SUFFICES ASSUME NEW i \in 1 .. (Len(s) + Len(t)), NEW j \in 1 .. (Len(s) + Len(t)), i < j
             PROVE  (s \o t)[i] < (s \o t)[j]
  BY <1>1 DEF Increasing
<1>4. CASE j <= Len(s)
  <2>1. i \in DOMAIN s /\ j \in DOMAIN s /\ i <= Len(s)
    BY <1>1, <1>4
  <2>2. (s \o t)[i] = s[i] /\ (s \o t)[j] = s[j]
    BY <1>1, <1>4, <2>1
  <2> QED
    BY <1>3, <2>1, <2>2
<1>5. CASE ~(i <= Len(s))
  <2>1. /\ i - Len(s) \in DOMAIN t /\ j - Len(s) \in DOMAIN t
        /\ i - Len(s) < j - Len(s) /\ ~(j <= Len(s))
    BY <1>1, <1>5
  <2>2. (s \o t)[i] = t[i - Len(s)] /\ (s \o t)[j] = t[j - Len(s)]
    BY <1>1, <1>5, <2>1
  <2> QED
    BY <1>3, <2>1, <2>2
<1>6. CASE i <= Len(s) /\ ~(j <= Len(s))
  <2>1. i \in DOMAIN s /\ j - Len(s) \in DOMAIN t
    BY <1>1, <1>6
  <2>2. (s \o t)[i] = s[i] /\ (s \o t)[j] = t[j - Len(s)]
    BY <1>1, <1>6
  <2> QED
    BY <1>2, <2>1, <2>2
<1> QED
  BY <1>1, <1>4, <1>5, <1>6

\* Nothing has been returned at first.
LEMMA InitOrdered == RangeInit => DeliveryOrdered
BY DEF RangeInit, DeliveryOrdered, Increasing, Before, Elements, InBatches

\* A batch leaves handle_range's task: it joins the channel or is dropped.
LEMMA BatchLeavesOrdered ==
  ASSUME RangeInv, DeliveryOrdered, batch' = <<>>, UNCHANGED <<got, last>>,
         chan' = chan \/ chan' = Append(chan, batch)
  PROVE  DeliveryOrdered'
<1>1. /\ chan \in Seq(Seq(DOMAIN Log)) /\ batch \in Seq(DOMAIN Log)
      /\ Elements(batch') = {} /\ Increasing(batch')
  BY DEF RangeInv, RangeTypeOK, Elements, Increasing
<1>2. CASE chan' = chan
  BY <1>1, <1>2 DEF DeliveryOrdered, Before
<1>3. CASE chan' = Append(chan, batch)
  <2>1. /\ Len(chan) \in Nat /\ DOMAIN chan = 1 .. Len(chan)
        /\ DOMAIN chan' = 1 .. (Len(chan) + 1)
        /\ chan'[Len(chan) + 1] = batch
        /\ \A i \in 1 .. Len(chan) : chan'[i] = chan[i]
    BY <1>1, <1>3
  <2>2. InBatches(chan') = InBatches(chan) \cup Elements(batch)
    BY <1>1, <1>3, InBatchesAppend
  <2>3. \A i \in DOMAIN chan' : Increasing(chan'[i]) /\ Before(got', chan'[i])
    <3>1. \A i \in 1 .. Len(chan) : Increasing(chan[i]) /\ Before(got, chan[i])
      BY <2>1 DEF DeliveryOrdered
    <3>2. Increasing(batch) /\ Before(got, batch)
      BY DEF DeliveryOrdered
    <3> QED
      BY <2>1, <3>1, <3>2
  <2>4. ASSUME NEW i \in DOMAIN chan', NEW j \in DOMAIN chan', i < j
        PROVE  Before(chan'[i], chan'[j])
    <3>1. i \in DOMAIN chan /\ chan'[i] = chan[i]
      BY <2>1, <2>4
    <3>2. CASE j \in DOMAIN chan
      BY <2>1, <2>4, <3>1, <3>2 DEF DeliveryOrdered
    <3>3. CASE j = Len(chan) + 1
      BY <2>1, <3>1, <3>3 DEF DeliveryOrdered
    <3> QED
      BY <2>1, <3>2, <3>3
  <2>5. /\ Before(got', batch') /\ Increasing(got')
        /\ \A i \in DOMAIN chan' : Before(chan'[i], batch')
    BY <1>1 DEF DeliveryOrdered, Before
  <2>6. \A x \in Elements(got') \cup InBatches(chan') \cup Elements(batch') : x <= last'
    BY <1>1, <2>2 DEF DeliveryOrdered
  <2> QED
    BY <1>1, <2>3, <2>4, <2>5, <2>6 DEF DeliveryOrdered
<1> QED
  BY <1>2, <1>3

\* A record the merge returns is above all that is on its way.
LEMMA TakeOrdered ==
  ASSUME RangeInv, DeliveryOrdered, NEW item \in heap, Return(item),
         UNCHANGED <<chan, got>>, batch' = batch \/ batch' = Append(batch, item[1])
  PROVE  DeliveryOrdered'
<1>1. /\ DOMAIN Log \subseteq Nat \ {0}
      /\ item[1] \in DOMAIN Log /\ last \in Nat /\ last' = item[1] /\ last < item[1]
      /\ batch \in Seq(DOMAIN Log) /\ got \in Seq(DOMAIN Log) /\ chan \in Seq(Seq(DOMAIN Log))
  <2>1. /\ DOMAIN Log \subseteq Nat \ {0} /\ item[1] \in DOMAIN Log
        /\ last \in (DOMAIN Log) \cup {NoRecord}
        /\ last <= item[1] /\ item[1] # last /\ last' = item[1]
    BY RecordsNat DEF RangeInv, RangeTypeOK, MergedSoFar, Return
  <2> QED
    BY <2>1 DEF RangeInv, RangeTypeOK, NoRecord
<1>2. \A x \in Elements(got) \cup InBatches(chan) \cup Elements(batch) : x \in Nat /\ x < item[1]
  <2>1. Elements(got) \cup InBatches(chan) \cup Elements(batch) \subseteq DOMAIN Log
    BY <1>1 DEF Elements, InBatches
  <2> QED
    BY <1>1, <2>1 DEF DeliveryOrdered
<1>3. CASE batch' = batch
  <2>1. \A x \in Elements(got) \cup InBatches(chan) \cup Elements(batch) : x <= last'
    BY <1>1, <1>2
  <2> QED
    BY <1>3, <2>1 DEF DeliveryOrdered
<1>4. CASE batch' = Append(batch, item[1])
  <2>1. Elements(batch') = Elements(batch) \cup {item[1]}
    BY <1>1, <1>4, ElementsAppend
  <2>2. Increasing(batch')
    <3>1. batch \in Seq(Nat) /\ item[1] \in Nat
      BY <1>1
    <3> QED
      BY <1>2, <1>4, <3>1, IncreasingAppend DEF DeliveryOrdered
  <2>3. Before(got', batch')
    BY <1>2, <2>1 DEF DeliveryOrdered, Before
  <2>4. \A i \in DOMAIN chan : Before(chan[i], batch')
    <3>1. \A i \in DOMAIN chan : Elements(chan[i]) \subseteq InBatches(chan)
      BY DEF InBatches
    <3> QED
      BY <1>2, <2>1, <3>1 DEF DeliveryOrdered, Before
  <2>5. \A x \in Elements(got') \cup InBatches(chan') \cup Elements(batch') : x <= last'
    BY <1>1, <1>2, <2>1
  <2> QED
    BY <2>2, <2>3, <2>4, <2>5 DEF DeliveryOrdered
<1> QED
  BY <1>3, <1>4

\* The connection passes the first batch of the channel on.
LEMMA ForwardOrdered ==
  ASSUME RangeInv, DeliveryOrdered, ConnForward
  PROVE  DeliveryOrdered'
<1>1. /\ chan \in Seq(Seq(DOMAIN Log)) /\ chan # <<>> /\ got \in Seq(DOMAIN Log)
      /\ got' = got \o Head(chan) /\ chan' = Tail(chan)
      /\ UNCHANGED <<batch, last>>
  BY DEF ConnForward, RangeInv, RangeTypeOK, iterVars
<1>2. /\ Len(chan) \in Nat /\ 1 \in DOMAIN chan /\ DOMAIN chan = 1 .. Len(chan)
      /\ DOMAIN chan' = 1 .. (Len(chan) - 1) /\ Head(chan) = chan[1]
      /\ \A i \in 1 .. (Len(chan) - 1) : chan'[i] = chan[i + 1]
  BY <1>1
<1>3. /\ Head(chan) \in Seq(DOMAIN Log)
      /\ InBatches(chan) = Elements(Head(chan)) \cup InBatches(chan')
      /\ Elements(got') = Elements(got) \cup Elements(Head(chan))
  BY <1>1, InBatchesTail, ElementsConcat
<1>4. Increasing(got')
  <2>1. got \in Seq(Nat) /\ Head(chan) \in Seq(Nat)
    BY <1>1, <1>3, RecordsNat
  <2> QED
    BY <1>1, <1>2, <2>1, IncreasingConcat DEF DeliveryOrdered
<1>5. \A i \in DOMAIN chan' : i + 1 \in DOMAIN chan /\ 1 < i + 1 /\ chan'[i] = chan[i + 1]
  BY <1>2
<1>6. \A i \in DOMAIN chan' :
        Increasing(chan'[i]) /\ Before(got', chan'[i]) /\ Before(chan'[i], batch')
  <2> SUFFICES ASSUME NEW i \in DOMAIN chan'
               PROVE  Increasing(chan'[i]) /\ Before(got', chan'[i]) /\ Before(chan'[i], batch')
    OBVIOUS
  <2>1. /\ Increasing(chan[i + 1]) /\ Before(got, chan[i + 1])
        /\ Before(chan[i + 1], batch) /\ Before(chan[1], chan[i + 1])
    BY <1>2, <1>5 DEF DeliveryOrdered
  <2> QED
    BY <1>1, <1>2, <1>3, <1>5, <2>1 DEF Before
<1>7. ASSUME NEW i \in DOMAIN chan', NEW j \in DOMAIN chan', i < j
      PROVE  Before(chan'[i], chan'[j])
  <2>1. i + 1 \in DOMAIN chan /\ j + 1 \in DOMAIN chan /\ i + 1 < j + 1
    BY <1>2, <1>5, <1>7
  <2> QED
    BY <1>5, <2>1 DEF DeliveryOrdered
<1>8. Before(got', batch') /\ Increasing(batch')
  BY <1>1, <1>2, <1>3 DEF DeliveryOrdered, Before
<1>9. \A x \in Elements(got') \cup InBatches(chan') \cup Elements(batch') : x <= last'
  BY <1>1, <1>3 DEF DeliveryOrdered
<1> QED
  BY <1>4, <1>6, <1>7, <1>8, <1>9 DEF DeliveryOrdered

\* The connection is gone, and with it the channel.
LEMMA ConnFailsOrdered ==
  ASSUME DeliveryOrdered, chan' = <<>>, UNCHANGED <<got, batch, last>>
  PROVE  DeliveryOrdered'
<1>1. DOMAIN chan' = {} /\ InBatches(chan') = {}
  BY DEF InBatches
<1> QED
  BY <1>1 DEF DeliveryOrdered

\* Every step of the query keeps the answer in order.
LEMMA NextOrdered ==
  ASSUME RangeInv, DeliveryOrdered, [RangeNext]_rangeVars
  PROVE  DeliveryOrdered'
<1>1. CASE \E item \in heap : TakeRecord(item) \/ TakeRecordFails(item)
  BY <1>1, TakeOrdered DEF TakeRecord, TakeRecordFails, clientVars
<1>2. CASE SendBatch \/ FinishTask
  BY <1>2, BatchLeavesOrdered DEF SendBatch, FinishTask, iterVars
<1>3. CASE ConnForward
  BY <1>3, ForwardOrdered
<1>4. CASE ConnFails
  BY <1>4, ConnFailsOrdered DEF ConnFails, iterVars
<1>5. CASE \/ RejectRange \/ StartRange \/ EndMerge \/ ConnReply \/ UNCHANGED rangeVars
           \/ \E item \in heap : SkipDuplicate(item)
  <2>1. UNCHANGED <<got, chan, batch, last>>
    BY <1>5 DEF RejectRange, StartRange, EndMerge, ConnReply, SkipDuplicate,
       rangeVars, iterVars, clientVars
  <2> QED
    BY <2>1 DEF DeliveryOrdered
<1> QED
  BY <1>1, <1>2, <1>3, <1>4, <1>5 DEF RangeNext

\* Client::range collects the records in the order of Record::cmp and none of
\* them twice, whatever the merge's sources share, however the answer is cut
\* into batches and wherever it is cut short by a table that cannot be read,
\* a record that does not decode or a connection that fails.
THEOREM RangeInOrder == RangeSpec => []RangeSorted
<1>1. DeliveryOrdered => RangeSorted
  BY DEF DeliveryOrdered, RangeSorted
<1>2. RangeInv /\ DeliveryOrdered /\ [RangeNext]_rangeVars => DeliveryOrdered'
  BY NextOrdered
<1> QED
  BY <1>1, <1>2, InitOrdered, RangeInvariance, PTL DEF RangeSpec
=============================================================================
