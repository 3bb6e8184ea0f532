----------------------------- MODULE ConnProofs -----------------------------
(***************************************************************************)
(* Proofs about the connections of logregator-core, for any number of      *)
(* clients, any requests and any faults: the gauge of open connections is  *)
(* off by one for every connection ever accepted, every handler decodes    *)
(* what its client encoded and every client what its handler wrote, an     *)
(* insert that is acknowledged is applied, and the frames that are counted *)
(* are those that are written.                                             *)
(***************************************************************************)
EXTENDS ConnProps, FiniteSetTheorems, WellFoundedInduction, TLAPS

-----------------------------------------------------------------------------
(* The wire protocol: the decoders read what the encoders write.             *)

\* A set of numbers has a least one.
LEMMA LeastNumber ==
  ASSUME NEW T \in SUBSET Nat, T # {}
  PROVE  \E c \in T : \A d \in T : c <= d
<1>1. PICK c \in T : \A d \in T : <<d, c>> \notin OpToRel(<, Nat)
  BY NatLessThanWellFounded, WFMin, Zenon
<1>2. \A d \in T : ~(d < c)
  BY <1>1 DEF OpToRel
<1> QED
  BY <1>2

LEMMA ConcatFacts ==
  ASSUME NEW S, NEW s \in Seq(S), NEW t \in Seq(S)
  PROVE  /\ s \o t \in Seq(S) /\ Len(s \o t) = Len(s) + Len(t)
         /\ DOMAIN (s \o t) = 1 .. (Len(s) + Len(t))
         /\ \A i \in 1 .. Len(s) : (s \o t)[i] = s[i]
         /\ \A i \in 1 .. Len(t) : (s \o t)[Len(s) + i] = t[i]
<1>1. Len(s) \in Nat /\ Len(t) \in Nat
  OBVIOUS
<1>2. /\ s \o t \in Seq(S) /\ Len(s \o t) = Len(s) + Len(t)
      /\ DOMAIN (s \o t) = 1 .. (Len(s) + Len(t))
      /\ \A i \in 1 .. Len(s) : (s \o t)[i] = s[i]
  OBVIOUS
<1>3. ASSUME NEW i \in 1 .. Len(t) PROVE (s \o t)[Len(s) + i] = t[i]
  OBVIOUS
<1> QED
  BY <1>2, <1>3

-----------------------------------------------------------------------------
\* A number below the bound keeps its value as an u32.
LEMMA FitsU32 ==
  ASSUME NEW n \in Nat, n < U32Bound
  PROVE  u32(n) = [w |-> 4, v |-> n]
<1>1. n % U32Bound = n
  BY ProtoAssumption
<1> QED
  BY <1>1 DEF u32

LEMMA TextFits ==
  ASSUME NEW s, IsText(s)
  PROVE  str_len(s) = [w |-> 4, v |-> StrLen(s)]
BY FitsU32 DEF IsText, str_len

(* Layout: where the fields of a frame begin.                                *)

\* A sequence of n fields.
Fields(fields, n) ==
  /\ n \in Nat /\ Len(fields) = n /\ DOMAIN fields = 1 .. n
  /\ \A i \in 1 .. n : fields[i].w \in Nat

\* The recursion of FieldEnds has a solution.
LEMMA EndsExist ==
  ASSUME NEW fields, NEW n, Fields(fields, n)
  PROVE  \E f : f = [i \in 0 .. n |-> IF i = 0 THEN 0 ELSE f[i - 1] + fields[i].w]
<1> DEFINE Solved(m) ==
             \E f : f = [i \in 0 .. m |-> IF i = 0 THEN 0 ELSE f[i - 1] + fields[i].w]
           T == {m \in 0 .. n : ~Solved(m)}
<1>1. n \in Nat
  BY DEF Fields
<1>2. SUFFICES ASSUME T # {} PROVE FALSE
  BY <1>1
<1>3. PICK c \in T : \A d \in T : c <= d
  <2>1. T \in SUBSET Nat
    BY <1>1
  <2> HIDE DEF T
  <2> QED
    BY <1>2, <2>1, LeastNumber
<1>4. CASE c = 0
  <2> DEFINE f == [i \in 0 .. 0 |-> 0]
  <2>1. f = [i \in 0 .. 0 |-> IF i = 0 THEN 0 ELSE f[i - 1] + fields[i].w]
    OBVIOUS
  <2> QED
    BY <1>3, <1>4, <2>1
<1>5. CASE c # 0
  <2>1. c \in Nat /\ c - 1 \in 0 .. n /\ c - 1 \in Nat
    BY <1>1, <1>3, <1>5
  <2>2. Solved(c - 1)
    BY <1>3, <2>1
  <2>3. PICK g : g = [i \in 0 .. (c - 1) |-> IF i = 0 THEN 0 ELSE g[i - 1] + fields[i].w]
    BY <2>2
  <2> DEFINE f == [i \in 0 .. c |-> IF i = c THEN g[c - 1] + fields[c].w ELSE g[i]]
  <2>4. \A i \in 0 .. (c - 1) : g[i] = IF i = 0 THEN 0 ELSE g[i - 1] + fields[i].w
    BY <2>3
  <2>5. \A i \in 0 .. c : f[i] = IF i = 0 THEN 0 ELSE f[i - 1] + fields[i].w
    BY <1>5, <2>1, <2>4
  <2>6. f = [i \in 0 .. c |-> IF i = 0 THEN 0 ELSE f[i - 1] + fields[i].w]
    BY <2>5
  <2> QED
    BY <1>3, <2>6
<1> QED
  BY <1>4, <1>5

LEMMA EndsStep ==
  ASSUME NEW fields, NEW n, Fields(fields, n)
  PROVE  /\ FieldEnds(fields)[0] = 0
         /\ \A i \in 1 .. n : FieldEnds(fields)[i] = FieldEnds(fields)[i - 1] + fields[i].w
         /\ \A i \in 0 .. n : FieldEnds(fields)[i] \in Nat
         /\ \A i, j \in 0 .. n : i <= j => FieldEnds(fields)[i] <= FieldEnds(fields)[j]
<1>0. \E g : g = [i \in 0 .. n |-> IF i = 0 THEN 0 ELSE g[i - 1] + fields[i].w]
  BY EndsExist, SMTT(30)
<1> DEFINE e == FieldEnds(fields)
<1>1. n \in Nat /\ Len(fields) = n /\ \A i \in 1 .. n : fields[i].w \in Nat
  BY DEF Fields
<1> DEFINE f == CHOOSE f : f = [i \in 0 .. Len(fields) |->
                                  IF i = 0 THEN 0 ELSE f[i - 1] + fields[i].w]
<1>2. /\ f = [i \in 0 .. n |-> IF i = 0 THEN 0 ELSE f[i - 1] + fields[i].w]
      /\ e = [i \in 0 .. n |-> f[i]]
  <2>1. \E g : g = [i \in 0 .. Len(fields) |-> IF i = 0 THEN 0 ELSE g[i - 1] + fields[i].w]
    BY <1>0, <1>1, Zenon
  <2>2. f = [i \in 0 .. Len(fields) |-> IF i = 0 THEN 0 ELSE f[i - 1] + fields[i].w]
    BY <2>1, Zenon
  <2>3. e = [i \in 0 .. Len(fields) |-> f[i]]
    BY Zenon DEF FieldEnds
  <2> HIDE DEF f, e
  <2> QED
    BY <1>1, <2>2, <2>3
<1> HIDE DEF e, f
<1>3. e[0] = 0 /\ \A i \in 1 .. n : e[i] = e[i - 1] + fields[i].w
  BY <1>1, <1>2
<1>4. \A i \in 0 .. n : e[i] \in Nat
  <2> DEFINE T == {i \in 0 .. n : e[i] \notin Nat}
  <2> SUFFICES ASSUME T # {} PROVE FALSE
    OBVIOUS
  <2>1. PICK c \in T : \A d \in T : c <= d
    <3>1. T \in SUBSET Nat
      BY <1>1
    <3> HIDE DEF T
    <3> QED
      BY <3>1, LeastNumber
  <2>2. c # 0 /\ c \in 1 .. n /\ c - 1 \in 0 .. n /\ c - 1 \notin T
    BY <1>1, <1>3, <2>1
  <2>3. e[c - 1] \in Nat /\ e[c] = e[c - 1] + fields[c].w /\ fields[c].w \in Nat
    BY <1>1, <1>3, <2>2
  <2> QED
    BY <2>1, <2>3
<1>5. ASSUME NEW i \in 0 .. n PROVE \A j \in 0 .. n : i <= j => e[i] <= e[j]
  <2> DEFINE T == {j \in 0 .. n : i <= j /\ ~(e[i] <= e[j])}
  <2> SUFFICES ASSUME T # {} PROVE FALSE
    OBVIOUS
  <2>1. PICK c \in T : \A d \in T : c <= d
    <3>1. T \in SUBSET Nat
      BY <1>1
    <3> HIDE DEF T
    <3> QED
      BY <3>1, LeastNumber
  <2>2. c # i /\ c \in 1 .. n /\ c - 1 \in 0 .. n /\ c - 1 \notin T /\ i <= c - 1
    BY <1>1, <1>4, <2>1
  <2>3. e[i] <= e[c - 1] /\ e[c] = e[c - 1] + fields[c].w /\ fields[c].w \in Nat
    BY <1>1, <1>3, <2>2
  <2> QED
    BY <1>4, <2>1, <2>2, <2>3
<1> QED
  BY <1>3, <1>4, <1>5 DEF e

\* A field of some width is found where it begins, and nothing else is there.
LEMMA LayoutFacts ==
  ASSUME NEW fields, NEW n, Fields(fields, n)
  PROVE  /\ Layout(fields).size = FieldEnds(fields)[n]
         /\ \A i \in 1 .. n : fields[i].w > 0 =>
              /\ FieldEnds(fields)[i - 1] \in DOMAIN Layout(fields).at
              /\ Layout(fields).at[FieldEnds(fields)[i - 1]] = fields[i]
         /\ \A o \in DOMAIN Layout(fields).at : Layout(fields).at[o].w > 0
<1> DEFINE e == FieldEnds(fields)
           at == FieldsAt(fields, e)
           some == {k \in DOMAIN fields : fields[k].w > 0}
<1>1. n \in Nat /\ Len(fields) = n /\ DOMAIN fields = 1 .. n /\ \A i \in 1 .. n : fields[i].w \in Nat
  BY DEF Fields
<1>2. /\ e[0] = 0 /\ \A i \in 1 .. n : e[i] = e[i - 1] + fields[i].w
      /\ \A i \in 0 .. n : e[i] \in Nat
      /\ \A i, j \in 0 .. n : i <= j => e[i] <= e[j]
  BY EndsStep
<1>3. Layout(fields) = [size |-> e[n], at |-> at]
  BY <1>1 DEF Layout
<1> HIDE DEF e
<1>4. ASSUME NEW i \in some, NEW j \in some, e[i - 1] = e[j - 1]
      PROVE  i = j
  <2>1. ASSUME NEW a \in some, NEW b \in some, a < b PROVE e[a - 1] # e[b - 1]
    <3>1. a \in 1 .. n /\ b - 1 \in 0 .. n /\ a <= b - 1 /\ a \in 0 .. n /\ a - 1 \in 0 .. n
      BY <1>1, <2>1
    <3>2. e[a] <= e[b - 1] /\ e[a] = e[a - 1] + fields[a].w /\ e[a - 1] \in Nat
          /\ e[b - 1] \in Nat /\ fields[a].w \in Nat
      BY <1>1, <1>2, <3>1
    <3> QED
      BY <2>1, <3>2
  <2>2. i \in Nat /\ j \in Nat
    BY <1>1
  <2>3. i = j \/ i < j \/ j < i
    BY <2>2
  <2> QED
    BY <1>4, <2>1, <2>3
<1>5. /\ DOMAIN at = {e[i - 1] : i \in some}
      /\ \A o \in {e[i - 1] : i \in some} :
           at[o] = CHOOSE f \in {fields[i] : i \in {k \in DOMAIN fields :
                                                    fields[k].w > 0 /\ e[k - 1] = o}} : TRUE
  BY DEF FieldsAt
<1>6. ASSUME NEW i \in some PROVE e[i - 1] \in DOMAIN at /\ at[e[i - 1]] = fields[i]
  <2> DEFINE here == {k \in DOMAIN fields : fields[k].w > 0 /\ e[k - 1] = e[i - 1]}
             found == {fields[k] : k \in here}
  <2>1. e[i - 1] \in {e[k - 1] : k \in some}
    OBVIOUS
  <2>2. here = {i}
    BY <1>4
  <2>3. found = {fields[i]}
    BY <2>2
  <2>4. at[e[i - 1]] = CHOOSE f \in found : TRUE
    BY <1>5, <2>1
  <2>5. at[e[i - 1]] \in found
    <3> HIDE DEF found, at
    <3> QED
      BY <2>3, <2>4
  <2> QED
    BY <1>5, <2>1, <2>3, <2>5
<1>7. \A o \in DOMAIN at : at[o].w > 0
  BY <1>5, <1>6
<1> HIDE DEF at
<1>8. \A i \in 1 .. n : fields[i].w > 0 => i \in some
  BY <1>1
<1> QED
  BY <1>3, <1>6, <1>7, <1>8 DEF e

\* The fields of a payload follow the five bytes of length and type.
Payload(fields, n) == Fields(fields, n) /\ \E S : fields \in Seq(S)

LEMMA FrameFacts ==
  ASSUME NEW type, NEW payload, NEW n, Payload(payload, n)
  PROVE  LET frame == Frame(type, payload)
             ends == FieldEnds(payload)
         IN  /\ frame.size = 5 + ends[n] /\ PayloadLen(frame) = ends[n]
             /\ MessageType(frame) = type /\ frame.at[0].v = (1 + ends[n]) % U32Bound
             /\ \A i \in 1 .. n : payload[i].w > 0 =>
                  IsField(frame, ends[i - 1], payload[i].w) /\ frame.at[5 + ends[i - 1]] = payload[i]
             /\ \A o : ~IsField(frame, o, 0)
<1> DEFINE ends == FieldEnds(payload)
           head == << u32(1 + Layout(payload).size), u8(type) >>
           all == head \o payload
           e == FieldEnds(all)
<1> Fields(payload, n)
  BY DEF Payload
<1>0. PICK S : payload \in Seq(S)
  BY DEF Payload
<1>1. /\ n \in Nat /\ Len(payload) = n /\ DOMAIN payload = 1 .. n
      /\ \A i \in 1 .. n : payload[i].w \in Nat
  BY DEF Fields
<1>2. /\ ends[0] = 0 /\ \A i \in 1 .. n : ends[i] = ends[i - 1] + payload[i].w
      /\ \A i \in 0 .. n : ends[i] \in Nat
  BY EndsStep
<1>3. /\ Len(all) = n + 2 /\ DOMAIN all = 1 .. (n + 2)
      /\ all[1] = head[1] /\ all[2] = head[2]
      /\ \A i \in 1 .. n : all[i + 2] = payload[i]
  <2> DEFINE U == {head[1], head[2]} \cup S
  <2>1. head \in Seq(U) /\ payload \in Seq(U)
    BY <1>0
  <2>2. Len(head) = 2
    OBVIOUS
  <2> HIDE DEF head, U
  <2>3. /\ Len(all) = 2 + n /\ DOMAIN all = 1 .. (2 + n)
        /\ \A i \in 1 .. 2 : all[i] = head[i]
        /\ \A i \in 1 .. n : all[2 + i] = payload[i]
    <3>1. /\ Len(all) = Len(head) + Len(payload)
          /\ DOMAIN all = 1 .. (Len(head) + Len(payload))
          /\ \A i \in 1 .. Len(head) : all[i] = head[i]
          /\ \A i \in 1 .. Len(payload) : all[Len(head) + i] = payload[i]
      <4>1. PICK h \in Seq(U) : h = head
        BY <2>1
      <4>2. /\ Len(h \o payload) = Len(h) + Len(payload)
            /\ DOMAIN (h \o payload) = 1 .. (Len(h) + Len(payload))
            /\ \A i \in 1 .. Len(h) : (h \o payload)[i] = h[i]
            /\ \A i \in 1 .. Len(payload) : (h \o payload)[Len(h) + i] = payload[i]
        BY <2>1, ConcatFacts
      <4> QED
        BY <4>1, <4>2, Zenon
    <3> HIDE DEF all
    <3> QED
      BY <1>1, <2>2, <3>1
  <2> HIDE DEF all
  <2> QED
    BY <1>1, <2>3
<1>4. head[1].w = 4 /\ head[2].w = 1 /\ head[2].v = type /\ head[1].v = (1 + Layout(payload).size) % U32Bound
  BY DEF u32, u8
<1>5. Layout(payload).size = ends[n]
  BY LayoutFacts
<1>6. Frame(type, payload) = Layout(all)
  BY DEF Frame
<1> HIDE DEF head, all
<1>7. Fields(all, n + 2)
  <2>1. ASSUME NEW i \in 1 .. (n + 2) PROVE all[i].w \in Nat
    <3>1. CASE i \in {1, 2}
      BY <1>3, <1>4, <3>1
    <3>2. CASE i \notin {1, 2}
      <4>1. i - 2 \in 1 .. n /\ (i - 2) + 2 = i
        BY <1>1, <3>2
      <4>2. all[i] = payload[i - 2]
        BY <1>3, <4>1
      <4> QED
        BY <1>1, <4>1, <4>2
    <3> QED
      BY <3>1, <3>2
  <2> QED
    BY <1>1, <1>3, <2>1 DEF Fields
<1>8. /\ e[0] = 0 /\ \A i \in 1 .. (n + 2) : e[i] = e[i - 1] + all[i].w
      /\ \A i \in 0 .. (n + 2) : e[i] \in Nat
  BY <1>7, EndsStep
<1>9. /\ Layout(all).size = e[n + 2]
      /\ \A i \in 1 .. (n + 2) : all[i].w > 0 =>
           e[i - 1] \in DOMAIN Layout(all).at /\ Layout(all).at[e[i - 1]] = all[i]
      /\ \A o \in DOMAIN Layout(all).at : Layout(all).at[o].w > 0
  BY <1>7, LayoutFacts
<1> HIDE DEF ends, e
<1>10. e[1] = 4 /\ e[2] = 5
  <2>1. 1 \in 1 .. (n + 2) /\ 2 \in 1 .. (n + 2)
    BY <1>1
  <2>2. e[1] = e[0] + all[1].w /\ e[2] = e[1] + all[2].w
    BY <1>8, <2>1
  <2> QED
    BY <1>3, <1>4, <1>8, <2>2
<1>11. \A i \in 0 .. n : e[i + 2] = 5 + ends[i]
  <2> DEFINE T == {i \in 0 .. n : e[i + 2] # 5 + ends[i]}
  <2> SUFFICES ASSUME T # {} PROVE FALSE
    OBVIOUS
  <2>1. PICK c \in T : \A d \in T : c <= d
    <3>1. T \in SUBSET Nat
      BY <1>1
    <3> HIDE DEF T
    <3> QED
      BY <3>1, LeastNumber
  <2>2. c \in 1 .. n /\ c - 1 \in 0 .. n /\ c - 1 \notin T
    BY <1>1, <1>2, <1>10, <2>1, SMTT(30)
  <2>3. e[c + 1] = 5 + ends[c - 1]
    <3>1. (c - 1) + 2 = c + 1
      BY <2>2
    <3> QED
      BY <2>2, <3>1
  <2>4. e[c + 2] = e[c + 1] + all[c + 2].w
    <3>1. c + 2 \in 1 .. (n + 2) /\ (c + 2) - 1 = c + 1
      BY <1>1, <2>2
    <3> QED
      BY <1>8, <3>1
  <2>5. all[c + 2] = payload[c] /\ ends[c] = ends[c - 1] + payload[c].w
        /\ ends[c - 1] \in Nat /\ payload[c].w \in Nat
    BY <1>1, <1>2, <1>3, <2>2
  <2>6. e[c + 2] = 5 + ends[c]
    BY <2>3, <2>4, <2>5
  <2> QED
    BY <2>1, <2>6
<1>12. /\ Layout(all).size = 5 + ends[n]
       /\ Layout(all).at[0] = all[1] /\ Layout(all).at[4] = all[2]
  <2>1. n \in 0 .. n /\ 1 \in 1 .. (n + 2) /\ 2 \in 1 .. (n + 2)
    BY <1>1
  <2>2. all[1].w > 0 /\ all[2].w > 0
    BY <1>3, <1>4
  <2> QED
    BY <1>8, <1>9, <1>10, <1>11, <2>1, <2>2
<1>13. ASSUME NEW i \in 1 .. n, payload[i].w > 0
       PROVE  5 + ends[i - 1] \in DOMAIN Layout(all).at /\ Layout(all).at[5 + ends[i - 1]] = payload[i]
  <2>1. i + 2 \in 1 .. (n + 2) /\ i - 1 \in 0 .. n /\ (i + 2) - 1 = (i - 1) + 2
    BY <1>1
  <2>2. e[(i + 2) - 1] = 5 + ends[i - 1]
    BY <1>11, <2>1
  <2> QED
    BY <1>3, <1>9, <1>13, <2>1, <2>2
<1> DEFINE frame == Frame(type, payload)
<1>14. /\ frame.size = 5 + ends[n] /\ PayloadLen(frame) = ends[n]
       /\ MessageType(frame) = type /\ frame.at[0].v = (1 + ends[n]) % U32Bound
  <2>1. ends[n] \in Nat
    BY <1>1, <1>2
  <2> QED
    BY <1>3, <1>4, <1>5, <1>6, <1>12, <2>1 DEF PayloadLen, MessageType, HEADER_SZ, LENGTH_SZ
<1>15. \A i \in 1 .. n : payload[i].w > 0 =>
         IsField(frame, ends[i - 1], payload[i].w) /\ frame.at[5 + ends[i - 1]] = payload[i]
  BY <1>6, <1>13 DEF IsField, HEADER_SZ
<1>16. \A o : ~IsField(frame, o, 0)
  BY <1>6, <1>9 DEF IsField
<1> QED
  BY <1>14, <1>15, <1>16 DEF ends

-----------------------------------------------------------------------------
(* The fields of the payloads.                                               *)

\* The fields of one record, their types and their values.
LEMMA InsertFieldsFacts ==
  ASSUME NEW rec, IsRecord(rec)
  PROVE  LET p == InsertFields(rec)
         IN  /\ p \in Seq({p[i] : i \in 1 .. 6}) /\ Len(p) = 6 /\ DOMAIN p = 1 .. 6
             /\ p[1] = [w |-> 8, v |-> rec.source_id] /\ p[2] = [w |-> 8, v |-> rec.ts]
             /\ p[3] = [w |-> 4, v |-> StrLen(rec.key)]
             /\ p[4] = [w |-> StrLen(rec.key), v |-> rec.key]
             /\ p[5] = [w |-> 4, v |-> StrLen(rec.value)]
             /\ p[6] = [w |-> StrLen(rec.value), v |-> rec.value]
             /\ \A i \in 1 .. 6 : p[i].w \in Nat
<1> DEFINE p == InsertFields(rec)
<1>1. /\ Len(p) = 6 /\ DOMAIN p = 1 .. 6
      /\ p[1] = i64(rec.source_id) /\ p[2] = i64(rec.ts)
      /\ p[3] = str_len(rec.key) /\ p[4] = str(rec.key)
      /\ p[5] = str_len(rec.value) /\ p[6] = str(rec.value)
      /\ p \in Seq({i64(rec.source_id), i64(rec.ts), str_len(rec.key), str(rec.key),
                    str_len(rec.value), str(rec.value)})
  BY DEF InsertFields
<1> HIDE DEF p
<1>2. p \in Seq({p[i] : i \in 1 .. 6})
  <2>1. \A i \in 1 .. 6 : p[i] \in {p[k] : k \in 1 .. 6}
    OBVIOUS
  <2> QED
    BY <1>1, <2>1
<1>3. /\ p[1] = [w |-> 8, v |-> rec.source_id] /\ p[2] = [w |-> 8, v |-> rec.ts]
      /\ p[3] = [w |-> 4, v |-> StrLen(rec.key)] /\ p[4] = [w |-> StrLen(rec.key), v |-> rec.key]
      /\ p[5] = [w |-> 4, v |-> StrLen(rec.value)]
      /\ p[6] = [w |-> StrLen(rec.value), v |-> rec.value]
  BY <1>1, TextFits DEF IsRecord, i64, str, slice
<1>4. \A i \in 1 .. 6 : i \in {1, 2, 3, 4, 5, 6}
  OBVIOUS
<1>5. StrLen(rec.key) \in Nat /\ StrLen(rec.value) \in Nat
  BY DEF IsRecord, IsText
<1>6. p[1].w \in Nat /\ p[2].w \in Nat /\ p[3].w \in Nat /\ p[4].w \in Nat /\ p[5].w \in Nat
      /\ p[6].w \in Nat
  BY <1>3, <1>5
<1>7. \A i \in 1 .. 6 : p[i].w \in Nat
  BY <1>4, <1>6
<1> QED
  BY <1>1, <1>2, <1>3, <1>7 DEF p

\* The fields of a record, where a decoder looks for them.
Holds(frame, o, rec) ==
  LET key == StrLen(rec.key)
      value == StrLen(rec.value)
  IN  /\ Num(frame, o, 8) = rec.source_id /\ Num(frame, o + 8, 8) = rec.ts
      /\ Num(frame, o + 16, 4) = key /\ Text(frame, o + 20, key) = rec.key
      /\ Num(frame, o + 20 + key, 4) = value /\ Text(frame, o + 24 + key, value) = rec.value

LEMMA InsertRead ==
  ASSUME NEW frame, NEW o, NEW rec, IsRecord(rec), Holds(frame, o, rec)
  PROVE  /\ insert_at(frame, o) = rec
         /\ InsertEnd(frame, o) = o + 24 + StrLen(rec.key) + StrLen(rec.value)
<1>1. rec = [source_id |-> rec.source_id, ts |-> rec.ts, key |-> rec.key, value |-> rec.value]
  BY DEF IsRecord
<1>2. insert_at(frame, o)
        = [source_id |-> rec.source_id, ts |-> rec.ts, key |-> rec.key, value |-> rec.value]
  BY DEF insert_at, Holds
<1>3. InsertEnd(frame, o) = o + 24 + StrLen(rec.key) + StrLen(rec.value)
  BY DEF InsertEnd, Holds
<1> QED
  BY <1>1, <1>2, <1>3, Zenon

\* A decoder finds each field at the end of the one before.
Reads(frame, payload, n) ==
  LET e == FieldEnds(payload)
  IN  \A i \in 1 .. n :
        /\ payload[i].w > 0 => /\ Num(frame, e[i - 1], payload[i].w) = payload[i].v
                               /\ Text(frame, e[i - 1], payload[i].w) = payload[i].v
        /\ IsText(payload[i].v) /\ payload[i].w = StrLen(payload[i].v) =>
             Text(frame, e[i - 1], payload[i].w) = payload[i].v
        /\ e[i] = e[i - 1] + payload[i].w

LEMMA FrameReads ==
  ASSUME NEW type, NEW payload, NEW n, Payload(payload, n)
  PROVE  Reads(Frame(type, payload), payload, n)
<1> DEFINE frame == Frame(type, payload)
           e == FieldEnds(payload)
<1>1. ASSUME NEW i \in 1 .. n
      PROVE  /\ payload[i].w > 0 => /\ Num(frame, e[i - 1], payload[i].w) = payload[i].v
                                    /\ Text(frame, e[i - 1], payload[i].w) = payload[i].v
             /\ IsText(payload[i].v) /\ payload[i].w = StrLen(payload[i].v) =>
                  Text(frame, e[i - 1], payload[i].w) = payload[i].v
             /\ e[i] = e[i - 1] + payload[i].w
  <2> DEFINE o == e[i - 1]
             w == payload[i].w
             v == payload[i].v
  <2>1. w \in Nat
    BY DEF Payload, Fields
  <2>2. e[i] = o + w
    BY EndsStep DEF Payload
  <2>3. /\ w > 0 => IsField(frame, o, w) /\ frame.at[5 + o] = payload[i]
        /\ \A q : ~IsField(frame, q, 0)
    BY FrameFacts
  <2> HIDE DEF frame, o, w
  <2>4. w > 0 => Num(frame, o, w) = v /\ Text(frame, o, w) = v
    BY <2>3 DEF Num, Text, HEADER_SZ
  <2>5. IsText(v) /\ w = StrLen(v) => Text(frame, o, w) = v
    <3>1. CASE w > 0
      BY <2>4, <3>1
    <3>2. CASE ~(w > 0)
      <4>1. w = 0
        BY <2>1, <3>2
      <4> QED
        BY <2>3, <4>1 DEF Text, IsText
    <3> QED
      BY <3>1, <3>2
  <2> QED
    BY <2>2, <2>4, <2>5 DEF o, w
<1> QED
  BY <1>1, Zenon DEF Reads

\* A record whose six fields follow field k.
Carries(payload, k, rec) == \A j \in 1 .. 6 : payload[k + j] = InsertFields(rec)[j]

LEMMA FrameHolds ==
  ASSUME NEW type, NEW payload, NEW n, Payload(payload, n),
         NEW rec, IsRecord(rec), NEW k \in Nat, k + 6 <= n,
         Carries(payload, k, rec)
  PROVE  /\ Holds(Frame(type, payload), FieldEnds(payload)[k], rec)
         /\ FieldEnds(payload)[k + 6]
              = FieldEnds(payload)[k] + 24 + StrLen(rec.key) + StrLen(rec.value)
<1> DEFINE frame == Frame(type, payload)
           e == FieldEnds(payload)
           key == StrLen(rec.key)
           value == StrLen(rec.value)
           p == InsertFields(rec)
<1>1. /\ p[1] = [w |-> 8, v |-> rec.source_id] /\ p[2] = [w |-> 8, v |-> rec.ts]
      /\ p[3] = [w |-> 4, v |-> key] /\ p[4] = [w |-> key, v |-> rec.key]
      /\ p[5] = [w |-> 4, v |-> value] /\ p[6] = [w |-> value, v |-> rec.value]
  BY InsertFieldsFacts
<1>2. n \in Nat /\ key \in Nat /\ value \in Nat /\ e[k] \in Nat
  <2>1. n \in Nat /\ k \in 0 .. n
    BY DEF Payload, Fields
  <2> QED
    BY <2>1, EndsStep DEF IsRecord, IsText, Payload
<1>3. /\ k + 1 \in 1 .. n /\ k + 2 \in 1 .. n /\ k + 3 \in 1 .. n /\ k + 4 \in 1 .. n
      /\ k + 5 \in 1 .. n /\ k + 6 \in 1 .. n
      /\ (k + 1) - 1 = k /\ (k + 2) - 1 = k + 1 /\ (k + 3) - 1 = k + 2 /\ (k + 4) - 1 = k + 3
      /\ (k + 5) - 1 = k + 4 /\ (k + 6) - 1 = k + 5
  <2>1. /\ k + 1 \in 1 .. n /\ k + 2 \in 1 .. n /\ k + 3 \in 1 .. n /\ k + 4 \in 1 .. n
        /\ k + 5 \in 1 .. n /\ k + 6 \in 1 .. n
    BY <1>2
  <2> QED
    BY <2>1
<1>4. /\ payload[k + 1] = p[1] /\ payload[k + 2] = p[2] /\ payload[k + 3] = p[3]
      /\ payload[k + 4] = p[4] /\ payload[k + 5] = p[5] /\ payload[k + 6] = p[6]
  BY DEF Carries
<1>5. \A i \in 1 .. n :
        /\ payload[i].w > 0 => Num(frame, e[i - 1], payload[i].w) = payload[i].v
        /\ IsText(payload[i].v) /\ payload[i].w = StrLen(payload[i].v) =>
             Text(frame, e[i - 1], payload[i].w) = payload[i].v
        /\ e[i] = e[i - 1] + payload[i].w
  <2>1. Reads(frame, payload, n)
    BY FrameReads
  <2> QED
    BY <2>1 DEF Reads
<1>6. IsText(rec.key) /\ IsText(rec.value)
  BY DEF IsRecord
<1> HIDE DEF p, frame, e
<1>7. Num(frame, e[k], 8) = rec.source_id /\ e[k + 1] = e[k] + 8
  <2>1. payload[k + 1].w = 8 /\ payload[k + 1].v = rec.source_id
    BY <1>1, <1>4
  <2> QED
    BY <1>3, <1>5, <1>6, <2>1
<1>8. Num(frame, e[k + 1], 8) = rec.ts /\ e[k + 2] = e[k + 1] + 8
  <2>1. payload[k + 2].w = 8 /\ payload[k + 2].v = rec.ts
    BY <1>1, <1>4
  <2> QED
    BY <1>3, <1>5, <1>6, <2>1
<1>9. Num(frame, e[k + 2], 4) = key /\ e[k + 3] = e[k + 2] + 4
  <2>1. payload[k + 3].w = 4 /\ payload[k + 3].v = key
    BY <1>1, <1>4
  <2> QED
    BY <1>3, <1>5, <1>6, <2>1
<1>10. Text(frame, e[k + 3], key) = rec.key /\ e[k + 4] = e[k + 3] + key
  <2>1. payload[k + 4].w = key /\ payload[k + 4].v = rec.key
    BY <1>1, <1>4
  <2> QED
    BY <1>3, <1>5, <1>6, <2>1
<1>11. Num(frame, e[k + 4], 4) = value /\ e[k + 5] = e[k + 4] + 4
  <2>1. payload[k + 5].w = 4 /\ payload[k + 5].v = value
    BY <1>1, <1>4
  <2> QED
    BY <1>3, <1>5, <1>6, <2>1
<1>12. Text(frame, e[k + 5], value) = rec.value /\ e[k + 6] = e[k + 5] + value
  <2>1. payload[k + 6].w = value /\ payload[k + 6].v = rec.value
    BY <1>1, <1>4
  <2> QED
    BY <1>3, <1>5, <1>6, <2>1
<1> HIDE DEF key, value
<1>13. /\ e[k + 1] = e[k] + 8 /\ e[k + 2] = e[k] + 16 /\ e[k + 3] = e[k] + 20
       /\ e[k + 4] = e[k] + 20 + key /\ e[k + 5] = e[k] + 24 + key
       /\ e[k + 6] = e[k] + 24 + key + value
  <2>1. ASSUME NEW a \in Nat, NEW x \in Nat, NEW y \in Nat
        PROVE  /\ (a + 8) + 8 = a + 16 /\ (a + 16) + 4 = a + 20 /\ (a + 20 + x) + 4 = a + 24 + x
               /\ a + 20 + x \in Nat
    OBVIOUS
  <2>2. /\ (e[k] + 8) + 8 = e[k] + 16 /\ (e[k] + 16) + 4 = e[k] + 20
        /\ (e[k] + 20 + key) + 4 = e[k] + 24 + key
    BY <1>2, <2>1, Zenon
  <2>3. e[k + 2] = e[k] + 16
    BY <1>7, <1>8, <2>2, Zenon
  <2>4. e[k + 3] = e[k] + 20
    BY <1>9, <2>2, <2>3, Zenon
  <2>5. e[k + 4] = e[k] + 20 + key
    BY <1>10, <2>4, Zenon
  <2>6. e[k + 5] = e[k] + 24 + key
    BY <1>11, <2>2, <2>5, Zenon
  <2> QED
    BY <1>7, <1>12, <2>3, <2>4, <2>5, <2>6, Zenon
<1>14. /\ Num(frame, e[k], 8) = rec.source_id /\ Num(frame, e[k] + 8, 8) = rec.ts
       /\ Num(frame, e[k] + 16, 4) = key /\ Text(frame, e[k] + 20, key) = rec.key
       /\ Num(frame, e[k] + 20 + key, 4) = value /\ Text(frame, e[k] + 24 + key, value) = rec.value
  BY <1>7, <1>8, <1>9, <1>10, <1>11, <1>12, <1>13, Zenon
<1> QED
  BY <1>13, <1>14 DEF Holds, frame, e, key, value

LEMMA FrameHead ==
  ASSUME NEW type, NEW payload, NEW n, Payload(payload, n)
  PROVE  /\ MessageType(Frame(type, payload)) = type
         /\ PayloadLen(Frame(type, payload)) = FieldEnds(payload)[n]
         /\ FieldEnds(payload)[0] = 0 /\ FieldEnds(payload)[n] \in Nat
         /\ Frame(type, payload).size = 5 + FieldEnds(payload)[n]
<1>1. n \in 0 .. n
  BY DEF Payload, Fields
<1>2. FieldEnds(payload)[0] = 0 /\ FieldEnds(payload)[n] \in Nat
  BY <1>1, EndsStep DEF Payload
<1>3. /\ MessageType(Frame(type, payload)) = type
      /\ PayloadLen(Frame(type, payload)) = FieldEnds(payload)[n]
      /\ Frame(type, payload).size = 5 + FieldEnds(payload)[n]
  BY FrameFacts
<1> QED
  BY <1>2, <1>3

\* A frame without a payload.
LEMMA EmptyFrame ==
  ASSUME NEW type
  PROVE  MessageType(Frame(type, <<>>)) = type /\ Frame(type, <<>>).size = 5
<1>1. PICK n \in Nat : n = 0
  OBVIOUS
<1>2. Fields(<<>>, n) /\ <<>> \in Seq({})
  BY <1>1 DEF Fields
<1>3. PICK p : p = <<>>
  OBVIOUS
<1>4. Payload(p, n)
  BY <1>2, <1>3, Zenon DEF Payload
<1>5. /\ MessageType(Frame(type, p)) = type
      /\ FieldEnds(p)[0] = 0
      /\ Frame(type, p).size = 5 + FieldEnds(p)[n]
  BY <1>4, FrameHead
<1>6. 5 + 0 = 5
  OBVIOUS
<1> QED
  BY <1>1, <1>3, <1>5, <1>6, Zenon

-----------------------------------------------------------------------------
(* The requests.                                                             *)

LEMMA DecodeInsert ==
  ASSUME NEW rec, IsRecord(rec)
  PROVE  /\ MessageType(Frame(1, InsertFields(rec))) = 1
         /\ decode_insert(Frame(1, InsertFields(rec))) = Insert(rec)
<1> DEFINE p == InsertFields(rec)
           frame == Frame(1, p)
           e == FieldEnds(p)
           len == StrLen(rec.key) + StrLen(rec.value)
<1>1. PICK k \in Nat : k = 0
  OBVIOUS
<1>2. PICK n \in Nat : n = 6
  OBVIOUS
<1>3. PICK t : t = 1
  OBVIOUS
<1>4. Payload(p, n)
  <2>1. Fields(p, n)
    BY <1>2, InsertFieldsFacts DEF Fields
  <2>2. p \in Seq({p[i] : i \in 1 .. 6})
    BY InsertFieldsFacts
  <2> QED
    BY <2>1, <2>2, Zenon DEF Payload
<1>5. /\ MessageType(Frame(t, p)) = t /\ PayloadLen(Frame(t, p)) = e[n]
      /\ e[0] = 0 /\ e[n] \in Nat
  BY <1>4, FrameHead
<1>6. /\ Holds(Frame(t, p), e[k], rec)
      /\ e[k + 6] = e[k] + 24 + StrLen(rec.key) + StrLen(rec.value)
  <2>1. k + 6 <= n
    BY <1>1, <1>2
  <2>2. Carries(p, k, rec)
    <3> HIDE DEF p
    <3>1. \A j \in 1 .. 6 : k + j = j
      BY <1>1
    <3> QED
      BY <3>1, Zenon DEF p, Carries
  <2> QED
    BY <1>4, <2>1, <2>2, FrameHolds
<1>7. k + 6 = n
  BY <1>1, <1>2
<1>8. Holds(frame, 0, rec) /\ PayloadLen(frame) = 0 + 24 + StrLen(rec.key) + StrLen(rec.value)
  BY <1>1, <1>3, <1>5, <1>6, <1>7, Zenon
<1>9. MessageType(frame) = 1
  BY <1>3, <1>5, Zenon
<1>10. /\ insert_at(frame, 0) = rec
       /\ InsertEnd(frame, 0) = 0 + 24 + StrLen(rec.key) + StrLen(rec.value)
  BY <1>8, InsertRead, Zenon
<1> HIDE DEF frame
<1>11. StrLen(rec.key) \in Nat /\ StrLen(rec.value) \in Nat
  BY DEF IsRecord, IsText
<1>12. ~(InsertEnd(frame, 0) > PayloadLen(frame))
  BY <1>8, <1>10, <1>11
<1>13. decode_insert(frame) = Insert(rec)
  BY <1>10, <1>12, Zenon DEF decode_insert
<1> QED
  BY <1>9, <1>13 DEF frame

LEMMA DecodeRange ==
  ASSUME NEW m, IsText(m.key), IsText(m.filter)
  PROVE  /\ MessageType(Frame(2, RangeFields(m))) = 2
         /\ decode_range(Frame(2, RangeFields(m))) = RangeOf(m.source_id, m.key, m.start_ts, m.end_ts, m.filter)
<1> DEFINE key == StrLen(m.key)
           filter == StrLen(m.filter)
<1>1. PICK p : p = RangeFields(m)
  OBVIOUS
<1>2. PICK n \in Nat : n = 7
  OBVIOUS
<1>3. PICK t : t = 2
  OBVIOUS
<1> DEFINE frame == Frame(t, p)
           e == FieldEnds(p)
<1>4. /\ p[1] = [w |-> 8, v |-> m.source_id]
      /\ p[2] = [w |-> 4, v |-> key]
      /\ p[3] = [w |-> key, v |-> m.key]
      /\ p[4] = [w |-> 8, v |-> m.start_ts]
      /\ p[5] = [w |-> 8, v |-> m.end_ts]
      /\ p[6] = [w |-> 4, v |-> filter]
      /\ p[7] = [w |-> filter, v |-> m.filter]
      /\ Len(p) = 7 /\ DOMAIN p = 1 .. 7 /\ \E S : p \in Seq(S)
  <2>1. /\ Len(p) = 7 /\ DOMAIN p = 1 .. 7
        /\ p[1] = i64(m.source_id)
        /\ p[2] = str_len(m.key)
        /\ p[3] = str(m.key)
        /\ p[4] = i64(m.start_ts)
        /\ p[5] = i64(m.end_ts)
        /\ p[6] = str_len(m.filter)
        /\ p[7] = str(m.filter)
        /\ p \in Seq({i64(m.source_id), str_len(m.key), str(m.key), i64(m.start_ts), i64(m.end_ts), str_len(m.filter), str(m.filter)})
    BY <1>1 DEF RangeFields
  <2>2. \E S : p \in Seq(S)
    BY <2>1, Zenon
  <2> QED
    BY <2>1, <2>2, TextFits DEF i64, str, slice
<1>5. key \in Nat /\ filter \in Nat
  BY DEF IsText
<1> HIDE DEF key, filter
<1>6. Payload(p, n)
  <2>1. p[1].w \in Nat /\ p[2].w \in Nat /\ p[3].w \in Nat /\ p[4].w \in Nat /\ p[5].w \in Nat /\ p[6].w \in Nat /\ p[7].w \in Nat
    BY <1>4, <1>5
  <2>2. \A i \in 1 .. 7 : i \in {1, 2, 3, 4, 5, 6, 7}
    OBVIOUS
  <2>3. \A i \in 1 .. 7 : p[i].w \in Nat
    BY <2>1, <2>2
  <2> QED
    BY <1>2, <1>4, <2>3 DEF Payload, Fields
<1>7. /\ MessageType(frame) = t /\ PayloadLen(frame) = e[n] /\ e[0] = 0
  BY <1>6, FrameHead
<1>8. \A i \in 1 .. 7 :
        /\ p[i].w > 0 => Num(frame, e[i - 1], p[i].w) = p[i].v /\ Text(frame, e[i - 1], p[i].w) = p[i].v
        /\ IsText(p[i].v) /\ p[i].w = StrLen(p[i].v) => Text(frame, e[i - 1], p[i].w) = p[i].v
        /\ e[i] = e[i - 1] + p[i].w
  <2>1. Reads(frame, p, n)
    BY <1>6, FrameReads
  <2> QED
    BY <1>2, <2>1 DEF Reads
<1> HIDE DEF frame, e
<1>9. Num(frame, e[0], 8) = m.source_id /\ e[1] = e[0] + 8
  <2>1. p[1].w = 8 /\ p[1].v = m.source_id /\ 1 \in 1 .. 7 /\ 1 - 1 = 0
    BY <1>4
  <2> QED
    BY <1>8, <2>1
<1>10. Num(frame, e[1], 4) = key /\ e[2] = e[1] + 4
  <2>1. p[2].w = 4 /\ p[2].v = key /\ 2 \in 1 .. 7 /\ 2 - 1 = 1
    BY <1>4
  <2> QED
    BY <1>8, <2>1
<1>11. Text(frame, e[2], key) = m.key /\ e[3] = e[2] + key
  <2>1. p[3].w = key /\ p[3].v = m.key /\ 3 \in 1 .. 7 /\ 3 - 1 = 2
    BY <1>4
  <2> QED
    BY <1>8, <2>1 DEF key
<1>12. Num(frame, e[3], 8) = m.start_ts /\ e[4] = e[3] + 8
  <2>1. p[4].w = 8 /\ p[4].v = m.start_ts /\ 4 \in 1 .. 7 /\ 4 - 1 = 3
    BY <1>4
  <2> QED
    BY <1>8, <2>1
<1>13. Num(frame, e[4], 8) = m.end_ts /\ e[5] = e[4] + 8
  <2>1. p[5].w = 8 /\ p[5].v = m.end_ts /\ 5 \in 1 .. 7 /\ 5 - 1 = 4
    BY <1>4
  <2> QED
    BY <1>8, <2>1
<1>14. Num(frame, e[5], 4) = filter /\ e[6] = e[5] + 4
  <2>1. p[6].w = 4 /\ p[6].v = filter /\ 6 \in 1 .. 7 /\ 6 - 1 = 5
    BY <1>4
  <2> QED
    BY <1>8, <2>1
<1>15. Text(frame, e[6], filter) = m.filter /\ e[7] = e[6] + filter
  <2>1. p[7].w = filter /\ p[7].v = m.filter /\ 7 \in 1 .. 7 /\ 7 - 1 = 6
    BY <1>4
  <2> QED
    BY <1>8, <2>1 DEF filter
<1>16. /\ e[1] = 8
       /\ e[2] = 12
       /\ e[3] = 12 + key
       /\ e[4] = 20 + key
       /\ e[5] = 28 + key
       /\ e[6] = 32 + key
       /\ e[7] = 32 + key + filter
  BY <1>5, <1>7, <1>9, <1>10, <1>11, <1>12, <1>13, <1>14, <1>15
<1>17. /\ Num(frame, 0, 8) = m.source_id
       /\ Num(frame, 8, 4) = key
       /\ Text(frame, 12, key) = m.key
       /\ Num(frame, 12 + key, 8) = m.start_ts
       /\ Num(frame, 20 + key, 8) = m.end_ts
       /\ Num(frame, 28 + key, 4) = filter
       /\ Text(frame, 32 + key, filter) = m.filter
       /\ PayloadLen(frame) = 32 + key + filter
  BY <1>2, <1>7, <1>9, <1>10, <1>11, <1>12, <1>13, <1>14, <1>15, <1>16, Zenon
<1>18. decode_range(frame) = RangeOf(m.source_id, m.key, m.start_ts, m.end_ts, m.filter)
  <2>1. ~(32 + key + filter > 32 + key + filter)
    BY <1>5
  <2> QED
    BY <1>17, <2>1, Zenon DEF decode_range
<1> QED
  BY <1>1, <1>3, <1>7, <1>18, Zenon DEF frame

\* The recursion of FlattenSeq has a solution.
LEMMA FlattenExists ==
  ASSUME NEW seqs, NEW n \in Nat
  PROVE  \E f : f = [i \in 1 .. n |-> IF i = 1 THEN seqs[i] ELSE f[i - 1] \o seqs[i]]
<1> DEFINE Solved(m) ==
             \E f : f = [i \in 1 .. m |-> IF i = 1 THEN seqs[i] ELSE f[i - 1] \o seqs[i]]
           T == {m \in 0 .. n : ~Solved(m)}
<1> HIDE DEF Solved
<1>1. SUFFICES ASSUME T # {} PROVE FALSE
  <2>1. T = {} => Solved(n)
    OBVIOUS
  <2> QED
    BY <2>1, Zenon DEF Solved
<1>2. PICK c \in T : \A d \in T : c <= d
  <2>1. T \in SUBSET Nat
    OBVIOUS
  <2> HIDE DEF T
  <2> QED
    BY <1>1, <2>1, LeastNumber
<1>3. CASE c = 0
  <2> DEFINE f == [i \in 1 .. 0 |-> 0]
  <2>1. f = [i \in 1 .. 0 |-> IF i = 1 THEN seqs[i] ELSE f[i - 1] \o seqs[i]]
    OBVIOUS
  <2>2. Solved(0)
    BY <2>1, Zenon DEF Solved
  <2> QED
    BY <1>2, <1>3, <2>2
<1>4. CASE c # 0
  <2>1. c \in Nat /\ c - 1 \in 0 .. n /\ c - 1 \in Nat
    BY <1>2, <1>4
  <2>2. Solved(c - 1)
    BY <1>2, <2>1
  <2>3. PICK g : g = [i \in 1 .. (c - 1) |-> IF i = 1 THEN seqs[i] ELSE g[i - 1] \o seqs[i]]
    BY <2>2, Zenon DEF Solved
  <2> DEFINE last == IF c = 1 THEN seqs[c] ELSE g[c - 1] \o seqs[c]
             f == [i \in 1 .. c |-> IF i = c THEN last ELSE g[i]]
  <2>4. \A i \in 1 .. (c - 1) : g[i] = IF i = 1 THEN seqs[i] ELSE g[i - 1] \o seqs[i]
    BY <2>3
  <2>5. ASSUME NEW i \in 1 .. c PROVE f[i] = IF i = 1 THEN seqs[i] ELSE f[i - 1] \o seqs[i]
    <3>1. CASE i = c
      <4>1. c # 1 => f[c - 1] = g[c - 1]
        BY <2>1
      <4> QED
        BY <2>1, <3>1, <4>1
    <3>2. CASE i # c
      <4>1. i \in 1 .. (c - 1) /\ f[i] = g[i]
        BY <2>1, <3>2
      <4>2. i # 1 => f[i - 1] = g[i - 1]
        BY <2>1, <4>1
      <4> QED
        BY <2>4, <4>1, <4>2
    <3> QED
      BY <3>1, <3>2
  <2>6. f = [i \in 1 .. c |-> IF i = 1 THEN seqs[i] ELSE f[i - 1] \o seqs[i]]
    BY <2>5
  <2>7. Solved(c)
    BY <2>6, Zenon DEF Solved
  <2> QED
    BY <1>2, <2>7
<1> QED
  BY <1>3, <1>4

\* Records of six fields each, one after the other.
Sixes(seqs, n, U) ==
  /\ Len(seqs) = n /\ (n = 0 => seqs = <<>>)
  /\ \A i \in 1 .. n : seqs[i] \in Seq(U) /\ Len(seqs[i]) = 6

LEMMA FlattenSix ==
  ASSUME NEW seqs, NEW n \in Nat, NEW U, Sixes(seqs, n, U)
  PROVE  /\ FlattenSeq(seqs) \in Seq(U) /\ Len(FlattenSeq(seqs)) = 6 * n
         /\ \A q \in 1 .. n : \A j \in 1 .. 6 : FlattenSeq(seqs)[6 * (q - 1) + j] = seqs[q][j]
<1> /\ Len(seqs) = n /\ (n = 0 => seqs = <<>>)
    /\ \A i \in 1 .. n : seqs[i] \in Seq(U) /\ Len(seqs[i]) = 6
  BY DEF Sixes
<1>1. CASE n = 0
  BY <1>1 DEF FlattenSeq
<1>2. CASE n # 0
  <2> DEFINE f == CHOOSE f : f = [i \in 1 .. Len(seqs) |->
                                    IF i = 1 THEN seqs[i] ELSE f[i - 1] \o seqs[i]]
  <2>1. f = [i \in 1 .. n |-> IF i = 1 THEN seqs[i] ELSE f[i - 1] \o seqs[i]]
    <3>1. \E g : g = [i \in 1 .. Len(seqs) |-> IF i = 1 THEN seqs[i] ELSE g[i - 1] \o seqs[i]]
      BY FlattenExists
    <3>2. f = [i \in 1 .. Len(seqs) |-> IF i = 1 THEN seqs[i] ELSE f[i - 1] \o seqs[i]]
      BY <3>1, Zenon
    <3> HIDE DEF f
    <3> QED
      BY <3>2
  <2>2. FlattenSeq(seqs) = f[n]
    <3>1. FlattenSeq(seqs) = f[Len(seqs)]
      BY <1>2, Zenon DEF FlattenSeq
    <3> QED
      BY <3>1, Zenon
  <2> HIDE DEF f
  <2> DEFINE Good(i) ==
               /\ f[i] \in Seq(U) /\ Len(f[i]) = 6 * i
               /\ \A q \in 1 .. i : \A j \in 1 .. 6 : f[i][6 * (q - 1) + j] = seqs[q][j]
             T == {i \in 1 .. n : ~Good(i)}
  <2>3. SUFFICES ASSUME T # {} PROVE FALSE
    <3>1. n \in 1 .. n
      BY <1>2
    <3> HIDE DEF Good
    <3>2. T = {} => Good(n)
      BY <3>1
    <3>3. Good(n) => /\ FlattenSeq(seqs) \in Seq(U) /\ Len(FlattenSeq(seqs)) = 6 * n
                     /\ \A q \in 1 .. n : \A j \in 1 .. 6 :
                          FlattenSeq(seqs)[6 * (q - 1) + j] = seqs[q][j]
      <4>1. PICK v : v = FlattenSeq(seqs)
        OBVIOUS
      <4>2. v = f[n]
        BY <2>2, <4>1, Zenon
      <4>3. Good(n) => v \in Seq(U) /\ Len(v) = 6 * n
        BY <4>2, Zenon DEF Good
      <4>4. Good(n) => \A q \in 1 .. n : \A j \in 1 .. 6 : v[6 * (q - 1) + j] = seqs[q][j]
        BY <4>2, Zenon DEF Good
      <4> QED
        BY <4>1, <4>3, <4>4, Zenon
    <3> HIDE DEF T
    <3> QED
      BY <3>2, <3>3, Zenon
  <2>4. PICK c \in T : \A d \in T : c <= d
    <3>1. T \in SUBSET Nat
      OBVIOUS
    <3> HIDE DEF T
    <3> QED
      BY <2>3, <3>1, LeastNumber
  <2>5. CASE c = 1
    <3>1. f[1] = seqs[1] /\ seqs[1] \in Seq(U) /\ Len(seqs[1]) = 6
      BY <2>1, <2>4, <2>5
    <3>2. \A q \in 1 .. 1 : q = 1 /\ \A j \in 1 .. 6 : 6 * (q - 1) + j = j
      OBVIOUS
    <3>3. \A q \in 1 .. 1 : \A j \in 1 .. 6 : f[1][6 * (q - 1) + j] = seqs[q][j]
      BY <3>1, <3>2, Zenon
    <3> QED
      BY <2>4, <2>5, <3>1, <3>3
  <2>6. CASE c # 1
    <3>1. c \in Nat /\ c \in 1 .. n /\ c - 1 \in 1 .. n /\ c - 1 \notin T
      BY <2>4, <2>6
    <3>2. PICK a \in Seq(U) : a = f[c - 1]
      BY <3>1
    <3>3. PICK b \in Seq(U) : b = seqs[c]
      BY <3>1, SMTT(30)
    <3>4. a \in Seq(U) /\ Len(a) = 6 * (c - 1) /\ b \in Seq(U) /\ Len(b) = 6 /\ f[c] = a \o b
      BY <2>1, <2>6, <3>1, <3>2, <3>3
    <3>5. /\ a \o b \in Seq(U) /\ Len(a \o b) = Len(a) + Len(b)
          /\ \A i \in 1 .. Len(a) : (a \o b)[i] = a[i]
          /\ \A i \in 1 .. Len(b) : (a \o b)[Len(a) + i] = b[i]
      BY ConcatFacts
    <3>6. f[c] \in Seq(U) /\ Len(f[c]) = 6 * c
      BY <3>1, <3>4, <3>5
    <3>7. ASSUME NEW q \in 1 .. c, NEW j \in 1 .. 6
          PROVE  f[c][6 * (q - 1) + j] = seqs[q][j]
      <4>1. CASE q = c
        <5>1. 6 * (q - 1) + j = Len(a) + j
          BY <3>4, <4>1
        <5> QED
          BY <3>3, <3>4, <3>5, <4>1, <5>1
      <4>2. CASE q # c
        <5>1. q \in 1 .. (c - 1) /\ 6 * (q - 1) + j \in 1 .. Len(a)
          <6>1. q \in 1 .. (c - 1)
            BY <3>1, <4>2
          <6>2. PICK d \in Nat : d = c - 1
            BY <3>1
          <6>3. 6 * (q - 1) + j \in 1 .. (6 * d)
            BY <6>1, <6>2, SMTT(30)
          <6> QED
            BY <3>4, <6>1, <6>2, <6>3, Zenon
        <5>2. a[6 * (q - 1) + j] = seqs[q][j]
          BY <3>1, <3>2, <5>1
        <5> QED
          BY <3>4, <3>5, <5>1, <5>2
      <4> QED
        BY <4>1, <4>2
    <3>8. Good(c)
      BY <3>6, <3>7
    <3> QED
      BY <2>4, <3>8
  <2> QED
    BY <2>5, <2>6
<1> QED
  BY <1>1, <1>2

\* The count of a batch, and six fields for each of its records.
IsBatch(p, recs, n) ==
  /\ Payload(p, 1 + 6 * n) /\ p[1] = [w |-> 4, v |-> n]
  /\ \A q \in 1 .. n : \A j \in 1 .. 6 :
       p[(1 + 6 * (q - 1)) + j] = InsertFields(recs[q])[j]

LEMMA BatchFacts ==
  ASSUME NEW recs, NEW n \in Nat, Len(recs) = n, IsRecords(recs)
  PROVE  IsBatch(BatchFields(recs), recs, n)
<1> DEFINE seqs == [i \in DOMAIN recs |-> InsertFields(recs[i])]
           U == UNION {{InsertFields(recs[q])[j] : j \in 1 .. 6} : q \in 1 .. n}
<1> DOMAIN recs = 1 .. n /\ \A i \in 1 .. n : IsRecord(recs[i])
  BY DEF IsRecords
<1>1. ASSUME NEW i \in 1 .. n
      PROVE  /\ InsertFields(recs[i]) \in Seq(U) /\ Len(InsertFields(recs[i])) = 6
             /\ \A j \in 1 .. 6 : InsertFields(recs[i])[j].w \in Nat
  <2>1. PICK r : r = recs[i]
    OBVIOUS
  <2>2. PICK f : f = InsertFields(r)
    OBVIOUS
  <2>3. /\ f \in Seq({f[j] : j \in 1 .. 6}) /\ Len(f) = 6
        /\ \A j \in 1 .. 6 : f[j].w \in Nat
    <3>1. IsRecord(r)
      BY <2>1
    <3>2. /\ InsertFields(r) \in Seq({InsertFields(r)[j] : j \in 1 .. 6})
          /\ Len(InsertFields(r)) = 6 /\ \A j \in 1 .. 6 : InsertFields(r)[j].w \in Nat
      BY <3>1, InsertFieldsFacts
    <3> QED
      BY <2>2, <3>2, Zenon
  <2>4. \A j \in 1 .. 6 : f[j] \in U
    BY <2>1, <2>2
  <2> HIDE DEF U
  <2>5. f \in Seq(U)
    BY <2>3, <2>4, SMTT(30)
  <2> QED
    BY <2>1, <2>2, <2>3, <2>5, Zenon
<1>2. ASSUME NEW u \in U PROVE u.w \in Nat
  <2>1. PICK q \in 1 .. n, j \in 1 .. 6 : u = InsertFields(recs[q])[j]
    OBVIOUS
  <2> HIDE DEF U
  <2> QED
    BY <1>1, <2>1
<1> HIDE DEF U
<1>3. /\ Len(seqs) = n /\ (n = 0 => seqs = <<>>)
      /\ \A i \in 1 .. n : seqs[i] = InsertFields(recs[i])
  <2>1. seqs = [i \in 1 .. n |-> InsertFields(recs[i])]
    OBVIOUS
  <2> HIDE DEF seqs
  <2>2. Len(seqs) = n /\ \A i \in 1 .. n : seqs[i] = InsertFields(recs[i])
    BY <2>1
  <2>3. n = 0 => seqs = <<>>
    BY <2>1
  <2> QED
    BY <2>2, <2>3
<1> HIDE DEF seqs
<1>4. PICK s : s = seqs
  OBVIOUS
<1>5. Sixes(s, n, U)
  BY <1>1, <1>3, <1>4 DEF Sixes
<1>6. PICK flat : flat = FlattenSeq(s)
  OBVIOUS
<1>7. /\ flat \in Seq(U) /\ Len(flat) = 6 * n
      /\ \A q \in 1 .. n : \A j \in 1 .. 6 : flat[6 * (q - 1) + j] = s[q][j]
  <2>1. /\ FlattenSeq(s) \in Seq(U) /\ Len(FlattenSeq(s)) = 6 * n
        /\ \A q \in 1 .. n : \A j \in 1 .. 6 : FlattenSeq(s)[6 * (q - 1) + j] = s[q][j]
    BY <1>5, FlattenSix
  <2> QED
    BY <1>6, <2>1, Zenon
<1>8. PICK h : h = << u32(Len(recs)) >>
  OBVIOUS
<1>9. Len(h) = 1 /\ h \in Seq({h[1]}) /\ h[1] = [w |-> 4, v |-> n]
  <2>1. u32(n) = [w |-> 4, v |-> n]
    BY <1>1, FitsU32 DEF IsRecords
  <2> QED
    BY <1>8, <2>1
<1> DEFINE V == U \cup {h[1]}
<1>10. h \in Seq(V) /\ flat \in Seq(V)
  BY <1>7, <1>9
<1>11. \A x \in V : x.w \in Nat
  BY <1>2, <1>9
<1> HIDE DEF V
<1>12. PICK a \in Seq(V) : a = h
  BY <1>10
<1>13. PICK b \in Seq(V) : b = flat
  BY <1>10
<1>14. /\ a \o b \in Seq(V) /\ Len(a \o b) = Len(a) + Len(b)
       /\ DOMAIN (a \o b) = 1 .. (Len(a) + Len(b))
       /\ \A i \in 1 .. Len(a) : (a \o b)[i] = a[i]
       /\ \A i \in 1 .. Len(b) : (a \o b)[Len(a) + i] = b[i]
  BY ConcatFacts
<1>15. PICK p : p = a \o b
  OBVIOUS
<1>16. BatchFields(recs) = p
  BY <1>4, <1>6, <1>8, <1>12, <1>13, <1>15, Zenon DEF BatchFields, seqs
<1>17. Len(a) = 1 /\ Len(b) = 6 * n /\ 6 * n \in Nat
  BY <1>7, <1>9, <1>12, <1>13
<1>18. /\ p \in Seq(V) /\ Len(p) = 1 + 6 * n /\ DOMAIN p = 1 .. (1 + 6 * n)
       /\ \A i \in 1 .. 1 : p[i] = a[i]
       /\ \A i \in 1 .. (6 * n) : p[1 + i] = b[i]
  BY <1>14, <1>15, <1>17, Zenon
<1>19. p[1] = [w |-> 4, v |-> n]
  BY <1>9, <1>12, <1>18
<1>20. Payload(p, 1 + 6 * n)
  <2>1. \A i \in 1 .. (1 + 6 * n) : p[i] \in V
    BY <1>18
  <2>2. \A i \in 1 .. (1 + 6 * n) : p[i].w \in Nat
    BY <1>11, <2>1
  <2>3. 1 + 6 * n \in Nat
    OBVIOUS
  <2>4. Fields(p, 1 + 6 * n)
    BY <1>18, <2>2, <2>3, Zenon DEF Fields
  <2> QED
    BY <1>18, <2>4, Zenon DEF Payload
<1>21. ASSUME NEW q \in 1 .. n, NEW j \in 1 .. 6
       PROVE  p[(1 + 6 * (q - 1)) + j] = InsertFields(recs[q])[j]
  <2>1. PICK o \in Nat : o = 6 * (q - 1) + j
    OBVIOUS
  <2>2. o \in 1 .. (6 * n) /\ (1 + 6 * (q - 1)) + j = 1 + o
    BY <2>1
  <2>3. p[1 + o] = b[o] /\ b[o] = s[q][j]
    BY <1>7, <1>13, <1>18, <2>1, <2>2
  <2> QED
    BY <1>3, <1>4, <2>2, <2>3
<1> QED
  BY <1>16, <1>19, <1>20, <1>21, Zenon DEF IsBatch

LEMMA DecodeBatch ==
  ASSUME NEW recs, IsRecords(recs)
  PROVE  /\ MessageType(Frame(3, BatchFields(recs))) = 3
         /\ decode_batch_insert(Frame(3, BatchFields(recs))) = BatchInsert(recs)
<1>n. PICK n \in Nat : Len(recs) = n
  BY DEF IsRecords
<1>1. PICK p : p = BatchFields(recs)
  OBVIOUS
<1>2. PICK t : t = 3
  OBVIOUS
<1>3. PICK m \in Nat : m = 1 + 6 * n
  OBVIOUS
<1> DEFINE frame == Frame(t, p)
           e == FieldEnds(p)
<1>4. /\ Payload(p, m) /\ p[1] = [w |-> 4, v |-> n]
      /\ \A q \in 1 .. n : \A j \in 1 .. 6 : p[(1 + 6 * (q - 1)) + j] = InsertFields(recs[q])[j]
  <2>1. IsBatch(BatchFields(recs), recs, n)
    BY <1>n, BatchFacts
  <2> QED
    BY <1>1, <1>3, <2>1, Zenon DEF IsBatch
<1> Payload(p, m)
  BY <1>4
<1>5. MessageType(frame) = t /\ PayloadLen(frame) = e[m] /\ e[0] = 0 /\ e[m] \in Nat
  BY FrameHead
<1>6. Num(frame, 0, 4) = n /\ e[1] = 4
  <2>1. /\ p[1].w > 0 => Num(frame, e[1 - 1], p[1].w) = p[1].v
        /\ e[1] = e[1 - 1] + p[1].w
    <3>1. Reads(frame, p, m)
      BY FrameReads
    <3>2. 1 \in 1 .. m
      BY <1>3
    <3> QED
      BY <3>1, <3>2 DEF Reads
  <2> HIDE DEF frame, e
  <2>2. p[1].w = 4 /\ p[1].v = n /\ 1 - 1 = 0
    BY <1>4
  <2> QED
    BY <1>5, <2>1, <2>2
<1>7. ASSUME NEW q \in 1 .. n
      PROVE  /\ insert_at(frame, e[1 + 6 * (q - 1)]) = recs[q]
             /\ InsertEnd(frame, e[1 + 6 * (q - 1)]) = e[1 + 6 * q]
  <2>1. PICK k \in Nat : k = 1 + 6 * (q - 1)
    OBVIOUS
  <2>2. PICK r : r = recs[q]
    OBVIOUS
  <2>3. k + 6 <= m /\ k + 6 = 1 + 6 * q
    BY <1>3, <2>1
  <2>4. IsRecord(r)
    BY <1>n, <2>2 DEF IsRecords
  <2>5. Carries(p, k, r)
    BY <1>4, <2>1, <2>2, Zenon DEF Carries
  <2>6. Holds(frame, e[k], r) /\ e[k + 6] = e[k] + 24 + StrLen(r.key) + StrLen(r.value)
    <3>1. k + 6 <= m
      BY <2>3
    <3> QED
      BY <2>4, <2>5, <3>1, FrameHolds
  <2>7. /\ insert_at(frame, e[k]) = r
        /\ InsertEnd(frame, e[k]) = e[k] + 24 + StrLen(r.key) + StrLen(r.value)
    BY <2>4, <2>6, InsertRead
  <2> HIDE DEF frame, e
  <2> QED
    BY <2>1, <2>2, <2>3, <2>6, <2>7, Zenon
<1> HIDE DEF frame, e
<1> DEFINE offset == CHOOSE offset :
             offset = [i \in 0 .. Num(frame, 0, 4) |->
                         IF i = 0 THEN 4 ELSE InsertEnd(frame, offset[i - 1])]
<1>8. offset = [i \in 0 .. n |-> IF i = 0 THEN 4 ELSE InsertEnd(frame, offset[i - 1])]
  <2> DEFINE g == [i \in 0 .. n |-> e[1 + 6 * i]]
  <2>1. ASSUME NEW i \in 0 .. n
        PROVE  g[i] = IF i = 0 THEN 4 ELSE InsertEnd(frame, g[i - 1])
    <3>1. CASE i = 0
      BY <1>6, <3>1
    <3>2. CASE i # 0
      <4>1. i \in 1 .. n /\ i - 1 \in 0 .. n
        BY <3>2
      <4>2. InsertEnd(frame, e[1 + 6 * (i - 1)]) = e[1 + 6 * i]
        BY <1>7, <4>1
      <4> QED
        BY <3>2, <4>1, <4>2
    <3> QED
      BY <3>1, <3>2
  <2>2. g = [i \in 0 .. n |-> IF i = 0 THEN 4 ELSE InsertEnd(frame, g[i - 1])]
    BY <2>1
  <2> HIDE DEF g
  <2>3. \E f : f = [i \in 0 .. Num(frame, 0, 4) |->
                      IF i = 0 THEN 4 ELSE InsertEnd(frame, f[i - 1])]
    BY <1>6, <2>2, Zenon
  <2>4. offset = [i \in 0 .. Num(frame, 0, 4) |->
                    IF i = 0 THEN 4 ELSE InsertEnd(frame, offset[i - 1])]
    BY <2>3, Zenon
  <2> HIDE DEF offset
  <2> QED
    BY <1>6, <2>4
<1>9. decode_batch_insert(frame)
        = IF offset[Num(frame, 0, 4)] > PayloadLen(frame) THEN Malformed
          ELSE BatchInsert([i \in 1 .. Num(frame, 0, 4) |-> insert_at(frame, offset[i - 1])])
  BY Zenon DEF decode_batch_insert
<1> HIDE DEF offset
<1>10. \A i \in 0 .. n : offset[i] = e[1 + 6 * i]
  <2> DEFINE T == {i \in 0 .. n : offset[i] # e[1 + 6 * i]}
  <2> SUFFICES ASSUME T # {} PROVE FALSE
    OBVIOUS
  <2>1. PICK c \in T : \A d \in T : c <= d
    <3>1. T \in SUBSET Nat
      OBVIOUS
    <3> HIDE DEF T
    <3> QED
      BY <3>1, LeastNumber
  <2>2. c # 0
    BY <1>6, <1>8, <2>1
  <2>3. c \in 1 .. n /\ c - 1 \in 0 .. n /\ c - 1 \notin T
    BY <2>1, <2>2
  <2>4. offset[c] = InsertEnd(frame, offset[c - 1]) /\ offset[c - 1] = e[1 + 6 * (c - 1)]
    BY <1>8, <2>2, <2>3
  <2>5. offset[c] = e[1 + 6 * c]
    BY <1>7, <2>3, <2>4
  <2> QED
    BY <2>1, <2>5
<1>11. ~(offset[n] > PayloadLen(frame))
  <2>1. offset[n] = e[1 + 6 * n]
    <3>1. n \in 0 .. n
      OBVIOUS
    <3> QED
      BY <1>10, <3>1, Zenon
  <2>2. offset[n] = e[m]
    BY <1>3, <2>1, Zenon
  <2> QED
    BY <1>5, <2>2
<1>12. [i \in 1 .. n |-> insert_at(frame, offset[i - 1])] = recs
  <2>1. ASSUME NEW i \in 1 .. n PROVE insert_at(frame, offset[i - 1]) = recs[i]
    <3>1. offset[i - 1] = e[1 + 6 * (i - 1)]
      BY <1>10
    <3> QED
      BY <1>7, <3>1
  <2>2. [i \in 1 .. n |-> insert_at(frame, offset[i - 1])] = [i \in 1 .. n |-> recs[i]]
    BY <2>1
  <2>3. recs = [i \in 1 .. n |-> recs[i]]
    BY <1>n, Zenon DEF IsRecords
  <2> QED
    BY <2>2, <2>3, Zenon
<1>13. decode_batch_insert(frame) = BatchInsert(recs)
  BY <1>6, <1>9, <1>11, <1>12, Zenon
<1> QED
  BY <1>1, <1>2, <1>5, <1>13, Zenon DEF frame

-----------------------------------------------------------------------------
(* The answers.                                                              *)

LEMMA DecodeRangeRecord ==
  ASSUME NEW rec, IsText(rec.key), IsText(rec.value)
  PROVE  /\ MessageType(Frame(130, encode_record(rec))) = 130
         /\ decode_server_range_record(Frame(130, encode_record(rec))) = RangeRecord([source_id |-> rec.source_id, ts |-> rec.ts, seq |-> rec.seq,
                             key |-> rec.key, value |-> rec.value])
         /\ Frame(130, encode_record(rec)).size = record_frame_len(rec)
<1> DEFINE key == StrLen(rec.key)
           value == StrLen(rec.value)
<1>1. PICK p : p = encode_record(rec)
  OBVIOUS
<1>2. PICK n \in Nat : n = 7
  OBVIOUS
<1>3. PICK t : t = 130
  OBVIOUS
<1> DEFINE frame == Frame(t, p)
           e == FieldEnds(p)
<1>4. /\ p[1] = [w |-> 8, v |-> rec.source_id]
      /\ p[2] = [w |-> 8, v |-> rec.ts]
      /\ p[3] = [w |-> 8, v |-> rec.seq]
      /\ p[4] = [w |-> 4, v |-> key]
      /\ p[5] = [w |-> key, v |-> rec.key]
      /\ p[6] = [w |-> 4, v |-> value]
      /\ p[7] = [w |-> value, v |-> rec.value]
      /\ Len(p) = 7 /\ DOMAIN p = 1 .. 7 /\ \E S : p \in Seq(S)
  <2>1. /\ Len(p) = 7 /\ DOMAIN p = 1 .. 7
        /\ p[1] = i64(rec.source_id)
        /\ p[2] = i64(rec.ts)
        /\ p[3] = i64(rec.seq)
        /\ p[4] = str_len(rec.key)
        /\ p[5] = str(rec.key)
        /\ p[6] = str_len(rec.value)
        /\ p[7] = str(rec.value)
        /\ p \in Seq({i64(rec.source_id), i64(rec.ts), i64(rec.seq), str_len(rec.key), str(rec.key), str_len(rec.value), str(rec.value)})
    BY <1>1 DEF encode_record
  <2>2. \E S : p \in Seq(S)
    BY <2>1, Zenon
  <2> QED
    BY <2>1, <2>2, TextFits DEF i64, str, slice
<1>5. key \in Nat /\ value \in Nat
  BY DEF IsText
<1> HIDE DEF key, value
<1>6. Payload(p, n)
  <2>1. p[1].w \in Nat /\ p[2].w \in Nat /\ p[3].w \in Nat /\ p[4].w \in Nat /\ p[5].w \in Nat /\ p[6].w \in Nat /\ p[7].w \in Nat
    BY <1>4, <1>5
  <2>2. \A i \in 1 .. 7 : i \in {1, 2, 3, 4, 5, 6, 7}
    OBVIOUS
  <2>3. \A i \in 1 .. 7 : p[i].w \in Nat
    BY <2>1, <2>2
  <2> QED
    BY <1>2, <1>4, <2>3 DEF Payload, Fields
<1>7. /\ MessageType(frame) = t /\ PayloadLen(frame) = e[n] /\ e[0] = 0
      /\ frame.size = 5 + e[n]
  BY <1>6, FrameHead
<1>8. \A i \in 1 .. 7 :
        /\ p[i].w > 0 => Num(frame, e[i - 1], p[i].w) = p[i].v /\ Text(frame, e[i - 1], p[i].w) = p[i].v
        /\ IsText(p[i].v) /\ p[i].w = StrLen(p[i].v) => Text(frame, e[i - 1], p[i].w) = p[i].v
        /\ e[i] = e[i - 1] + p[i].w
  <2>1. Reads(frame, p, n)
    BY <1>6, FrameReads
  <2> QED
    BY <1>2, <2>1 DEF Reads
<1> HIDE DEF frame, e
<1>9. Num(frame, e[0], 8) = rec.source_id /\ e[1] = e[0] + 8
  <2>1. p[1].w = 8 /\ p[1].v = rec.source_id /\ 1 \in 1 .. 7 /\ 1 - 1 = 0
    BY <1>4
  <2> QED
    BY <1>8, <2>1
<1>10. Num(frame, e[1], 8) = rec.ts /\ e[2] = e[1] + 8
  <2>1. p[2].w = 8 /\ p[2].v = rec.ts /\ 2 \in 1 .. 7 /\ 2 - 1 = 1
    BY <1>4
  <2> QED
    BY <1>8, <2>1
<1>11. Num(frame, e[2], 8) = rec.seq /\ e[3] = e[2] + 8
  <2>1. p[3].w = 8 /\ p[3].v = rec.seq /\ 3 \in 1 .. 7 /\ 3 - 1 = 2
    BY <1>4
  <2> QED
    BY <1>8, <2>1
<1>12. Num(frame, e[3], 4) = key /\ e[4] = e[3] + 4
  <2>1. p[4].w = 4 /\ p[4].v = key /\ 4 \in 1 .. 7 /\ 4 - 1 = 3
    BY <1>4
  <2> QED
    BY <1>8, <2>1
<1>13. Text(frame, e[4], key) = rec.key /\ e[5] = e[4] + key
  <2>1. p[5].w = key /\ p[5].v = rec.key /\ 5 \in 1 .. 7 /\ 5 - 1 = 4
    BY <1>4
  <2> QED
    BY <1>8, <2>1 DEF key
<1>14. Num(frame, e[5], 4) = value /\ e[6] = e[5] + 4
  <2>1. p[6].w = 4 /\ p[6].v = value /\ 6 \in 1 .. 7 /\ 6 - 1 = 5
    BY <1>4
  <2> QED
    BY <1>8, <2>1
<1>15. Text(frame, e[6], value) = rec.value /\ e[7] = e[6] + value
  <2>1. p[7].w = value /\ p[7].v = rec.value /\ 7 \in 1 .. 7 /\ 7 - 1 = 6
    BY <1>4
  <2> QED
    BY <1>8, <2>1 DEF value
<1>16. /\ e[1] = 8
       /\ e[2] = 16
       /\ e[3] = 24
       /\ e[4] = 28
       /\ e[5] = 28 + key
       /\ e[6] = 32 + key
       /\ e[7] = 32 + key + value
  BY <1>5, <1>7, <1>9, <1>10, <1>11, <1>12, <1>13, <1>14, <1>15
<1>17. /\ Num(frame, 0, 8) = rec.source_id
       /\ Num(frame, 8, 8) = rec.ts
       /\ Num(frame, 16, 8) = rec.seq
       /\ Num(frame, 24, 4) = key
       /\ Text(frame, 28, key) = rec.key
       /\ Num(frame, 28 + key, 4) = value
       /\ Text(frame, 32 + key, value) = rec.value
       /\ PayloadLen(frame) = 32 + key + value
  BY <1>2, <1>7, <1>9, <1>10, <1>11, <1>12, <1>13, <1>14, <1>15, <1>16, Zenon
<1>18. decode_server_range_record(frame)
         = RangeRecord([source_id |-> rec.source_id, ts |-> rec.ts, seq |-> rec.seq,
                        key |-> rec.key, value |-> rec.value])
  <2>1. ~(32 + key + value > 32 + key + value)
    BY <1>5
  <2> QED
    BY <1>17, <2>1, Zenon DEF decode_server_range_record
<1>19. frame.size = record_frame_len(rec)
  <2>1. frame.size = 5 + (32 + key + value)
    BY <1>2, <1>7, <1>16, Zenon
  <2>2. record_frame_len(rec) = 5 + 32 + key + value
    BY DEF record_frame_len, HEADER_SZ, key, value
  <2> QED
    BY <1>5, <2>1, <2>2
<1> QED
  BY <1>1, <1>3, <1>7, <1>18, <1>19, Zenon DEF frame

\* A string or a snapshot, behind its length.
LEMMA DecodeText ==
  ASSUME NEW type, NEW len \in Nat, len < U32Bound, NEW text,
         len > 0 \/ (IsText(text) /\ len = StrLen(text))
  PROVE  LET frame == Frame(type, << u32(len), slice(len, text) >>)
         IN  MessageType(frame) = type /\ Text(frame, 4, Num(frame, 0, 4)) = text
<1>1. PICK p : p = << u32(len), slice(len, text) >>
  OBVIOUS
<1>2. PICK n \in Nat : n = 2
  OBVIOUS
<1> DEFINE frame == Frame(type, p)
           e == FieldEnds(p)
<1>3. /\ p[1] = [w |-> 4, v |-> len] /\ p[2] = [w |-> len, v |-> text]
      /\ Len(p) = 2 /\ DOMAIN p = 1 .. 2 /\ \E S : p \in Seq(S)
  <2>1. /\ Len(p) = 2 /\ DOMAIN p = 1 .. 2 /\ p[1] = u32(len) /\ p[2] = slice(len, text)
        /\ p \in Seq({u32(len), slice(len, text)})
    BY <1>1
  <2>2. \E S : p \in Seq(S)
    BY <2>1, Zenon
  <2> QED
    BY <2>1, <2>2, FitsU32 DEF slice
<1>4. Payload(p, n)
  <2>1. \A i \in 1 .. 2 : i \in {1, 2}
    OBVIOUS
  <2>2. \A i \in 1 .. 2 : p[i].w \in Nat
    BY <1>3, <2>1
  <2> QED
    BY <1>2, <1>3, <2>2 DEF Payload, Fields
<1>5. MessageType(frame) = type /\ e[0] = 0
  BY <1>4, FrameHead
<1>6. \A i \in 1 .. 2 :
        /\ p[i].w > 0 => Num(frame, e[i - 1], p[i].w) = p[i].v /\ Text(frame, e[i - 1], p[i].w) = p[i].v
        /\ IsText(p[i].v) /\ p[i].w = StrLen(p[i].v) => Text(frame, e[i - 1], p[i].w) = p[i].v
        /\ e[i] = e[i - 1] + p[i].w
  <2>1. Reads(frame, p, n)
    BY <1>4, FrameReads
  <2> QED
    BY <1>2, <2>1 DEF Reads
<1> HIDE DEF frame, e
<1>7. Num(frame, e[0], 4) = len /\ e[1] = e[0] + 4
  <2>1. p[1].w = 4 /\ p[1].v = len /\ 1 \in 1 .. 2 /\ 1 - 1 = 0
    BY <1>3
  <2> QED
    BY <1>6, <2>1
<1>8. Text(frame, e[1], len) = text
  <2>1. p[2].w = len /\ p[2].v = text /\ 2 \in 1 .. 2 /\ 2 - 1 = 1
    BY <1>3
  <2> QED
    BY <1>6, <2>1
<1>9. e[1] = 4
  BY <1>5, <1>7
<1> QED
  BY <1>1, <1>5, <1>7, <1>8, <1>9, Zenon DEF frame

-----------------------------------------------------------------------------
(* The codecs.                                                               *)

LEMMA ServerDecodes ==
  ASSUME NEW frame
  PROVE  /\ MessageType(frame) = 1 => server_decode(frame) = decode_insert(frame)
         /\ MessageType(frame) = 2 => server_decode(frame) = decode_range(frame)
         /\ MessageType(frame) = 3 => server_decode(frame) = decode_batch_insert(frame)
         /\ MessageType(frame) = 4 => server_decode(frame) = Metrics
         /\ MessageType(frame) = 5 => server_decode(frame) = Ping
BY DEF server_decode

LEMMA ClientDecodes ==
  ASSUME NEW frame
  PROVE  /\ MessageType(frame) = 129 => client_decode(frame) = InsertOk
         /\ MessageType(frame) = 130 => client_decode(frame) = decode_server_range_record(frame)
         /\ MessageType(frame) = 131 => client_decode(frame) = RangeEnd
         /\ MessageType(frame) = 132 => client_decode(frame) = decode_metrics(frame)
         /\ MessageType(frame) = 133 => client_decode(frame) = Pong
         /\ MessageType(frame) = 255 => client_decode(frame) = decode_server_error(frame)
BY DEF client_decode

\* ServerCodec::decode reads every request as ClientCodec::encode was given
\* it, whatever the lengths of its strings and the size of its batch.
THEOREM RequestRoundTrip ==
  ASSUME NEW msg, IsRequest(msg)
  PROVE  server_decode(client_encode(msg)) = msg
<1>1. CASE msg.type = "Insert" /\ msg = Insert(msg.records[1]) /\ IsRecord(msg.records[1])
  <2>1. client_encode(msg) = Frame(1, InsertFields(msg.records[1]))
    BY <1>1 DEF client_encode
  <2>2. PICK rec : rec = msg.records[1]
    OBVIOUS
  <2>3. /\ MessageType(Frame(1, InsertFields(rec))) = 1
        /\ decode_insert(Frame(1, InsertFields(rec))) = Insert(rec)
    BY <1>1, <2>2, DecodeInsert
  <2>4. PICK frame : frame = client_encode(msg)
    OBVIOUS
  <2>5. MessageType(frame) = 1 /\ decode_insert(frame) = msg
    BY <1>1, <2>1, <2>2, <2>3, <2>4, Zenon
  <2> QED
    BY <2>4, <2>5, ServerDecodes
<1>2. CASE msg.type = "BatchInsert" /\ msg = BatchInsert(msg.records) /\ IsRecords(msg.records)
  <2>1. client_encode(msg) = Frame(3, BatchFields(msg.records))
    BY <1>2 DEF client_encode
  <2>2. PICK recs : recs = msg.records
    OBVIOUS
  <2>3. /\ MessageType(Frame(3, BatchFields(recs))) = 3
        /\ decode_batch_insert(Frame(3, BatchFields(recs))) = BatchInsert(recs)
    BY <1>2, <2>2, DecodeBatch
  <2>4. PICK frame : frame = client_encode(msg)
    OBVIOUS
  <2>5. MessageType(frame) = 3 /\ decode_batch_insert(frame) = msg
    BY <1>2, <2>1, <2>2, <2>3, <2>4, Zenon
  <2> QED
    BY <2>4, <2>5, ServerDecodes
<1>3. CASE /\ msg.type = "Range" /\ IsText(msg.key) /\ IsText(msg.filter)
           /\ msg = RangeOf(msg.source_id, msg.key, msg.start_ts, msg.end_ts, msg.filter)
  <2>1. client_encode(msg) = Frame(2, RangeFields(msg))
    BY <1>3 DEF client_encode
  <2>2. /\ MessageType(Frame(2, RangeFields(msg))) = 2
        /\ decode_range(Frame(2, RangeFields(msg)))
             = RangeOf(msg.source_id, msg.key, msg.start_ts, msg.end_ts, msg.filter)
    BY <1>3, DecodeRange
  <2>3. PICK frame : frame = client_encode(msg)
    OBVIOUS
  <2>4. MessageType(frame) = 2 /\ decode_range(frame) = msg
    BY <1>3, <2>1, <2>2, <2>3, Zenon
  <2> QED
    BY <2>3, <2>4, ServerDecodes
<1>4. CASE msg \in {Metrics, Ping}
  <2>1. /\ MessageType(Frame(4, <<>>)) = 4 /\ MessageType(Frame(5, <<>>)) = 5
    BY EmptyFrame, Zenon
  <2>2. CASE msg = Metrics
    <3>1. client_encode(msg) = Frame(4, <<>>)
      BY <2>2 DEF client_encode, Metrics
    <3>2. PICK frame : frame = client_encode(msg)
      OBVIOUS
    <3>3. MessageType(frame) = 4
      BY <2>1, <3>1, <3>2, Zenon
    <3> QED
      BY <2>2, <3>2, <3>3, ServerDecodes
  <2>3. CASE msg = Ping
    <3>1. client_encode(msg) = Frame(5, <<>>)
      BY <2>3 DEF client_encode, Ping
    <3>2. PICK frame : frame = client_encode(msg)
      OBVIOUS
    <3>3. MessageType(frame) = 5
      BY <2>1, <3>1, <3>2, Zenon
    <3> QED
      BY <2>3, <3>2, <3>3, ServerDecodes
  <2> QED
    BY <1>4, <2>2, <2>3
<1> QED
  BY <1>1, <1>2, <1>3, <1>4, Zenon DEF IsRequest

\* The frame that write_record_frame lays out is that of the codec, and the
\* length of both is record_frame_len.
LEMMA RecordFrame ==
  ASSUME NEW rec, IsProtoRecord(rec)
  PROVE  /\ write_record_frame(rec) = server_encode(RangeRecord(rec))
         /\ write_record_frame(rec).size = record_frame_len(rec)
<1>1. server_encode(RangeRecord(rec)) = Frame(130, encode_record(rec))
  BY DEF server_encode, RangeRecord
<1>2. write_record_frame(rec) = Frame(130, encode_record(rec))
  BY Zenon DEF write_record_frame, encode_record
<1>3. Frame(130, encode_record(rec)).size = record_frame_len(rec)
  BY DecodeRangeRecord DEF IsProtoRecord
<1> QED
  BY <1>1, <1>2, <1>3, Zenon

\* ClientCodec::decode reads every answer as ServerCodec::encode was given it.
THEOREM ReplyRoundTrip ==
  ASSUME NEW msg, IsReply(msg), JsonLen \in 1 .. (U32Bound - 1)
  PROVE  client_decode(server_encode(msg)) = msg
<1>1. CASE msg.type = "RangeRecord" /\ msg = RangeRecord(msg.record) /\ IsProtoRecord(msg.record)
  <2>1. server_encode(msg) = Frame(130, encode_record(msg.record))
    BY <1>1 DEF server_encode
  <2>2. PICK rec : rec = msg.record
    OBVIOUS
  <2>3. /\ IsText(rec.key) /\ IsText(rec.value)
        /\ rec = [source_id |-> rec.source_id, ts |-> rec.ts, seq |-> rec.seq,
                  key |-> rec.key, value |-> rec.value]
    BY <1>1, <2>2, Zenon DEF IsProtoRecord
  <2>4. /\ MessageType(Frame(130, encode_record(rec))) = 130
        /\ decode_server_range_record(Frame(130, encode_record(rec)))
             = RangeRecord([source_id |-> rec.source_id, ts |-> rec.ts, seq |-> rec.seq,
                            key |-> rec.key, value |-> rec.value])
    BY <2>3, DecodeRangeRecord
  <2>5. PICK frame : frame = server_encode(msg)
    OBVIOUS
  <2>6. MessageType(frame) = 130 /\ decode_server_range_record(frame) = msg
    BY <1>1, <2>1, <2>2, <2>3, <2>4, <2>5, Zenon
  <2> QED
    BY <2>5, <2>6, ClientDecodes
<1>2. CASE msg.type = "Metrics" /\ msg = MetricsJson(msg.json)
  <2>1. server_encode(msg) = Frame(132, << u32(JsonLen), slice(JsonLen, msg.json) >>)
    BY <1>2 DEF server_encode
  <2>2. PICK frame : frame = server_encode(msg)
    OBVIOUS
  <2>3. PICK len \in Nat : len = JsonLen /\ len > 0 /\ len < U32Bound
    BY ProtoAssumption
  <2>4. PICK json : json = msg.json
    OBVIOUS
  <2>5. LET f == Frame(132, << u32(len), slice(len, json) >>)
        IN  MessageType(f) = 132 /\ Text(f, 4, Num(f, 0, 4)) = json
    BY <2>3, DecodeText
  <2>6. MessageType(frame) = 132 /\ Text(frame, 4, Num(frame, 0, 4)) = msg.json
    BY <2>1, <2>2, <2>3, <2>4, <2>5, Zenon
  <2>7. decode_metrics(frame) = msg
    BY <1>2, <2>6, Zenon DEF decode_metrics
  <2> QED
    BY <2>2, <2>6, <2>7, ClientDecodes
<1>3. CASE msg.type = "Error" /\ msg = ErrorText(msg.text) /\ IsText(msg.text)
  <2>1. server_encode(msg) = Frame(255, << u32(StrLen(msg.text)), slice(StrLen(msg.text), msg.text) >>)
    BY <1>3 DEF server_encode, str_len, str
  <2>2. PICK frame : frame = server_encode(msg)
    OBVIOUS
  <2>3. PICK len \in Nat : len = StrLen(msg.text) /\ len < U32Bound
    BY <1>3 DEF IsText
  <2>4. PICK text : text = msg.text
    OBVIOUS
  <2>5. LET f == Frame(255, << u32(len), slice(len, text) >>)
        IN  MessageType(f) = 255 /\ Text(f, 4, Num(f, 0, 4)) = text
    BY <1>3, <2>3, <2>4, DecodeText
  <2>6. MessageType(frame) = 255 /\ Text(frame, 4, Num(frame, 0, 4)) = msg.text
    BY <2>1, <2>2, <2>3, <2>4, <2>5, ZenonT(60)
  <2>7. decode_server_error(frame) = msg
    BY <1>3, <2>6, Zenon DEF decode_server_error
  <2> QED
    BY <2>2, <2>6, <2>7, ClientDecodes
<1>4. CASE msg \in {InsertOk, RangeEnd, Pong}
  <2>1. /\ MessageType(Frame(129, <<>>)) = 129 /\ MessageType(Frame(131, <<>>)) = 131
        /\ MessageType(Frame(133, <<>>)) = 133
    BY EmptyFrame, Zenon
  <2>2. CASE msg = InsertOk
    <3>1. server_encode(msg) = Frame(129, <<>>)
      BY <2>2 DEF server_encode, InsertOk
    <3>2. PICK frame : frame = server_encode(msg) /\ MessageType(frame) = 129
      BY <2>1, <3>1, ZenonT(60)
    <3> QED
      BY <2>2, <3>2, ClientDecodes
  <2>3. CASE msg = RangeEnd
    <3>1. server_encode(msg) = Frame(131, <<>>)
      BY <2>3 DEF server_encode, RangeEnd
    <3>2. PICK frame : frame = server_encode(msg) /\ MessageType(frame) = 131
      BY <2>1, <3>1, ZenonT(60)
    <3> QED
      BY <2>3, <3>2, ClientDecodes
  <2>4. CASE msg = Pong
    <3>1. server_encode(msg) = Frame(133, <<>>)
      BY <2>4 DEF server_encode, Pong
    <3>2. PICK frame : frame = server_encode(msg) /\ MessageType(frame) = 133
      BY <2>1, <3>1, ZenonT(60)
    <3> QED
      BY <2>4, <3>2, ClientDecodes
  <2> QED
    BY <1>4, <2>2, <2>3, <2>4
<1> QED
  BY <1>1, <1>2, <1>3, <1>4, Zenon DEF IsReply

-----------------------------------------------------------------------------
(* The states of sockets and handlers.                                       *)

\* A handler that runs moves to another state, and its socket may be reset.
LEMMA HandlerMoves ==
  ASSUME HandlersTyped, NEW c \in Conns, NEW to,
         hand' = [hand EXCEPT ![c] = to], hand[c] # "none",
         sock' = sock \/ (sock' = [sock EXCEPT ![c] = "rst"]),
         to \in HandStates
  PROVE  HandlersTyped'
<1>1. hand' \in [Conns -> HandStates] /\ sock' \in [Conns -> SockStates]
  BY DEF HandlersTyped, HandStates, SockStates
<1>2. \A d \in Conns : sock'[d] = "none" => hand'[d] = "none"
  BY DEF HandlersTyped
<1> QED
  BY <1>1, <1>2 DEF HandlersTyped

LEMMA InitHandlers == Init => HandlersTyped
BY DEF Init, HandlersTyped, HandStates, SockStates

\* The client: its connection enters the backlog, or no handler moves.
LEMMA ClientHandlers ==
  ASSUME HandlersTyped, NEW c \in Conns,
         Connect(c) \/ (\E req \in Requests[c] : Call(c, req)) \/ Client(c) \/ Cancel(c) \/ Close(c)
  PROVE  HandlersTyped'
<1>1. CASE Connect(c)
  <2>1. hand' \in [Conns -> HandStates] /\ sock' \in [Conns -> SockStates]
    BY <1>1 DEF Connect, HandlersTyped, HandStates, SockStates
  <2>2. \A d \in Conns : sock'[d] = "none" => hand'[d] = "none"
    BY <1>1 DEF Connect, HandlersTyped
  <2> QED
    BY <2>1, <2>2 DEF HandlersTyped
<1>2. CASE Close(c)
  <2>1. hand' = hand /\ sock[c] = "open"
    BY <1>2 DEF Close, handlerVars
  <2>2. sock' \in [Conns -> SockStates] /\ \A d \in Conns : sock'[d] = "none" => sock[d] = "none"
    BY <1>2 DEF Close, HandlersTyped, SockStates
  <2> QED
    BY <2>1, <2>2 DEF HandlersTyped
<1>3. ASSUME hand' = hand, sock' = sock
      PROVE  HandlersTyped'
  BY <1>3 DEF HandlersTyped
<1>4. CASE \E req \in Requests[c] : Call(c, req)
  BY <1>3, <1>4 DEF Call, handlerVars
<1>5. CASE Client(c)
  <2>1. UNCHANGED <<sock, handlerVars>>
    BY <1>5 DEF Client, Arrive, Receive, ReceiveClosed, clientVars
  <2> QED
    BY <1>3, <2>1 DEF handlerVars
<1>6. CASE Cancel(c)
  BY <1>3, <1>6 DEF Cancel, handlerVars
<1> QED
  BY <1>1, <1>2, <1>4, <1>5, <1>6

\* The accept loop starts a handler, or refuses the connections that wait.
LEMMA AcceptHandlers ==
  ASSUME HandlersTyped, \/ \E c \in Conns : Accept(c)
                        \/ AcceptFails
  PROVE  HandlersTyped'
<1>1. ASSUME NEW c \in Conns, Accept(c)
      PROVE  HandlersTyped'
  <2>1. sock' = sock /\ hand' = [hand EXCEPT ![c] = "spawned"] /\ hand[c] = "backlog"
    BY <1>1 DEF Accept, clientVars
  <2> QED
    BY <2>1, HandlerMoves DEF HandStates
<1>2. CASE AcceptFails
  <2>1. /\ sock' = sock
        /\ hand' = [c \in Conns |-> IF hand[c] = "backlog" THEN "refused" ELSE hand[c]]
    BY <1>2 DEF AcceptFails, clientVars
  <2> QED
    BY <2>1 DEF HandlersTyped, HandStates
<1> QED
  BY <1>1, <1>2

\* A handler moves from state to state and never back to none.
LEMMA StepHandlers ==
  ASSUME HandlersTyped, NEW c \in Conns, Handler(c)
  PROVE  HandlersTyped'
<1> USE DEF HandStates
<1>0. ASSUME Fail(c), sock' = sock, hand[c] # "none"
      PROVE  HandlersTyped'
  BY <1>0, HandlerMoves DEF Fail
<1>1. CASE StartHandler(c)
  <2>1. hand' = [hand EXCEPT ![c] = "reading"] /\ hand[c] = "spawned" /\ sock' = sock
    BY <1>1 DEF StartHandler, clientVars
  <2> QED
    BY <2>1, HandlerMoves
<1>2. CASE ReadEnd(c)
  <2>1. hand[c] = "reading" /\ sock' = sock
    BY <1>2 DEF ReadEnd, clientVars
  <2>2. CASE Fail(c)
    BY <1>0, <2>1, <2>2
  <2>3. CASE hand' = [hand EXCEPT ![c] = "ended"]
    BY <2>1, <2>3, HandlerMoves
  <2> QED
    BY <1>2, <2>2, <2>3 DEF ReadEnd
<1>3. CASE ReadFrame(c)
  <2>1. PICK msg \in {server_decode(Head(up[c]))} :
          hand' = [hand EXCEPT ![c] = CASE msg.type = "Malformed" -> "failed"
                                        [] msg.type = "Ping" -> "answer"
                                        [] OTHER -> "command"]
    BY <1>3 DEF ReadFrame
  <2>2. hand[c] = "reading" /\ sock' = sock
    BY <1>3 DEF ReadFrame, clientVars
  <2>3. \E to \in {"failed", "answer", "command"} : hand' = [hand EXCEPT ![c] = to]
    BY <2>1
  <2> QED
    BY <2>2, <2>3, HandlerMoves
<1>4. CASE SendCommand(c)
  <2>1. hand[c] = "command" /\ sock' = sock
    BY <1>4 DEF SendCommand, clientVars
  <2>2. CASE Fail(c)
    BY <1>0, <2>1, <2>2
  <2>3. CASE ~Fail(c)
    <3>1. (\E to \in {"records", "answer"} : hand' = [hand EXCEPT ![c] = to])
         
      BY <1>4, <2>3 DEF SendCommand
    <3> QED
      BY <2>1, <3>1, HandlerMoves
  <2> QED
    BY <2>2, <2>3
<1>5. CASE RecvRecords(c)
  <2>1. hand[c] = "records" /\ sock' = sock
    BY <1>5 DEF RecvRecords, clientVars
  <2>2. \E to \in {"flush", "records"} : hand' = [hand EXCEPT ![c] = to]
    BY <1>5 DEF RecvRecords
  <2> QED
    BY <2>1, <2>2, HandlerMoves
<1>6. CASE RecordsEnd(c)
  <2>1. hand[c] = "records" /\ sock' = sock
        /\ hand' = [hand EXCEPT ![c] = "final flush"]
    BY <1>6 DEF RecordsEnd, clientVars
  <2> QED
    BY <2>1, HandlerMoves
<1>7. CASE Answer(c)
  <2>1. hand[c] = "answer" /\ sock' = sock
    BY <1>7 DEF Answer, clientVars
  <2>2. CASE Fail(c)
    BY <1>0, <2>1, <2>2
  <2>3. CASE ~Fail(c)
    <3>1. hand' = [hand EXCEPT ![c] = "reply"]
      BY <1>7, <2>3 DEF Answer
    <3> QED
      BY <2>1, <3>1, HandlerMoves
  <2> QED
    BY <2>2, <2>3
<1>8. CASE Flush(c)
  <2>1. hand[c] \in {"flush", "final flush", "reply"}
    BY <1>8 DEF Flush
  <2>2. CASE Fail(c) /\ UNCHANGED sock
    BY <1>0, <2>1, <2>2
  <2>3. CASE
             /\ sock' = sock \/ sock' = [sock EXCEPT ![c] = "rst"]
             /\ hand' = hand \/ hand' = [hand EXCEPT ![c] = After(hand[c])]
    <3>1. hand[c] \in HandStates /\ hand = [hand EXCEPT ![c] = hand[c]]
      BY DEF HandlersTyped
    <3>2. After(hand[c]) \in {"records", "answer", "reading"}
      BY <2>1 DEF After
    <3>3. \E to \in {"records", "answer", "reading", "flush", "final flush", "reply"} :
            hand' = [hand EXCEPT ![c] = to]
      BY <2>1, <2>3, <3>1, <3>2
    <3> QED
      BY <2>1, <2>3, <3>3, HandlerMoves
  <2>4. sock = [sock EXCEPT ![c] = sock[c]]
    BY DEF HandlersTyped
  <2>5. (Fail(c) /\ UNCHANGED sock) \/
        (/\ sock' = sock \/ sock' = [sock EXCEPT ![c] = "rst"]
         /\ hand' = hand \/ hand' = [hand EXCEPT ![c] = After(hand[c])])
    BY <1>8, <2>4 DEF Flush
  <2> QED
    BY <2>2, <2>3, <2>5
<1> QED
  BY <1>1, <1>2, <1>3, <1>4, <1>5, <1>6, <1>7, <1>8 DEF Handler

\* The engine and its tasks do not touch a handler.
LEMMA EngineHandlers ==
  ASSUME HandlersTyped, \/ \E c \in Conns : TaskSends(c) \/ TaskEnds(c)
                        \/ Engine
                        \/ EngineStops
                        \/ UNCHANGED vars
  PROVE  HandlersTyped'
<1>1. UNCHANGED <<clientVars, handlerVars>>
  BY DEF TaskSends, TaskEnds, Engine, EngineStops, vars
<1> QED
  BY <1>1 DEF HandlersTyped, clientVars, handlerVars

LEMMA NextHandlers == HandlersTyped /\ [Next]_vars => HandlersTyped'
<1> SUFFICES ASSUME HandlersTyped, [Next]_vars PROVE HandlersTyped'
  OBVIOUS
<1>1. ASSUME NEW c \in Conns,
             \/ Connect(c) \/ (\E req \in Requests[c] : Call(c, req)) \/ Client(c)
             \/ Cancel(c) \/ Close(c)
      PROVE  HandlersTyped'
  BY <1>1, ClientHandlers
<1>2. ASSUME NEW c \in Conns, Handler(c) PROVE HandlersTyped'
  BY <1>2, StepHandlers
<1>3. CASE (\E c \in Conns : Accept(c)) \/ AcceptFails
  BY <1>3, AcceptHandlers
<1>4. CASE (\E c \in Conns : TaskSends(c) \/ TaskEnds(c)) \/ Engine \/ EngineStops \/ UNCHANGED vars
  BY <1>4, EngineHandlers
<1> QED
  BY <1>1, <1>2, <1>3, <1>4 DEF Next

-----------------------------------------------------------------------------
(* The requests.                                                             *)

LEMMA InitRequests == Init => RequestsInFlight
<1> SUFFICES ASSUME Init PROVE RequestsInFlight
  OBVIOUS
<1>1. /\ issued = [c \in Conns |-> <<>>] /\ handled = [c \in Conns |-> <<>>]
      /\ up = [c \in Conns |-> <<>>]
  BY DEF Init
<1> QED
  BY <1>1 DEF RequestsInFlight

\* The frame of a new message follows those under way.
LEMMA CallRequests ==
  ASSUME RequestsInFlight, NEW c \in Conns, NEW req \in Requests[c], Call(c, req)
  PROVE  RequestsInFlight'
<1> DEFINE E == {client_encode(m) : m \in AllRequests}
<1>1. /\ issued' = [issued EXCEPT ![c] = Append(@, req)]
      /\ up' = [up EXCEPT ![c] = Append(@, client_encode(req))] /\ handled' = handled
  BY DEF Call, handlerVars
<1>2. req \in AllRequests /\ client_encode(req) \in E
  BY DEF AllRequests
<1>3. /\ issued \in [Conns -> Seq(AllRequests)] /\ handled \in [Conns -> Seq(AllRequests)]
      /\ up \in [Conns -> Seq(E)]
  BY DEF RequestsInFlight
<1> HIDE DEF E
<1>4. /\ issued' \in [Conns -> Seq(AllRequests)] /\ handled' \in [Conns -> Seq(AllRequests)]
      /\ up' \in [Conns -> Seq(E)]
  BY <1>1, <1>2, <1>3
<1>5. ASSUME NEW d \in Conns
      PROVE  /\ Len(handled'[d]) + Len(up'[d]) = Len(issued'[d])
             /\ \A i \in 1 .. Len(handled'[d]) : handled'[d][i] = issued'[d][i]
             /\ \A i \in 1 .. Len(up'[d]) : up'[d][i] = client_encode(issued'[d][Len(handled'[d]) + i])
  <2>1. /\ Len(handled[d]) + Len(up[d]) = Len(issued[d])
        /\ \A i \in 1 .. Len(handled[d]) : handled[d][i] = issued[d][i]
        /\ \A i \in 1 .. Len(up[d]) : up[d][i] = client_encode(issued[d][Len(handled[d]) + i])
    BY DEF RequestsInFlight
  <2>2. CASE d = c
    <3>1. PICK s \in Seq(AllRequests) : s = issued[c]
      BY <1>3
    <3>2. PICK u \in Seq(E) : u = up[c]
      BY <1>3
    <3>3. PICK h \in Seq(AllRequests) : h = handled[c]
      BY <1>3
    <3>4. issued'[c] = Append(s, req) /\ up'[c] = Append(u, client_encode(req)) /\ handled'[c] = h
      BY <1>1, <1>3, <3>1, <3>2, <3>3
    <3>5. PICK x \in E : x = client_encode(req)
      BY <1>2
    <3>6. /\ Len(Append(s, req)) = Len(s) + 1 /\ Append(s, req)[Len(s) + 1] = req
          /\ \A i \in 1 .. Len(s) : Append(s, req)[i] = s[i]
      BY <1>2
    <3>7. /\ Len(Append(u, x)) = Len(u) + 1 /\ Append(u, x)[Len(u) + 1] = x
          /\ \A i \in 1 .. Len(u) : Append(u, x)[i] = u[i]
      OBVIOUS
    <3>8. /\ \A i \in 1 .. Len(h) : h[i] = s[i]
          /\ \A i \in 1 .. Len(u) : u[i] = client_encode(s[Len(h) + i])
      BY <2>1, <2>2, <3>1, <3>2, <3>3, Zenon
    <3>0. Len(h) + Len(u) = Len(s)
      BY <2>1, <2>2, <3>1, <3>2, <3>3, Zenon
    <3>n. Len(h) \in Nat /\ Len(u) \in Nat /\ Len(s) \in Nat
      OBVIOUS
    <3>9. Len(h) + Len(Append(u, x)) = Len(Append(s, req))
      BY <3>0, <3>n, <3>6, <3>7
    <3>10. \A i \in 1 .. Len(h) : h[i] = Append(s, req)[i]
      BY <3>0, <3>n, <3>6, <3>8
    <3>11. ASSUME NEW i \in 1 .. Len(Append(u, x))
           PROVE  Append(u, x)[i] = client_encode(Append(s, req)[Len(h) + i])
      <4>1. CASE i = Len(u) + 1
        <5>1. Len(h) + i = Len(s) + 1
          BY <3>0, <3>n, <4>1
        <5> QED
          BY <3>5, <3>6, <3>7, <4>1, <5>1, Zenon
      <4>2. CASE i # Len(u) + 1
        <5>1. i \in 1 .. Len(u) /\ Len(h) + i \in 1 .. Len(s)
          BY <3>0, <3>n, <3>7, <4>2
        <5> QED
          BY <3>6, <3>7, <3>8, <5>1, Zenon
      <4> QED
        BY <4>1, <4>2
    <3> QED
      BY <2>2, <3>4, <3>5, <3>9, <3>10, <3>11, Zenon
  <2>3. CASE d # c
    <3>1. issued'[d] = issued[d] /\ up'[d] = up[d] /\ handled'[d] = handled[d]
      BY <1>1, <1>3, <2>3
    <3> QED
      BY <2>1, <3>1, Zenon
  <2> QED
    BY <2>2, <2>3
<1> QED
  BY <1>4, <1>5, Zenon DEF RequestsInFlight, E, AllRequests

\* The handler decodes the message whose frame is the first under way.
LEMMA ReadRequests ==
  ASSUME RequestsInFlight, NEW c \in Conns, ReadFrame(c)
  PROVE  /\ RequestsInFlight'
         /\ server_decode(Head(up[c])) \in AllRequests
<1> DEFINE E == {client_encode(m) : m \in AllRequests}
<1>3. /\ issued \in [Conns -> Seq(AllRequests)] /\ handled \in [Conns -> Seq(AllRequests)]
      /\ up \in [Conns -> Seq(E)]
  BY DEF RequestsInFlight
<1>1. /\ up[c] # <<>> /\ up' = [up EXCEPT ![c] = Tail(@)] /\ issued' = issued
      /\ handled' = [handled EXCEPT ![c] = Append(@, server_decode(Head(up[c])))]
  BY DEF ReadFrame, clientVars
<1> HIDE DEF E
<1>4. PICK s \in Seq(AllRequests) : s = issued[c]
  BY <1>3
<1>5. PICK u \in Seq(E) : u = up[c]
  BY <1>3
<1>6. PICK h \in Seq(AllRequests) : h = handled[c]
  BY <1>3
<1>7. /\ Len(h) + Len(u) = Len(s) /\ \A i \in 1 .. Len(h) : h[i] = s[i]
      /\ \A i \in 1 .. Len(u) : u[i] = client_encode(s[Len(h) + i])
      /\ Len(h) \in Nat /\ Len(u) \in Nat /\ Len(s) \in Nat
  <2>1. /\ Len(handled[c]) + Len(up[c]) = Len(issued[c])
        /\ \A i \in 1 .. Len(handled[c]) : handled[c][i] = issued[c][i]
        /\ \A i \in 1 .. Len(up[c]) : up[c][i] = client_encode(issued[c][Len(handled[c]) + i])
    BY DEF RequestsInFlight
  <2>2. Len(h) \in Nat /\ Len(u) \in Nat /\ Len(s) \in Nat
    OBVIOUS
  <2> QED
    BY <1>4, <1>5, <1>6, <2>1, <2>2, Zenon
<1>8. Len(u) > 0 /\ Head(u) = u[1] /\ Tail(u) \in Seq(E) /\ Len(Tail(u)) = Len(u) - 1
      /\ \A i \in 1 .. Len(Tail(u)) : Tail(u)[i] = u[i + 1]
  BY <1>1, <1>5
<1>9. PICK req \in AllRequests : req = s[Len(h) + 1]
  BY <1>7, <1>8
<1>10. server_decode(Head(up[c])) = req
  <2>1. Head(u) = client_encode(req)
    <3>1. 1 \in 1 .. Len(u)
      BY <1>7, <1>8
    <3> QED
      BY <1>7, <1>8, <1>9, <3>1, Zenon
  <2>2. IsRequest(req)
    BY MessageAssumption DEF AllRequests
  <2>3. server_decode(client_encode(req)) = req
    BY <2>2, RequestRoundTrip
  <2> QED
    BY <1>5, <2>1, <2>3, Zenon
<1>11. up'[c] = Tail(u) /\ handled'[c] = Append(h, req) /\ issued'[c] = s
  BY <1>1, <1>3, <1>4, <1>5, <1>6, <1>10
<1>12. /\ issued' \in [Conns -> Seq(AllRequests)] /\ handled' \in [Conns -> Seq(AllRequests)]
       /\ up' \in [Conns -> Seq(E)]
  <2>1. up' \in [Conns -> Seq(E)]
    BY <1>1, <1>3, <1>5, <1>8
  <2>2. handled' \in [Conns -> Seq(AllRequests)]
    BY <1>1, <1>3, <1>6, <1>10
  <2> QED
    BY <1>1, <1>3, <2>1, <2>2
<1>13. ASSUME NEW d \in Conns
       PROVE  /\ Len(handled'[d]) + Len(up'[d]) = Len(issued'[d])
              /\ \A i \in 1 .. Len(handled'[d]) : handled'[d][i] = issued'[d][i]
              /\ \A i \in 1 .. Len(up'[d]) :
                   up'[d][i] = client_encode(issued'[d][Len(handled'[d]) + i])
  <2>1. CASE d = c
    <3>1. /\ Len(Append(h, req)) = Len(h) + 1 /\ Append(h, req)[Len(h) + 1] = req
          /\ \A i \in 1 .. Len(h) : Append(h, req)[i] = h[i]
      OBVIOUS
    <3>2. Len(Append(h, req)) + Len(Tail(u)) = Len(s)
      BY <1>7, <1>8, <3>1
    <3>3. ASSUME NEW i \in 1 .. Len(Append(h, req)) PROVE Append(h, req)[i] = s[i]
      <4>1. CASE i = Len(h) + 1
        BY <1>9, <3>1, <4>1, Zenon
      <4>2. CASE i # Len(h) + 1
        <5>1. i \in 1 .. Len(h)
          BY <1>7, <3>1, <4>2
        <5> QED
          BY <1>7, <3>1, <5>1, Zenon
      <4> QED
        BY <4>1, <4>2
    <3>4. ASSUME NEW i \in 1 .. Len(Tail(u))
          PROVE  Tail(u)[i] = client_encode(s[Len(Append(h, req)) + i])
      <4>1. i + 1 \in 1 .. Len(u) /\ Len(h) + (i + 1) = Len(Append(h, req)) + i
        BY <1>7, <1>8, <3>1
      <4>2. Tail(u)[i] = u[i + 1] /\ u[i + 1] = client_encode(s[Len(h) + (i + 1)])
        BY <1>7, <1>8, <4>1, Zenon
      <4> QED
        BY <4>1, <4>2, Zenon
    <3> QED
      BY <1>11, <2>1, <3>2, <3>3, <3>4, Zenon
  <2>2. CASE d # c
    <3>1. issued'[d] = issued[d] /\ up'[d] = up[d] /\ handled'[d] = handled[d]
      BY <1>1, <1>3, <2>2
    <3>2. /\ Len(handled[d]) + Len(up[d]) = Len(issued[d])
          /\ \A i \in 1 .. Len(handled[d]) : handled[d][i] = issued[d][i]
          /\ \A i \in 1 .. Len(up[d]) : up[d][i] = client_encode(issued[d][Len(handled[d]) + i])
      BY DEF RequestsInFlight
    <3> QED
      BY <3>1, <3>2, Zenon
  <2> QED
    BY <2>1, <2>2
<1>14. RequestsInFlight'
  BY <1>12, <1>13, Zenon DEF RequestsInFlight, E, AllRequests
<1> QED
  BY <1>10, <1>14

\* Every other step leaves the frames of the clients alone.
LEMMA OtherRequests ==
  ASSUME RequestsInFlight, UNCHANGED <<issued, handled, up>>
  PROVE  RequestsInFlight'
BY Zenon DEF RequestsInFlight

LEMMA NextRequests == RequestsInFlight /\ [Next]_vars => RequestsInFlight'
<1> SUFFICES ASSUME RequestsInFlight, [Next]_vars PROVE RequestsInFlight'
  OBVIOUS
<1>1. ASSUME NEW c \in Conns, NEW req \in Requests[c], Call(c, req) PROVE RequestsInFlight'
  BY <1>1, CallRequests
<1>2. ASSUME NEW c \in Conns, ReadFrame(c) PROVE RequestsInFlight'
  BY <1>2, ReadRequests
<1>3. ASSUME NEW c \in Conns,
             Connect(c) \/ Client(c) \/ Cancel(c) \/ Close(c) \/ Accept(c)
      PROVE  RequestsInFlight'
  <2>1. UNCHANGED <<issued, handled, up>>
    BY <1>3, SMTT(30) DEF Connect, Client, Arrive, Receive, ReceiveClosed, Cancel, Close, Accept, clientVars,
                netVars, handlerVars
  <2> QED
    BY <2>1, OtherRequests
<1>4. ASSUME NEW c \in Conns,
             \/ StartHandler(c) \/ ReadEnd(c) \/ SendCommand(c) \/ RecvRecords(c) \/ RecordsEnd(c)
             \/ Flush(c) \/ Answer(c)
      PROVE  RequestsInFlight'
  <2>1. UNCHANGED <<issued, handled, up>>
    BY <1>4 DEF StartHandler, ReadEnd, SendCommand, RecvRecords, RecordsEnd, Flush, Answer,
                clientVars, netVars
  <2> QED
    BY <2>1, OtherRequests
<1>5. CASE \/ \E c \in Conns : TaskSends(c) \/ TaskEnds(c)
           \/ AcceptFails \/ Engine \/ EngineStops \/ UNCHANGED vars
  <2>1. UNCHANGED <<issued, handled, up>>
    BY <1>5 DEF TaskSends, TaskEnds, AcceptFails, Engine, EngineStops, vars, clientVars, netVars,
                handlerVars
  <2> QED
    BY <2>1, OtherRequests
<1> QED
  BY <1>1, <1>2, <1>3, <1>4, <1>5 DEF Next, Handler

(* RequestsArrive holds however the frames are cut, whenever a caller drops  *)
(* a call or closes its connection, and whatever the engine does: a handler  *)
(* decodes the messages that its client encoded, all of them in their order. *)
THEOREM RequestsArriveTheorem == Spec => []RequestsArrive
<1>1. Init => RequestsInFlight
  BY InitRequests
<1>2. RequestsInFlight /\ [Next]_vars => RequestsInFlight'
  BY NextRequests
<1>3. RequestsInFlight => RequestsArrive
  <2> SUFFICES ASSUME RequestsInFlight, NEW c \in Conns PROVE IsPrefix(handled[c], issued[c])
    BY DEF RequestsArrive
  <2>1. PICK s \in Seq(AllRequests) : s = issued[c]
    BY DEF RequestsInFlight
  <2>2. PICK h \in Seq(AllRequests) : h = handled[c]
    BY DEF RequestsInFlight
  <2>3. up[c] \in Seq({client_encode(m) : m \in AllRequests})
    BY DEF RequestsInFlight
  <2>4. Len(h) \in Nat /\ Len(s) \in Nat /\ Len(up[c]) \in Nat
    BY <2>3
  <2>5. Len(h) <= Len(s) /\ \A i \in 1 .. Len(h) : h[i] = s[i]
    BY <2>1, <2>2, <2>4 DEF RequestsInFlight
  <2>6. SubSeq(h, 1, Len(h)) = SubSeq(s, 1, Len(h))
    BY <2>4, <2>5
  <2> QED
    BY <2>1, <2>2, <2>5, <2>6 DEF IsPrefix
<1> QED
  BY <1>1, <1>2, <1>3, PTL DEF Spec

-----------------------------------------------------------------------------
(* The answers.                                                              *)

LEMMA TailType ==
  ASSUME NEW S, NEW s \in Seq(S), s # <<>>
  PROVE  /\ Head(s) \in S /\ Tail(s) \in Seq(S) /\ Len(Tail(s)) = Len(s) - 1
         /\ Len(s) \in Nat /\ Len(s) > 0
OBVIOUS

LEMMA SubSeqType ==
  ASSUME NEW S, NEW s \in Seq(S), NEW n \in 0 .. Len(s)
  PROVE  /\ SubSeq(s, 1, n) \in Seq(S) /\ Len(SubSeq(s, 1, n)) = n
         /\ SubSeq(s, n + 1, Len(s)) \in Seq(S)
<1>1. SubSeq(s, 1, n) \in Seq(S) /\ Len(SubSeq(s, 1, n)) = n
  OBVIOUS
<1>2. SubSeq(s, n + 1, Len(s)) \in Seq(S)
  OBVIOUS
<1> QED
  BY <1>1, <1>2

\* What the types of the requests say of their records.
LEMMA WritesRecords ==
  ASSUME NEW req \in AllRequests, req.type \in {"Insert", "BatchInsert"}
  PROVE  /\ Len(req.records) \in Nat /\ DOMAIN req.records = 1 .. Len(req.records)
         /\ \A i \in 1 .. Len(req.records) : req.records[i] \in Records
<1>1. IsRequest(req)
  BY MessageAssumption DEF AllRequests
<1>2. Len(req.records) \in Nat /\ DOMAIN req.records = 1 .. Len(req.records)
  <2>1. CASE req = Insert(req.records[1])
    <3>1. PICK r : r = req.records[1]
      OBVIOUS
    <3>2. req.records = <<r>>
      BY <2>1, <3>1 DEF Insert
    <3> QED
      BY <3>2
  <2>2. CASE IsRecords(req.records)
    <3>1. PICK recs : recs = req.records
      OBVIOUS
    <3>2. Len(recs) \in Nat /\ DOMAIN recs = 1 .. Len(recs)
      BY <2>2, <3>1 DEF IsRecords
    <3> QED
      BY <3>1, <3>2, Zenon
  <2> QED
    BY <1>1, <2>1, <2>2 DEF IsRequest, Metrics, Ping
<1>3. req \in Writes
  BY DEF Writes
<1>4. \A i \in DOMAIN req.records : req.records[i] \in Records
  BY <1>3 DEF Records
<1> QED
  BY <1>2, <1>4

LEMMA RecordsAre == ASSUME NEW r \in Records PROVE IsRecord(r)
<1>1. CASE r \in {Stored[i] : i \in DOMAIN Stored}
  <2>1. PICK i \in DOMAIN Stored : r = Stored[i]
    BY <1>1
  <2>2. i \in 1 .. Len(Stored) /\ \A k \in 1 .. Len(Stored) : IsRecord(Stored[k])
    BY MessageAssumption DEF IsRecords
  <2> QED
    BY <2>1, <2>2
<1>2. CASE \E req \in Writes : \E i \in DOMAIN req.records : r = req.records[i]
  <2>1. PICK req \in Writes : \E i \in DOMAIN req.records : r = req.records[i]
    BY <1>2
  <2>2. PICK i \in DOMAIN req.records : r = req.records[i]
    BY <2>1
  <2>3. req \in AllRequests /\ req.type \in {"Insert", "BatchInsert"}
    BY DEF Writes
  <2>4. IsRequest(req)
    BY <2>3, MessageAssumption DEF AllRequests
  <2>5. CASE req = Insert(req.records[1]) /\ IsRecord(req.records[1])
    <3>1. PICK x : x = req.records[1]
      OBVIOUS
    <3>2. req.records = <<x>>
      BY <2>5, <3>1 DEF Insert
    <3>3. i = 1
      BY <3>2
    <3> QED
      BY <2>2, <2>5, <3>3
  <2>6. CASE IsRecords(req.records)
    <3>1. PICK recs : recs = req.records
      OBVIOUS
    <3>2. i \in DOMAIN recs /\ r = recs[i] /\ IsRecords(recs)
      BY <2>2, <2>6, <3>1, Zenon
    <3> QED
      BY <3>2 DEF IsRecords
  <2> QED
    BY <2>3, <2>4, <2>5, <2>6 DEF IsRequest, Metrics, Ping
<1> QED
  BY <1>1, <1>2 DEF Records

LEMMA ProtoRecordsAre == ASSUME NEW r \in ProtoRecords PROVE IsProtoRecord(r)
<1>1. PICK x \in Records, n \in Nat : r = ProtoRecord([rec |-> x, seq |-> n])
  BY DEF ProtoRecords
<1>2. IsText(x.key) /\ IsText(x.value)
  BY RecordsAre DEF IsRecord
<1>3. r = [source_id |-> x.source_id, ts |-> x.ts, seq |-> n, key |-> x.key, value |-> x.value]
  BY <1>1 DEF ProtoRecord
<1> QED
  BY <1>2, <1>3 DEF IsProtoRecord

LEMMA RepliesAre == ASSUME NEW msg \in Replies PROVE IsReply(msg)
<1>1. CASE msg \in {RangeRecord(r) : r \in ProtoRecords}
  <2>1. PICK r \in ProtoRecords : msg = RangeRecord(r)
    BY <1>1
  <2>2. IsProtoRecord(r)
    BY ProtoRecordsAre
  <2>3. msg.type = "RangeRecord" /\ msg.record = r
    BY <2>1 DEF RangeRecord
  <2> QED
    BY <2>1, <2>2, <2>3, Zenon DEF IsReply
<1>2. CASE msg \in {MetricsJson(a.json) : a \in Answers}
  <2>1. PICK json : msg = MetricsJson(json)
    BY <1>2
  <2>2. msg.type = "Metrics" /\ msg.json = json
    BY <2>1 DEF MetricsJson
  <2> QED
    BY <2>1, <2>2, Zenon DEF IsReply
<1>3. CASE msg \in {InsertOk, RangeEnd, Pong}
  BY <1>3 DEF IsReply
<1>4. CASE msg \in {ErrorText("failed"), ErrorText("engine closed")}
  <2>1. PICK text \in {"failed", "engine closed"} : msg = ErrorText(text)
    BY <1>4
  <2>2. msg.type = "Error" /\ msg.text = text
    BY <2>1 DEF ErrorText
  <2>3. IsText(text)
    BY MessageAssumption
  <2> QED
    BY <2>1, <2>2, <2>3, Zenon DEF IsReply
<1> QED
  BY <1>1, <1>2, <1>3, <1>4 DEF Replies

\* The recursion of Selected has a solution.
SelectedBy(f, msg, es, n) ==
  f = [i \in 0 .. n |->
         IF i = 0 THEN <<>>
         ELSE IF Matches(msg, es[i]) THEN Append(f[i - 1], ProtoRecord(es[i])) ELSE f[i - 1]]

LEMMA SelectedExists ==
  ASSUME NEW msg, NEW es, NEW n \in Nat
  PROVE  \E f : SelectedBy(f, msg, es, n)
<1> DEFINE Step(f, i) == IF Matches(msg, es[i]) THEN Append(f[i - 1], ProtoRecord(es[i])) ELSE f[i - 1]
           Solved(m) == \E f : f = [i \in 0 .. m |-> IF i = 0 THEN <<>> ELSE Step(f, i)]
           T == {m \in 0 .. n : ~Solved(m)}
<1> HIDE DEF Solved
<1>1. SUFFICES ASSUME T # {} PROVE FALSE
  <2>1. T = {} => Solved(n)
    OBVIOUS
  <2> QED
    BY <2>1, Zenon DEF Solved, SelectedBy
<1>2. PICK c \in T : \A d \in T : c <= d
  <2>1. T \in SUBSET Nat
    OBVIOUS
  <2> HIDE DEF T
  <2> QED
    BY <1>1, <2>1, LeastNumber
<1>3. CASE c = 0
  <2> DEFINE f == [i \in 0 .. 0 |-> <<>>]
  <2> HIDE DEF Step
  <2>1. f = [i \in 0 .. 0 |-> IF i = 0 THEN <<>> ELSE Step(f, i)]
    OBVIOUS
  <2>2. Solved(0)
    BY <2>1, Zenon DEF Solved
  <2> QED
    BY <1>2, <1>3, <2>2
<1>4. CASE c # 0
  <2>1. c \in Nat /\ c - 1 \in 0 .. n /\ c - 1 \in Nat
    BY <1>2, <1>4
  <2>2. Solved(c - 1)
    BY <1>2, <2>1
  <2>3. PICK g : g = [i \in 0 .. (c - 1) |-> IF i = 0 THEN <<>> ELSE Step(g, i)]
    BY <2>2, Zenon DEF Solved
  <2> DEFINE f == [i \in 0 .. c |-> IF i = c THEN Step(g, c) ELSE g[i]]
  <2>4. \A i \in 1 .. c : f[i - 1] = g[i - 1]
    BY <2>1
  <2>5. \A i \in 1 .. c : Step(f, i) = Step(g, i)
    <3> HIDE DEF f
    <3> QED
      BY <2>4, Zenon
  <2> HIDE DEF Step
  <2>6. \A i \in 0 .. (c - 1) : g[i] = IF i = 0 THEN <<>> ELSE Step(g, i)
    BY <2>3
  <2>7. ASSUME NEW i \in 0 .. c PROVE f[i] = IF i = 0 THEN <<>> ELSE Step(f, i)
    <3>1. CASE i = c
      <4>1. i # 0 /\ i \in 1 .. c /\ f[i] = Step(g, c)
        BY <1>4, <2>1, <3>1
      <4> QED
        BY <2>5, <3>1, <4>1
    <3>2. CASE i # c
      <4>1. i \in 0 .. (c - 1) /\ f[i] = g[i] /\ (i # 0 => i \in 1 .. c)
        BY <2>1, <3>2
      <4> QED
        BY <2>5, <2>6, <4>1
    <3> QED
      BY <3>1, <3>2
  <2>8. f = [i \in 0 .. c |-> IF i = 0 THEN <<>> ELSE Step(f, i)]
    BY <2>7
  <2>9. Solved(c)
    <3> HIDE DEF f
    <3> QED
      BY <2>8, Zenon DEF Solved
  <2> QED
    BY <1>2, <2>9
<1> QED
  BY <1>3, <1>4

\* What a query selects, entry by entry, are records of the protocol.
SelectedUpTo(f, msg, es) ==
  /\ \A i \in 0 .. Len(es) : f[i] \in Seq(ProtoRecords)
  /\ \A i \in 1 .. Len(es) :
       /\ ProtoRecord(es[i]) \in ProtoRecords
       /\ f[i] = IF Matches(msg, es[i]) THEN Append(f[i - 1], ProtoRecord(es[i])) ELSE f[i - 1]

LEMMA SelectedSteps ==
  ASSUME NEW msg, NEW es \in Seq(Entries)
  PROVE  \E f : SelectedUpTo(f, msg, es) /\ Selected(msg, es) = f[Len(es)]
<1>1. PICK n \in Nat : n = Len(es)
  OBVIOUS
<1> DEFINE f == CHOOSE f : f = [i \in 0 .. Len(es) |->
                  IF i = 0 THEN <<>>
                  ELSE IF Matches(msg, es[i]) THEN Append(f[i - 1], ProtoRecord(es[i]))
                  ELSE f[i - 1]]
<1>2. f = [i \in 0 .. Len(es) |->
             IF i = 0 THEN <<>>
             ELSE IF Matches(msg, es[i]) THEN Append(f[i - 1], ProtoRecord(es[i]))
             ELSE f[i - 1]]
  <2>1. \E g : g = [i \in 0 .. Len(es) |->
                      IF i = 0 THEN <<>>
                      ELSE IF Matches(msg, es[i]) THEN Append(g[i - 1], ProtoRecord(es[i]))
                      ELSE g[i - 1]]
    <3>1. Len(es) \in Nat
      OBVIOUS
    <3>2. \E g : SelectedBy(g, msg, es, Len(es))
      BY <3>1, SelectedExists
    <3> QED
      BY <3>2, Zenon DEF SelectedBy
  <2> QED
    BY <2>1, Zenon
<1>3. Selected(msg, es) = f[Len(es)]
  BY Zenon DEF Selected
<1> HIDE DEF f
<1>4. ASSUME NEW i \in 0 .. n
      PROVE  f[i] = IF i = 0 THEN <<>>
                    ELSE IF Matches(msg, es[i]) THEN Append(f[i - 1], ProtoRecord(es[i]))
                    ELSE f[i - 1]
  BY <1>1, <1>2
<1>5. ASSUME NEW i \in 1 .. n PROVE ProtoRecord(es[i]) \in ProtoRecords
  <2>1. PICK e \in Entries : e = es[i]
    BY <1>1
  <2>2. e.rec \in Records /\ e.seq \in Nat
    BY DEF Entries
  <2>3. ProtoRecord(e) = ProtoRecord([rec |-> e.rec, seq |-> e.seq])
    BY DEF ProtoRecord
  <2>4. ProtoRecord(e) \in ProtoRecords
    BY <2>2, <2>3 DEF ProtoRecords
  <2> QED
    BY <2>1, <2>4
<1> DEFINE T == {i \in 0 .. n : f[i] \notin Seq(ProtoRecords)}
<1>6. SUFFICES ASSUME T # {} PROVE FALSE
  <2>1. ASSUME T = {}, NEW i \in 0 .. n PROVE f[i] \in Seq(ProtoRecords)
    BY <2>1
  <2>2. ASSUME NEW i \in 1 .. n
        PROVE  f[i] = IF Matches(msg, es[i]) THEN Append(f[i - 1], ProtoRecord(es[i])) ELSE f[i - 1]
    <3>1. i \in 0 .. n /\ i # 0
      OBVIOUS
    <3> QED
      BY <1>4, <3>1, Zenon
  <2> HIDE DEF T
  <2>3. T = {} => SelectedUpTo(f, msg, es)
    BY <1>1, <1>5, <2>1, <2>2, Zenon DEF SelectedUpTo
  <2> QED
    BY <1>3, <2>3, Zenon
<1>7. PICK c \in T : \A d \in T : c <= d
  <2>1. T \in SUBSET Nat
    OBVIOUS
  <2> HIDE DEF T
  <2> QED
    BY <1>6, <2>1, LeastNumber
<1>8. c # 0
  <2>1. c = 0 => f[c] = <<>>
    BY <1>4, <1>7
  <2>2. <<>> \in Seq(ProtoRecords)
    OBVIOUS
  <2>3. f[c] \notin Seq(ProtoRecords)
    BY <1>7
  <2> QED
    BY <2>1, <2>2, <2>3, Zenon
<1>9. c \in 1 .. n /\ c - 1 \in 0 .. n /\ c - 1 \notin T
  BY <1>7, <1>8
<1>10. f[c - 1] \in Seq(ProtoRecords) /\ ProtoRecord(es[c]) \in ProtoRecords
  BY <1>5, <1>9
<1>11. f[c] = Append(f[c - 1], ProtoRecord(es[c])) \/ f[c] = f[c - 1]
  <2>1. c \in 0 .. n
    BY <1>9
  <2>2. CASE Matches(msg, es[c])
    BY <1>4, <1>8, <2>1, <2>2, Zenon
  <2>3. CASE ~Matches(msg, es[c])
    BY <1>4, <1>8, <2>1, <2>3, Zenon
  <2> QED
    BY <2>2, <2>3
<1>12. f[c] \in Seq(ProtoRecords)
  <2>1. PICK a \in Seq(ProtoRecords) : a = f[c - 1]
    BY <1>10
  <2>2. PICK r \in ProtoRecords : r = ProtoRecord(es[c])
    BY <1>10
  <2>3. Append(a, r) \in Seq(ProtoRecords)
    OBVIOUS
  <2> QED
    BY <1>11, <2>1, <2>2, <2>3, Zenon
<1> QED
  BY <1>7, <1>12

LEMMA SelectedType ==
  ASSUME NEW msg, NEW es \in Seq(Entries)
  PROVE  Selected(msg, es) \in Seq(ProtoRecords)
<1>1. PICK f : SelectedUpTo(f, msg, es) /\ Selected(msg, es) = f[Len(es)]
  BY SelectedSteps
<1>2. Len(es) \in 0 .. Len(es)
  OBVIOUS
<1> QED
  BY <1>1, <1>2, Zenon DEF SelectedUpTo

answerVars == <<cur, queue, oneshot, store, seq_counter, records_inserted, task, rchan, wbuf, down>>

LEMMA OtherAnswers ==
  ASSUME AnswersTyped, UNCHANGED answerVars
  PROVE  AnswersTyped'
BY DEF AnswersTyped, answerVars

LEMMA InitAnswers == Init => AnswersTyped
<1> SUFFICES ASSUME Init PROVE AnswersTyped
  OBVIOUS
<1>1. store \in Seq(Entries) /\ seq_counter \in Nat
  <2>1. PICK n \in Nat : n = Len(Stored) /\ DOMAIN Stored = 1 .. n
    BY MessageAssumption DEF IsRecords
  <2>2. store = [i \in 1 .. n |-> [rec |-> Stored[i], seq |-> i, by |-> <<>>]]
    BY <2>1 DEF Init
  <2>3. \A i \in 1 .. n : Stored[i] \in Records
    BY <2>1 DEF Records
  <2>4. \A i \in 1 .. n : [rec |-> Stored[i], seq |-> i, by |-> <<>>] \in Entries
    BY <2>3 DEF Entries
  <2>5. store \in [1 .. n -> Entries]
    BY <2>2, <2>4
  <2> QED
    BY <2>1, <2>5 DEF Init
<1>2. /\ cur \in [Conns -> AllRequests \cup {Ping}] /\ queue \in Seq(Conns)
      /\ records_inserted \in Nat
      /\ wbuf \in [Conns -> Seq(Written)] /\ down \in [Conns -> Seq(Written)]
      /\ \A c \in Conns : Len(down[c]) <= PathFrames
  BY ConnAssumption DEF Init
<1>3. oneshot \in [Conns -> Answers]
  BY DEF Init, Nothing, Answers
<1>4. /\ task \in [Conns -> [left : Seq(ProtoRecords), ok : BOOLEAN, alive : BOOLEAN]]
      /\ rchan \in [Conns -> [batches : Seq(Seq(ProtoRecords)), open : BOOLEAN]]
  BY DEF Init, NoTask, Closed
<1> QED
  BY <1>1, <1>2, <1>3, <1>4 DEF AnswersTyped

\* The client takes an answer from the path, or closes.
LEMMA ClientAnswers ==
  ASSUME AnswersTyped, NEW c \in Conns, Receive(c) \/ Close(c)
  PROVE  AnswersTyped'
<1>1. UNCHANGED <<cur, queue, oneshot, store, seq_counter, records_inserted, task, rchan, wbuf>>
  BY DEF Receive, Close, handlerVars, engineVars, storeVars
<1>2. down \in [Conns -> Seq(Written)] /\ \A d \in Conns : Len(down[d]) <= PathFrames
  BY DEF AnswersTyped
<1>3. PathFrames \in Nat
  BY ConnAssumption
<1>4. \E s \in Seq(Written) : down' = [down EXCEPT ![c] = s] /\ Len(s) <= PathFrames
  <2>1. CASE Receive(c)
    <3>1. PICK s \in Seq(Written) : s = down[c]
      BY <1>2
    <3>2. s # <<>> /\ down' = [down EXCEPT ![c] = Tail(s)] /\ Len(s) <= PathFrames
      BY <1>2, <2>1, <3>1 DEF Receive
    <3>3. Tail(s) \in Seq(Written) /\ Len(Tail(s)) = Len(s) - 1 /\ Len(s) \in Nat
      BY <3>2, TailType
    <3>4. Len(Tail(s)) <= PathFrames
      BY <1>3, <3>2, <3>3
    <3> QED
      BY <3>2, <3>3, <3>4
  <2>2. CASE Close(c)
    <3>1. down' = [down EXCEPT ![c] = <<>>] /\ <<>> \in Seq(Written) /\ Len(<<>>) <= PathFrames
      BY <1>3, <2>2 DEF Close
    <3> QED
      BY <3>1
  <2> QED
    BY <2>1, <2>2
<1>5. down' \in [Conns -> Seq(Written)] /\ \A d \in Conns : Len(down'[d]) <= PathFrames
  BY <1>2, <1>4
<1> QED
  BY <1>1, <1>5 DEF AnswersTyped

\* A handler that fails drops its buffer.
LEMMA FailAnswers ==
  ASSUME AnswersTyped, NEW c \in Conns, Fail(c),
         UNCHANGED <<queue, oneshot, store, seq_counter, records_inserted, task, rchan, down>>
  PROVE  AnswersTyped'
<1>1. cur' = cur /\ wbuf' = [wbuf EXCEPT ![c] = <<>>]
  BY DEF Fail
<1>2. wbuf' \in [Conns -> Seq(Written)]
  BY <1>1 DEF AnswersTyped
<1> QED
  BY <1>1, <1>2 DEF AnswersTyped

LEMMA ReadAnswers ==
  ASSUME RequestsInFlight, AnswersTyped, NEW c \in Conns, ReadFrame(c)
  PROVE  AnswersTyped'
<1>1. server_decode(Head(up[c])) \in AllRequests
  BY ReadRequests
<1>2. /\ cur' = [cur EXCEPT ![c] = server_decode(Head(up[c]))]
      /\ UNCHANGED <<queue, oneshot, store, seq_counter, records_inserted, task, rchan, wbuf, down>>
  BY DEF ReadFrame, engineVars, storeVars
<1>3. cur' \in [Conns -> AllRequests \cup {Ping}]
  BY <1>1, <1>2 DEF AnswersTyped
<1> QED
  BY <1>2, <1>3 DEF AnswersTyped

LEMMA SendAnswers ==
  ASSUME AnswersTyped, NEW c \in Conns, SendCommand(c)
  PROVE  AnswersTyped'
<1>1. UNCHANGED <<store, seq_counter, records_inserted, task, down>>
  BY DEF SendCommand, netVars, storeVars
<1>2. CASE ~running
  <2>1. Fail(c) /\ UNCHANGED <<queue, oneshot, rchan>>
    BY <1>2 DEF SendCommand
  <2> QED
    BY <1>1, <2>1, FailAnswers
<1>3. CASE running
  <2>1. /\ queue' = Append(queue, c) /\ oneshot' = [oneshot EXCEPT ![c] = Nothing]
        /\ rchan' = [rchan EXCEPT ![c] = [batches |-> <<>>, open |-> cur[c].type = "Range"]]
        /\ UNCHANGED <<cur, wbuf>>
    BY <1>3 DEF SendCommand
  <2>2. queue' \in Seq(Conns)
    BY <2>1 DEF AnswersTyped
  <2>3. oneshot' \in [Conns -> Answers]
    <3>1. Nothing \in Answers
      BY DEF Nothing, Answers
    <3> QED
      BY <2>1, <3>1 DEF AnswersTyped
  <2>4. rchan' \in [Conns -> [batches : Seq(Seq(ProtoRecords)), open : BOOLEAN]]
    <3>1. PICK b \in BOOLEAN : b = (cur[c].type = "Range")
      OBVIOUS
    <3>2. [batches |-> <<>>, open |-> b] \in [batches : Seq(Seq(ProtoRecords)), open : BOOLEAN]
      OBVIOUS
    <3>3. rchan' = [rchan EXCEPT ![c] = [batches |-> <<>>, open |-> b]]
      BY <2>1, <3>1, Zenon
    <3> QED
      BY <3>2, <3>3 DEF AnswersTyped
  <2> QED
    BY <1>1, <2>1, <2>2, <2>3, <2>4 DEF AnswersTyped
<1> QED
  BY <1>2, <1>3

\* The records of a batch become frames in the write buffer.
LEMMA RecvAnswers ==
  ASSUME RequestsInFlight, AnswersTyped, NEW c \in Conns, RecvRecords(c)
  PROVE  AnswersTyped'
<1>1. /\ UNCHANGED <<cur, queue, oneshot, store, seq_counter, records_inserted, task, down>>
      /\ rchan[c].batches # <<>> /\ rchan' = [rchan EXCEPT ![c].batches = Tail(@)]
      /\ wbuf' = [wbuf EXCEPT ![c] = wbuf[c] \o [i \in DOMAIN Head(rchan[c].batches) |->
                                       Out(c, RangeRecord(Head(rchan[c].batches)[i]))]]
  BY DEF RecvRecords, netVars, storeVars
<1>2. PICK bs \in Seq(Seq(ProtoRecords)) : bs = rchan[c].batches
  BY DEF AnswersTyped
<1>3. Head(bs) \in Seq(ProtoRecords) /\ Tail(bs) \in Seq(Seq(ProtoRecords))
  <2>1. bs # <<>>
    BY <1>1, <1>2
  <2> QED
    BY <2>1, TailType
<1>4. rchan' \in [Conns -> [batches : Seq(Seq(ProtoRecords)), open : BOOLEAN]]
  <2>1. rchan' = [rchan EXCEPT ![c].batches = Tail(bs)]
    BY <1>1, <1>2
  <2> QED
    BY <1>3, <2>1 DEF AnswersTyped
<1>5. PICK b \in Seq(ProtoRecords) : b = Head(bs)
  BY <1>3
<1>6. PICK n \in Nat : n = Len(handled[c])
  BY DEF RequestsInFlight
<1>7. PICK frames : frames = [i \in DOMAIN b |-> [msg |-> RangeRecord(b[i]), of |-> n]]
  OBVIOUS
<1>8. frames \in Seq(Written)
  <2>1. ASSUME NEW i \in 1 .. Len(b) PROVE [msg |-> RangeRecord(b[i]), of |-> n] \in Written
    <3>1. PICK r \in ProtoRecords : r = b[i]
      OBVIOUS
    <3>2. PICK m : m = RangeRecord(r)
      OBVIOUS
    <3>3. m \in Replies
      BY <3>2 DEF Replies
    <3>4. [msg |-> m, of |-> n] \in Written
      BY <3>3 DEF Written
    <3> QED
      BY <3>1, <3>2, <3>4, Zenon
  <2>2. DOMAIN b = 1 .. Len(b) /\ Len(b) \in Nat
    OBVIOUS
  <2>3. frames \in [1 .. Len(b) -> Written]
    BY <1>7, <2>1, <2>2
  <2> QED
    BY <2>2, <2>3
<1>9. PICK w \in Seq(Written) : w = wbuf[c]
  BY DEF AnswersTyped
<1>10. PICK v \in Seq(Written) : v = w \o frames
  <2>1. PICK g \in Seq(Written) : g = frames
    BY <1>8
  <2>2. w \o g \in Seq(Written)
    OBVIOUS
  <2> QED
    BY <2>1, <2>2, Zenon
<1>11. wbuf' = [wbuf EXCEPT ![c] = v]
  <2>1. [i \in DOMAIN Head(rchan[c].batches) |-> Out(c, RangeRecord(Head(rchan[c].batches)[i]))] = frames
    BY <1>2, <1>5, <1>6, <1>7, Zenon DEF Out
  <2> QED
    BY <1>1, <1>9, <1>10, <2>1, Zenon
<1>12. wbuf' \in [Conns -> Seq(Written)]
  BY <1>11 DEF AnswersTyped
<1> QED
  BY <1>1, <1>4, <1>12 DEF AnswersTyped

\* What the path takes moves from the write buffer to it.
LEMMA FlushAnswers ==
  ASSUME AnswersTyped, NEW c \in Conns, Flush(c)
  PROVE  AnswersTyped'
<1>1. UNCHANGED <<queue, oneshot, store, seq_counter, records_inserted, task, rchan>>
  BY DEF Flush, engineVars, storeVars
<1>2. CASE Fail(c) /\ UNCHANGED <<sock, down, frames_written, flushed>>
  BY <1>1, <1>2, FailAnswers
<1>3. ASSUME NEW n, n = (IF sock[c] # "open" \/ Len(wbuf[c]) < PathFrames - Len(down[c])
                         THEN Len(wbuf[c]) ELSE PathFrames - Len(down[c])),
             n > 0 \/ wbuf[c] = <<>>,
             wbuf' = [wbuf EXCEPT ![c] = SubSeq(@, n + 1, Len(@))],
             IF sock[c] = "open"
             THEN down' = [down EXCEPT ![c] = @ \o SubSeq(wbuf[c], 1, n)] /\ UNCHANGED sock
             ELSE sock' = [sock EXCEPT ![c] = IF n > 0 THEN "rst" ELSE @] /\ UNCHANGED down,
             cur' = cur
      PROVE  AnswersTyped'
  <2>1. PICK w \in Seq(Written) : w = wbuf[c]
    BY DEF AnswersTyped
  <2>2. PICK d \in Seq(Written) : d = down[c]
    BY DEF AnswersTyped
  <2>3. Len(w) \in Nat /\ Len(d) \in Nat /\ Len(d) <= PathFrames /\ PathFrames \in Nat
    BY <2>2, ConnAssumption DEF AnswersTyped
  <2>4. n = IF sock[c] # "open" \/ Len(w) < PathFrames - Len(d) THEN Len(w) ELSE PathFrames - Len(d)
    BY <1>3, <2>1, <2>2, Zenon
  <2>5. n \in 0 .. Len(w) /\ (sock[c] = "open" => Len(d) + n <= PathFrames)
    BY <2>3, <2>4
  <2>6. /\ SubSeq(w, 1, n) \in Seq(Written) /\ Len(SubSeq(w, 1, n)) = n
        /\ SubSeq(w, n + 1, Len(w)) \in Seq(Written)
    BY <2>5, SubSeqType
  <2>7. wbuf' \in [Conns -> Seq(Written)]
    <3>1. PICK v \in Seq(Written) : v = SubSeq(w, n + 1, Len(w))
      BY <2>6
    <3>2. wbuf' = [wbuf EXCEPT ![c] = v]
      BY <1>3, <2>1, <3>1, Zenon
    <3> QED
      BY <3>2 DEF AnswersTyped
  <2>8. down' \in [Conns -> Seq(Written)] /\ \A x \in Conns : Len(down'[x]) <= PathFrames
    <3>1. CASE sock[c] = "open"
      <4>1. PICK v \in Seq(Written) : v = SubSeq(w, 1, n)
        BY <2>6
      <4>2. d \o v \in Seq(Written) /\ Len(d \o v) = Len(d) + Len(v)
        OBVIOUS
      <4>3. PICK u \in Seq(Written) : u = d \o v
        BY <4>2
      <4>4. Len(u) <= PathFrames
        BY <2>3, <2>5, <2>6, <3>1, <4>1, <4>2, <4>3
      <4>5. down' = [down EXCEPT ![c] = u]
        BY <1>3, <2>1, <2>2, <3>1, <4>1, <4>3, Zenon
      <4> QED
        BY <4>4, <4>5 DEF AnswersTyped
    <3>2. CASE sock[c] # "open"
      BY <1>3, <3>2 DEF AnswersTyped
    <3> QED
      BY <3>1, <3>2
  <2> QED
    BY <1>1, <1>3, <2>7, <2>8 DEF AnswersTyped
<1> QED
  BY <1>2, <1>3 DEF Flush

\* The reply to a request.
LEMMA ReplyAnswers ==
  ASSUME RequestsInFlight, AnswersTyped, NEW c \in Conns, Answer(c)
  PROVE  AnswersTyped'
<1>1. UNCHANGED <<queue, oneshot, store, seq_counter, records_inserted, task, rchan, down>>
  BY DEF Answer, engineVars, storeVars, netVars
<1>2. CASE Fail(c)
  BY <1>1, <1>2, FailAnswers
<1>3. CASE /\ wbuf' = [wbuf EXCEPT ![c] = Append(@, Out(c, reply_to(cur[c], oneshot[c])))]
           /\ UNCHANGED cur
  <2>1. PICK msg : msg = reply_to(cur[c], oneshot[c])
    OBVIOUS
  <2>2. PICK a \in Answers : a = oneshot[c]
    BY DEF AnswersTyped
  <2>3. msg \in Replies
    <3>1. \/ msg = MetricsJson(a.json)
          \/ msg \in {InsertOk, RangeEnd, Pong, ErrorText("failed"), ErrorText("engine closed")}
      <4>1. PICK req : req = cur[c]
        OBVIOUS
      <4>2. msg = reply_to(req, a)
        BY <2>1, <2>2, <4>1, Zenon
      <4> QED
        BY <4>2 DEF reply_to, Inserts
    <3> QED
      BY <3>1 DEF Replies
  <2>4. PICK n \in Nat : n = Len(handled[c])
    <3>1. handled[c] \in Seq(AllRequests)
      BY DEF RequestsInFlight
    <3> QED
      BY <3>1
  <2>5. PICK f \in Written : f = Out(c, msg)
    <3>1. [msg |-> msg, of |-> n] \in Written
      BY <2>3 DEF Written
    <3> QED
      BY <2>4, <3>1 DEF Out
  <2>6. wbuf' = [wbuf EXCEPT ![c] = Append(@, f)]
    BY <1>3, <2>1, <2>5, Zenon
  <2>7. wbuf' \in [Conns -> Seq(Written)]
    BY <2>6 DEF AnswersTyped
  <2> QED
    BY <1>1, <1>3, <2>7 DEF AnswersTyped
<1> QED
  BY <1>2, <1>3 DEF Answer

\* The engine stores the records of an insert, or refuses them.
LEMMA InsertAnswers ==
  ASSUME RequestsInFlight, AnswersTyped, NEW c \in Conns, cur[c].type \in Inserts,
         EngineInsert(c, cur[c]), queue' \in Seq(Conns), UNCHANGED <<cur, wbuf, down>>
  PROVE  AnswersTyped'
<1>1. PICK req \in AllRequests : req = cur[c] /\ req.type \in {"Insert", "BatchInsert"}
  BY DEF AnswersTyped, Inserts, Ping
<1>2. PICK n \in Nat : n = Len(req.records)
  BY <1>1, WritesRecords
<1>3. \A i \in 1 .. n : req.records[i] \in Records
  BY <1>1, <1>2, WritesRecords
<1>4. seq_counter \in Nat /\ records_inserted \in Nat
  BY DEF AnswersTyped
<1>5. PICK k \in Nat : k = Len(handled[c])
  <2>1. handled[c] \in Seq(AllRequests)
    BY DEF RequestsInFlight
  <2> QED
    BY <2>1
<1>6. UNCHANGED <<task, rchan>>
  BY DEF EngineInsert
<1>7. InsertCount(cur[c]) = n /\ records_counted(cur[c]) = n
  BY <1>1, <1>2 DEF InsertCount, records_counted
<1>8. oneshot' \in [Conns -> Answers]
  <2>1. \E a \in Answers : oneshot' = [oneshot EXCEPT ![c] = a]
    <3>1. [is |-> "ok"] \in Answers /\ [is |-> "err"] \in Answers
      BY DEF Answers
    <3> QED
      BY <3>1, Zenon DEF EngineInsert
  <2> QED
    BY <2>1 DEF AnswersTyped
<1>9. seq_counter' \in Nat /\ records_inserted' \in Nat
  <2>1. seq_counter' = seq_counter \/ seq_counter' = seq_counter + n
    BY <1>7, Zenon DEF EngineInsert
  <2>2. records_inserted' = records_inserted \/ records_inserted' = records_inserted + n
    BY <1>7, Zenon DEF EngineInsert
  <2> QED
    BY <1>4, <2>1, <2>2
<1>10. store' \in Seq(Entries)
  <2>1. PICK es : es = [i \in 1 .. n |-> [rec |-> req.records[i], seq |-> seq_counter + i - 1,
                                          by |-> <<c, k>>]]
    OBVIOUS
  <2>2. store' = store \/ store' = store \o es
    BY <1>1, <1>5, <1>7, <2>1, Zenon DEF EngineInsert
  <2>3. ASSUME NEW i \in 1 .. n
        PROVE  [rec |-> req.records[i], seq |-> seq_counter + i - 1, by |-> <<c, k>>] \in Entries
    <3>1. PICK r \in Records : r = req.records[i]
      BY <1>3
    <3>2. PICK m \in Nat : m = seq_counter + i - 1
      BY <1>4
    <3>3. PICK b \in {<<>>} \union (Conns \X Nat) : b = <<c, k>>
      OBVIOUS
    <3>4. [rec |-> r, seq |-> m, by |-> b] \in Entries
      BY DEF Entries
    <3> QED
      BY <3>1, <3>2, <3>3, <3>4, Zenon
  <2>4. es \in [1 .. n -> Entries]
    BY <2>1, <2>3
  <2>5. es \in Seq(Entries)
    BY <2>4
  <2>6. PICK s \in Seq(Entries) : s = store
    BY DEF AnswersTyped
  <2>7. s \o es \in Seq(Entries)
    BY <2>5
  <2> QED
    BY <2>2, <2>6, <2>7
<1> QED
  BY <1>6, <1>8, <1>9, <1>10 DEF AnswersTyped

\* The engine starts a query, or refuses its bounds.
LEMMA RangeAnswersTyped ==
  ASSUME AnswersTyped, NEW c \in Conns, EngineRange(c, cur[c]), queue' \in Seq(Conns),
         UNCHANGED <<cur, wbuf, down>>
  PROVE  AnswersTyped'
<1>1. UNCHANGED <<store, seq_counter, records_inserted>>
  BY DEF EngineRange, storeVars
<1>2. PICK req : req = cur[c]
  OBVIOUS
<1>3. CASE /\ oneshot' = [oneshot EXCEPT ![c] = [is |-> "err"]]
           /\ rchan' = [rchan EXCEPT ![c] = refuse(@)]
           /\ UNCHANGED task
  <2>1. oneshot' \in [Conns -> Answers]
    <3>1. PICK a \in Answers : a = [is |-> "err"]
      BY DEF Answers
    <3> QED
      BY <1>3, <3>1 DEF AnswersTyped
  <2>2. rchan' \in [Conns -> [batches : Seq(Seq(ProtoRecords)), open : BOOLEAN]]
    BY <1>3 DEF AnswersTyped, refuse
  <2> QED
    BY <1>1, <1>3, <2>1, <2>2 DEF AnswersTyped
<1>4. ASSUME NEW n \in 0 .. Len(Selected(req, store)),
             task' = [task EXCEPT ![c] = [left |-> SubSeq(Selected(req, store), 1, n),
                                          ok |-> n = Len(Selected(req, store)), alive |-> TRUE]],
             UNCHANGED <<oneshot, rchan>>
      PROVE  AnswersTyped'
  <2>1. PICK recs \in Seq(ProtoRecords) : recs = Selected(req, store)
    <3>1. store \in Seq(Entries)
      BY DEF AnswersTyped
    <3> QED
      BY <3>1, SelectedType
  <2>2. n \in 0 .. Len(recs)
    BY <1>4, <2>1, Zenon
  <2>3. PICK left \in Seq(ProtoRecords) : left = SubSeq(recs, 1, n)
    BY <2>2, SubSeqType
  <2>4. PICK ok \in BOOLEAN : ok = (n = Len(recs))
    OBVIOUS
  <2>5. task' = [task EXCEPT ![c] = [left |-> left, ok |-> ok, alive |-> TRUE]]
    BY <1>4, <2>1, <2>3, <2>4, Zenon
  <2>6. task' \in [Conns -> [left : Seq(ProtoRecords), ok : BOOLEAN, alive : BOOLEAN]]
    BY <2>5 DEF AnswersTyped
  <2> QED
    BY <1>1, <1>4, <2>6 DEF AnswersTyped
<1> QED
  BY <1>2, <1>3, <1>4, Zenon DEF EngineRange

\* The engine answers with a snapshot of its counters.
LEMMA MetricsAnswers ==
  ASSUME AnswersTyped, NEW c \in Conns, EngineMetrics(c), queue' \in Seq(Conns),
         UNCHANGED <<cur, wbuf, down>>
  PROVE  AnswersTyped'
<1>1. UNCHANGED <<store, seq_counter, records_inserted, task, rchan>>
  BY DEF EngineMetrics, storeVars
<1>2. PICK n \in Nat : n = records_inserted
  BY DEF AnswersTyped
<1>3. PICK a \in Answers : a = [is |-> "ok", json |-> [records_inserted |-> n]]
  BY DEF Answers
<1>4. oneshot' = [oneshot EXCEPT ![c] = a]
  BY <1>2, <1>3, Zenon DEF EngineMetrics
<1>5. oneshot' \in [Conns -> Answers]
  BY <1>4 DEF AnswersTyped
<1> QED
  BY <1>1, <1>5 DEF AnswersTyped

LEMMA EngineAnswers ==
  ASSUME RequestsInFlight, AnswersTyped, Engine
  PROVE  AnswersTyped'
<1>1. PICK q \in Seq(Conns) : q = queue
  BY DEF AnswersTyped
<1>2. q # <<>> /\ queue' = Tail(q) /\ UNCHANGED <<cur, wbuf, down>>
  BY <1>1 DEF Engine, handlerVars, netVars
<1>3. Head(q) \in Conns /\ Tail(q) \in Seq(Conns)
  BY <1>2, TailType
<1>4. PICK c \in Conns : c = Head(queue)
  BY <1>1, <1>3
<1>5. queue' \in Seq(Conns)
  BY <1>2, <1>3
<1>6. \/ cur[c].type \in Inserts /\ EngineInsert(c, cur[c])
      \/ EngineRange(c, cur[c])
      \/ EngineMetrics(c)
  BY <1>4, Zenon DEF Engine
<1> QED
  BY <1>2, <1>5, <1>6, InsertAnswers, RangeAnswersTyped, MetricsAnswers

LEMMA StopsAnswers ==
  ASSUME AnswersTyped, EngineStops
  PROVE  AnswersTyped'
<1>1. UNCHANGED <<cur, store, seq_counter, records_inserted, task, wbuf, down>> /\ queue' = <<>>
  BY DEF EngineStops, handlerVars, netVars, storeVars
<1>2. PICK dropped :
        /\ oneshot' = [c \in Conns |-> IF c \in dropped THEN [is |-> "dropped"] ELSE oneshot[c]]
        /\ rchan' = [c \in Conns |-> IF c \in dropped THEN Closed ELSE rchan[c]]
  BY DEF EngineStops
<1>3. oneshot' \in [Conns -> Answers]
  <2>1. PICK a \in Answers : a = [is |-> "dropped"]
    BY DEF Answers
  <2> QED
    BY <1>2, <2>1 DEF AnswersTyped
<1>4. rchan' \in [Conns -> [batches : Seq(Seq(ProtoRecords)), open : BOOLEAN]]
  BY <1>2 DEF AnswersTyped, Closed
<1> QED
  BY <1>1, <1>3, <1>4 DEF AnswersTyped

LEMMA TaskAnswers ==
  ASSUME AnswersTyped, NEW c \in Conns, TaskSends(c) \/ TaskEnds(c)
  PROVE  AnswersTyped'
<1>1. UNCHANGED <<cur, queue, store, seq_counter, records_inserted, wbuf, down>>
  BY DEF TaskSends, TaskEnds, handlerVars, netVars, storeVars
<1>2. PICK left \in Seq(ProtoRecords) : left = task[c].left
  BY DEF AnswersTyped
<1>3. CASE TaskSends(c) /\ Gone(c)
  <2>1. UNCHANGED <<oneshot, rchan>> /\ task' = [task EXCEPT ![c].left = <<>>]
    BY <1>3 DEF TaskSends
  <2>2. task' \in [Conns -> [left : Seq(ProtoRecords), ok : BOOLEAN, alive : BOOLEAN]]
    <3>1. <<>> \in Seq(ProtoRecords)
      OBVIOUS
    <3>2. PICK s \in Seq(ProtoRecords) : s = <<>>
      BY <3>1, Zenon
    <3>3. task' = [task EXCEPT ![c].left = s]
      BY <2>1, <3>2
    <3> QED
      BY <3>3 DEF AnswersTyped
  <2> QED
    BY <1>1, <2>1, <2>2 DEF AnswersTyped
<1>4. CASE TaskSends(c) /\ ~Gone(c)
  <2>1. PICK n : /\ n = IF Len(left) < RangeBatchSize THEN Len(left) ELSE RangeBatchSize
                 /\ rchan' = [rchan EXCEPT ![c].batches = Append(@, SubSeq(left, 1, n))]
                 /\ task' = [task EXCEPT ![c].left = SubSeq(left, n + 1, Len(left))]
    <3>1. PICK n : /\ n = IF Len(task[c].left) < RangeBatchSize THEN Len(task[c].left)
                          ELSE RangeBatchSize
                   /\ rchan' = [rchan EXCEPT ![c].batches = Append(@, SubSeq(task[c].left, 1, n))]
                   /\ task' = [task EXCEPT ![c].left = SubSeq(@, n + 1, Len(@))]
      BY <1>4, Zenon DEF TaskSends
    <3> QED
      BY <1>2, <3>1, Zenon
  <2>2. n \in 0 .. Len(left)
    <3>1. RangeBatchSize \in Nat /\ Len(left) \in Nat
      BY ConnAssumption
    <3> QED
      BY <2>1, <3>1
  <2>3. PICK b \in Seq(ProtoRecords) : b = SubSeq(left, 1, n)
    BY <2>2, SubSeqType
  <2>4. PICK d \in Seq(ProtoRecords) : d = SubSeq(left, n + 1, Len(left))
    BY <2>2, SubSeqType
  <2>5. task' \in [Conns -> [left : Seq(ProtoRecords), ok : BOOLEAN, alive : BOOLEAN]]
    <3>1. task' = [task EXCEPT ![c].left = d]
      BY <2>1, <2>4, Zenon
    <3> QED
      BY <3>1 DEF AnswersTyped
  <2>6. rchan' \in [Conns -> [batches : Seq(Seq(ProtoRecords)), open : BOOLEAN]]
    <3>1. PICK bs \in Seq(Seq(ProtoRecords)) : bs = rchan[c].batches
      BY DEF AnswersTyped
    <3>2. PICK v \in Seq(Seq(ProtoRecords)) : v = Append(bs, b)
      <4> DEFINE S == Seq(ProtoRecords)
      <4>1. bs \in Seq(S) /\ b \in S
        OBVIOUS
      <4> HIDE DEF S
      <4>2. Append(bs, b) \in Seq(S)
        BY <4>1
      <4> QED
        BY <4>2 DEF S
    <3>3. rchan' = [rchan EXCEPT ![c].batches = v]
      BY <2>1, <2>3, <3>1, <3>2, Zenon
    <3> QED
      BY <3>3 DEF AnswersTyped
  <2>7. UNCHANGED oneshot
    BY <1>4 DEF TaskSends
  <2> QED
    BY <1>1, <2>5, <2>6, <2>7 DEF AnswersTyped
<1>5. CASE TaskEnds(c)
  <2>1. /\ task' = [task EXCEPT ![c] = NoTask]
        /\ rchan' = [rchan EXCEPT ![c].open = FALSE]
    BY <1>5 DEF TaskEnds
  <2>2. task' \in [Conns -> [left : Seq(ProtoRecords), ok : BOOLEAN, alive : BOOLEAN]]
    BY <2>1 DEF AnswersTyped, NoTask
  <2>3. rchan' \in [Conns -> [batches : Seq(Seq(ProtoRecords)), open : BOOLEAN]]
    BY <2>1 DEF AnswersTyped
  <2>4. oneshot' \in [Conns -> Answers]
    <3>1. \E x \in {"ok", "err", "dropped"} : oneshot' = [oneshot EXCEPT ![c] = [is |-> x]]
      BY <1>5 DEF TaskEnds
    <3>2. PICK a \in Answers : oneshot' = [oneshot EXCEPT ![c] = a]
      BY <3>1 DEF Answers
    <3> QED
      BY <3>2 DEF AnswersTyped
  <2> QED
    BY <1>1, <2>1, <2>2, <2>3, <2>4 DEF AnswersTyped
<1> QED
  BY <1>3, <1>4, <1>5

LEMMA NextAnswers == RequestsInFlight /\ AnswersTyped /\ [Next]_vars => AnswersTyped'
<1> SUFFICES ASSUME RequestsInFlight, AnswersTyped, [Next]_vars PROVE AnswersTyped'
  OBVIOUS
<1>1. ASSUME NEW c \in Conns, \/ Connect(c) \/ (\E req \in Requests[c] : Call(c, req))
                              \/ Arrive(c) \/ ReceiveClosed(c) \/ Cancel(c) \/ Accept(c)
                              \/ StartHandler(c) \/ RecordsEnd(c)
      PROVE  AnswersTyped'
  <2>1. UNCHANGED answerVars
    BY <1>1 DEF Connect, Call, Arrive, ReceiveClosed, Cancel, Accept, StartHandler, RecordsEnd,
                answerVars, netVars, handlerVars, engineVars, storeVars
  <2> QED
    BY <2>1, OtherAnswers
<1>2. CASE AcceptFails \/ UNCHANGED vars
  <2>1. UNCHANGED answerVars
    BY <1>2 DEF AcceptFails, vars, answerVars, netVars, handlerVars, engineVars, storeVars
  <2> QED
    BY <2>1, OtherAnswers
<1>3. ASSUME NEW c \in Conns, ReadEnd(c) PROVE AnswersTyped'
  <2>1. UNCHANGED <<queue, oneshot, store, seq_counter, records_inserted, task, rchan, down>>
    BY <1>3 DEF ReadEnd, netVars, engineVars, storeVars
  <2>2. CASE Fail(c)
    BY <2>1, <2>2, FailAnswers
  <2>3. CASE UNCHANGED <<cur, wbuf>>
    BY <2>1, <2>3, OtherAnswers DEF answerVars
  <2> QED
    BY <1>3, <2>2, <2>3 DEF ReadEnd
<1>4. ASSUME NEW c \in Conns, \/ Receive(c) \/ Close(c) \/ ReadFrame(c) \/ SendCommand(c)
                              \/ RecvRecords(c) \/ Flush(c) \/ Answer(c)
      PROVE  AnswersTyped'
  BY <1>4, ClientAnswers, ReadAnswers, SendAnswers, RecvAnswers, FlushAnswers, ReplyAnswers
<1>5. ASSUME NEW c \in Conns, TaskSends(c) \/ TaskEnds(c) PROVE AnswersTyped'
  BY <1>5, TaskAnswers
<1>6. CASE Engine \/ EngineStops
  BY <1>6, EngineAnswers, StopsAnswers
<1> QED
  BY <1>1, <1>2, <1>3, <1>4, <1>5, <1>6 DEF Next, Handler, Client

(* What a handler writes is what the client decodes, record frames laid out  *)
(* by hand included, and these have the length that the flush threshold is   *)
(* compared with: for all requests and all stored records, however the path  *)
(* takes the frames, whatever fails.                                         *)
THEOREM AnswersDecodeTheorem == Spec => []AnswersDecode
<1> DEFINE Inv == RequestsInFlight /\ AnswersTyped
<1>1. Init => Inv
  BY InitRequests, InitAnswers
<1>2. Inv /\ [Next]_vars => Inv'
  BY NextRequests, NextAnswers
<1>3. Inv => AnswersDecode
  <2> SUFFICES ASSUME AnswersTyped, NEW c \in Conns, NEW i \in DOMAIN down[c], NEW msg,
                      msg = down[c][i].msg
               PROVE  /\ client_decode(WireFrame(msg)) = msg
                      /\ msg.type = "RangeRecord" =>
                           /\ WireFrame(msg) = server_encode(msg)
                           /\ WireFrame(msg).size = record_frame_len(msg.record)
    BY DEF AnswersDecode
  <2>1. msg \in Replies
    <3>1. PICK d \in Seq(Written) : d = down[c]
      BY DEF AnswersTyped
    <3>2. PICK w \in Written : w = d[i]
      BY <3>1
    <3> QED
      BY <3>1, <3>2 DEF Written
  <2>2. IsReply(msg) /\ JsonLen \in 1 .. (U32Bound - 1)
    BY <2>1, RepliesAre, MessageAssumption
  <2>3. client_decode(server_encode(msg)) = msg
    BY <2>2, ReplyRoundTrip
  <2>4. ASSUME msg.type = "RangeRecord"
        PROVE  /\ WireFrame(msg) = server_encode(msg)
               /\ WireFrame(msg).size = record_frame_len(msg.record)
    <3>1. PICK r \in ProtoRecords : msg = RangeRecord(r)
      <4>1. \A json : MetricsJson(json).type = "Metrics"
        BY DEF MetricsJson
      <4>2. \A text : ErrorText(text).type = "Error"
        BY DEF ErrorText
      <4>3. msg \notin {InsertOk, RangeEnd, Pong, ErrorText("failed"), ErrorText("engine closed")}
        <5>1. msg # InsertOk /\ msg # RangeEnd /\ msg # Pong
          BY <2>4 DEF InsertOk, RangeEnd, Pong
        <5>2. ErrorText("failed").type = "Error" /\ ErrorText("engine closed").type = "Error"
          BY <4>2, Zenon
        <5>3. msg # ErrorText("failed") /\ msg # ErrorText("engine closed")
          BY <2>4, <5>2
        <5> QED
          BY <5>1, <5>3, Zenon
      <4>4. msg \notin {MetricsJson(a.json) : a \in Answers}
        BY <2>4, <4>1
      <4> QED
        BY <2>1, <4>3, <4>4 DEF Replies
    <3>2. /\ write_record_frame(r) = server_encode(RangeRecord(r))
          /\ write_record_frame(r).size = record_frame_len(r)
      BY ProtoRecordsAre, RecordFrame
    <3>3. msg.record = r
      BY <3>1 DEF RangeRecord
    <3>4. WireFrame(msg) = write_record_frame(r)
      BY <2>4, <3>3 DEF WireFrame
    <3> QED
      BY <3>1, <3>2, <3>3, <3>4, Zenon
  <2>5. WireFrame(msg) = server_encode(msg)
    BY <2>4 DEF WireFrame
  <2> QED
    BY <2>3, <2>4, <2>5, Zenon
<1> QED
  BY <1>1, <1>2, <1>3, PTL DEF Spec

-----------------------------------------------------------------------------
(* The commands.                                                             *)

\* What CommandsInFlight says of connection d, left alone by a step.
Same(d) ==
  /\ hand'[d] = hand[d] /\ cur'[d] = cur[d] /\ handled'[d] = handled[d]
  /\ oneshot'[d] = oneshot[d] /\ task'[d] = task[d] /\ rchan'[d] = rchan[d]

\* A step of one connection.
LEMMA OneCommand ==
  ASSUME CommandsInFlight, AnswersTyped, NEW c \in Conns,
         \A d \in Conns \ {c} : Same(d),
         QueuedOnce', Queued' \subseteq Queued \union {c},
         c \in Queued' => Waits(c)', InStep(c)'
  PROVE  CommandsInFlight'
<1>1. Queued \subseteq Conns
  <2>1. PICK q \in Seq(Conns) : q = queue
    BY DEF AnswersTyped
  <2> QED
    BY <2>1 DEF Queued, ToSet
<1>2. ASSUME NEW d \in Conns, d # c, Same(d) PROVE InStep(d)' /\ (d \in Queued => Waits(d)')
  BY <1>2 DEF CommandsInFlight, Same, InStep, Waits
<1> QED
  BY <1>1, <1>2 DEF CommandsInFlight

\* A step that moves handlers that have no message to work on, and none
\* towards a message.
LEMMA QuietCommands ==
  ASSUME CommandsInFlight, AnswersTyped,
         UNCHANGED <<queue, oneshot, task, rchan, cur, handled>>,
         \A c \in Conns : hand'[c] = hand[c] \/ (hand[c] \notin Working \union {"failed"}
                                                  /\ hand'[c] \notin Working)
  PROVE  CommandsInFlight'
<1>1. PICK q \in Seq(Conns) : q = queue
  BY DEF AnswersTyped
<1>2. Queued \subseteq Conns /\ Queued' = Queued /\ QueuedOnce'
  BY <1>1 DEF Queued, ToSet, QueuedOnce, CommandsInFlight
<1>3. ASSUME NEW c \in Conns PROVE InStep(c)'
  BY DEF CommandsInFlight, InStep, Working, InQuery
<1>4. ASSUME NEW c \in Conns, Waits(c) PROVE Waits(c)'
  BY <1>4 DEF Waits, Working, InQuery
<1> QED
  BY <1>2, <1>3, <1>4 DEF CommandsInFlight

LEMMA InitCommands == Init => CommandsInFlight
<1> SUFFICES ASSUME Init PROVE CommandsInFlight
  OBVIOUS
<1>1. QueuedOnce /\ Queued = {}
  BY DEF Init, QueuedOnce, Queued, ToSet
<1>2. ASSUME NEW c \in Conns PROVE InStep(c)
  BY DEF Init, InStep, NoTask, Working, InQuery
<1> QED
  BY <1>1, <1>2 DEF CommandsInFlight

\* Clients, the accept loop, and a handler between two requests.
LEMMA ClientCommands ==
  ASSUME CommandsInFlight, AnswersTyped, HandlersTyped,
         \/ \E c \in Conns :
              \/ Connect(c) \/ (\E req \in Requests[c] : Call(c, req)) \/ Client(c) \/ Cancel(c)
              \/ Close(c) \/ Accept(c) \/ StartHandler(c) \/ ReadEnd(c)
         \/ AcceptFails \/ UNCHANGED vars
  PROVE  CommandsInFlight'
<1>1. UNCHANGED <<queue, oneshot, task, rchan, cur, handled>>
  BY DEF Connect, Call, Client, Arrive, Receive, ReceiveClosed, Cancel, Close, Accept, StartHandler,
         ReadEnd, Fail, AcceptFails, vars, handlerVars, engineVars
<1>2. \A d \in Conns : hand'[d] = hand[d] \/ (hand[d] \notin Working \union {"failed"}
                                               /\ hand'[d] \notin Working)
  <2>1. hand \in [Conns -> HandStates] /\ \A c \in Conns : sock[c] = "none" => hand[c] = "none"
    BY DEF HandlersTyped
  <2>2. ASSUME NEW c \in Conns, NEW to, to \notin Working, hand[c] \notin Working \union {"failed"},
               hand' = [hand EXCEPT ![c] = to]
        PROVE  \A d \in Conns : hand'[d] = hand[d] \/ (hand[d] \notin Working \union {"failed"}
                                                        /\ hand'[d] \notin Working)
    BY <2>1, <2>2
  <2>3. ASSUME NEW c \in Conns, Connect(c) \/ Accept(c) \/ StartHandler(c) \/ ReadEnd(c)
        PROVE  /\ hand[c] \notin Working \union {"failed"}
               /\ \E to : to \notin Working /\ hand' = [hand EXCEPT ![c] = to]
    BY <2>1, <2>3 DEF Connect, Accept, StartHandler, ReadEnd, Fail, Working, InQuery
  <2>4. CASE \E c \in Conns : (\E req \in Requests[c] : Call(c, req)) \/ Client(c) \/ Cancel(c) \/ Close(c)
    BY <2>4 DEF Call, Client, Arrive, Receive, ReceiveClosed, Cancel, Close, handlerVars
  <2>5. CASE AcceptFails
    BY <2>1, <2>5 DEF AcceptFails, Working, InQuery
  <2>6. CASE UNCHANGED vars
    BY <2>6 DEF vars, handlerVars
  <2> QED
    BY <2>2, <2>3, <2>4, <2>5, <2>6
<1> QED
  BY <1>1, <1>2, QuietCommands

\* A frame that is whole is decoded: nothing of a query is left over.
LEMMA ReadCommands ==
  ASSUME CommandsInFlight, AnswersTyped, RequestsInFlight, HandlersTyped, NEW c \in Conns, ReadFrame(c)
  PROVE  CommandsInFlight'
<1>1. PICK msg : msg = server_decode(Head(up[c]))
  OBVIOUS
<1>2. msg \in AllRequests
  BY <1>1, ReadRequests
<1>3. PICK to : to = CASE msg.type = "Malformed" -> "failed"
                       [] msg.type = "Ping" -> "answer"
                       [] OTHER -> "command"
  OBVIOUS
<1>4. /\ hand[c] = "reading"
      /\ handled' = [handled EXCEPT ![c] = Append(@, msg)] /\ cur' = [cur EXCEPT ![c] = msg]
      /\ hand' = [hand EXCEPT ![c] = to]
      /\ UNCHANGED <<queue, oneshot, task, rchan>>
  BY <1>1, <1>3, Zenon DEF ReadFrame, engineVars
<1>5. handled \in [Conns -> Seq(AllRequests)] /\ DOMAIN cur = Conns /\ DOMAIN hand = Conns
  BY DEF RequestsInFlight, AnswersTyped, HandlersTyped
<1>6. \A d \in Conns \ {c} : Same(d)
  BY <1>4, <1>5 DEF Same
<1>7. QueuedOnce' /\ Queued' = Queued
  BY <1>4 DEF QueuedOnce, Queued, ToSet, CommandsInFlight
<1>8. c \notin Queued /\ ~task[c].alive
  BY <1>4 DEF CommandsInFlight, Waits, InStep
<1>9. InStep(c)'
  <2>1. PICK h \in Seq(AllRequests) : h = handled[c]
    BY <1>5
  <2>2. PICK g \in Seq(AllRequests) : g = Append(h, msg)
    <3>1. Append(h, msg) \in Seq(AllRequests)
      BY <1>2
    <3> QED
      BY <3>1, Zenon
  <2>3. g # <<>> /\ msg = g[Len(g)]
    BY <1>2, <2>2
  <2>4. handled'[c] = g /\ cur'[c] = msg /\ hand'[c] = to /\ task'[c] = task[c]
    BY <1>4, <1>5, <2>1, <2>2
  <2>5. to \in {"failed", "answer", "command"} /\ (to = "command" => msg.type # "Ping")
    BY <1>3
  <2> QED
    BY <1>8, <2>3, <2>4, <2>5 DEF InStep, InQuery
<1> QED
  BY <1>6, <1>7, <1>8, <1>9, OneCommand

\* A handler that fails has no command in the channel.
LEMMA FailCommands ==
  ASSUME CommandsInFlight, AnswersTyped, HandlersTyped, NEW c \in Conns, Fail(c), c \notin Queued,
         UNCHANGED <<queue, oneshot, task, rchan, handled>>
  PROVE  CommandsInFlight'
<1>1. hand' = [hand EXCEPT ![c] = "failed"] /\ cur' = cur
  BY DEF Fail
<1>2. hand \in [Conns -> HandStates]
  BY DEF HandlersTyped
<1>3. \A d \in Conns \ {c} : Same(d)
  BY <1>1, <1>2 DEF Same
<1>4. QueuedOnce' /\ Queued' = Queued
  BY DEF QueuedOnce, Queued, ToSet, CommandsInFlight
<1>5. InStep(c)'
  BY <1>1, <1>2 DEF CommandsInFlight, InStep, Working, InQuery
<1> QED
  BY <1>3, <1>4, <1>5, OneCommand

\* A command goes to the end of the channel.
LEMMA SendCommands ==
  ASSUME CommandsInFlight, AnswersTyped, HandlersTyped, NEW c \in Conns, SendCommand(c)
  PROVE  CommandsInFlight'
<1>1. hand[c] = "command" /\ UNCHANGED <<handled, task>>
  BY DEF SendCommand
<1>2. c \notin Queued /\ ~task[c].alive
  BY <1>1 DEF CommandsInFlight, Waits, InStep
<1>3. CASE ~running
  <2>1. Fail(c) /\ UNCHANGED <<queue, oneshot, rchan>>
    BY <1>3 DEF SendCommand
  <2> QED
    BY <1>1, <1>2, <2>1, FailCommands
<1>4. CASE running
  <2>1. PICK b \in BOOLEAN : b = (cur[c].type = "Range")
    OBVIOUS
  <2>2. PICK to : to = IF cur[c].type = "Range" THEN "records" ELSE "answer"
    OBVIOUS
  <2>3. /\ queue' = Append(queue, c) /\ oneshot' = [oneshot EXCEPT ![c] = Nothing]
        /\ rchan' = [rchan EXCEPT ![c] = [batches |-> <<>>, open |-> b]]
        /\ hand' = [hand EXCEPT ![c] = to] /\ UNCHANGED cur
    BY <1>4, <2>1, <2>2, Zenon DEF SendCommand
  <2>4. DOMAIN oneshot = Conns /\ DOMAIN rchan = Conns /\ DOMAIN hand = Conns
    BY DEF AnswersTyped, HandlersTyped
  <2>5. \A d \in Conns \ {c} : Same(d)
    BY <1>1, <2>3, <2>4 DEF Same
  <2>6. PICK q \in Seq(Conns) : q = queue
    BY DEF AnswersTyped
  <2>7. QueuedOnce' /\ Queued' = Queued \union {c}
    <3>1. PICK p \in Seq(Conns) : p = Append(q, c)
      <4>1. Append(q, c) \in Seq(Conns)
        OBVIOUS
      <4> QED
        BY <4>1, Zenon
    <3>2. /\ \A i \in DOMAIN q : q[i] # c
          /\ \A i, j \in DOMAIN q : i < j => q[i] # q[j]
          /\ queue' = p
      BY <1>2, <2>3, <2>6, <3>1 DEF Queued, ToSet, QueuedOnce, CommandsInFlight
    <3>3. /\ Len(q) \in Nat /\ DOMAIN q = 1 .. Len(q) /\ DOMAIN p = 1 .. (Len(q) + 1)
          /\ p[Len(q) + 1] = c /\ \A i \in 1 .. Len(q) : p[i] = q[i]
      BY <3>1
    <3>4. \A i, j \in DOMAIN p : i < j => p[i] # p[j]
      BY <3>2, <3>3
    <3>5. {p[i] : i \in DOMAIN p} = {q[i] : i \in DOMAIN q} \union {c}
      BY <3>3
    <3>6. QueuedOnce'
      BY <3>2, <3>4 DEF QueuedOnce
    <3>7. Queued = {q[i] : i \in DOMAIN q} /\ Queued' = {p[i] : i \in DOMAIN p}
      BY <2>6, <3>2, Zenon DEF Queued, ToSet
    <3> QED
      BY <3>5, <3>6, <3>7
  <2>8. /\ oneshot'[c] = Nothing /\ task'[c] = task[c] /\ cur'[c] = cur[c] /\ hand'[c] = to
        /\ rchan'[c] = [batches |-> <<>>, open |-> b] /\ handled'[c] = handled[c]
    BY <1>1, <2>3, <2>4
  <2>9. cur[c].type # "Ping" /\ handled[c] # <<>> /\ cur[c] = handled[c][Len(handled[c])]
    BY <1>1 DEF CommandsInFlight, InStep, Working
  <2>10. Waits(c)'
    <3>1. rchan'[c].batches = <<>> /\ rchan'[c].open = b
      BY <2>8
    <3>2. cur[c].type = "Range" => rchan'[c].open
      BY <2>1, <3>1
    <3> QED
      BY <1>2, <2>2, <2>8, <2>9, <3>1, <3>2 DEF Waits
  <2>11. InStep(c)'
    BY <1>2, <2>2, <2>8, <2>9 DEF InStep, InQuery
  <2> QED
    BY <2>5, <2>7, <2>10, <2>11, OneCommand
<1> QED
  BY <1>3, <1>4

\* The handler takes a batch of records or the end of them.
LEMMA RecvCommands ==
  ASSUME CommandsInFlight, AnswersTyped, HandlersTyped, NEW c \in Conns, RecvRecords(c) \/ RecordsEnd(c)
  PROVE  CommandsInFlight'
<1>1. hand[c] = "records" /\ UNCHANGED <<cur, handled, queue, oneshot, task>>
  BY DEF RecvRecords, RecordsEnd, engineVars, handlerVars
<1>2. rchan \in [Conns -> [batches : Seq(Seq(ProtoRecords)), open : BOOLEAN]] /\ DOMAIN hand = Conns
  BY DEF AnswersTyped, HandlersTyped
<1>3. QueuedOnce' /\ Queued' = Queued
  BY <1>1 DEF QueuedOnce, Queued, ToSet, CommandsInFlight
<1>4. cur[c].type = "Range" /\ handled[c] # <<>> /\ cur[c] = handled[c][Len(handled[c])]
  BY <1>1 DEF CommandsInFlight, InStep, InQuery, Working
<1>5. task[c].alive => rchan[c].open
  BY DEF CommandsInFlight, InStep
<1>6. CASE RecvRecords(c)
  <2>1. PICK bs : bs = Tail(rchan[c].batches)
    OBVIOUS
  <2>2. rchan[c].batches # <<>> /\ rchan' = [rchan EXCEPT ![c].batches = bs]
    BY <1>6, <2>1, Zenon DEF RecvRecords
  <2>3. PICK to \in {"flush", "records"} : hand' = [hand EXCEPT ![c] = to]
    BY <1>6 DEF RecvRecords
  <2>4. \A d \in Conns \ {c} : Same(d)
    BY <1>1, <1>2, <2>2, <2>3 DEF Same
  <2>5. c \notin Queued
    BY <1>4, <2>2 DEF CommandsInFlight, Waits
  <2>6. rchan'[c].open = rchan[c].open /\ hand'[c] = to
    BY <1>2, <2>2, <2>3
  <2>7. InStep(c)'
    BY <1>1, <1>4, <1>5, <2>6 DEF InStep
  <2> QED
    BY <1>3, <2>4, <2>5, <2>7, OneCommand
<1>7. CASE RecordsEnd(c)
  <2>1. rchan[c] = Closed /\ hand' = [hand EXCEPT ![c] = "final flush"] /\ UNCHANGED rchan
    BY <1>7 DEF RecordsEnd, engineVars
  <2>2. ~rchan[c].open
    <3>1. ~Closed.open
      BY DEF Closed
    <3> QED
      BY <2>1, <3>1, Zenon
  <2>3. \A d \in Conns \ {c} : Same(d)
    BY <1>1, <1>2, <2>1 DEF Same
  <2>4. c \notin Queued /\ ~task[c].alive
    BY <1>4, <1>5, <2>2 DEF CommandsInFlight, Waits
  <2>5. hand'[c] = "final flush"
    BY <1>2, <2>1
  <2>6. InStep(c)'
    BY <1>1, <1>4, <2>4, <2>5 DEF InStep
  <2> QED
    BY <1>3, <2>3, <2>4, <2>6, OneCommand
<1> QED
  BY <1>6, <1>7

\* The handler writes.
LEMMA FlushCommands ==
  ASSUME CommandsInFlight, AnswersTyped, HandlersTyped, NEW c \in Conns, Flush(c)
  PROVE  CommandsInFlight'
<1>1. hand[c] \in {"flush", "final flush", "reply"} /\ UNCHANGED <<handled, queue, oneshot, task, rchan>>
  BY DEF Flush, engineVars
<1>2. c \notin Queued
  BY <1>1 DEF CommandsInFlight, Waits
<1>3. CASE Fail(c)
  BY <1>1, <1>2, <1>3, FailCommands
<1>4. CASE UNCHANGED cur /\ (hand' = [hand EXCEPT ![c] = After(@)] \/ UNCHANGED hand)
  <2>1. hand \in [Conns -> HandStates]
    BY DEF HandlersTyped
  <2>2. \A d \in Conns \ {c} : Same(d)
    BY <1>1, <1>4, <2>1 DEF Same
  <2>3. QueuedOnce' /\ Queued' = Queued
    BY <1>1 DEF QueuedOnce, Queued, ToSet, CommandsInFlight
  <2>4. hand'[c] = hand[c] \/ hand'[c] = After(hand[c])
    BY <1>4, <2>1
  <2>5. InStep(c)'
    <3>1. CASE hand'[c] = hand[c]
      BY <1>1, <1>4, <3>1 DEF CommandsInFlight, InStep
    <3>2. CASE hand'[c] = After(hand[c])
      BY <1>1, <1>4, <3>2 DEF CommandsInFlight, InStep, After, Working, InQuery
    <3> QED
      BY <2>4, <3>1, <3>2
  <2> QED
    BY <1>2, <2>2, <2>3, <2>5, OneCommand
<1> QED
  BY <1>3, <1>4 DEF Flush

\* The handler has its answer.
LEMMA AnswerCommands ==
  ASSUME CommandsInFlight, AnswersTyped, HandlersTyped, NEW c \in Conns, Answer(c)
  PROVE  CommandsInFlight'
<1>1. /\ hand[c] = "answer" /\ (cur[c].type # "Ping" => oneshot[c].is # "pending")
      /\ UNCHANGED <<handled, queue, oneshot, task, rchan>>
  BY DEF Answer, engineVars
<1>2. c \notin Queued
  BY <1>1 DEF CommandsInFlight, Waits, Nothing
<1>3. CASE Fail(c)
  BY <1>1, <1>2, <1>3, FailCommands
<1>4. CASE UNCHANGED cur /\ hand' = [hand EXCEPT ![c] = "reply"]
  <2>1. hand \in [Conns -> HandStates]
    BY DEF HandlersTyped
  <2>2. \A d \in Conns \ {c} : Same(d)
    BY <1>1, <1>4, <2>1 DEF Same
  <2>3. QueuedOnce' /\ Queued' = Queued
    BY <1>1 DEF QueuedOnce, Queued, ToSet, CommandsInFlight
  <2>4. hand'[c] = "reply"
    BY <1>4, <2>1
  <2>5. InStep(c)'
    BY <1>1, <1>4, <2>4 DEF CommandsInFlight, InStep, Working, InQuery
  <2> QED
    BY <1>2, <2>2, <2>3, <2>5, OneCommand
<1> QED
  BY <1>3, <1>4 DEF Answer

\* The first command leaves the channel.
LEMMA TakenOnce ==
  ASSUME QueuedOnce, NEW q \in Seq(Conns), q = queue, q # <<>>, queue' = Tail(q)
  PROVE  QueuedOnce' /\ Queued' \subseteq Queued /\ Head(q) \in Queued /\ Head(q) \notin Queued'
<1>1. PICK p \in Seq(Conns) : p = Tail(q)
  BY TailType
<1>2. /\ Len(q) \in Nat /\ Len(q) > 0 /\ DOMAIN q = 1 .. Len(q) /\ DOMAIN p = 1 .. (Len(q) - 1)
      /\ Head(q) = q[1] /\ \A i \in 1 .. (Len(q) - 1) : p[i] = q[i + 1]
  BY <1>1
<1>3. \A i, j \in DOMAIN q : i < j => q[i] # q[j]
  BY DEF QueuedOnce
<1>4. \A i, j \in DOMAIN p : i < j => p[i] # p[j]
  <2>1. ASSUME NEW i \in 1 .. (Len(q) - 1), NEW j \in 1 .. (Len(q) - 1), i < j
        PROVE  p[i] # p[j]
    <3>1. i + 1 \in DOMAIN q /\ j + 1 \in DOMAIN q /\ i + 1 < j + 1
      BY <1>2, <2>1
    <3> QED
      BY <1>2, <1>3, <3>1
  <2> QED
    BY <1>2, <2>1
<1>5. /\ {p[i] : i \in DOMAIN p} \subseteq {q[i] : i \in DOMAIN q}
      /\ q[1] \in {q[i] : i \in DOMAIN q} /\ q[1] \notin {p[i] : i \in DOMAIN p}
  <2>1. ASSUME NEW i \in 1 .. (Len(q) - 1)
        PROVE  p[i] = q[i + 1] /\ i + 1 \in DOMAIN q /\ p[i] # q[1]
    <3>1. i + 1 \in DOMAIN q /\ 1 \in DOMAIN q /\ 1 < i + 1
      BY <1>2
    <3>2. q[1] # q[i + 1]
      BY <1>3, <3>1
    <3> QED
      BY <1>2, <3>1, <3>2
  <2> QED
    BY <1>2, <2>1, SMTT(30)
<1>6. QueuedOnce'
  BY <1>1, <1>4 DEF QueuedOnce
<1>7. Queued = {q[i] : i \in DOMAIN q} /\ Queued' = {p[i] : i \in DOMAIN p}
  BY <1>1, Zenon DEF Queued, ToSet
<1> QED
  BY <1>2, <1>5, <1>6, <1>7

\* The engine takes a command: it answers, or starts the task of a query.
LEMMA EngineCommands ==
  ASSUME CommandsInFlight, AnswersTyped, Engine
  PROVE  CommandsInFlight'
<1>1. PICK q \in Seq(Conns) : q = queue
  BY DEF AnswersTyped
<1>2. q # <<>> /\ queue' = Tail(q) /\ UNCHANGED <<hand, cur, handled>>
  BY <1>1 DEF Engine, handlerVars
<1>3. PICK c \in Conns : c = Head(queue)
  BY <1>1, <1>2, TailType
<1>4. QueuedOnce' /\ Queued' \subseteq Queued /\ c \in Queued /\ c \notin Queued'
  BY <1>1, <1>2, <1>3, TakenOnce DEF CommandsInFlight
<1>5. Waits(c) /\ InStep(c)
  BY <1>3, <1>4 DEF CommandsInFlight
<1>6. /\ DOMAIN oneshot = Conns
      /\ task \in [Conns -> [left : Seq(ProtoRecords), ok : BOOLEAN, alive : BOOLEAN]]
      /\ rchan \in [Conns -> [batches : Seq(Seq(ProtoRecords)), open : BOOLEAN]]
  BY DEF AnswersTyped
<1>7. CASE \/ cur[c].type \in Inserts /\ EngineInsert(c, cur[c])
           \/ cur[c].type = "Metrics" /\ EngineMetrics(c)
  <2>1. UNCHANGED <<task, rchan>> /\ \E a : oneshot' = [oneshot EXCEPT ![c] = a]
    BY <1>7 DEF EngineInsert, EngineMetrics
  <2>2. \A d \in Conns \ {c} : Same(d)
    BY <1>2, <1>6, <2>1 DEF Same
  <2>3. InStep(c)'
    BY <1>2, <1>5, <2>1 DEF InStep
  <2> QED
    BY <1>4, <2>2, <2>3, OneCommand
<1>8. CASE cur[c].type = "Range" /\ EngineRange(c, cur[c])
  <2>1. hand[c] = "records" /\ rchan[c].open /\ ~task[c].alive
    BY <1>5, <1>8 DEF Waits
  <2>2. CASE /\ oneshot' = [oneshot EXCEPT ![c] = [is |-> "err"]]
             /\ rchan' = [rchan EXCEPT ![c] = refuse(@)] /\ UNCHANGED task
    <3>1. \A d \in Conns \ {c} : Same(d)
      BY <1>2, <1>6, <2>2 DEF Same
    <3>2. InStep(c)'
      BY <1>2, <1>5, <2>1, <2>2 DEF InStep
    <3> QED
      BY <1>4, <3>1, <3>2, OneCommand
  <2>3. ASSUME NEW left, NEW ok,
               task' = [task EXCEPT ![c] = [left |-> left, ok |-> ok, alive |-> TRUE]],
               UNCHANGED <<oneshot, rchan>>
        PROVE  CommandsInFlight'
    <3>1. \A d \in Conns \ {c} : Same(d)
      BY <1>2, <1>6, <2>3 DEF Same
    <3>2. InStep(c)'
      BY <1>2, <1>5, <2>1, <2>3 DEF InStep
    <3> QED
      BY <1>4, <3>1, <3>2, OneCommand
  <2> QED
    BY <1>8, <2>2, <2>3, Zenon DEF EngineRange
<1> QED
  BY <1>3, <1>7, <1>8, Zenon DEF Engine

\* The commands in the channel are dropped.
LEMMA StopsCommands ==
  ASSUME CommandsInFlight, AnswersTyped, EngineStops
  PROVE  CommandsInFlight'
<1>1. /\ UNCHANGED <<hand, cur, handled, task>> /\ queue' = <<>>
      /\ rchan' = [c \in Conns |-> IF c \in Queued THEN Closed ELSE rchan[c]]
  BY DEF EngineStops, handlerVars, Queued, ToSet
<1>2. QueuedOnce' /\ Queued' = {}
  BY <1>1 DEF QueuedOnce, Queued, ToSet
<1>3. ASSUME NEW c \in Conns PROVE InStep(c)'
  <2>1. task[c].alive => c \notin Queued
    BY DEF CommandsInFlight, Waits
  <2>2. task[c].alive => rchan'[c] = rchan[c]
    BY <1>1, <2>1
  <2> QED
    BY <1>1, <2>2 DEF CommandsInFlight, InStep
<1> QED
  BY <1>2, <1>3 DEF CommandsInFlight

\* The task of a query sends records, or the end of them.
LEMMA TaskCommands ==
  ASSUME CommandsInFlight, AnswersTyped, NEW c \in Conns, TaskSends(c) \/ TaskEnds(c)
  PROVE  CommandsInFlight'
<1>1. task[c].alive /\ UNCHANGED <<hand, cur, handled, queue>>
  BY DEF TaskSends, TaskEnds, handlerVars
<1>2. /\ DOMAIN oneshot = Conns
      /\ task \in [Conns -> [left : Seq(ProtoRecords), ok : BOOLEAN, alive : BOOLEAN]]
      /\ rchan \in [Conns -> [batches : Seq(Seq(ProtoRecords)), open : BOOLEAN]]
  BY DEF AnswersTyped
<1>3. QueuedOnce' /\ Queued' = Queued /\ c \notin Queued
  BY <1>1 DEF QueuedOnce, Queued, ToSet, CommandsInFlight, Waits
<1>4. InStep(c)
  BY DEF CommandsInFlight
<1>5. CASE TaskSends(c)
  <2>1. PICK left : task' = [task EXCEPT ![c].left = left]
    BY <1>5 DEF TaskSends
  <2>2. UNCHANGED rchan \/ \E bs : rchan' = [rchan EXCEPT ![c].batches = bs]
    BY <1>5 DEF TaskSends
  <2>3. UNCHANGED oneshot
    BY <1>5 DEF TaskSends
  <2>4. \A d \in Conns \ {c} : Same(d)
    BY <1>1, <1>2, <2>1, <2>2, <2>3 DEF Same
  <2>5. rchan'[c].open = rchan[c].open
    BY <1>2, <2>2
  <2>6. InStep(c)'
    BY <1>1, <1>4, <2>5 DEF InStep
  <2> QED
    BY <1>3, <2>4, <2>6, OneCommand
<1>6. CASE TaskEnds(c)
  <2>1. /\ task' = [task EXCEPT ![c] = NoTask] /\ rchan' = [rchan EXCEPT ![c].open = FALSE]
        /\ \E a : oneshot' = [oneshot EXCEPT ![c] = a]
    BY <1>6 DEF TaskEnds
  <2>2. \A d \in Conns \ {c} : Same(d)
    BY <1>1, <1>2, <2>1 DEF Same
  <2>3. task'[c] = NoTask /\ ~NoTask.alive
    BY <1>2, <2>1 DEF NoTask
  <2>4. ~task'[c].alive
    BY <2>3, Zenon
  <2>5. InStep(c)'
    BY <1>1, <1>4, <2>4 DEF InStep
  <2> QED
    BY <1>3, <2>2, <2>5, OneCommand
<1> QED
  BY <1>5, <1>6

LEMMA NextCommands ==
  HandlersTyped /\ RequestsInFlight /\ AnswersTyped /\ CommandsInFlight /\ [Next]_vars => CommandsInFlight'
<1> SUFFICES ASSUME HandlersTyped, RequestsInFlight, AnswersTyped, CommandsInFlight, [Next]_vars
             PROVE  CommandsInFlight'
  OBVIOUS
<1>1. ASSUME NEW c \in Conns,
             \/ Connect(c) \/ (\E req \in Requests[c] : Call(c, req)) \/ Client(c) \/ Cancel(c)
             \/ Close(c) \/ Accept(c) \/ StartHandler(c) \/ ReadEnd(c)
      PROVE  CommandsInFlight'
  BY <1>1, ClientCommands
<1>2. ASSUME NEW c \in Conns, \/ ReadFrame(c) \/ SendCommand(c) \/ RecvRecords(c) \/ RecordsEnd(c)
                              \/ Flush(c) \/ Answer(c)
      PROVE  CommandsInFlight'
  BY <1>2, ReadCommands, SendCommands, RecvCommands, FlushCommands, AnswerCommands
<1>3. ASSUME NEW c \in Conns, TaskSends(c) \/ TaskEnds(c) PROVE CommandsInFlight'
  BY <1>3, TaskCommands
<1>4. CASE AcceptFails \/ UNCHANGED vars
  BY <1>4, ClientCommands
<1>5. CASE Engine \/ EngineStops
  BY <1>5, EngineCommands, StopsCommands
<1> QED
  BY <1>1, <1>2, <1>3, <1>4, <1>5 DEF Next, Handler

-----------------------------------------------------------------------------
(* The inserts.                                                              *)

\* StoredWhenTaken for a given request.
LEMMA StoredBy ==
  ASSUME StoredWhenTaken, NEW c, NEW k, NEW i \in DOMAIN store, store[i].by = <<c, k>>
  PROVE  k <= Len(handled[c]) /\ (k = Len(handled[c]) => hand[c] # "command" /\ c \notin Queued)
<1>1. PICK b : b = store[i].by
  OBVIOUS
<1>2. b # <<>> /\ b[1] = c /\ b[2] = k
  BY <1>1
<1> QED
  BY <1>1, <1>2, Zenon DEF StoredWhenTaken

\* Requests are only ever added, and what is applied stays applied.
IssuedGrows ==
  \A c \in Conns : \A k \in DOMAIN issued[c] : k \in DOMAIN issued'[c] /\ issued'[c][k] = issued[c][k]
AppliedStays == \A c \in Conns : \A k : AppliedTo(c, k) => AppliedTo(c, k)'

LEMMA NextIssued == RequestsInFlight /\ [Next]_vars => IssuedGrows
<1> SUFFICES ASSUME RequestsInFlight, [Next]_vars PROVE IssuedGrows
  OBVIOUS
<1>1. ASSUME NEW c \in Conns, NEW req \in Requests[c], Call(c, req) PROVE IssuedGrows
  <2>1. issued' = [issued EXCEPT ![c] = Append(@, req)] /\ issued \in [Conns -> Seq(AllRequests)]
    BY <1>1 DEF Call, RequestsInFlight
  <2>2. req \in AllRequests
    BY DEF AllRequests
  <2>3. \A d \in Conns \ {c} : issued'[d] = issued[d]
    BY <2>1
  <2>4. PICK s \in Seq(AllRequests) : s = issued[c]
    BY <2>1
  <2>5. issued'[c] = Append(s, req)
    BY <2>1, <2>4
  <2>6. \A k \in DOMAIN s : k \in DOMAIN Append(s, req) /\ Append(s, req)[k] = s[k]
    BY <2>2
  <2> QED
    BY <2>3, <2>4, <2>5, <2>6, Zenon DEF IssuedGrows
<1>2. CASE UNCHANGED issued
  BY <1>2 DEF IssuedGrows
<1>3. ASSUME NEW c \in Conns,
             \/ Connect(c) \/ Client(c) \/ Cancel(c) \/ Close(c) \/ Accept(c) \/ Handler(c)
             \/ TaskSends(c) \/ TaskEnds(c)
      PROVE  UNCHANGED issued
  <2>1. ASSUME Connect(c) \/ Client(c) \/ Cancel(c) \/ Close(c) \/ Accept(c) PROVE UNCHANGED issued
    BY <2>1, SMTT(30) DEF Connect, Client, Arrive, Receive, ReceiveClosed, Cancel, Close, Accept, clientVars
  <2>2. ASSUME Handler(c) PROVE UNCHANGED issued
    BY <2>2 DEF Handler, StartHandler, ReadFrame, ReadEnd, SendCommand, RecvRecords, RecordsEnd,
                Flush, Answer, clientVars
  <2>3. ASSUME TaskSends(c) \/ TaskEnds(c) PROVE UNCHANGED issued
    BY <2>3 DEF TaskSends, TaskEnds, clientVars
  <2> QED
    BY <1>3, <2>1, <2>2, <2>3
<1>4. ASSUME AcceptFails \/ Engine \/ EngineStops \/ UNCHANGED vars PROVE UNCHANGED issued
  BY <1>4 DEF AcceptFails, Engine, EngineStops, vars, clientVars
<1> QED
  BY <1>1, <1>2, <1>3, <1>4 DEF Next

LEMMA StoreSame ==
  ASSUME IssuedGrows, UNCHANGED store
  PROVE  AppliedStays
<1> SUFFICES ASSUME NEW c \in Conns, NEW k, AppliedTo(c, k) PROVE AppliedTo(c, k)'
  BY DEF AppliedStays
<1>1. k \in DOMAIN issued[c] /\ k \in DOMAIN issued'[c] /\ issued'[c][k] = issued[c][k]
  BY DEF IssuedGrows, AppliedTo
<1>2. PICK req : req = issued[c][k]
  OBVIOUS
<1> QED
  BY <1>1, <1>2, Zenon DEF AppliedTo

LEMMA ConcatParts ==
  ASSUME NEW S, NEW s \in Seq(S), NEW e \in Seq(S)
  PROVE  /\ s \o e \in Seq(S) /\ Len(s) \in Nat /\ Len(e) \in Nat
         /\ DOMAIN s = 1 .. Len(s) /\ DOMAIN e = 1 .. Len(e)
         /\ Len(s \o e) = Len(s) + Len(e) /\ DOMAIN (s \o e) = 1 .. (Len(s) + Len(e))
         /\ \A i \in 1 .. Len(s) : (s \o e)[i] = s[i]
         /\ \A j \in 1 .. Len(e) : (s \o e)[Len(s) + j] = e[j]
OBVIOUS

\* Records of another request are added.
LEMMA PieceStays ==
  ASSUME NEW s \in Seq(Entries), NEW e \in Seq(Entries), NEW by, NEW other, NEW records,
         Len(records) \in Nat, \A j \in DOMAIN e : e[j].by = other, other # by,
         InOnePiece(s, by, records)
  PROVE  InOnePiece(s \o e, by, records)
<1>1. PICK t \in Seq(Entries) : t = s \o e
  <2>1. s \o e \in Seq(Entries)
    BY ConcatParts
  <2> QED
    BY <2>1, Zenon
<1>2. PICK a \in Nat : a = Len(s) /\ DOMAIN s = 1 .. a
  BY ConcatParts
<1>3. PICK b \in Nat : b = Len(e) /\ DOMAIN e = 1 .. b
  BY ConcatParts
<1>4. /\ DOMAIN t = 1 .. (a + b) /\ Len(t) = a + b
      /\ \A i \in 1 .. a : t[i] = s[i]
      /\ \A j \in 1 .. b : t[a + j] = e[j]
  BY <1>1, <1>2, <1>3, ConcatParts
<1>5. PICK r \in Nat : r = Len(records)
  OBVIOUS
<1>6. PICK m \in 0 .. a :
        /\ {i \in DOMAIN s : s[i].by = by} = (m + 1) .. (m + r)
        /\ \A i \in 1 .. r : s[m + i].rec = records[i]
  BY <1>2, <1>5, Zenon DEF InOnePiece
<1>7. ASSUME NEW i \in 1 .. (a + b) PROVE t[i].by = by <=> i \in (m + 1) .. (m + r)
  <2>1. CASE i \in 1 .. a
    <3>1. t[i].by = by <=> s[i].by = by
      BY <1>4, <2>1
    <3>2. s[i].by = by <=> i \in {x \in DOMAIN s : s[x].by = by}
      BY <1>2, <2>1
    <3> QED
      BY <1>6, <3>1, <3>2
  <2>2. CASE i \notin 1 .. a
    <3>1. i - a \in 1 .. b /\ i = a + (i - a)
      BY <2>2
    <3>2. t[i] = e[i - a] /\ e[i - a].by = other
      BY <1>3, <1>4, <3>1
    <3>3. i \notin {x \in DOMAIN s : s[x].by = by}
      BY <1>2, <2>2
    <3> QED
      BY <1>6, <3>2, <3>3
  <2> QED
    BY <2>1, <2>2
<1>8. \A i \in (m + 1) .. (m + r) : i \in 1 .. a
  BY <1>2, <1>6
<1>9. {i \in DOMAIN t : t[i].by = by} = (m + 1) .. (m + r)
  <2>1. ASSUME NEW i \in (m + 1) .. (m + r) PROVE i \in 1 .. (a + b)
    <3>1. i \in 1 .. a
      BY <1>8
    <3> QED
      BY <3>1
  <2> QED
    BY <1>4, <1>7, <2>1
<1>10. ASSUME NEW i \in 1 .. r PROVE t[m + i].rec = records[i]
  <2>1. m + i \in (m + 1) .. (m + r)
    OBVIOUS
  <2>2. t[m + i] = s[m + i]
    BY <1>4, <1>8, <2>1
  <2> QED
    BY <1>6, <2>2
<1>11. m \in 0 .. Len(t)
  BY <1>4
<1>12. InOnePiece(t, by, records)
  BY <1>5, <1>9, <1>10, <1>11, Zenon DEF InOnePiece
<1> QED
  BY <1>1, <1>12

\* The records of a request are added.
LEMMA PieceAdded ==
  ASSUME NEW s \in Seq(Entries), NEW e \in Seq(Entries), NEW by, NEW records,
         Len(records) = Len(e), \A j \in DOMAIN e : e[j].by = by /\ e[j].rec = records[j],
         \A i \in DOMAIN s : s[i].by # by
  PROVE  InOnePiece(s \o e, by, records)
<1>1. PICK t \in Seq(Entries) : t = s \o e
  <2>1. s \o e \in Seq(Entries)
    BY ConcatParts
  <2> QED
    BY <2>1, Zenon
<1>2. PICK a \in Nat : a = Len(s) /\ DOMAIN s = 1 .. a
  BY ConcatParts
<1>3. PICK b \in Nat : b = Len(e) /\ DOMAIN e = 1 .. b
  BY ConcatParts
<1>4. /\ DOMAIN t = 1 .. (a + b) /\ Len(t) = a + b
      /\ \A i \in 1 .. a : t[i] = s[i]
      /\ \A j \in 1 .. b : t[a + j] = e[j]
  BY <1>1, <1>2, <1>3, ConcatParts
<1>5. ASSUME NEW i \in 1 .. (a + b) PROVE t[i].by = by <=> i \in (a + 1) .. (a + b)
  <2>1. CASE i \in 1 .. a
    BY <1>2, <1>4, <2>1
  <2>2. CASE i \notin 1 .. a
    <3>1. i - a \in 1 .. b /\ i = a + (i - a)
      BY <2>2
    <3>2. t[i] = e[i - a] /\ e[i - a].by = by
      BY <1>3, <1>4, <3>1
    <3> QED
      BY <2>2, <3>2
  <2> QED
    BY <2>1, <2>2
<1>6. {i \in DOMAIN t : t[i].by = by} = (a + 1) .. (a + b)
  <2>1. \A i \in (a + 1) .. (a + b) : i \in 1 .. (a + b)
    OBVIOUS
  <2> QED
    BY <1>4, <1>5, <2>1
<1>7. \A i \in 1 .. b : t[a + i].rec = records[i]
  BY <1>3, <1>4
<1>8. a \in 0 .. Len(t) /\ Len(records) = b
  BY <1>3, <1>4
<1>9. InOnePiece(t, by, records)
  BY <1>6, <1>7, <1>8, Zenon DEF InOnePiece
<1> QED
  BY <1>1, <1>9

\* The records of no request are stored too early: a step that stores nothing.
LEMMA TakenStays ==
  ASSUME StoredWhenTaken, AnswersTyped, RequestsInFlight, UNCHANGED store,
         \A c \in Conns :
           \/ Len(handled'[c]) = Len(handled[c]) + 1
           \/ /\ handled'[c] = handled[c] /\ (hand'[c] = "command" => hand[c] = "command")
              /\ c \in Queued' => c \in Queued \/ hand[c] = "command"
  PROVE  StoredWhenTaken'
<1> SUFFICES ASSUME NEW i \in DOMAIN store, store[i].by # <<>>, NEW c, c = store[i].by[1],
                    NEW k, k = store[i].by[2]
             PROVE  /\ k <= Len(handled'[c])
                    /\ k = Len(handled'[c]) => hand'[c] # "command" /\ c \notin Queued'
  BY Zenon DEF StoredWhenTaken
<1>1. c \in Conns /\ k \in Nat
  <2>1. PICK s \in Seq(Entries) : s = store
    BY DEF AnswersTyped
  <2>2. PICK b : b = store[i].by
    OBVIOUS
  <2>3. b \in Conns \X Nat
    <3>1. PICK e \in Entries : e = s[i]
      BY <2>1
    <3>2. b = e.by /\ e.by \in {<<>>} \union (Conns \X Nat)
      BY <2>1, <2>2, <3>1 DEF Entries
    <3> QED
      BY <2>2, <3>2
  <2>4. b[1] \in Conns /\ b[2] \in Nat
    BY <2>3
  <2> QED
    BY <2>2, <2>4
<1>2. k <= Len(handled[c]) /\ (k = Len(handled[c]) => hand[c] # "command" /\ c \notin Queued)
  BY Zenon DEF StoredWhenTaken
<1>3. Len(handled[c]) \in Nat
  <2>1. handled[c] \in Seq(AllRequests)
    BY <1>1 DEF RequestsInFlight
  <2> QED
    BY <2>1
<1> QED
  BY <1>1, <1>2, <1>3

\* The answers a step leaves under way, each there before or truthful.
LEMMA InsertsStay ==
  ASSUME InsertsInFlight, AppliedStays, StoredWhenTaken',
         \A c \in Conns :
           /\ Told(c)' => \/ Told(c) /\ handled'[c] = handled[c]
                          \/ AppliedTo(c, Len(handled[c]))' /\ handled'[c] = handled[c]
           /\ \A w \in ToSet(wbuf'[c]) : w \in ToSet(wbuf[c]) \/ Truthful(c, w)'
           /\ ToSet(down'[c]) \subseteq ToSet(wbuf[c]) \union ToSet(down[c]),
         result' = result \/ (DOMAIN result' = Conns /\ AckedApplied')
  PROVE  InsertsInFlight'
<1>1. ASSUME NEW c \in Conns, NEW w, Truthful(c, w) PROVE Truthful(c, w)'
  BY <1>1 DEF Truthful, AppliedStays
<1>2. ASSUME NEW c \in Conns, NEW w \in ToSet(wbuf[c]) \union ToSet(down[c]) PROVE Truthful(c, w)'
  <2>1. Truthful(c, w)
    BY DEF InsertsInFlight
  <2> QED
    BY <1>1, <2>1
<1>3. ASSUME NEW c \in Conns
      PROVE  /\ Told(c)' => AppliedTo(c, Len(handled[c]))'
             /\ \A w \in ToSet(wbuf'[c]) \union ToSet(down'[c]) : Truthful(c, w)'
  <2>1. ASSUME Told(c)' PROVE AppliedTo(c, Len(handled[c]))'
    <3>1. handled'[c] = handled[c] /\ (Told(c) \/ AppliedTo(c, Len(handled[c]))')
      BY <2>1
    <3>2. PICK k : k = Len(handled[c]) /\ k = Len(handled'[c])
      BY <3>1
    <3>3. Told(c) => AppliedTo(c, k)
      BY <3>2 DEF InsertsInFlight
    <3>4. AppliedTo(c, k)'
      BY <3>1, <3>2, <3>3, Zenon DEF AppliedStays
    <3> QED
      BY <3>2, <3>4, Zenon
  <2>2. ASSUME NEW w \in ToSet(wbuf'[c]) \union ToSet(down'[c]) PROVE Truthful(c, w)'
    BY <1>2
  <2> QED
    BY <2>1, <2>2
<1>4. DOMAIN result' = Conns /\ AckedApplied'
  <2>1. CASE result' = result
    BY <2>1 DEF InsertsInFlight, AckedApplied, AppliedStays, Answered
  <2> QED
    BY <2>1
<1> QED
  BY <1>3, <1>4 DEF InsertsInFlight

\* A step that brings no handler an answer and writes none.
LEMMA QuietInserts ==
  ASSUME InsertsInFlight, AnswersTyped, RequestsInFlight, IssuedGrows,
         UNCHANGED <<store, handled>>, Queued' \subseteq Queued,
         \A c \in Conns :
           /\ hand'[c] = "command" => hand[c] = "command"
           /\ Told(c)' => Told(c)
           /\ ToSet(wbuf'[c]) \subseteq ToSet(wbuf[c])
           /\ ToSet(down'[c]) \subseteq ToSet(wbuf[c]) \union ToSet(down[c]),
         result' = result \/ (DOMAIN result' = Conns /\ AckedApplied')
  PROVE  InsertsInFlight'
<1>1. AppliedStays
  BY StoreSame
<1>2. StoredWhenTaken'
  BY TakenStays DEF InsertsInFlight
<1> QED
  BY <1>1, <1>2, InsertsStay

LEMMA InitInserts == Init => InsertsInFlight
<1> SUFFICES ASSUME Init PROVE InsertsInFlight
  OBVIOUS
<1>1. StoredWhenTaken
  <2>1. ASSUME NEW i \in DOMAIN store PROVE store[i].by = <<>>
    BY DEF Init
  <2> QED
    BY <2>1 DEF StoredWhenTaken
<1>2. ASSUME NEW c \in Conns
      PROVE  ~Told(c) /\ ToSet(wbuf[c]) \union ToSet(down[c]) = {} /\ ~Answered(c)
  BY DEF Init, Told, ToSet, Answered
<1>3. DOMAIN result = Conns
  BY DEF Init
<1> QED
  BY <1>1, <1>2, <1>3 DEF InsertsInFlight, AckedApplied

\* Clients before they have an answer, the accept loop, a handler between two
\* requests and the end of its records, and the tasks.
LEMMA ClientInserts ==
  ASSUME InsertsInFlight, AnswersTyped, RequestsInFlight, HandlersTyped, IssuedGrows,
         \/ \E c \in Conns :
              \/ Connect(c) \/ (\E req \in Requests[c] : Call(c, req)) \/ Arrive(c) \/ Cancel(c)
              \/ Accept(c) \/ StartHandler(c) \/ RecordsEnd(c) \/ TaskSends(c)
         \/ AcceptFails \/ UNCHANGED vars
  PROVE  InsertsInFlight'
<1>1. UNCHANGED <<store, handled, queue, oneshot, cur, wbuf, down, result>>
  BY ZenonT(60) DEF Connect, Call, Arrive, Cancel, Accept, StartHandler, RecordsEnd, TaskSends, AcceptFails, vars,
         clientVars, netVars, handlerVars, engineVars, storeVars
<1>2. \A d \in Conns : hand'[d] = hand[d] \/ hand'[d] \notin {"answer", "command"}
  <2>1. DOMAIN hand = Conns
    BY DEF HandlersTyped
  <2>2. ASSUME NEW c \in Conns, Connect(c) \/ Accept(c) \/ StartHandler(c) \/ RecordsEnd(c)
        PROVE  \E to \in HandStates \ {"answer", "command"} : hand' = [hand EXCEPT ![c] = to]
    BY <2>2 DEF Connect, Accept, StartHandler, RecordsEnd, HandStates
  <2>3. CASE \/ \E c \in Conns : \/ (\E req \in Requests[c] : Call(c, req)) \/ Arrive(c) \/ Cancel(c)
                                 \/ TaskSends(c)
             \/ UNCHANGED vars
    BY <2>3 DEF Call, Arrive, Cancel, TaskSends, handlerVars, vars
  <2>4. CASE AcceptFails
    BY <2>4 DEF AcceptFails
  <2> QED
    BY <2>1, <2>2, <2>3, <2>4
<1>3. Queued' = Queued /\ \A c \in Conns : Told(c)' => Told(c)
  BY <1>1, <1>2 DEF Queued, ToSet, Told
<1> QED
  BY <1>1, <1>2, <1>3, QuietInserts

\* A handler that fails.
LEMMA FailInserts ==
  ASSUME InsertsInFlight, AnswersTyped, RequestsInFlight, HandlersTyped, IssuedGrows, NEW c \in Conns,
         Fail(c), UNCHANGED <<store, handled, queue, oneshot, down, result>>
  PROVE  InsertsInFlight'
<1>1. hand' = [hand EXCEPT ![c] = "failed"] /\ wbuf' = [wbuf EXCEPT ![c] = <<>>] /\ cur' = cur
  BY DEF Fail
<1>2. DOMAIN hand = Conns /\ DOMAIN wbuf = Conns
  BY DEF HandlersTyped, AnswersTyped
<1>3. /\ \A d \in Conns \ {c} : hand'[d] = hand[d] /\ wbuf'[d] = wbuf[d]
      /\ hand'[c] = "failed" /\ wbuf'[c] = <<>>
  BY <1>1, <1>2
<1>4. Queued' = Queued
  BY DEF Queued
<1>5. ASSUME NEW d \in Conns
      PROVE  /\ (Told(d)' => Told(d)) /\ (hand'[d] = "command" => hand[d] = "command")
             /\ ToSet(wbuf'[d]) \subseteq ToSet(wbuf[d])
  BY <1>1, <1>3 DEF Told, ToSet
<1> QED
  BY <1>4, <1>5, QuietInserts

LEMMA ReadEndInserts ==
  ASSUME InsertsInFlight, AnswersTyped, RequestsInFlight, HandlersTyped, IssuedGrows, NEW c \in Conns,
         ReadEnd(c)
  PROVE  InsertsInFlight'
<1>1. UNCHANGED <<store, handled, queue, oneshot, down, result>>
  BY DEF ReadEnd, clientVars, netVars, engineVars, storeVars
<1>2. CASE Fail(c)
  BY <1>1, <1>2, FailInserts
<1>3. CASE hand' = [hand EXCEPT ![c] = "ended"] /\ UNCHANGED <<cur, wbuf>>
  <2>1. \A d \in Conns : hand'[d] = hand[d] \/ hand'[d] = "ended"
    BY <1>3 DEF HandlersTyped
  <2>2. Queued' = Queued /\ \A d \in Conns : Told(d)' => Told(d)
    BY <1>1, <1>3, <2>1 DEF Queued, Told
  <2> QED
    BY <1>1, <1>3, <2>1, <2>2, QuietInserts
<1> QED
  BY <1>2, <1>3 DEF ReadEnd

\* The client drops its connection.
LEMMA CloseInserts ==
  ASSUME InsertsInFlight, AnswersTyped, RequestsInFlight, IssuedGrows, NEW c \in Conns, Close(c)
  PROVE  InsertsInFlight'
<1>1. /\ UNCHANGED <<store, handled, queue, oneshot, hand, cur, wbuf, result>>
      /\ down' = [down EXCEPT ![c] = <<>>]
  BY DEF Close, handlerVars, engineVars, storeVars
<1>2. DOMAIN down = Conns
  BY DEF AnswersTyped
<1>3. Queued' = Queued /\ \A d \in Conns : Told(d)' => Told(d)
  BY <1>1 DEF Queued, Told
<1>4. \A d \in Conns : ToSet(down'[d]) \subseteq ToSet(wbuf[d]) \union ToSet(down[d])
  BY <1>1, <1>2 DEF ToSet
<1> QED
  BY <1>1, <1>3, <1>4, QuietInserts

LEMMA Returned ==
  ASSUME NEW c, NEW msg, NEW of, Return(c, msg, of)
  PROVE  \E r : result' = [result EXCEPT ![c] = r] /\ r.msg = msg /\ r.of = of
<1>1. PICK ok : ok = (msg.type = Expected(call[c].req))
  OBVIOUS
<1>2. PICK r : r = [num |-> call[c].num, req |-> call[c].req, seen |-> call[c].seen, got |-> got[c],
                    of |-> of, msg |-> msg, ok |-> ok]
  OBVIOUS
<1>3. result' = [result EXCEPT ![c] = r]
  BY <1>1, <1>2, Zenon DEF Return
<1>4. r.msg = msg /\ r.of = of
  BY <1>2
<1> QED
  BY <1>3, <1>4, Zenon

\* A call returns: with the answer at the head of the path, or an error.
LEMMA ReceiveInserts ==
  ASSUME InsertsInFlight, AnswersTyped, RequestsInFlight, IssuedGrows, NEW c \in Conns,
         Receive(c) \/ ReceiveClosed(c)
  PROVE  InsertsInFlight'
<1>1. UNCHANGED <<store, handled, queue, oneshot, hand, cur, wbuf>>
  BY DEF Receive, ReceiveClosed, handlerVars, engineVars, storeVars
<1>2. Queued' = Queued /\ \A d \in Conns : Told(d)' => Told(d)
  BY <1>1 DEF Queued, Told
<1>3. \A d \in Conns : ToSet(down'[d]) \subseteq ToSet(wbuf[d]) \union ToSet(down[d])
  <2>1. PICK s \in Seq(Written) : s = down[c]
    BY DEF AnswersTyped
  <2>2. CASE Receive(c)
    <3>1. s # <<>> /\ down' = [down EXCEPT ![c] = Tail(s)] /\ DOMAIN down = Conns
      BY <2>1, <2>2 DEF Receive, AnswersTyped
    <3>2. ToSet(Tail(s)) \subseteq ToSet(s)
      <4>1. \A i \in DOMAIN Tail(s) : i + 1 \in DOMAIN s /\ Tail(s)[i] = s[i + 1]
        BY <3>1
      <4> QED
        BY <4>1 DEF ToSet
    <3>3. down'[c] = Tail(s) /\ \A d \in Conns \ {c} : down'[d] = down[d]
      BY <3>1
    <3> QED
      BY <2>1, <3>2, <3>3
  <2>3. CASE ReceiveClosed(c)
    BY <2>3 DEF ReceiveClosed, netVars
  <2> QED
    BY <2>2, <2>3
<1>4. AppliedStays
  BY <1>1, StoreSame
<1>5. DOMAIN result = Conns /\ AckedApplied
  BY DEF InsertsInFlight
<1>6. ASSUME NEW r, result' = [result EXCEPT ![c] = r],
             r.msg.type \notin {"closed", "InsertOk"} \/ r.msg.type = "closed" \/ AppliedTo(c, r.of)
      PROVE  DOMAIN result' = Conns /\ AckedApplied'
  <2>1. DOMAIN result' = Conns /\ result'[c] = r /\ \A d \in Conns \ {c} : result'[d] = result[d]
    BY <1>5, <1>6
  <2>2. ASSUME NEW d \in Conns, Answered(d)', result'[d].msg.type = "InsertOk"
        PROVE  AppliedTo(d, result[d].of)'
    <3>1. CASE d = c
      <4>1. AppliedTo(c, r.of)
        BY <1>6, <2>1, <2>2, <3>1 DEF Answered
      <4>2. PICK k : k = r.of /\ k = result'[d].of
        BY <2>1, <3>1
      <4>3. AppliedTo(c, k)'
        BY <1>4, <4>1, <4>2 DEF AppliedStays
      <4> QED
        BY <3>1, <4>2, <4>3, Zenon
    <3>2. CASE d # c
      <4>1. Answered(d) /\ result[d].msg.type = "InsertOk" /\ result'[d] = result[d]
        BY <2>1, <2>2, <3>2 DEF Answered
      <4>2. AppliedTo(d, result[d].of)
        BY <1>5, <4>1 DEF AckedApplied
      <4>3. PICK k : k = result[d].of /\ k = result'[d].of
        BY <4>1
      <4>4. AppliedTo(d, k)'
        BY <1>4, <4>2, <4>3 DEF AppliedStays
      <4> QED
        BY <4>3, <4>4, Zenon
    <3> QED
      BY <3>1, <3>2
  <2> QED
    BY <2>1, <2>2 DEF AckedApplied
<1>7. result' = result \/ (DOMAIN result' = Conns /\ AckedApplied')
  <2>1. CASE Receive(c)
    <3>1. PICK s \in Seq(Written) : s = down[c] /\ s # <<>>
      BY <2>1 DEF AnswersTyped, Receive
    <3>2. PICK w : w = Head(down[c])
      OBVIOUS
    <3>3. Truthful(c, w)
      <4>1. w \in ToSet(down[c])
        <5>1. 1 \in DOMAIN s /\ w = s[1]
          BY <3>1, <3>2
        <5> QED
          BY <3>1, <5>1 DEF ToSet
      <4> QED
        BY <4>1 DEF InsertsInFlight
    <3>4. result' = result \/ Return(c, w.msg, w.of)
      BY <2>1, <3>2, Zenon DEF Receive
    <3>5. ASSUME Return(c, w.msg, w.of) PROVE DOMAIN result' = Conns /\ AckedApplied'
      <4>1. PICK r : result' = [result EXCEPT ![c] = r] /\ r.msg = w.msg /\ r.of = w.of
        BY <3>5, Returned
      <4>2. r.msg.type = "InsertOk" => AppliedTo(c, r.of)
        BY <3>3, <4>1, Zenon DEF Truthful
      <4> QED
        BY <1>6, <4>1, <4>2
    <3> QED
      BY <3>4, <3>5
  <2>2. CASE ReceiveClosed(c)
    <3>1. PICK r : result' = [result EXCEPT ![c] = r] /\ r.msg = [type |-> "closed"]
      BY <2>2, Returned DEF ReceiveClosed
    <3>2. r.msg.type = "closed"
      BY <3>1
    <3> QED
      BY <1>6, <3>1, <3>2
  <2> QED
    BY <2>1, <2>2
<1> QED
  BY <1>1, <1>2, <1>3, <1>7, QuietInserts

\* A frame is decoded: the request is new, nothing of it is stored.
LEMMA ReadInserts ==
  ASSUME InsertsInFlight, AnswersTyped, RequestsInFlight, HandlersTyped, IssuedGrows, NEW c \in Conns,
         ReadFrame(c)
  PROVE  InsertsInFlight'
<1>1. PICK msg : msg = server_decode(Head(up[c]))
  OBVIOUS
<1>2. PICK to : to = CASE msg.type = "Malformed" -> "failed"
                       [] msg.type = "Ping" -> "answer"
                       [] OTHER -> "command"
  OBVIOUS
<1>3. /\ handled' = [handled EXCEPT ![c] = Append(@, msg)] /\ cur' = [cur EXCEPT ![c] = msg]
      /\ hand' = [hand EXCEPT ![c] = to]
      /\ UNCHANGED <<store, queue, oneshot, wbuf, down, result>>
  BY <1>1, <1>2, Zenon DEF ReadFrame, clientVars, engineVars, storeVars
<1>4. handled \in [Conns -> Seq(AllRequests)] /\ DOMAIN cur = Conns /\ DOMAIN hand = Conns
  BY DEF RequestsInFlight, AnswersTyped, HandlersTyped
<1>5. /\ \A d \in Conns \ {c} : hand'[d] = hand[d] /\ cur'[d] = cur[d] /\ handled'[d] = handled[d]
      /\ hand'[c] = to /\ cur'[c] = msg /\ handled'[c] = Append(handled[c], msg)
  BY <1>3, <1>4
<1>6. Len(handled'[c]) = Len(handled[c]) + 1
  <2>1. PICK h \in Seq(AllRequests) : h = handled[c]
    BY <1>4
  <2>2. msg \in AllRequests
    BY <1>1, ReadRequests
  <2>3. Len(Append(h, msg)) = Len(h) + 1
    BY <2>2
  <2> QED
    BY <1>5, <2>1, <2>3
<1>7. Queued' = Queued
  BY <1>3 DEF Queued
<1>8. StoredWhenTaken'
  BY <1>3, <1>5, <1>6, <1>7, TakenStays DEF InsertsInFlight
<1>9. ~Told(c)' /\ \A d \in Conns \ {c} : Told(d)' => Told(d)
  <2>1. to = "answer" => msg.type = "Ping"
    BY <1>2
  <2> QED
    BY <1>3, <1>5, <2>1 DEF Told, Inserts
<1>10. AppliedStays
  BY <1>3, StoreSame
<1>11. \A d \in Conns : /\ Told(d)' => Told(d) /\ handled'[d] = handled[d]
                        /\ ToSet(wbuf'[d]) = ToSet(wbuf[d]) /\ ToSet(down'[d]) = ToSet(down[d])
  BY <1>3, <1>5, <1>9
<1> QED
  BY <1>3, <1>8, <1>10, <1>11, InsertsStay

\* A command goes to the channel.
LEMMA SendInserts ==
  ASSUME InsertsInFlight, AnswersTyped, RequestsInFlight, HandlersTyped, IssuedGrows, NEW c \in Conns,
         SendCommand(c)
  PROVE  InsertsInFlight'
<1>1. hand[c] = "command" /\ UNCHANGED <<store, handled, down, result>>
  BY DEF SendCommand, clientVars, netVars, storeVars
<1>2. CASE ~running
  <2>1. Fail(c) /\ UNCHANGED <<queue, oneshot>>
    BY <1>2 DEF SendCommand
  <2> QED
    BY <1>1, <2>1, FailInserts
<1>3. CASE running
  <2>1. PICK to \in {"records", "answer"} : hand' = [hand EXCEPT ![c] = to]
    BY <1>3 DEF SendCommand
  <2>2. /\ queue' = Append(queue, c) /\ oneshot' = [oneshot EXCEPT ![c] = Nothing]
        /\ UNCHANGED <<cur, wbuf>>
    BY <1>3 DEF SendCommand
  <2>3. DOMAIN hand = Conns /\ DOMAIN oneshot = Conns
    BY DEF HandlersTyped, AnswersTyped
  <2>4. /\ \A d \in Conns \ {c} : hand'[d] = hand[d] /\ oneshot'[d] = oneshot[d]
        /\ hand'[c] = to /\ oneshot'[c] = Nothing
    BY <2>1, <2>2, <2>3
  <2>5. Queued' \subseteq Queued \union {c}
    <3>1. PICK q \in Seq(Conns) : q = queue
      BY DEF AnswersTyped
    <3>2. ToSet(Append(q, c)) \subseteq ToSet(q) \union {c}
      <4>1. /\ Len(q) \in Nat /\ DOMAIN q = 1 .. Len(q) /\ DOMAIN Append(q, c) = 1 .. (Len(q) + 1)
            /\ Append(q, c)[Len(q) + 1] = c /\ \A i \in 1 .. Len(q) : Append(q, c)[i] = q[i]
        OBVIOUS
      <4> QED
        BY <4>1 DEF ToSet
    <3> QED
      BY <2>2, <3>1, <3>2 DEF Queued
  <2>6. StoredWhenTaken'
    BY <1>1, <2>4, <2>5, TakenStays DEF InsertsInFlight
  <2>7. AppliedStays
    BY <1>1, StoreSame
  <2>8. \A d \in Conns : Told(d)' => Told(d) /\ handled'[d] = handled[d]
    <3>1. ~Told(c)'
      <4>1. Nothing.is # "ok"
        BY DEF Nothing
      <4> QED
        BY <2>4, <4>1 DEF Told
    <3> QED
      BY <1>1, <2>2, <2>4, <3>1 DEF Told
  <2> QED
    BY <1>1, <2>2, <2>6, <2>7, <2>8, InsertsStay
<1> QED
  BY <1>2, <1>3

\* Records in the write buffer acknowledge nothing.
LEMMA RecvInserts ==
  ASSUME InsertsInFlight, AnswersTyped, RequestsInFlight, HandlersTyped, IssuedGrows, NEW c \in Conns,
         RecvRecords(c)
  PROVE  InsertsInFlight'
<1>1. /\ UNCHANGED <<store, handled, queue, oneshot, cur, down, result>>
      /\ rchan[c].batches # <<>>
  BY DEF RecvRecords, clientVars, netVars, storeVars
<1>2. PICK to \in {"flush", "records"} : hand' = [hand EXCEPT ![c] = to]
  BY DEF RecvRecords
<1>3. DOMAIN hand = Conns /\ DOMAIN wbuf = Conns
  BY DEF HandlersTyped, AnswersTyped
<1>4. /\ \A d \in Conns \ {c} : hand'[d] = hand[d]
      /\ hand'[c] = to
  BY <1>2, <1>3
<1>5. Queued' = Queued /\ \A d \in Conns : Told(d)' => Told(d)
  BY <1>1, <1>4 DEF Queued, Told
<1>6. PICK b \in Seq(ProtoRecords) : b = Head(rchan[c].batches)
  <2>1. PICK bs \in Seq(Seq(ProtoRecords)) : bs = rchan[c].batches
    BY DEF AnswersTyped
  <2>2. Head(bs) \in Seq(ProtoRecords)
    BY <1>1, <2>1, TailType
  <2> QED
    BY <2>1, <2>2
<1>7. PICK frames : frames = [i \in DOMAIN b |-> Out(c, RangeRecord(b[i]))]
  OBVIOUS
<1>8. wbuf' = [wbuf EXCEPT ![c] = wbuf[c] \o frames]
  BY <1>6, <1>7, Zenon DEF RecvRecords
<1>9. frames \in Seq({Out(c, RangeRecord(b[i])) : i \in DOMAIN b})
  <2> DEFINE F == {Out(c, RangeRecord(b[i])) : i \in DOMAIN b}
  <2>1. frames \in [DOMAIN b -> F]
    BY <1>7
  <2>2. DOMAIN b = 1 .. Len(b) /\ Len(b) \in Nat
    OBVIOUS
  <2> HIDE DEF F
  <2>3. frames \in Seq(F)
    BY <2>1, <2>2
  <2> QED
    BY <2>3 DEF F
<1>10. ASSUME NEW w \in ToSet(wbuf'[c]) PROVE w \in ToSet(wbuf[c]) \/ Truthful(c, w)'
  <2> DEFINE F == {Out(c, RangeRecord(b[i])) : i \in DOMAIN b}
  <2>1. PICK v \in Seq(Written) : v = wbuf[c]
    BY DEF AnswersTyped
  <2>2. PICK f \in Seq(F) : f = frames
    BY <1>9
  <2>3. w \in ToSet(v \o f)
    BY <1>3, <1>8, <2>1, <2>2
  <2>4. w \in ToSet(v) \/ w \in F
    <3> HIDE DEF F
    <3>1. PICK i \in DOMAIN (v \o f) : w = (v \o f)[i]
      BY <2>3 DEF ToSet
    <3>2. v \in Seq(Written \union F) /\ f \in Seq(Written \union F)
      OBVIOUS
    <3>3. /\ DOMAIN v = 1 .. Len(v) /\ DOMAIN f = 1 .. Len(f) /\ Len(v) \in Nat /\ Len(f) \in Nat
          /\ DOMAIN (v \o f) = 1 .. (Len(v) + Len(f))
          /\ \A x \in 1 .. Len(v) : (v \o f)[x] = v[x]
          /\ \A x \in 1 .. Len(f) : (v \o f)[Len(v) + x] = f[x]
      BY <3>2, ConcatParts
    <3>4. CASE i \in 1 .. Len(v)
      BY <3>1, <3>3, <3>4 DEF ToSet
    <3>5. CASE i \notin 1 .. Len(v)
      <4>1. i - Len(v) \in 1 .. Len(f) /\ i = Len(v) + (i - Len(v))
        BY <3>3, <3>5
      <4>2. w = f[i - Len(v)]
        BY <3>1, <3>3, <4>1
      <4> QED
        BY <3>3, <4>1, <4>2
    <3> QED
      BY <3>4, <3>5
  <2>5. ASSUME w \in F PROVE Truthful(c, w)'
    <3>1. PICK i \in DOMAIN b : w = Out(c, RangeRecord(b[i]))
      BY <2>5
    <3>2. w.msg = RangeRecord(b[i])
      BY <3>1 DEF Out
    <3>3. RangeRecord(b[i]).type = "RangeRecord"
      BY DEF RangeRecord
    <3>4. w.msg.type # "InsertOk"
      BY <3>2, <3>3
    <3> QED
      BY <3>4 DEF Truthful
  <2> QED
    BY <2>1, <2>4, <2>5
<1>11. \A d \in Conns : \A w \in ToSet(wbuf'[d]) : w \in ToSet(wbuf[d]) \/ Truthful(d, w)'
  <2>1. \A d \in Conns \ {c} : wbuf'[d] = wbuf[d]
    BY <1>3, <1>8
  <2> QED
    BY <1>10, <2>1
<1>12. AppliedStays
  BY <1>1, StoreSame
<1>13. StoredWhenTaken'
  BY <1>1, <1>4, <1>5, TakenStays DEF InsertsInFlight
<1> QED
  BY <1>1, <1>5, <1>11, <1>12, <1>13, InsertsStay

\* What is written was in the buffer.
LEMMA FlushInserts ==
  ASSUME InsertsInFlight, AnswersTyped, RequestsInFlight, CommandsInFlight, HandlersTyped, IssuedGrows,
         NEW c \in Conns, Flush(c)
  PROVE  InsertsInFlight'
<1>1. /\ hand[c] \in {"flush", "final flush", "reply"}
      /\ UNCHANGED <<store, handled, queue, oneshot, result>>
  BY DEF Flush, engineVars, storeVars
<1>2. CASE Fail(c) /\ UNCHANGED <<sock, down, frames_written, flushed>>
  BY <1>1, <1>2, FailInserts
<1>3. ASSUME NEW n, n = (IF sock[c] # "open" \/ Len(wbuf[c]) < PathFrames - Len(down[c])
                         THEN Len(wbuf[c]) ELSE PathFrames - Len(down[c])),
             wbuf' = [wbuf EXCEPT ![c] = SubSeq(@, n + 1, Len(@))],
             down' = down \/ down' = [down EXCEPT ![c] = @ \o SubSeq(wbuf[c], 1, n)],
             hand' = [hand EXCEPT ![c] = After(@)] \/ UNCHANGED hand,
             cur' = cur
      PROVE  InsertsInFlight'
  <2>1. PICK w \in Seq(Written) : w = wbuf[c]
    BY DEF AnswersTyped
  <2>2. PICK p \in Seq(Written) : p = down[c]
    BY DEF AnswersTyped
  <2>3. Len(w) \in Nat /\ Len(p) \in Nat /\ Len(p) <= PathFrames /\ PathFrames \in Nat
    BY <2>2, ConnAssumption DEF AnswersTyped
  <2>4. n = IF sock[c] # "open" \/ Len(w) < PathFrames - Len(p) THEN Len(w) ELSE PathFrames - Len(p)
    BY <1>3, <2>1, <2>2, Zenon
  <2>5. n \in 0 .. Len(w)
    BY <2>3, <2>4
  <2>6. ToSet(SubSeq(w, n + 1, Len(w))) \subseteq ToSet(w)
    <3>1. \A i \in DOMAIN SubSeq(w, n + 1, Len(w)) :
            n + i \in DOMAIN w /\ SubSeq(w, n + 1, Len(w))[i] = w[n + i]
      BY <2>5
    <3> QED
      BY <3>1 DEF ToSet
  <2>7. ToSet(p \o SubSeq(w, 1, n)) \subseteq ToSet(w) \union ToSet(p)
    <3>1. PICK v \in Seq(Written) : v = SubSeq(w, 1, n)
      BY <2>5, SubSeqType
    <3>2. \A i \in DOMAIN v : i \in DOMAIN w /\ v[i] = w[i]
      BY <2>5, <3>1
    <3>3. /\ DOMAIN p = 1 .. Len(p) /\ DOMAIN v = 1 .. Len(v) /\ Len(v) \in Nat
          /\ DOMAIN (p \o v) = 1 .. (Len(p) + Len(v))
          /\ \A x \in 1 .. Len(p) : (p \o v)[x] = p[x]
          /\ \A x \in 1 .. Len(v) : (p \o v)[Len(p) + x] = v[x]
      BY ConcatParts
    <3>4. ASSUME NEW i \in 1 .. (Len(p) + Len(v))
          PROVE  (p \o v)[i] \in ToSet(w) \union ToSet(p)
      <4>1. CASE i \in 1 .. Len(p)
        BY <3>3, <4>1 DEF ToSet
      <4>2. CASE i \notin 1 .. Len(p)
        <5>1. PICK j \in 1 .. Len(v) : i = Len(p) + j
          <6>1. i - Len(p) \in 1 .. Len(v) /\ i = Len(p) + (i - Len(p))
            BY <2>3, <3>3, <4>2
          <6> QED
            BY <6>1
        <5>2. (p \o v)[i] = w[j] /\ j \in DOMAIN w
          BY <3>2, <3>3, <5>1
        <5> QED
          BY <5>2 DEF ToSet
      <4> QED
        BY <4>1, <4>2
    <3>5. ToSet(p \o v) \subseteq ToSet(w) \union ToSet(p)
      <4>1. ASSUME NEW x \in ToSet(p \o v) PROVE x \in ToSet(w) \union ToSet(p)
        <5>1. PICK i \in DOMAIN (p \o v) : x = (p \o v)[i]
          BY DEF ToSet
        <5> QED
          BY <3>3, <3>4, <5>1
      <4> QED
        BY <4>1
    <3> QED
      BY <3>1, <3>5
  <2>8. DOMAIN wbuf = Conns /\ DOMAIN down = Conns /\ hand \in [Conns -> HandStates]
    BY DEF AnswersTyped, HandlersTyped
  <2>9. wbuf'[c] = SubSeq(w, n + 1, Len(w)) /\ \A d \in Conns \ {c} : wbuf'[d] = wbuf[d]
    BY <1>3, <2>1, <2>8, Zenon
  <2>10. \/ down' = down
         \/ down'[c] = p \o SubSeq(w, 1, n) /\ \A d \in Conns \ {c} : down'[d] = down[d]
    BY <1>3, <2>1, <2>2, <2>8, Zenon
  <2>11. ASSUME NEW d \in Conns
         PROVE  /\ ToSet(wbuf'[d]) \subseteq ToSet(wbuf[d])
                /\ ToSet(down'[d]) \subseteq ToSet(wbuf[d]) \union ToSet(down[d])
    <3>1. CASE d # c
      BY <2>9, <2>10, <3>1
    <3>2. CASE d = c
      BY <2>1, <2>2, <2>6, <2>7, <2>9, <2>10, <3>2
    <3> QED
      BY <3>1, <3>2
  <2>12. ASSUME NEW d \in Conns
         PROVE  (hand'[d] = "command" => hand[d] = "command") /\ (Told(d)' => Told(d))
    <3>1. CASE hand'[d] = hand[d]
      BY <1>1, <1>3, <3>1 DEF Told
    <3>2. CASE d = c /\ hand'[c] = After(hand[c])
      <4>1. hand'[c] # "command" /\ (hand'[c] = "answer" => hand[c] = "final flush")
        BY <1>1, <3>2 DEF After
      <4>2. hand[c] = "final flush" => cur[c].type = "Range"
        BY DEF CommandsInFlight, InStep, InQuery
      <4> QED
        BY <1>3, <3>2, <4>1, <4>2 DEF Told, Inserts
    <3> QED
      BY <1>3, <2>8, <3>1, <3>2
  <2>13. Queued' = Queued
    BY <1>1 DEF Queued
  <2> QED
    BY <1>1, <2>11, <2>12, <2>13, QuietInserts
<1> QED
  BY <1>2, <1>3 DEF Flush

\* A reply says InsertOk when the engine has said so.
LEMMA AnswerInserts ==
  ASSUME InsertsInFlight, AnswersTyped, RequestsInFlight, HandlersTyped, IssuedGrows, NEW c \in Conns,
         Answer(c)
  PROVE  InsertsInFlight'
<1>1. hand[c] = "answer" /\ UNCHANGED <<store, handled, queue, oneshot, down, result>>
  BY DEF Answer, clientVars, netVars, engineVars, storeVars
<1>2. CASE Fail(c)
  BY <1>1, <1>2, FailInserts
<1>3. CASE /\ wbuf' = [wbuf EXCEPT ![c] = Append(@, Out(c, reply_to(cur[c], oneshot[c])))]
           /\ hand' = [hand EXCEPT ![c] = "reply"] /\ UNCHANGED cur
  <2>1. PICK msg : msg = reply_to(cur[c], oneshot[c])
    OBVIOUS
  <2>2. PICK k : k = Len(handled[c])
    OBVIOUS
  <2>3. PICK f : f = [msg |-> msg, of |-> k]
    OBVIOUS
  <2>4. f.msg = msg /\ f.of = k /\ f = Out(c, msg)
    <3>1. f = Out(c, msg)
      BY <2>2, <2>3, Zenon DEF Out
    <3> QED
      BY <2>3, <3>1
  <2>5. msg.type = "InsertOk" => Told(c)
    <3>1. PICK req : req = cur[c]
      OBVIOUS
    <3>2. PICK a : a = oneshot[c]
      OBVIOUS
    <3>3. msg = reply_to(req, a)
      BY <2>1, <3>1, <3>2, Zenon
    <3>4. \/ msg = MetricsJson(a.json)
          \/ msg \in {RangeEnd, Pong, ErrorText("failed"), ErrorText("engine closed")}
          \/ req.type \in Inserts /\ a.is = "ok"
      BY <3>3 DEF reply_to, Inserts
    <3>5. MetricsJson(a.json).type = "Metrics"
      BY DEF MetricsJson
    <3>6. RangeEnd.type # "InsertOk" /\ Pong.type # "InsertOk"
      BY DEF RangeEnd, Pong
    <3>7. \A text : ErrorText(text).type = "Error"
      BY DEF ErrorText
    <3>8. ErrorText("failed").type # "InsertOk" /\ ErrorText("engine closed").type # "InsertOk"
      BY <3>7
    <3>9. msg.type = "InsertOk" => req.type \in Inserts /\ a.is = "ok"
      BY <3>4, <3>5, <3>6, <3>8
    <3> QED
      BY <1>1, <3>1, <3>2, <3>9, Zenon DEF Told
  <2>6. AppliedStays
    BY <1>1, StoreSame
  <2>7. Truthful(c, f)'
    <3>1. msg.type = "InsertOk" => AppliedTo(c, k)
      BY <2>2, <2>5 DEF InsertsInFlight
    <3>2. Truthful(c, f)
      BY <2>4, <3>1 DEF Truthful
    <3> QED
      BY <2>6, <3>2 DEF Truthful, AppliedStays
  <2>8. PICK w \in Seq(Written) : w = wbuf[c]
    BY DEF AnswersTyped
  <2>9. DOMAIN wbuf = Conns /\ DOMAIN hand = Conns
    BY DEF AnswersTyped, HandlersTyped
  <2>10. wbuf'[c] = Append(w, f) /\ \A d \in Conns \ {c} : wbuf'[d] = wbuf[d]
    BY <1>3, <2>1, <2>4, <2>8, <2>9, Zenon
  <2>11. ASSUME NEW x \in ToSet(Append(w, f)) PROVE x \in ToSet(w) \/ x = f
    <3>1. PICK F : F = Written \union {f}
      OBVIOUS
    <3>2. w \in Seq(F) /\ f \in F
      BY <3>1
    <3>3. /\ Len(w) \in Nat /\ DOMAIN w = 1 .. Len(w) /\ DOMAIN Append(w, f) = 1 .. (Len(w) + 1)
          /\ Append(w, f)[Len(w) + 1] = f /\ \A i \in 1 .. Len(w) : Append(w, f)[i] = w[i]
      BY <3>2
    <3>4. PICK i \in DOMAIN Append(w, f) : x = Append(w, f)[i]
      BY DEF ToSet
    <3>5. i \in 1 .. Len(w) \/ i = Len(w) + 1
      BY <3>3, <3>4
    <3> QED
      BY <3>3, <3>4, <3>5 DEF ToSet
  <2>12. \A d \in Conns : \A x \in ToSet(wbuf'[d]) : x \in ToSet(wbuf[d]) \/ Truthful(d, x)'
    BY <2>7, <2>8, <2>10, <2>11
  <2>13. \A d \in Conns : hand'[d] = hand[d] \/ hand'[d] = "reply"
    BY <1>3, <2>9
  <2>14. Queued' = Queued /\ \A d \in Conns : Told(d)' => Told(d)
    BY <1>1, <1>3, <2>13 DEF Queued, Told
  <2>15. StoredWhenTaken'
    BY <1>1, <2>13, <2>14, TakenStays DEF InsertsInFlight
  <2> QED
    BY <1>1, <2>6, <2>12, <2>14, <2>15, InsertsStay
<1> QED
  BY <1>2, <1>3 DEF Answer

\* The answers of the engine to queries, and of an engine that stops.
LEMMA OtherInserts ==
  ASSUME InsertsInFlight, AnswersTyped, RequestsInFlight, CommandsInFlight, IssuedGrows,
         NEW c \in Conns, \/ TaskEnds(c)
                          \/ EngineStops
                          \/ Engine /\ c = Head(queue) /\ cur[c].type = "Range" /\ EngineRange(c, cur[c])
                          \/ Engine /\ c = Head(queue) /\ cur[c].type = "Metrics" /\ EngineMetrics(c)
  PROVE  InsertsInFlight'
<1>1. UNCHANGED <<store, handled, hand, cur, wbuf, down, result>>
  BY DEF TaskEnds, EngineStops, Engine, EngineRange, EngineMetrics, clientVars, netVars, handlerVars,
         storeVars
<1>2. Queued' \subseteq Queued
  <2>1. CASE TaskEnds(c)
    BY <2>1 DEF TaskEnds, Queued
  <2>2. CASE EngineStops
    BY <2>2 DEF EngineStops, Queued, ToSet
  <2>3. CASE Engine
    <3>1. PICK q \in Seq(Conns) : q = queue
      BY DEF AnswersTyped
    <3>2. q # <<>> /\ queue' = Tail(q)
      BY <2>3, <3>1 DEF Engine
    <3> QED
      BY <3>1, <3>2, TakenOnce DEF CommandsInFlight
  <2> QED
    BY <2>1, <2>2, <2>3
<1>3. DOMAIN oneshot = Conns
  BY DEF AnswersTyped
<1>4. ASSUME NEW d \in Conns PROVE Told(d)' => Told(d)
  <2>1. CASE TaskEnds(c)
    <3>1. hand[c] # "answer" /\ \A x \in Conns \ {c} : oneshot'[x] = oneshot[x]
      BY <1>3, <2>1 DEF TaskEnds, CommandsInFlight, InStep
    <3> QED
      BY <1>1, <3>1 DEF Told
  <2>2. CASE EngineStops
    <3>1. oneshot'[d] = [is |-> "dropped"] \/ oneshot'[d] = oneshot[d]
      BY <2>2 DEF EngineStops
    <3> QED
      BY <1>1, <3>1 DEF Told
  <2>3. CASE cur[c].type \in {"Range", "Metrics"} /\ (EngineRange(c, cur[c]) \/ EngineMetrics(c))
    <3>1. \A x \in Conns \ {c} : oneshot'[x] = oneshot[x]
      BY <1>3, <2>3, SMTT(30) DEF EngineRange, EngineMetrics
    <3> QED
      BY <1>1, <2>3, <3>1 DEF Told, Inserts
  <2> QED
    BY <2>1, <2>2, <2>3
<1> QED
  BY <1>1, <1>2, <1>4, QuietInserts

\* The engine takes an insert: its records are stored now, and were not before.
LEMMA EngineInserts ==
  ASSUME InsertsInFlight, AnswersTyped, RequestsInFlight, CommandsInFlight, IssuedGrows,
         NEW c \in Conns, Engine, c = Head(queue), cur[c].type \in Inserts, EngineInsert(c, cur[c])
  PROVE  InsertsInFlight'
<1>1. UNCHANGED <<handled, hand, cur, wbuf, down, result, issued>>
  BY DEF Engine, clientVars, netVars, handlerVars
<1>2. Queued' \subseteq Queued /\ c \in Queued /\ c \notin Queued'
  <2>1. PICK q \in Seq(Conns) : q = queue
    BY DEF AnswersTyped
  <2>2. q # <<>> /\ queue' = Tail(q)
    BY <2>1 DEF Engine
  <2> QED
    BY <2>1, <2>2, TakenOnce DEF CommandsInFlight
<1>3. hand[c] = "answer" /\ handled[c] # <<>> /\ cur[c] = handled[c][Len(handled[c])]
  <2>1. hand[c] = "answer"
    BY <1>2 DEF CommandsInFlight, Waits, Inserts
  <2> QED
    BY <2>1 DEF CommandsInFlight, InStep, Working
<1>4. DOMAIN oneshot = Conns
  BY DEF AnswersTyped
<1>5. PICK a :
        /\ oneshot' = [oneshot EXCEPT ![c] = a]
        /\ \/ UNCHANGED store /\ a = [is |-> "err"]
           \/ store' = store \o [i \in 1 .. InsertCount(cur[c]) |->
                                   [rec |-> cur[c].records[i], seq |-> seq_counter + i - 1,
                                    by |-> <<c, Len(handled[c])>>]]
  BY Zenon DEF EngineInsert
<1>6. \A d \in Conns \ {c} : Told(d)' => Told(d)
  BY <1>1, <1>4, <1>5 DEF Told
<1>7. CASE UNCHANGED store /\ a = [is |-> "err"]
  <2>1. ~Told(c)'
    <3>1. oneshot'[c] = a /\ a.is = "err"
      BY <1>4, <1>5, <1>7
    <3> QED
      BY <3>1 DEF Told
  <2>2. \A d \in Conns : Told(d)' => Told(d)
    BY <1>6, <2>1
  <2> QED
    BY <1>1, <1>2, <1>7, <2>2, QuietInserts
<1>8. CASE store' = store \o [i \in 1 .. InsertCount(cur[c]) |->
                      [rec |-> cur[c].records[i], seq |-> seq_counter + i - 1,
                       by |-> <<c, Len(handled[c])>>]]
  <2>1. PICK req \in AllRequests : req = cur[c] /\ req.type \in Inserts
    BY DEF AnswersTyped, Inserts, Ping
  <2>2. PICK n \in Nat : n = Len(req.records)
    BY <2>1, WritesRecords DEF Inserts
  <2>3. PICK k \in Nat : k = Len(handled[c]) /\ k \in DOMAIN issued[c] /\ issued[c][k] = req
    <3>1. PICK h \in Seq(AllRequests) : h = handled[c]
      BY DEF RequestsInFlight
    <3>2. PICK s \in Seq(AllRequests) : s = issued[c]
      BY DEF RequestsInFlight
    <3>3. up[c] \in Seq({client_encode(m) : m \in AllRequests})
      BY DEF RequestsInFlight
    <3>4. Len(h) \in Nat /\ Len(s) \in Nat /\ Len(up[c]) \in Nat /\ Len(h) > 0
      BY <1>3, <3>1, <3>3
    <3>5. Len(h) + Len(up[c]) = Len(s) /\ \A i \in 1 .. Len(h) : h[i] = s[i]
      BY <3>1, <3>2 DEF RequestsInFlight
    <3>6. Len(h) \in DOMAIN s /\ s[Len(h)] = h[Len(h)]
      BY <3>4, <3>5
    <3> QED
      BY <1>3, <2>1, <3>1, <3>2, <3>4, <3>6
  <2>4. PICK by : by = <<c, k>>
    OBVIOUS
  <2>5. PICK num \in Nat : num = seq_counter
    BY DEF AnswersTyped
  <2>6. PICK e : e = [i \in 1 .. n |-> [rec |-> req.records[i], seq |-> num + i - 1, by |-> by]]
    OBVIOUS
  <2>7. store' = store \o e
    <3>1. InsertCount(cur[c]) = n
      BY <2>1, <2>2 DEF InsertCount
    <3> QED
      BY <1>8, <2>1, <2>3, <2>4, <2>5, <2>6, <3>1, Zenon
  <2>8. e \in Seq(Entries) /\ DOMAIN e = 1 .. n /\ Len(e) = n
    <3>1. ASSUME NEW i \in 1 .. n
          PROVE  [rec |-> req.records[i], seq |-> num + i - 1, by |-> by] \in Entries
      <4>1. PICK r \in Records : r = req.records[i]
        BY <2>1, <2>2, WritesRecords DEF Inserts
      <4>2. PICK m \in Nat : m = num + i - 1
        OBVIOUS
      <4>3. by \in {<<>>} \union (Conns \X Nat)
        BY <2>4
      <4>4. [rec |-> r, seq |-> m, by |-> by] \in Entries
        BY <4>3 DEF Entries
      <4> QED
        BY <4>1, <4>2, <4>4, Zenon
    <3>2. e \in [1 .. n -> Entries]
      BY <2>6, <3>1
    <3> QED
      BY <3>2
  <2>9. \A j \in DOMAIN e : e[j].by = by /\ e[j].rec = req.records[j]
    BY <2>6, <2>8
  <2>10. PICK s \in Seq(Entries) : s = store
    BY DEF AnswersTyped
  <2>11. ASSUME NEW i \in DOMAIN s PROVE s[i].by # by
    <3>1. ASSUME s[i].by = <<c, k>> PROVE FALSE
      BY <1>2, <2>3, <2>10, <3>1, StoredBy DEF InsertsInFlight
    <3> QED
      BY <2>4, <3>1
  <2>12. AppliedTo(c, k)'
    <3>1. InOnePiece(s \o e, by, req.records)
      BY <2>2, <2>8, <2>9, <2>11, PieceAdded
    <3>2. InOnePiece(store', <<c, k>>, issued'[c][k].records)
      BY <1>1, <2>3, <2>4, <2>7, <2>10, <3>1, Zenon
    <3> QED
      BY <1>1, <2>1, <2>3, <3>2 DEF AppliedTo
  <2>13. AppliedStays
    <3> SUFFICES ASSUME NEW d \in Conns, NEW m, AppliedTo(d, m) PROVE AppliedTo(d, m)'
      BY DEF AppliedStays
    <3>1. CASE d = c /\ m = k
      BY <2>12, <3>1, Zenon
    <3>2. CASE ~(d = c /\ m = k)
      <4>1. PICK own : own = <<d, m>>
        OBVIOUS
      <4>2. by # own
        BY <2>4, <3>2, <4>1
      <4>3. PICK records : records = issued[d][m].records
        OBVIOUS
      <4>4. Len(records) \in Nat
        <5>1. PICK r \in AllRequests : r = issued[d][m] /\ r.type \in Inserts
          BY DEF AppliedTo, RequestsInFlight
        <5> QED
          BY <4>3, <5>1, WritesRecords DEF Inserts
      <4>5. InOnePiece(s, own, records)
        BY <2>10, <4>1, <4>3, Zenon DEF AppliedTo
      <4>6. InOnePiece(s \o e, own, records)
        BY <2>8, <2>9, <4>2, <4>4, <4>5, PieceStays
      <4>7. InOnePiece(store', <<d, m>>, issued'[d][m].records)
        BY <1>1, <2>7, <2>10, <4>1, <4>3, <4>6, Zenon
      <4> QED
        BY <1>1, <4>7 DEF AppliedTo
    <3> QED
      BY <3>1, <3>2
  <2>14. StoredWhenTaken'
    <3>1. PICK t \in Seq(Entries) : t = store'
      <4>1. s \o e \in Seq(Entries)
        BY <2>8, ConcatParts
      <4> QED
        BY <2>7, <2>10, <4>1, Zenon
    <3>2. /\ DOMAIN s = 1 .. Len(s) /\ Len(s) \in Nat /\ DOMAIN t = 1 .. (Len(s) + n)
          /\ \A i \in 1 .. Len(s) : t[i] = s[i]
          /\ \A j \in 1 .. n : t[Len(s) + j] = e[j]
      <4>1. PICK f \in Seq(Entries) : f = e /\ Len(f) = n
        BY <2>8
      <4>2. t = s \o f
        BY <2>7, <2>10, <3>1, <4>1, Zenon
      <4>3. /\ DOMAIN s = 1 .. Len(s) /\ Len(s) \in Nat /\ DOMAIN t = 1 .. (Len(s) + Len(f))
            /\ \A i \in 1 .. Len(s) : t[i] = s[i]
            /\ \A j \in 1 .. Len(f) : t[Len(s) + j] = f[j]
        BY <4>2, ConcatParts
      <4> QED
        BY <4>1, <4>3
    <3>3. ASSUME NEW i \in DOMAIN t, t[i].by # <<>>, NEW d, d = t[i].by[1], NEW m, m = t[i].by[2]
          PROVE  /\ m <= Len(handled'[d])
                 /\ m = Len(handled'[d]) => hand'[d] # "command" /\ d \notin Queued'
      <4>1. CASE i \in 1 .. Len(s)
        <5>1. t[i] = store[i] /\ i \in DOMAIN store
          BY <2>10, <3>2, <4>1
        <5>2. /\ m <= Len(handled[d])
              /\ m = Len(handled[d]) => hand[d] # "command" /\ d \notin Queued
          BY <3>3, <5>1, Zenon DEF InsertsInFlight, StoredWhenTaken
        <5> QED
          BY <1>1, <1>2, <5>2
      <4>2. CASE i \notin 1 .. Len(s)
        <5>1. PICK j \in 1 .. n : i = Len(s) + j
          <6>1. i - Len(s) \in 1 .. n /\ i = Len(s) + (i - Len(s))
            BY <3>2, <3>3, <4>2
          <6> QED
            BY <6>1
        <5>2. t[i].by = <<c, k>>
          BY <2>4, <2>8, <2>9, <3>2, <5>1
        <5>3. d = c /\ m = k
          BY <3>3, <5>2
        <5> QED
          BY <1>1, <1>2, <1>3, <2>3, <5>3
      <4> QED
        BY <4>1, <4>2
    <3> QED
      BY <3>1, <3>3, Zenon DEF StoredWhenTaken
  <2>15. AppliedTo(c, Len(handled[c]))'
    <3>1. k = Len(handled'[c])
      BY <1>1, <2>3
    <3> QED
      BY <2>12, <3>1, Zenon
  <2> QED
    BY <1>1, <1>6, <2>13, <2>14, <2>15, InsertsStay
<1> QED
  BY <1>5, <1>7, <1>8

LEMMA NextInserts ==
  HandlersTyped /\ RequestsInFlight /\ AnswersTyped /\ CommandsInFlight /\ InsertsInFlight /\ [Next]_vars
    => InsertsInFlight'
<1> SUFFICES ASSUME HandlersTyped, RequestsInFlight, AnswersTyped, CommandsInFlight, InsertsInFlight,
                    [Next]_vars
             PROVE  InsertsInFlight'
  OBVIOUS
<1>1. IssuedGrows
  BY NextIssued
<1>2. ASSUME NEW c \in Conns,
             \/ Connect(c) \/ (\E req \in Requests[c] : Call(c, req)) \/ Arrive(c) \/ Cancel(c)
             \/ Accept(c) \/ StartHandler(c) \/ RecordsEnd(c) \/ TaskSends(c)
      PROVE  InsertsInFlight'
  BY <1>1, <1>2, ClientInserts
<1>3. ASSUME NEW c \in Conns, Receive(c) \/ ReceiveClosed(c) \/ Close(c) PROVE InsertsInFlight'
  BY <1>1, <1>3, ReceiveInserts, CloseInserts
<1>4. ASSUME NEW c \in Conns, \/ ReadFrame(c) \/ ReadEnd(c) \/ SendCommand(c) \/ RecvRecords(c)
                              \/ Flush(c) \/ Answer(c)
      PROVE  InsertsInFlight'
  BY <1>1, <1>4, ReadInserts, ReadEndInserts, SendInserts, RecvInserts, FlushInserts, AnswerInserts
<1>5. ASSUME NEW c \in Conns, TaskEnds(c) PROVE InsertsInFlight'
  BY <1>1, <1>5, OtherInserts
<1>6. CASE Engine
  <2>1. PICK c \in Conns : c = Head(queue)
    <3>1. PICK q \in Seq(Conns) : q = queue
      BY DEF AnswersTyped
    <3>2. q # <<>>
      BY <1>6, <3>1 DEF Engine
    <3> QED
      BY <3>1, <3>2, TailType
  <2>2. \/ cur[c].type \in Inserts /\ EngineInsert(c, cur[c])
        \/ cur[c].type = "Range" /\ EngineRange(c, cur[c])
        \/ cur[c].type = "Metrics" /\ EngineMetrics(c)
    BY <1>6, <2>1, Zenon DEF Engine
  <2> QED
    BY <1>1, <1>6, <2>1, <2>2, EngineInserts, OtherInserts
<1>7. CASE EngineStops
  <2>1. CASE Conns = {}
    <3>1. UNCHANGED <<store, handled, result>>
      BY <1>7 DEF EngineStops, clientVars, handlerVars, storeVars
    <3>2. Queued' = {}
      BY <1>7 DEF EngineStops, Queued, ToSet
    <3> QED
      BY <1>1, <2>1, <3>1, <3>2, QuietInserts
  <2>2. CASE Conns # {}
    BY <1>1, <1>7, <2>2, OtherInserts
  <2> QED
    BY <2>1, <2>2
<1>8. CASE AcceptFails \/ UNCHANGED vars
  BY <1>1, <1>8, ClientInserts
<1> QED
  BY <1>2, <1>3, <1>4, <1>5, <1>6, <1>7, <1>8 DEF Next, Handler, Client

(* AckedApplied: whoever is told InsertOk, the engine has stored the records *)
(* of the request that answer belongs to, each once and a batch in one       *)
(* piece: for any clients, requests and capacities, whatever callers drop,   *)
(* handlers, queries or the engine fail.                                     *)
THEOREM AckedAreApplied == Spec => []AckedApplied
<1> DEFINE Inv == HandlersTyped /\ RequestsInFlight /\ AnswersTyped /\ CommandsInFlight /\ InsertsInFlight
<1>1. Init => Inv
  BY InitHandlers, InitRequests, InitAnswers, InitCommands, InitInserts
<1>2. Inv /\ [Next]_vars => Inv'
  BY NextHandlers, NextRequests, NextAnswers, NextCommands, NextInserts
<1>3. Inv => AckedApplied
  BY DEF InsertsInFlight
<1> QED
  BY <1>1, <1>2, <1>3, PTL DEF Spec

-----------------------------------------------------------------------------
(* The counter of frames.                                                    *)

LEMMA Numbers == ASSUME NEW n \in Nat PROVE IsFiniteSet(1 .. n) /\ Cardinality(1 .. n) = n
<1>1. 1 \in Int /\ n \in Int
  OBVIOUS
<1>2. IsFiniteSet(1 .. n) /\ Cardinality(1 .. n) = IF 1 > n THEN 0 ELSE n - 1 + 1
  BY <1>1, FS_Interval, Zenon
<1> QED
  BY <1>2

LEMMA TogetherFinite ==
  ASSUME NEW f \in [Conns -> Nat]
  PROVE  IsFiniteSet(Together(f)) /\ Cardinality(Together(f)) \in Nat
<1>1. \A c \in Conns : IsFiniteSet({c} \X (1 .. f[c]))
  <2> SUFFICES ASSUME NEW c \in Conns PROVE IsFiniteSet({c} \X (1 .. f[c]))
    OBVIOUS
  <2>1. IsFiniteSet({c}) /\ IsFiniteSet(1 .. f[c])
    BY FS_Singleton, Numbers
  <2> QED
    BY <2>1, FS_Product
<1>2. IsFiniteSet({{c} \X (1 .. f[c]) : c \in Conns})
  <2> DEFINE T == {{c} \X (1 .. f[c]) : c \in Conns}
             own == [c \in Conns |-> {c} \X (1 .. f[c])]
  <2>1. own \in Surjection(Conns, T)
    BY DEF Surjection
  <2> QED
    BY <2>1, ConnAssumption, FS_Surjection
<1>3. IsFiniteSet(UNION {{c} \X (1 .. f[c]) : c \in Conns})
  BY <1>1, <1>2, FS_UNION
<1> QED
  BY <1>3, FS_CardinalityType DEF Together

\* One handler more or less ahead, and the others as they were.
LEMMA TogetherOne ==
  ASSUME NEW f \in [Conns -> Nat], NEW g \in [Conns -> Nat], NEW c \in Conns,
         \A d \in Conns \ {c} : f[d] = g[d]
  PROVE  Cardinality(Together(f)) + g[c] = Cardinality(Together(g)) + f[c]
<1> DEFINE rest == UNION {{d} \X (1 .. f[d]) : d \in Conns \ {c}}
           own(n) == {c} \X (1 .. n)
<1>1. Together(f) = rest \cup own(f[c])
  BY DEF Together
<1>2. Together(g) = rest \cup own(g[c])
  <2>1. rest = UNION {{d} \X (1 .. g[d]) : d \in Conns \ {c}}
    OBVIOUS
  <2> QED
    BY <2>1 DEF Together
<1>3. ASSUME NEW n \in Nat
      PROVE  /\ IsFiniteSet(own(n)) /\ Cardinality(own(n)) = n
             /\ rest \cap own(n) = {}
  <2>1. IsFiniteSet(1 .. n) /\ Cardinality(1 .. n) = n
    BY Numbers
  <2>2. IsFiniteSet({c}) /\ Cardinality({c}) = 1
    BY FS_Singleton
  <2>3. IsFiniteSet(own(n)) /\ Cardinality(own(n)) = Cardinality({c}) * Cardinality(1 .. n)
    BY <2>1, <2>2, FS_Product
  <2> QED
    BY <2>1, <2>2, <2>3
<1>4. IsFiniteSet(rest)
  <2>1. rest \in SUBSET Together(f)
    BY <1>1
  <2> QED
    BY <2>1, TogetherFinite, FS_Subset
<1>5. PICK k \in Nat : k = Cardinality(rest)
  BY <1>4, FS_CardinalityType
<1>6. ASSUME NEW n \in Nat PROVE Cardinality(rest \cup own(n)) = k + n
  <2>1. IsFiniteSet(own(n)) /\ Cardinality(own(n)) = n /\ rest \cap own(n) = {}
    BY <1>3, <1>6
  <2>2. Cardinality(rest \cup own(n)) = Cardinality(rest) + Cardinality(own(n)) - Cardinality(rest \cap own(n))
    BY <1>4, <2>1, FS_Union
  <2>3. Cardinality(rest \cap own(n)) = 0
    BY <2>1, FS_EmptySet, Zenon
  <2> HIDE DEF rest, own
  <2> QED
    BY <1>5, <2>1, <2>2, <2>3
<1>7. Cardinality(Together(f)) = k + f[c] /\ Cardinality(Together(g)) = k + g[c]
  BY <1>1, <1>2, <1>6
<1> QED
  BY <1>5, <1>7

LEMMA Balance ==
  ASSUME NEW a \in Nat, NEW b \in Nat, NEW k \in Nat, NEW m \in Nat,
         NEW u \in Nat, NEW v \in Nat, NEW x \in Nat, NEW y \in Nat, k + v + x = m + y + u
  PROVE  (a + k) + v + b + x = (b + m) + y + a + u
OBVIOUS

LEMMA SubSeqFacts ==
  ASSUME NEW S, NEW q \in Seq(S), NEW n \in 0 .. Len(q)
  PROVE  SubSeq(q, n + 1, Len(q)) \in Seq(S) /\ Len(SubSeq(q, n + 1, Len(q))) = Len(q) - n
OBVIOUS

LEMMA FramesCount ==
  ASSUME FramesInFlight, wbuf \in [Conns -> Seq(Written)]
  PROVE  NotCounted \in [Conns -> Nat] /\ NotWritten \in [Conns -> Nat]
BY DEF FramesInFlight, NotCounted, NotWritten

\* A handler moves, and accounts for the frames it writes and counts.
LEMMA FramesMove ==
  ASSUME FramesInFlight, wbuf \in [Conns -> Seq(Written)], wbuf' \in [Conns -> Seq(Written)],
         record_frames' \in [Conns -> Nat], frames_written' \in Nat, flushed' \in Nat,
         NEW c \in Conns, hand[c] # "failed",
         \A d \in Conns \ {c} :
           hand'[d] = hand[d] /\ wbuf'[d] = wbuf[d] /\ record_frames'[d] = record_frames[d],
         hand'[c] \in InQuery => Len(wbuf'[c]) <= record_frames'[c],
         hand'[c] \notin InQuery \union {"reply"} => wbuf'[c] = <<>>,
         hand'[c] # "failed" =>
           frames_written' + NotCounted'[c] + flushed + NotWritten[c] =
             flushed' + NotWritten'[c] + frames_written + NotCounted[c]
  PROVE  FramesInFlight'
<1>1. \A d \in Conns : /\ hand'[d] \in InQuery => Len(wbuf'[d]) <= record_frames'[d]
                       /\ hand'[d] \notin InQuery \union {"reply"} => wbuf'[d] = <<>>
  BY DEF FramesInFlight
<1>2. NotCounted \in [Conns -> Nat] /\ NotWritten \in [Conns -> Nat]
  BY FramesCount
<1>3. NotCounted' \in [Conns -> Nat] /\ NotWritten' \in [Conns -> Nat]
  BY <1>1 DEF NotCounted, NotWritten
<1>4. \A d \in Conns \ {c} : NotCounted[d] = NotCounted'[d] /\ NotWritten[d] = NotWritten'[d]
  BY DEF NotCounted, NotWritten
<1>5. Cardinality(Together(NotCounted)) + NotCounted'[c] = Cardinality(Together(NotCounted')) + NotCounted[c]
  BY <1>2, <1>3, <1>4, TogetherOne
<1>6. Cardinality(Together(NotWritten)) + NotWritten'[c] = Cardinality(Together(NotWritten')) + NotWritten[c]
  BY <1>2, <1>3, <1>4, TogetherOne
<1>7. /\ Cardinality(Together(NotCounted)) \in Nat /\ Cardinality(Together(NotCounted')) \in Nat
      /\ Cardinality(Together(NotWritten)) \in Nat /\ Cardinality(Together(NotWritten')) \in Nat
  BY <1>2, <1>3, TogetherFinite
<1>8. ASSUME \A d \in Conns : hand'[d] # "failed"
      PROVE  frames_written' + Cardinality(Together(NotCounted'))
               = flushed' + Cardinality(Together(NotWritten'))
  <2>1. frames_written + Cardinality(Together(NotCounted)) = flushed + Cardinality(Together(NotWritten))
    BY <1>8 DEF FramesInFlight
  <2>2. frames_written \in Nat /\ flushed \in Nat
    BY DEF FramesInFlight
  <2>3. /\ NotCounted[c] \in Nat /\ NotCounted'[c] \in Nat
        /\ NotWritten[c] \in Nat /\ NotWritten'[c] \in Nat
    BY <1>2, <1>3
  <2>4. frames_written' + NotCounted'[c] + flushed + NotWritten[c] =
             flushed' + NotWritten'[c] + frames_written + NotCounted[c]
    BY <1>8
  <2>5. PICK u \in Nat, v \in Nat, x \in Nat, y \in Nat :
          /\ u = Cardinality(Together(NotCounted)) /\ v = Cardinality(Together(NotCounted'))
          /\ x = Cardinality(Together(NotWritten)) /\ y = Cardinality(Together(NotWritten'))
    BY <1>7, Zenon
  <2>6. /\ u + NotCounted'[c] = v + NotCounted[c] /\ x + NotWritten'[c] = y + NotWritten[c]
        /\ frames_written + u = flushed + x
    BY <1>5, <1>6, <2>1, <2>5
  <2>7. PICK a \in Nat, a1 \in Nat, b \in Nat, b1 \in Nat :
          a = frames_written /\ a1 = frames_written' /\ b = flushed /\ b1 = flushed'
    BY <2>2, Zenon
  <2>8. PICK n \in Nat, n1 \in Nat, w \in Nat, w1 \in Nat :
          n = NotCounted[c] /\ n1 = NotCounted'[c] /\ w = NotWritten[c] /\ w1 = NotWritten'[c]
    BY <2>3, Zenon
  <2>9. a + u = b + x /\ u + n1 = v + n /\ x + w1 = y + w /\ a1 + n1 + b + w = b1 + w1 + a + n
    BY <2>4, <2>6, <2>7, <2>8, Zenon
  <2>10. a1 + v = b1 + y
    BY <2>9
  <2> QED
    BY <2>5, <2>7, <2>10, Zenon
<1> QED
  BY <1>1, <1>8 DEF FramesInFlight

\* Nothing moves that the counter is about.
LEMMA FramesStay ==
  ASSUME FramesInFlight, UNCHANGED <<wbuf, record_frames, frames_written, flushed>>,
         \A c \in Conns : \/ hand'[c] = hand[c]
                          \/ /\ {hand[c], hand'[c]} \cap (InQuery \union {"reply"}) = {}
                             /\ hand[c] # "failed"
  PROVE  FramesInFlight'
<1>1. NotCounted' = NotCounted /\ NotWritten' = NotWritten
  BY DEF NotCounted, NotWritten, InQuery
<1>2. (\A c \in Conns : hand'[c] # "failed") => (\A c \in Conns : hand[c] # "failed")
  OBVIOUS
<1>3. \A d \in Conns : /\ hand'[d] \in InQuery => Len(wbuf'[d]) <= record_frames'[d]
                       /\ hand'[d] \notin InQuery \union {"reply"} => wbuf'[d] = <<>>
  BY DEF FramesInFlight, InQuery
<1>4. Together(NotCounted)' = Together(NotCounted) /\ Together(NotWritten)' = Together(NotWritten)
  BY <1>1 DEF Together
<1> QED
  BY <1>2, <1>3, <1>4 DEF FramesInFlight

LEMMA InitFrames == Init => FramesInFlight
<1> SUFFICES ASSUME Init PROVE FramesInFlight
  OBVIOUS
<1>1. Together(NotCounted) = {} /\ Together(NotWritten) = {}
  BY DEF Init, Together, NotCounted, NotWritten, InQuery
<1>2. Cardinality(Together(NotCounted)) = 0 /\ Cardinality(Together(NotWritten)) = 0
  BY <1>1, FS_EmptySet
<1> QED
  BY <1>2 DEF Init, FramesInFlight, InQuery

\* NotCounted and NotWritten of a handler at h with n record frames and l frames
\* in its write buffer.
Early(h, n, l) == IF h \in InQuery THEN n - l ELSE 0
Late(h, l) == IF h = "reply" THEN l ELSE 0

\* The same by what the handler has in hand before and after.
LEMMA FramesMoveTo ==
  ASSUME FramesInFlight, AnswersTyped, AnswersTyped', HandlersTyped, NEW c \in Conns, hand[c] # "failed",
         NEW to, NEW q \in Seq(Written), NEW n \in Nat, NEW k \in Nat, NEW m \in Nat,
         hand' = [hand EXCEPT ![c] = to], wbuf' = [wbuf EXCEPT ![c] = q],
         record_frames' = [record_frames EXCEPT ![c] = n],
         frames_written' = frames_written + k, flushed' = flushed + m,
         to \in InQuery => Len(q) <= n, to \notin InQuery \union {"reply"} => q = <<>>,
         to # "failed" => k + Early(to, n, Len(q)) + Late(hand[c], Len(wbuf[c]))
                          = m + Late(to, Len(q)) + Early(hand[c], record_frames[c], Len(wbuf[c]))
  PROVE  FramesInFlight'
<1>1. /\ hand'[c] = to /\ wbuf'[c] = q /\ record_frames'[c] = n
      /\ \A d \in Conns \ {c} : hand'[d] = hand[d] /\ wbuf'[d] = wbuf[d] /\ record_frames'[d] = record_frames[d]
  BY DEF HandlersTyped, AnswersTyped, FramesInFlight
<1>2. record_frames' \in [Conns -> Nat] /\ frames_written' \in Nat /\ flushed' \in Nat
      /\ frames_written \in Nat /\ flushed \in Nat
  BY DEF FramesInFlight
<1>3. wbuf \in [Conns -> Seq(Written)] /\ wbuf' \in [Conns -> Seq(Written)]
  BY DEF AnswersTyped
<1>4. NotCounted \in [Conns -> Nat] /\ NotWritten \in [Conns -> Nat]
  BY <1>3, FramesCount
<1>5. /\ NotCounted[c] = Early(hand[c], record_frames[c], Len(wbuf[c])) /\ NotWritten[c] = Late(hand[c], Len(wbuf[c]))
      /\ NotCounted'[c] = Early(to, n, Len(q)) /\ NotWritten'[c] = Late(to, Len(q))
  BY <1>1 DEF NotCounted, NotWritten, Early, Late
<1>6. Early(to, n, Len(q)) \in Nat /\ Late(to, Len(q)) \in Nat
  BY DEF Early, Late
<1>7. ASSUME to # "failed"
      PROVE  frames_written' + NotCounted'[c] + flushed + NotWritten[c]
               = flushed' + NotWritten'[c] + frames_written + NotCounted[c]
  <2>1. PICK u \in Nat, v \in Nat, x \in Nat, y \in Nat :
          /\ u = Early(hand[c], record_frames[c], Len(wbuf[c])) /\ v = Early(to, n, Len(q))
          /\ x = Late(hand[c], Len(wbuf[c])) /\ y = Late(to, Len(q))
    BY <1>4, <1>5, <1>6
  <2>2. k + v + x = m + y + u
    BY <1>7, <2>1
  <2>3. (frames_written + k) + v + flushed + x = (flushed + m) + y + frames_written + u
    BY <1>2, <2>2, Balance
  <2> QED
    BY <1>5, <2>1, <2>3, Zenon
<1>8. /\ hand'[c] \in InQuery => Len(wbuf'[c]) <= record_frames'[c]
      /\ hand'[c] \notin InQuery \union {"reply"} => wbuf'[c] = <<>>
      /\ hand'[c] # "failed" => to # "failed"
  BY <1>1
<1> QED
  BY <1>1, <1>2, <1>3, <1>7, <1>8, FramesMove

LEMMA FailFrames ==
  ASSUME FramesInFlight, AnswersTyped, AnswersTyped', HandlersTyped, NEW c \in Conns, Fail(c),
         hand[c] # "failed", frames_written' = frames_written, flushed' = flushed
  PROVE  FramesInFlight'
<1>1. /\ hand' = [hand EXCEPT ![c] = "failed"] /\ wbuf' = [wbuf EXCEPT ![c] = <<>>]
      /\ record_frames' = [record_frames EXCEPT ![c] = record_frames[c]]
  BY DEF Fail, FramesInFlight
<1>2. record_frames[c] \in Nat /\ <<>> \in Seq(Written) /\ frames_written' = frames_written + 0 /\ flushed' = flushed + 0
  BY DEF FramesInFlight
<1> QED
  BY <1>1, <1>2, FramesMoveTo DEF InQuery

\* A handler that goes on without writing or counting anything.
LEMMA QuietFrames ==
  ASSUME FramesInFlight, AnswersTyped, AnswersTyped', HandlersTyped, NEW c \in Conns,
         StartHandler(c) \/ ReadFrame(c) \/ RecordsEnd(c)
  PROVE  FramesInFlight'
<1>1. UNCHANGED <<wbuf, record_frames, frames_written, flushed>>
  BY DEF StartHandler, ReadFrame, RecordsEnd, frameMetrics
<1>2. CASE StartHandler(c)
  BY <1>1, <1>2, FramesStay DEF StartHandler, InQuery, HandlersTyped
<1>3. CASE ReadFrame(c)
  <2>1. hand[c] = "reading" /\ \E to \in {"failed", "answer", "command"} : hand' = [hand EXCEPT ![c] = to]
    <3>1. PICK msg \in {server_decode(Head(up[c]))} :
          hand' = [hand EXCEPT ![c] = CASE msg.type = "Malformed" -> "failed"
                                        [] msg.type = "Ping" -> "answer"
                                        [] OTHER -> "command"]
      BY <1>3 DEF ReadFrame
    <3> QED
      BY <1>3, <3>1 DEF ReadFrame
  <2> QED
    BY <1>1, <2>1, FramesStay DEF InQuery, HandlersTyped
<1>4. CASE RecordsEnd(c)
  <2>1. hand[c] = "records" /\ hand' = [hand EXCEPT ![c] = "final flush"]
    BY <1>4 DEF RecordsEnd
  <2>2. /\ wbuf' = [wbuf EXCEPT ![c] = wbuf[c]] /\ wbuf[c] \in Seq(Written)
        /\ record_frames' = [record_frames EXCEPT ![c] = record_frames[c]] /\ record_frames[c] \in Nat
        /\ frames_written' = frames_written + 0 /\ flushed' = flushed + 0
    BY <1>1 DEF FramesInFlight, AnswersTyped
  <2>3. Len(wbuf[c]) <= record_frames[c]
    BY <2>1 DEF FramesInFlight, InQuery
  <2>4. 0 + Early("final flush", record_frames[c], Len(wbuf[c])) + Late(hand[c], Len(wbuf[c]))
          = 0 + Late("final flush", Len(wbuf[c])) + Early(hand[c], record_frames[c], Len(wbuf[c]))
    <3>1. PICK e \in Nat : e = record_frames[c] - Len(wbuf[c])
      BY <2>2, <2>3
    <3>2. /\ Late(hand[c], Len(wbuf[c])) = 0 /\ Early(hand[c], record_frames[c], Len(wbuf[c])) = e
          /\ Late("final flush", Len(wbuf[c])) = 0 /\ Early("final flush", record_frames[c], Len(wbuf[c])) = e
      BY <2>1, <3>1 DEF Early, Late, InQuery
    <3>3. 0 + e + 0 = 0 + 0 + e
      BY <3>1
    <3> QED
      BY <3>2, <3>3, Zenon
  <2>5. "final flush" \in InQuery /\ hand[c] # "failed"
    BY <2>1 DEF InQuery
  <2>6. PICK z \in Nat : z = 0
    OBVIOUS
  <2> QED
    BY <2>1, <2>2, <2>3, <2>4, <2>5, <2>6, FramesMoveTo
<1> QED
  BY <1>2, <1>3, <1>4

LEMMA SendFrames ==
  ASSUME FramesInFlight, AnswersTyped, AnswersTyped', HandlersTyped, NEW c \in Conns,
         ReadEnd(c) \/ SendCommand(c)
  PROVE  FramesInFlight'
<1>1. frames_written' = frames_written /\ flushed' = flushed
  BY DEF ReadEnd, SendCommand, frameMetrics
<1>2. CASE Fail(c)
  <2>1. hand[c] # "failed"
    BY DEF ReadEnd, SendCommand
  <2> QED
    BY <1>1, <1>2, <2>1, FailFrames
<1>3. CASE ReadEnd(c) /\ ~Fail(c)
  <2>1. /\ hand[c] = "reading" /\ hand' = [hand EXCEPT ![c] = "ended"]
        /\ UNCHANGED <<wbuf, record_frames>>
    BY <1>3 DEF ReadEnd
  <2> QED
    BY <1>1, <2>1, FramesStay DEF InQuery, HandlersTyped
<1>4. CASE SendCommand(c) /\ ~Fail(c)
  <2>1. PICK to \in {"records", "answer"} :
          /\ hand[c] = "command" /\ wbuf' = wbuf /\ hand' = [hand EXCEPT ![c] = to]
          /\ record_frames' = [record_frames EXCEPT ![c] = 0]
    BY <1>4 DEF SendCommand
  <2>2. wbuf[c] = <<>>
    BY <2>1 DEF FramesInFlight, InQuery
  <2>3. /\ wbuf' = [wbuf EXCEPT ![c] = <<>>] /\ <<>> \in Seq(Written) /\ Len(<<>>) = 0
        /\ frames_written' = frames_written + 0 /\ flushed' = flushed + 0
    BY <1>1, <2>1, <2>2 DEF FramesInFlight, AnswersTyped
  <2>4. 0 + Early(to, 0, Len(<<>>)) + Late(hand[c], Len(wbuf[c]))
          = 0 + Late(to, Len(<<>>)) + Early(hand[c], record_frames[c], Len(wbuf[c]))
    <3>1. Late(hand[c], Len(wbuf[c])) = 0 /\ Early(hand[c], record_frames[c], Len(wbuf[c])) = 0
      BY <2>1 DEF Early, Late, InQuery
    <3>2. Late(to, Len(<<>>)) = 0
      BY <2>1 DEF Late
    <3>3. Early(to, 0, Len(<<>>)) = 0
      BY <2>3, 0 - 0 = 0 DEF Early
    <3> QED
      BY <3>1, <3>2, <3>3
  <2>5. hand[c] # "failed" /\ (to \in InQuery => Len(<<>>) <= 0)
    BY <2>1, <2>3
  <2> QED
    BY <2>1, <2>3, <2>4, <2>5, FramesMoveTo
<1> QED
  BY <1>2, <1>3, <1>4

LEMMA RecvFrames ==
  ASSUME FramesInFlight, AnswersTyped, AnswersTyped', HandlersTyped, NEW c \in Conns, RecvRecords(c)
  PROVE  FramesInFlight'
<1>1. PICK batch \in Seq(ProtoRecords) : batch = Head(rchan[c].batches)
  <2>1. rchan[c].batches \in Seq(Seq(ProtoRecords)) /\ rchan[c].batches # <<>>
    BY DEF AnswersTyped, RecvRecords
  <2> QED
    BY <2>1
<1>2. PICK q : q = [i \in DOMAIN batch |-> Out(c, RangeRecord(batch[i]))]
  OBVIOUS
<1>3. PICK b \in {wbuf[c] \o q} :
        /\ wbuf' = [wbuf EXCEPT ![c] = b]
        /\ hand' = [hand EXCEPT ![c] = IF WBytes(b) > FLUSH_THRESHOLD THEN "flush" ELSE "records"]
  BY <1>1, <1>2, Zenon DEF RecvRecords
<1>4. PICK to \in {"flush", "records"} : hand' = [hand EXCEPT ![c] = to]
  BY <1>3
<1>5. /\ hand[c] = "records" /\ record_frames' = [record_frames EXCEPT ![c] = record_frames[c] + Len(batch)]
      /\ frames_written' = frames_written + 0 /\ flushed' = flushed + 0
  BY <1>1 DEF RecvRecords, frameMetrics, FramesInFlight
<1>6. wbuf[c] \in Seq(Written) /\ b \in Seq(Written)
  BY <1>3 DEF AnswersTyped
<1>7. q \in Seq({q[j] : j \in DOMAIN batch}) /\ Len(q) = Len(batch)
  BY <1>2
<1>8. Len(b) = Len(wbuf[c]) + Len(batch)
  <2>1. PICK S : S = Written \union {q[j] : j \in DOMAIN batch}
    OBVIOUS
  <2>2. wbuf[c] \in Seq(S) /\ q \in Seq(S)
    BY <1>6, <1>7, <2>1
  <2>3. Len(wbuf[c] \o q) = Len(wbuf[c]) + Len(q)
    BY <2>2
  <2> QED
    BY <1>3, <1>7, <2>3
<1>9. record_frames[c] \in Nat /\ Len(wbuf[c]) <= record_frames[c] /\ Len(wbuf[c]) \in Nat /\ Len(batch) \in Nat
  <2>1. Len(wbuf[c]) \in Nat /\ Len(batch) \in Nat
    BY <1>6
  <2>2. record_frames[c] \in Nat /\ Len(wbuf[c]) <= record_frames[c]
    BY <1>5 DEF FramesInFlight, InQuery
  <2> QED
    BY <2>1, <2>2
<1>10. PICK n \in Nat : n = record_frames[c] + Len(batch)
  BY <1>9
<1>11. Early(to, n, Len(b)) = Early(hand[c], record_frames[c], Len(wbuf[c]))
       /\ Late(to, Len(b)) = 0 /\ Late(hand[c], Len(wbuf[c])) = 0 /\ Len(b) <= n
  <2>1. PICK l \in Nat, k \in Nat, r \in Nat : l = Len(wbuf[c]) /\ k = Len(batch) /\ r = record_frames[c]
    BY <1>9
  <2>2. n - Len(b) = r - l /\ Len(b) <= n
    <3>1. n = r + k /\ Len(b) = l + k /\ l <= r
      BY <1>8, <1>9, <1>10, <2>1
    <3> QED
      BY <3>1
  <2> QED
    BY <1>5, <2>1, <2>2 DEF Early, Late, InQuery
<1>12. PICK e \in Nat : e = Early(to, n, Len(b))
  BY <1>8, <1>9, <1>10, <1>11 DEF Early
<1>13. 0 + Early(to, n, Len(b)) + Late(hand[c], Len(wbuf[c]))
         = 0 + Late(to, Len(b)) + Early(hand[c], record_frames[c], Len(wbuf[c]))
  BY <1>11, <1>12
<1> QED
  BY <1>3, <1>4, <1>5, <1>6, <1>10, <1>11, <1>13, FramesMoveTo DEF InQuery

LEMMA AnswerFrames ==
  ASSUME FramesInFlight, AnswersTyped, AnswersTyped', HandlersTyped, NEW c \in Conns, Answer(c)
  PROVE  FramesInFlight'
<1>1. hand[c] = "answer" /\ flushed' = flushed /\ wbuf[c] = <<>>
  BY DEF Answer, FramesInFlight, InQuery
<1>2. CASE Fail(c) /\ UNCHANGED frames_written
  BY <1>1, <1>2, FailFrames
<1>3. CASE ~(Fail(c) /\ UNCHANGED frames_written)
  <2>1. /\ frames_written' = frames_written + 1 /\ record_frames' = record_frames
        /\ wbuf' = [wbuf EXCEPT ![c] = Append(@, Out(c, reply_to(cur[c], oneshot[c])))]
        /\ hand' = [hand EXCEPT ![c] = "reply"]
    BY <1>3 DEF Answer
  <2>2. PICK q : q = Append(wbuf[c], Out(c, reply_to(cur[c], oneshot[c])))
    OBVIOUS
  <2>3. wbuf' = [wbuf EXCEPT ![c] = q] /\ q \in Seq(Written)
    BY <2>1, <2>2 DEF AnswersTyped
  <2>4. Len(q) = 1 /\ Len(wbuf[c]) = 0
    BY <1>1, <2>2
  <2>5. /\ record_frames' = [record_frames EXCEPT ![c] = record_frames[c]] /\ record_frames[c] \in Nat
        /\ flushed' = flushed + 0
    BY <1>1, <2>1 DEF FramesInFlight
  <2>6. 1 + Early("reply", record_frames[c], Len(q)) + Late(hand[c], Len(wbuf[c]))
          = 0 + Late("reply", Len(q)) + Early(hand[c], record_frames[c], Len(wbuf[c]))
    BY <1>1, <2>4 DEF Early, Late, InQuery
  <2> QED
    <3>1. PICK to \in {"reply"}, k \in Nat, m \in Nat, n \in Nat : k = 1 /\ m = 0 /\ n = record_frames[c]
      BY <2>5
    <3>2. /\ to \in InQuery => Len(q) <= n
          /\ to \notin InQuery \union {"reply"} => q = <<>>
          /\ hand[c] # "failed"
      BY <1>1, <3>1 DEF InQuery
    <3>3. k + Early(to, n, Len(q)) + Late(hand[c], Len(wbuf[c]))
            = m + Late(to, Len(q)) + Early(hand[c], record_frames[c], Len(wbuf[c]))
      BY <2>6, <3>1, Zenon
    <3>4. /\ hand' = [hand EXCEPT ![c] = to] /\ record_frames' = [record_frames EXCEPT ![c] = n]
          /\ frames_written' = frames_written + k /\ flushed' = flushed + m
      BY <2>1, <2>5, <3>1, Zenon
    <3> QED
      BY <2>3, <3>2, <3>3, <3>4, FramesMoveTo
<1> QED
  BY <1>2, <1>3

\* A part of the write buffer leaves, or all of it.
LEMMA FlushFrames ==
  ASSUME FramesInFlight, AnswersTyped, AnswersTyped', HandlersTyped, NEW c \in Conns, Flush(c)
  PROVE  FramesInFlight'
<1>1. CASE Fail(c) /\ UNCHANGED <<frames_written, flushed>>
  BY <1>1, FailFrames DEF Flush
<1>2. CASE ~(Fail(c) /\ UNCHANGED <<frames_written, flushed>>)
  <2>0. PICK x : x = IF sock[c] # "open" \/ Len(wbuf[c]) < PathFrames - Len(down[c])
                    THEN Len(wbuf[c]) ELSE PathFrames - Len(down[c])
    OBVIOUS
  <2>2. wbuf[c] \in Seq(Written) /\ Len(wbuf[c]) \in Nat /\ Len(down[c]) \in Nat /\ Len(down[c]) <= PathFrames
    BY DEF AnswersTyped
  <2>3. x \in 0 .. Len(wbuf[c])
    <3>1. PathFrames \in Nat
      BY ConnAssumption
    <3> QED
      BY <2>0, <2>2, <3>1
  <2>1. PICK n \in 0 .. Len(wbuf[c]) :
          /\ wbuf' = [wbuf EXCEPT ![c] = SubSeq(@, n + 1, Len(@))]
          /\ flushed' = flushed + n
          /\ IF n = Len(wbuf[c])
             THEN /\ hand' = [hand EXCEPT ![c] = After(@)]
                  /\ frames_written' = IF hand[c] = "final flush"
                                       THEN frames_written + counted(c) ELSE frames_written
             ELSE UNCHANGED <<hand, frames_written>>
          /\ record_frames' = record_frames
    BY <1>2, <2>0, <2>3, Zenon DEF Flush
  <2>4. PICK q \in Seq(Written) : q = SubSeq(wbuf[c], n + 1, Len(wbuf[c])) /\ Len(q) = Len(wbuf[c]) - n
    BY <2>2, SubSeqFacts
  <2>5. wbuf' = [wbuf EXCEPT ![c] = q]
    BY <2>1, <2>4
  <2>6. hand[c] \in {"flush", "final flush", "reply"}
    BY DEF Flush
  <2>7. /\ record_frames' = [record_frames EXCEPT ![c] = record_frames[c]] /\ record_frames[c] \in Nat
        /\ frames_written \in Nat
    BY <2>1 DEF FramesInFlight
  <2>8. hand[c] # "reply" => Len(wbuf[c]) <= record_frames[c]
    BY <2>6 DEF FramesInFlight, InQuery
  <2>9. PICK l \in Nat, r \in Nat : l = Len(wbuf[c]) /\ r = record_frames[c]
    BY <2>2, <2>7
  <2>10. ASSUME NEW to, NEW k \in Nat, hand' = [hand EXCEPT ![c] = to], frames_written' = frames_written + k,
                to \in InQuery => l - n <= r, to \notin InQuery \union {"reply"} => l = n,
                k + Early(to, r, l - n) + Late(hand[c], l) = n + Late(to, l - n) + Early(hand[c], r, l)
         PROVE  FramesInFlight'
    <3>1. n \in Nat /\ Len(q) = l - n /\ (l = n => q = <<>>)
      BY <2>4, <2>9
    <3>2. hand[c] # "failed"
      BY <2>6
    <3>3. k + Early(to, r, Len(q)) + Late(hand[c], Len(wbuf[c]))
            = n + Late(to, Len(q)) + Early(hand[c], record_frames[c], Len(wbuf[c]))
      BY <2>9, <2>10, <3>1, Zenon
    <3>4. record_frames' = [record_frames EXCEPT ![c] = r] /\ flushed' = flushed + n
      BY <2>1, <2>7, <2>9, Zenon
    <3>5. /\ to \in InQuery => Len(q) <= r
          /\ to \notin InQuery \union {"reply"} => q = <<>>
      BY <2>10, <3>1
    <3> QED
      BY <2>5, <2>10, <3>1, <3>2, <3>3, <3>4, <3>5, FramesMoveTo
  <2>11. n \in Nat /\ n <= l /\ (hand[c] # "reply" => l <= r)
    BY <2>8, <2>9
  <2>12. CASE n # Len(wbuf[c])
    <3>1. hand' = [hand EXCEPT ![c] = hand[c]] /\ frames_written' = frames_written + 0
      BY <2>1, <2>7, <2>12 DEF HandlersTyped
    <3>2. CASE hand[c] = "reply"
      <4>1. 0 + Early(hand[c], r, l - n) + Late(hand[c], l) = n + Late(hand[c], l - n) + Early(hand[c], r, l)
        BY <2>11, <3>2 DEF Early, Late, InQuery
      <4> QED
        BY <2>10, <3>1, <3>2, <4>1 DEF InQuery
    <3>3. CASE hand[c] \in {"flush", "final flush"}
      <4>2. hand[c] \in InQuery /\ hand[c] # "reply"
        BY <3>3 DEF InQuery
      <4>3. l - n <= r /\ 0 + (r - (l - n)) + 0 = n + 0 + (r - l)
        BY <2>11, <4>2
      <4>1. 0 + Early(hand[c], r, l - n) + Late(hand[c], l) = n + Late(hand[c], l - n) + Early(hand[c], r, l)
        BY <4>2, <4>3, Zenon DEF Early, Late
      <4> QED
        BY <2>10, <3>1, <4>1, <4>2, <4>3
    <3> QED
      BY <2>6, <3>2, <3>3
  <2>13. CASE n = Len(wbuf[c])
    <3>1. n = l /\ l - n = 0
      BY <2>9, <2>13
    <3>2. CASE hand[c] = "reply"
      <4>1. hand' = [hand EXCEPT ![c] = "reading"] /\ frames_written' = frames_written + 0
        BY <2>1, <2>7, <2>13, <3>2 DEF After, HandlersTyped
      <4>2. 0 + Early("reading", r, l - n) + Late(hand[c], l) = n + Late("reading", l - n) + Early(hand[c], r, l)
        BY <3>1, <3>2 DEF Early, Late, InQuery
      <4>3. "reading" \in InQuery => l - n <= r
        BY DEF InQuery
      <4>4. 0 \in Nat /\ l = n
        BY <3>1
      <4> QED
        BY <2>10, <4>1, <4>2, <4>3, <4>4, Zenon
    <3>3. CASE hand[c] = "flush"
      <4>1. hand' = [hand EXCEPT ![c] = "records"] /\ frames_written' = frames_written + 0
        BY <2>1, <2>7, <2>13, <3>3 DEF After, HandlersTyped
      <4>2. 0 + Early("records", r, l - n) + Late(hand[c], l) = n + Late("records", l - n) + Early(hand[c], r, l)
        BY <2>11, <3>1, <3>3 DEF Early, Late, InQuery
      <4>3. "records" \in InQuery /\ l - n <= r
        BY <2>11, <3>1 DEF InQuery
      <4> QED
        BY <2>10, <4>1, <4>2, <4>3
    <3>4. CASE hand[c] = "final flush"
      <4>1. hand' = [hand EXCEPT ![c] = "answer"] /\ frames_written' = frames_written + r
        BY <2>1, <2>9, <2>13, <3>4 DEF After, HandlersTyped, counted
      <4>2. r + Early("answer", r, l - n) + Late(hand[c], l) = n + Late("answer", l - n) + Early(hand[c], r, l)
        <5>1. /\ Early("answer", r, l - n) = 0 /\ Late("answer", l - n) = 0
              /\ Late(hand[c], l) = 0 /\ Early(hand[c], r, l) = r - l
          BY <3>4 DEF Early, Late, InQuery
        <5>2. r + 0 + 0 = n + 0 + (r - l)
          BY <2>11, <3>1
        <5> QED
          BY <5>1, <5>2, Zenon
      <4>3. "answer" \notin InQuery
        BY DEF InQuery
      <4> QED
        BY <2>10, <3>1, <4>1, <4>2, <4>3
    <3> QED
      BY <2>6, <3>2, <3>3, <3>4
  <2> QED
    BY <2>12, <2>13
<1> QED
  BY <1>1, <1>2

LEMMA NextFrames ==
  HandlersTyped /\ AnswersTyped /\ AnswersTyped' /\ FramesInFlight /\ [Next]_vars => FramesInFlight'
<1> SUFFICES ASSUME HandlersTyped, AnswersTyped, AnswersTyped', FramesInFlight, [Next]_vars PROVE FramesInFlight'
  OBVIOUS
<1>1. ASSUME UNCHANGED <<handlerVars, frameMetrics>> PROVE FramesInFlight'
  BY <1>1, FramesStay DEF handlerVars, frameMetrics
<1>2. CASE UNCHANGED vars
  BY <1>1, <1>2 DEF vars
<1>3. ASSUME NEW c \in Conns, Connect(c) PROVE FramesInFlight'
  <2>1. /\ hand' = [hand EXCEPT ![c] = "backlog"] /\ hand[c] = "none"
        /\ UNCHANGED <<wbuf, record_frames, frames_written, flushed>>
    BY <1>3 DEF Connect, HandlersTyped, frameMetrics
  <2> QED
    BY <2>1, FramesStay DEF InQuery, HandlersTyped
<1>4. ASSUME NEW c \in Conns,
             (\E req \in Requests[c] : Call(c, req)) \/ Client(c) \/ Cancel(c) \/ Close(c)
      PROVE  FramesInFlight'
  <2>1. UNCHANGED <<handlerVars, frameMetrics>>
    BY <1>4 DEF Call, Client, Arrive, Receive, ReceiveClosed, Cancel, Close
  <2> QED
    BY <1>1, <2>1
<1>5. ASSUME NEW c \in Conns, Accept(c) PROVE FramesInFlight'
  <2>1. /\ hand' = [hand EXCEPT ![c] = "spawned"] /\ hand[c] = "backlog"
        /\ UNCHANGED <<wbuf, record_frames, frames_written, flushed>>
    BY <1>5 DEF Accept, frameMetrics
  <2> QED
    BY <2>1, FramesStay DEF InQuery, HandlersTyped
<1>6. ASSUME NEW c \in Conns, Handler(c) PROVE FramesInFlight'
  BY <1>6, QuietFrames, SendFrames, RecvFrames, FlushFrames, AnswerFrames DEF Handler
<1>7. ASSUME NEW c \in Conns, TaskSends(c) \/ TaskEnds(c) PROVE FramesInFlight'
  <2>1. UNCHANGED <<handlerVars, frameMetrics>>
    BY <1>7 DEF TaskSends, TaskEnds
  <2> QED
    BY <1>1, <2>1
<1>8. CASE AcceptFails
  <2>1. /\ hand' = [c \in Conns |-> IF hand[c] = "backlog" THEN "refused" ELSE hand[c]]
        /\ UNCHANGED <<wbuf, record_frames, frames_written, flushed>>
    BY <1>8 DEF AcceptFails, frameMetrics
  <2> QED
    BY <2>1, FramesStay DEF InQuery, HandlersTyped
<1>9. CASE Engine \/ EngineStops
  <2>1. UNCHANGED <<handlerVars, frameMetrics>>
    BY <1>9 DEF Engine, EngineStops
  <2> QED
    BY <1>1, <2>1
<1> QED
  BY <1>2, <1>3, <1>4, <1>5, <1>6, <1>7, <1>8, <1>9 DEF Next

LEMMA FramesExact == FramesInFlight => FramesCounted
<1> SUFFICES ASSUME FramesInFlight, \A c \in Conns : hand[c] = "reading" \/ ~Handlers(c)
             PROVE  frames_written = flushed
  BY DEF FramesCounted
<1>1. \A c \in Conns : hand[c] \notin InQuery \union {"reply", "failed"}
  BY DEF InQuery, Handlers
<1>2. Together(NotCounted) = {} /\ Together(NotWritten) = {}
  BY <1>1 DEF Together, NotCounted, NotWritten
<1>3. Cardinality(Together(NotCounted)) = 0 /\ Cardinality(Together(NotWritten)) = 0
  BY <1>2, FS_EmptySet
<1> QED
  BY <1>1, <1>3 DEF FramesInFlight

(* FramesCounted: between requests frames_written is the number of frames    *)
(* written, for any number of clients, whatever the queries of some and the  *)
(* replies to others have under way, and however a write is cut; a handler   *)
(* that failed is the only thing that makes it differ for good.              *)
THEOREM FramesCountedTheorem == Spec => []FramesCounted
<1> DEFINE Inv == HandlersTyped /\ RequestsInFlight /\ AnswersTyped /\ FramesInFlight
<1>1. Init => Inv
  BY InitHandlers, InitRequests, InitAnswers, InitFrames
<1>2. Inv /\ [Next]_vars => Inv'
  BY NextHandlers, NextRequests, NextAnswers, NextFrames
<1>3. Inv => FramesCounted
  BY FramesExact
<1> QED
  BY <1>1, <1>2, <1>3, PTL DEF Spec
=============================================================================
