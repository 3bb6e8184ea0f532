--------------------------- MODULE ManifestProofs ---------------------------
(***************************************************************************)
(* Proof that reopening a manifest gives what was logged, that it fails    *)
(* only for a cause and that the file stays within its bound: for all      *)
(* entries, sizes and numbers of crashes.                                  *)
(***************************************************************************)
EXTENDS Manifest, WellFoundedInduction, TLAPS

\* A set of numbers has a least one.
LEMMA LeastNumber ==
  ASSUME NEW T \in SUBSET Nat, T # {}
  PROVE  \E c \in T : \A d \in T : c <= d
<1>1. PICK c \in T : \A d \in T : <<d, c>> \notin OpToRel(<, Nat)
  BY NatLessThanWellFounded, WFMin, Zenon
<1>2. \A d \in T : ~(d < c)
  BY <1>1 DEF OpToRel
<1> QED
  BY <1>2

-----------------------------------------------------------------------------
(* What the operators on snapshots do to live tables and labels.             *)

\* The live and the removed tables of a snapshot.
Live(snap) == InState(snap.sstable_state, "Live")
Gone(snap) == InState(snap.sstable_state, "Removed")

\* What an entry adds to the live tables, drops from them and names.
Added(e) == IF e.kind = "MemtableFlush" THEN {e.id} ELSE {}
Dropped(e) == IF e.kind = "Compaction" THEN ToSet(decode(e).ids) ELSE {}
Named(e) == IF e.kind = "StreamUpdate" THEN {e.stream} ELSE {}

\* A step of from_manifest.
After(a, snap, e) ==
  /\ a.kind = "Snapshot"
  /\ Live(a) = (Live(snap) \ Dropped(e)) \cup Added(e)
  /\ Gone(a) = (Gone(snap) \ Added(e)) \cup Dropped(e)
  /\ DOMAIN a.labelmaps = Named(e) \cup DOMAIN snap.labelmaps
  /\ \A s \in DOMAIN a.labelmaps :
       a.labelmaps[s] = IF s \in Named(e) THEN e.labels ELSE snap.labelmaps[s]

LEMMA AppliedFacts ==
  ASSUME NEW snap, NEW e, IsEntry(e)
  PROVE  After(applied(snap, decode(e)), snap, e)
<1>1. PICK g : g = snap.sstable_state
  OBVIOUS
<1>2. PICK l : l = snap.labelmaps
  OBVIOUS
<1>3. PICK a : a = applied(snap, decode(e))
  OBVIOUS
<1>4. CASE e.kind = "MemtableFlush"
  <2>1. PICK f : f = extend(g, [id \in {e.id} |-> "Live"])
    OBVIOUS
  <2>2. decode(e) = e
    BY <1>4 DEF decode
  <2>3. a = Snapshot(f, l)
    BY <1>1, <1>2, <1>3, <1>4, <2>1, <2>2 DEF applied
  <2>4. a.kind = "Snapshot" /\ a.sstable_state = f /\ a.labelmaps = l
    BY <2>3 DEF Snapshot
  <2>5. /\ DOMAIN f = {e.id} \cup DOMAIN g
        /\ \A x \in DOMAIN f : f[x] = IF x = e.id THEN "Live" ELSE g[x]
    BY <2>1 DEF extend
  <2>6. Added(e) = {e.id} /\ Dropped(e) = {} /\ Named(e) = {}
    BY <1>4 DEF Added, Dropped, Named
  <2>7. InState(f, "Live") = InState(g, "Live") \cup {e.id}
    BY <2>5 DEF InState
  <2>8. InState(f, "Removed") = InState(g, "Removed") \ {e.id}
    BY <2>5 DEF InState
  <2>9. Live(a) = (Live(snap) \ Dropped(e)) \cup Added(e)
    BY <1>1, <2>4, <2>6, <2>7 DEF Live
  <2>10. Gone(a) = (Gone(snap) \ Added(e)) \cup Dropped(e)
    BY <1>1, <2>4, <2>6, <2>8 DEF Gone
  <2>11. /\ DOMAIN a.labelmaps = Named(e) \cup DOMAIN snap.labelmaps
         /\ \A s \in DOMAIN a.labelmaps :
              a.labelmaps[s] = IF s \in Named(e) THEN e.labels ELSE snap.labelmaps[s]
    BY <1>2, <2>4, <2>6
  <2> QED
    BY <1>3, <2>4, <2>9, <2>10, <2>11, Zenon DEF After
<1>5. CASE e.kind = "Compaction"
  <2>1. PICK ids : ids = ToSet(decode(e).ids)
    OBVIOUS
  <2>2. PICK f : f = extend(g, [id \in ids |-> "Removed"])
    OBVIOUS
  <2>3. decode(e).kind = "Compaction"
    BY <1>5 DEF decode, Compaction
  <2>4. a = Snapshot(f, l)
    BY <1>1, <1>2, <1>3, <2>1, <2>2, <2>3 DEF applied
  <2>5. a.kind = "Snapshot" /\ a.sstable_state = f /\ a.labelmaps = l
    BY <2>4 DEF Snapshot
  <2>6. /\ DOMAIN f = ids \cup DOMAIN g
        /\ \A x \in DOMAIN f : f[x] = IF x \in ids THEN "Removed" ELSE g[x]
    BY <2>2 DEF extend
  <2>7. Added(e) = {} /\ Dropped(e) = ids /\ Named(e) = {}
    BY <1>5, <2>1 DEF Added, Dropped, Named
  <2>8. InState(f, "Live") = InState(g, "Live") \ ids
    BY <2>6 DEF InState
  <2>9. InState(f, "Removed") = InState(g, "Removed") \cup ids
    BY <2>6 DEF InState
  <2>10. Live(a) = (Live(snap) \ Dropped(e)) \cup Added(e)
    BY <1>1, <2>5, <2>7, <2>8 DEF Live
  <2>11. Gone(a) = (Gone(snap) \ Added(e)) \cup Dropped(e)
    BY <1>1, <2>5, <2>7, <2>9 DEF Gone
  <2>12. /\ DOMAIN a.labelmaps = Named(e) \cup DOMAIN snap.labelmaps
         /\ \A s \in DOMAIN a.labelmaps :
              a.labelmaps[s] = IF s \in Named(e) THEN e.labels ELSE snap.labelmaps[s]
    BY <1>2, <2>5, <2>7
  <2> QED
    BY <1>3, <2>5, <2>10, <2>11, <2>12, Zenon DEF After
<1>6. CASE e.kind = "StreamUpdate"
  <2>1. PICK f : f = extend(l, [s \in {e.stream} |-> e.labels])
    OBVIOUS
  <2>2. decode(e) = e
    BY <1>6 DEF decode
  <2>3. a = Snapshot(g, f)
    BY <1>1, <1>2, <1>3, <1>6, <2>1, <2>2 DEF applied
  <2>4. a.kind = "Snapshot" /\ a.sstable_state = g /\ a.labelmaps = f
    BY <2>3 DEF Snapshot
  <2>5. /\ DOMAIN f = {e.stream} \cup DOMAIN l
        /\ \A x \in DOMAIN f : f[x] = IF x \in {e.stream} THEN e.labels ELSE l[x]
    BY <2>1 DEF extend
  <2>6. Added(e) = {} /\ Dropped(e) = {} /\ Named(e) = {e.stream}
    BY <1>6 DEF Added, Dropped, Named
  <2>7. Live(a) = (Live(snap) \ Dropped(e)) \cup Added(e)
    BY <1>1, <2>4, <2>6 DEF Live, InState
  <2>8. Gone(a) = (Gone(snap) \ Added(e)) \cup Dropped(e)
    BY <1>1, <2>4, <2>6 DEF Gone, InState
  <2>9. /\ DOMAIN a.labelmaps = Named(e) \cup DOMAIN snap.labelmaps
        /\ \A s \in DOMAIN a.labelmaps :
             a.labelmaps[s] = IF s \in Named(e) THEN e.labels ELSE snap.labelmaps[s]
    BY <1>2, <2>4, <2>5, <2>6
  <2> QED
    BY <1>3, <2>4, <2>7, <2>8, <2>9, Zenon DEF After
<1> QED
  BY <1>4, <1>5, <1>6 DEF IsEntry

\* What merge makes of two snapshots.
Merged(m, older, new) ==
  /\ m.kind = "Snapshot"
  /\ Live(m) = (Live(older) \ Gone(new)) \cup Live(new)
  /\ DOMAIN m.labelmaps = DOMAIN new.labelmaps \cup DOMAIN older.labelmaps
  /\ \A s \in DOMAIN m.labelmaps :
       m.labelmaps[s] = IF s \in DOMAIN new.labelmaps THEN new.labelmaps[s]
                        ELSE older.labelmaps[s]

LEMMA MergeFacts ==
  ASSUME NEW older, NEW new
  PROVE  Merged(merge(older, new), older, new)
<1>1. PICK ids : ids = (Live(older) \ Gone(new)) \cup Live(new)
  OBVIOUS
<1>2. PICK f : f = [id \in ids |-> "Live"]
  OBVIOUS
<1>3. PICK l : l = extend(older.labelmaps, new.labelmaps)
  OBVIOUS
<1>4. PICK m : m = merge(older, new)
  OBVIOUS
<1>5. m = Snapshot(f, l)
  BY <1>1, <1>2, <1>3, <1>4, Zenon DEF merge, Live, Gone
<1>6. m.kind = "Snapshot" /\ m.sstable_state = f /\ m.labelmaps = l
  BY <1>5 DEF Snapshot
<1>7. InState(f, "Live") = ids
  BY <1>2 DEF InState
<1>8. Live(m) = ids
  BY <1>6, <1>7 DEF Live
<1>9. /\ DOMAIN l = DOMAIN new.labelmaps \cup DOMAIN older.labelmaps
      /\ \A s \in DOMAIN l :
           l[s] = IF s \in DOMAIN new.labelmaps THEN new.labelmaps[s] ELSE older.labelmaps[s]
  BY <1>3 DEF extend
<1>10. Merged(m, older, new)
  BY <1>1, <1>6, <1>8, <1>9, Zenon DEF Merged
<1> QED
  BY <1>4, <1>10, Zenon

\* Agree, with the names of this module.
LEMMA AgreeIs ==
  ASSUME NEW a, NEW b
  PROVE  Agree(a, b) <=> /\ Live(a) = Live(b) /\ DOMAIN a.labelmaps = DOMAIN b.labelmaps
                         /\ \A s \in DOMAIN a.labelmaps : a.labelmaps[s] = b.labelmaps[s]
BY DEF Agree, Live

LEMMA AgreeTrans ==
  ASSUME NEW a, NEW b, NEW c, Agree(a, b), Agree(b, c)
  PROVE  Agree(a, c)
BY DEF Agree

\* A step keeps snapshots that agree in agreement.
LEMMA AgreeStep ==
  ASSUME NEW a, NEW b, NEW e, IsEntry(e), Agree(a, b)
  PROVE  Agree(applied(a, decode(e)), applied(b, decode(e)))
<1>1. PICK x : x = applied(a, decode(e))
  OBVIOUS
<1>2. PICK y : y = applied(b, decode(e))
  OBVIOUS
<1>3. After(x, a, e) /\ After(y, b, e)
  BY <1>1, <1>2, AppliedFacts, Zenon
<1>4. /\ Live(a) = Live(b) /\ DOMAIN a.labelmaps = DOMAIN b.labelmaps
      /\ \A s \in DOMAIN a.labelmaps : a.labelmaps[s] = b.labelmaps[s]
  BY AgreeIs
<1>5. Live(x) = Live(y) /\ DOMAIN x.labelmaps = DOMAIN y.labelmaps
  BY <1>3, <1>4 DEF After
<1>6. ASSUME NEW s \in DOMAIN x.labelmaps PROVE x.labelmaps[s] = y.labelmaps[s]
  BY <1>3, <1>4, <1>5 DEF After
<1>7. Agree(x, y)
  BY <1>5, <1>6, AgreeIs
<1> QED
  BY <1>1, <1>2, <1>7, Zenon

\* An entry may be applied before a merge or after it.
LEMMA MergeStep ==
  ASSUME NEW old, NEW new, NEW e, IsEntry(e)
  PROVE  Agree(merge(old, applied(new, decode(e))), applied(merge(old, new), decode(e)))
<1>1. PICK n : n = applied(new, decode(e))
  OBVIOUS
<1>2. PICK m : m = merge(old, new)
  OBVIOUS
<1>3. PICK x : x = merge(old, n)
  OBVIOUS
<1>4. PICK y : y = applied(m, decode(e))
  OBVIOUS
<1>5. After(n, new, e) /\ After(y, m, e)
  BY <1>1, <1>4, AppliedFacts, Zenon
<1>6. Merged(x, old, n)
  BY <1>3, MergeFacts, Zenon
<1>7. Merged(m, old, new)
  BY <1>2, MergeFacts, Zenon
<1>8. Added(e) = {} \/ Dropped(e) = {}
  BY DEF Added, Dropped
<1>9. Live(x) = Live(y)
  BY <1>5, <1>6, <1>7, <1>8 DEF After, Merged
<1>10. DOMAIN x.labelmaps = DOMAIN y.labelmaps
  BY <1>5, <1>6, <1>7 DEF After, Merged
<1>11. ASSUME NEW s \in DOMAIN x.labelmaps PROVE x.labelmaps[s] = y.labelmaps[s]
  BY <1>5, <1>6, <1>7, <1>10 DEF After, Merged
<1>12. Agree(x, y)
  BY <1>9, <1>10, <1>11, AgreeIs
<1> QED
  BY <1>1, <1>2, <1>3, <1>4, <1>12, Zenon

\* Merging the same entries once more changes nothing.
LEMMA MergeTwice ==
  ASSUME NEW delta0, NEW new, delta0 = new \/ \E old : delta0 = merge(old, new)
  PROVE  Agree(merge(delta0, new), delta0)
<1>1. PICK x : x = merge(delta0, new)
  OBVIOUS
<1>2. Merged(x, delta0, new)
  BY <1>1, MergeFacts, Zenon
<1>3. Live(new) \cap Gone(new) = {}
  BY DEF Live, Gone, InState
<1>4. CASE delta0 = new
  BY <1>1, <1>2, <1>3, <1>4, AgreeIs DEF Merged
<1>5. ASSUME NEW old, delta0 = merge(old, new) PROVE Agree(x, delta0)
  <2>1. Merged(delta0, old, new)
    BY <1>5, MergeFacts, Zenon
  <2>2. Live(x) = Live(delta0) /\ DOMAIN x.labelmaps = DOMAIN delta0.labelmaps
    BY <1>2, <1>3, <2>1 DEF Merged
  <2>3. \A s \in DOMAIN x.labelmaps : x.labelmaps[s] = delta0.labelmaps[s]
    BY <1>2, <2>1, <2>2 DEF Merged
  <2> QED
    BY <2>2, <2>3, AgreeIs
<1> QED
  BY <1>1, <1>4, <1>5

LEMMA MergeEmpty ==
  ASSUME NEW old
  PROVE  Agree(merge(old, EmptySnapshot), old)
<1>1. PICK x : x = merge(old, EmptySnapshot)
  OBVIOUS
<1>2. Live(EmptySnapshot) = {} /\ Gone(EmptySnapshot) = {} /\ DOMAIN EmptySnapshot.labelmaps = {}
  BY DEF Live, Gone, InState, EmptySnapshot, Snapshot
<1>3. Merged(x, old, EmptySnapshot)
  BY <1>1, MergeFacts, Zenon
<1>4. Live(x) = Live(old) /\ DOMAIN x.labelmaps = DOMAIN old.labelmaps
  BY <1>2, <1>3 DEF Merged
<1>5. \A s \in DOMAIN x.labelmaps : x.labelmaps[s] = old.labelmaps[s]
  BY <1>2, <1>3 DEF Merged
<1> QED
  BY <1>1, <1>4, <1>5, AgreeIs

-----------------------------------------------------------------------------
(* Reading entries: what the recursive functions compute.                    *)

\* The recursion of replay has a solution.
LEMMA ReplayExist ==
  ASSUME NEW s, NEW n \in Nat
  PROVE  \E f : f = [i \in 0 .. n |-> IF i = 0 THEN EmptySnapshot ELSE applied(f[i - 1], decode(s[i]))]
<1> DEFINE Solved(m) ==
             \E f : f = [i \in 0 .. m |-> IF i = 0 THEN EmptySnapshot ELSE applied(f[i - 1], decode(s[i]))]
           T == {m \in 0 .. n : ~Solved(m)}
<1>1. SUFFICES ASSUME T # {} PROVE FALSE
  OBVIOUS
<1>2. PICK c \in T : \A d \in T : c <= d
  <2>1. T \in SUBSET Nat
    OBVIOUS
  <2> HIDE DEF T
  <2> QED
    BY <1>1, <2>1, LeastNumber
<1>3. CASE c = 0
  <2> DEFINE f == [i \in 0 .. 0 |-> EmptySnapshot]
  <2>1. f = [i \in 0 .. 0 |-> IF i = 0 THEN EmptySnapshot ELSE applied(f[i - 1], decode(s[i]))]
    OBVIOUS
  <2> QED
    BY <1>2, <1>3, <2>1
<1>4. CASE c # 0
  <2>1. c \in Nat /\ c - 1 \in 0 .. n /\ c - 1 \in Nat
    BY <1>2, <1>4
  <2>2. Solved(c - 1)
    <3> HIDE DEF Solved
    <3>1. c - 1 \notin T
      BY <1>2, <2>1
    <3> QED
      BY <2>1, <3>1
  <2>3. PICK g : g = [i \in 0 .. (c - 1) |-> IF i = 0 THEN EmptySnapshot ELSE applied(g[i - 1], decode(s[i]))]
    BY <2>2
  <2> DEFINE f == [i \in 0 .. c |-> IF i = c THEN applied(g[c - 1], decode(s[c])) ELSE g[i]]
  <2>4. \A i \in 0 .. (c - 1) : g[i] = IF i = 0 THEN EmptySnapshot ELSE applied(g[i - 1], decode(s[i]))
    BY <2>3
  <2>5. \A i \in 0 .. c : f[i] = IF i = 0 THEN EmptySnapshot ELSE applied(f[i - 1], decode(s[i]))
    BY <1>4, <2>1, <2>4
  <2>6. f = [i \in 0 .. c |-> IF i = 0 THEN EmptySnapshot ELSE applied(f[i - 1], decode(s[i]))]
    BY <2>5
  <2> QED
    BY <1>2, <2>6
<1> QED
  BY <1>3, <1>4

\* from_manifest applies the entries in order.
LEMMA ReplayStep ==
  ASSUME NEW s, Len(s) \in Nat
  PROVE  /\ replay(s)[0] = EmptySnapshot
         /\ \A i \in 1 .. Len(s) : replay(s)[i] = applied(replay(s)[i - 1], decode(s[i]))
<1> DEFINE n == Len(s)
           f == CHOOSE f : f = [i \in 0 .. Len(s) |->
                                  IF i = 0 THEN EmptySnapshot ELSE applied(f[i - 1], decode(s[i]))]
           r == replay(s)
<1>1. \E g : g = [i \in 0 .. Len(s) |-> IF i = 0 THEN EmptySnapshot ELSE applied(g[i - 1], decode(s[i]))]
  BY ReplayExist
<1>2. f = [i \in 0 .. Len(s) |-> IF i = 0 THEN EmptySnapshot ELSE applied(f[i - 1], decode(s[i]))]
  BY <1>1, Zenon
<1>3. r = [i \in 0 .. Len(s) |-> f[i]]
  BY Zenon DEF replay
<1> HIDE DEF f, r
<1>4. r[0] = EmptySnapshot /\ \A i \in 1 .. n : r[i] = applied(r[i - 1], decode(s[i]))
  BY <1>2, <1>3
<1> QED
  BY <1>4 DEF r

\* Sequences that begin alike are read alike, as far as they do.
LEMMA ReplayPrefix ==
  ASSUME NEW s, NEW t, Len(s) \in Nat, Len(t) \in Nat, NEW m \in Nat, m <= Len(s), m <= Len(t),
         \A i \in 1 .. m : s[i] = t[i]
  PROVE  replay(s)[m] = replay(t)[m]
<1> DEFINE r == replay(s)
           q == replay(t)
           T == {i \in 0 .. m : r[i] # q[i]}
<1>1. /\ r[0] = EmptySnapshot /\ \A i \in 1 .. m : r[i] = applied(r[i - 1], decode(s[i]))
      /\ q[0] = EmptySnapshot /\ \A i \in 1 .. m : q[i] = applied(q[i - 1], decode(t[i]))
  <2>1. /\ r[0] = EmptySnapshot /\ \A i \in 1 .. Len(s) : r[i] = applied(r[i - 1], decode(s[i]))
    BY ReplayStep
  <2>2. /\ q[0] = EmptySnapshot /\ \A i \in 1 .. Len(t) : q[i] = applied(q[i - 1], decode(t[i]))
    BY ReplayStep
  <2> HIDE DEF r, q
  <2> QED
    BY <2>1, <2>2
<1> HIDE DEF r, q
<1>2. SUFFICES ASSUME T # {} PROVE FALSE
  BY DEF r, q
<1>3. PICK c \in T : \A d \in T : c <= d
  <2>1. T \in SUBSET Nat
    OBVIOUS
  <2> HIDE DEF T
  <2> QED
    BY <1>2, <2>1, LeastNumber
<1>4. c # 0 /\ c \in 1 .. m /\ c - 1 \in 0 .. m /\ c - 1 \notin T
  BY <1>1, <1>3
<1>5. r[c - 1] = q[c - 1] /\ s[c] = t[c] /\ r[c] # q[c]
  BY <1>3, <1>4
<1>6. r[c] = applied(r[c - 1], decode(s[c])) /\ q[c] = applied(q[c - 1], decode(t[c]))
  BY <1>1, <1>4
<1> QED
  BY <1>5, <1>6

\* The recursion of Offsets has a solution.
LEMMA OffsetsExist ==
  ASSUME NEW s, NEW n \in Nat
  PROVE  \E f : f = [i \in 0 .. n |-> IF i = 0 THEN 0 ELSE f[i - 1] + wire_len(s[i])]
<1> DEFINE Solved(m) ==
             \E f : f = [i \in 0 .. m |-> IF i = 0 THEN 0 ELSE f[i - 1] + wire_len(s[i])]
           T == {m \in 0 .. n : ~Solved(m)}
<1>1. SUFFICES ASSUME T # {} PROVE FALSE
  OBVIOUS
<1>2. PICK c \in T : \A d \in T : c <= d
  <2>1. T \in SUBSET Nat
    OBVIOUS
  <2> HIDE DEF T
  <2> QED
    BY <1>1, <2>1, LeastNumber
<1>3. CASE c = 0
  <2> DEFINE f == [i \in 0 .. 0 |-> 0]
  <2>1. f = [i \in 0 .. 0 |-> IF i = 0 THEN 0 ELSE f[i - 1] + wire_len(s[i])]
    OBVIOUS
  <2> QED
    BY <1>2, <1>3, <2>1
<1>4. CASE c # 0
  <2>1. c \in Nat /\ c - 1 \in 0 .. n /\ c - 1 \in Nat
    BY <1>2, <1>4
  <2>2. Solved(c - 1)
    <3> HIDE DEF Solved
    <3>1. c - 1 \notin T
      BY <1>2, <2>1
    <3> QED
      BY <2>1, <3>1
  <2>3. PICK g : g = [i \in 0 .. (c - 1) |-> IF i = 0 THEN 0 ELSE g[i - 1] + wire_len(s[i])]
    BY <2>2
  <2> DEFINE f == [i \in 0 .. c |-> IF i = c THEN g[c - 1] + wire_len(s[c]) ELSE g[i]]
  <2>4. \A i \in 0 .. (c - 1) : g[i] = IF i = 0 THEN 0 ELSE g[i - 1] + wire_len(s[i])
    BY <2>3
  <2>5. \A i \in 0 .. c : f[i] = IF i = 0 THEN 0 ELSE f[i - 1] + wire_len(s[i])
    BY <1>4, <2>1, <2>4
  <2>6. f = [i \in 0 .. c |-> IF i = 0 THEN 0 ELSE f[i - 1] + wire_len(s[i])]
    BY <2>5
  <2> QED
    BY <1>2, <2>6
<1> QED
  BY <1>3, <1>4

\* Offsets adds up the lengths.
LEMMA OffsetsStep ==
  ASSUME NEW s, Len(s) \in Nat
  PROVE  /\ Offsets(s)[0] = 0
         /\ \A i \in 1 .. Len(s) : Offsets(s)[i] = Offsets(s)[i - 1] + wire_len(s[i])
<1> DEFINE n == Len(s)
           f == CHOOSE f : f = [i \in 0 .. Len(s) |->
                                  IF i = 0 THEN 0 ELSE f[i - 1] + wire_len(s[i])]
           r == Offsets(s)
<1>1. \E g : g = [i \in 0 .. Len(s) |-> IF i = 0 THEN 0 ELSE g[i - 1] + wire_len(s[i])]
  BY OffsetsExist
<1>2. f = [i \in 0 .. Len(s) |-> IF i = 0 THEN 0 ELSE f[i - 1] + wire_len(s[i])]
  BY <1>1, Zenon
<1>3. r = [i \in 0 .. Len(s) |-> f[i]]
  BY Zenon DEF Offsets
<1> HIDE DEF f, r
<1>4. r[0] = 0 /\ \A i \in 1 .. n : r[i] = r[i - 1] + wire_len(s[i])
  BY <1>2, <1>3
<1> QED
  BY <1>4 DEF r

\* Sequences that begin alike are read alike, as far as they do.
LEMMA OffsetsPrefix ==
  ASSUME NEW s, NEW t, Len(s) \in Nat, Len(t) \in Nat, NEW m \in Nat, m <= Len(s), m <= Len(t),
         \A i \in 1 .. m : s[i] = t[i]
  PROVE  Offsets(s)[m] = Offsets(t)[m]
<1> DEFINE r == Offsets(s)
           q == Offsets(t)
           T == {i \in 0 .. m : r[i] # q[i]}
<1>1. /\ r[0] = 0 /\ \A i \in 1 .. m : r[i] = r[i - 1] + wire_len(s[i])
      /\ q[0] = 0 /\ \A i \in 1 .. m : q[i] = q[i - 1] + wire_len(t[i])
  <2>1. /\ r[0] = 0 /\ \A i \in 1 .. Len(s) : r[i] = r[i - 1] + wire_len(s[i])
    BY OffsetsStep
  <2>2. /\ q[0] = 0 /\ \A i \in 1 .. Len(t) : q[i] = q[i - 1] + wire_len(t[i])
    BY OffsetsStep
  <2> HIDE DEF r, q
  <2> QED
    BY <2>1, <2>2
<1> HIDE DEF r, q
<1>2. SUFFICES ASSUME T # {} PROVE FALSE
  BY DEF r, q
<1>3. PICK c \in T : \A d \in T : c <= d
  <2>1. T \in SUBSET Nat
    OBVIOUS
  <2> HIDE DEF T
  <2> QED
    BY <1>2, <2>1, LeastNumber
<1>4. c # 0 /\ c \in 1 .. m /\ c - 1 \in 0 .. m /\ c - 1 \notin T
  BY <1>1, <1>3
<1>5. r[c - 1] = q[c - 1] /\ s[c] = t[c] /\ r[c] # q[c]
  BY <1>3, <1>4
<1>6. r[c] = r[c - 1] + wire_len(s[c]) /\ q[c] = q[c - 1] + wire_len(t[c])
  BY <1>1, <1>4
<1> QED
  BY <1>5, <1>6

-----------------------------------------------------------------------------
(* Sequences of entries.                                                     *)

LEMMA WireLen ==
  ASSUME NEW e \in Entries
  PROVE  wire_len(e) \in Nat
<1>1. IsEntry(e)
  BY EntryAssumption
<1>2. CASE e.kind = "MemtableFlush"
  BY <1>2 DEF wire_len
<1>3. CASE e.kind = "Compaction"
  <2>1. wire_len(e) = 5 + 8 * Len(e.ids)
    BY <1>3 DEF wire_len
  <2>2. Len(e.ids) \in Nat
    BY <1>1, <1>3 DEF IsEntry
  <2> QED
    BY <2>1, <2>2
<1>4. CASE e.kind = "StreamUpdate"
  <2>1. wire_len(e) = 9 + LabelLen
    BY <1>4 DEF wire_len
  <2> QED
    BY <2>1, ManifestAssumption
<1> QED
  BY <1>1, <1>2, <1>3, <1>4 DEF IsEntry

LEMMA AppendFacts ==
  ASSUME NEW S, NEW s \in Seq(S), NEW e \in S
  PROVE  /\ Append(s, e) \in Seq(S) /\ Len(s) \in Nat /\ Len(Append(s, e)) = Len(s) + 1
         /\ \A i \in 1 .. Len(s) : Append(s, e)[i] = s[i]
         /\ Append(s, e)[Len(s) + 1] = e
OBVIOUS

\* One entry more.
LEMMA ReadsAppend ==
  ASSUME NEW s \in Seq(Entries), NEW e \in Entries
  PROVE  /\ from_manifest(Append(s, e)) = applied(from_manifest(s), decode(e))
         /\ Bytes(Append(s, e)) = Bytes(s) + wire_len(e)
<1>1. PICK t : t = Append(s, e)
  OBVIOUS
<1>2. PICK n : n = Len(s)
  OBVIOUS
<1>3. /\ n \in Nat /\ Len(t) \in Nat /\ Len(t) = n + 1 /\ t[n + 1] = e
      /\ \A i \in 1 .. n : s[i] = t[i]
  BY <1>1, <1>2, AppendFacts
<1>4. replay(s)[n] = replay(t)[n] /\ Offsets(s)[n] = Offsets(t)[n]
  BY <1>2, <1>3, ReplayPrefix, OffsetsPrefix
<1>5. (n + 1) - 1 = n /\ n + 1 \in 1 .. Len(t)
  BY <1>3
<1>6. replay(t)[n + 1] = applied(replay(t)[(n + 1) - 1], decode(t[n + 1]))
  BY <1>3, <1>5, ReplayStep, Zenon
<1>7. Offsets(t)[n + 1] = Offsets(t)[(n + 1) - 1] + wire_len(t[n + 1])
  BY <1>3, <1>5, OffsetsStep, Zenon
<1>8. from_manifest(t) = applied(from_manifest(s), decode(e))
  BY <1>2, <1>3, <1>4, <1>5, <1>6, Zenon DEF from_manifest
<1>9. Bytes(t) = Bytes(s) + wire_len(e)
  BY <1>2, <1>3, <1>4, <1>5, <1>7, Zenon DEF Bytes
<1> QED
  BY <1>1, <1>8, <1>9, Zenon

LEMMA ReadsNothing ==
  from_manifest(<<>>) = EmptySnapshot /\ Bytes(<<>>) = 0
<1>1. <<>> \in Seq(Entries)
  OBVIOUS
<1>2. PICK s : s = <<>>
  BY <1>1
<1>3. Len(s) = 0 /\ Len(s) \in Nat
  BY <1>2
<1>4. replay(s)[0] = EmptySnapshot /\ Offsets(s)[0] = 0
  BY <1>3, ReplayStep, OffsetsStep
<1> QED
  BY <1>2, <1>3, <1>4 DEF from_manifest, Bytes

\* The entries of a sequence begin at growing offsets.
LEMMA OffsetsGrow ==
  ASSUME NEW s \in Seq(Entries)
  PROVE  /\ Len(s) \in Nat
         /\ \A i \in 0 .. Len(s) : Offsets(s)[i] \in Nat
         /\ \A i \in 0 .. Len(s) : Offsets(s)[i] <= Offsets(s)[Len(s)]
<1> DEFINE r == Offsets(s)
           n == Len(s)
           step(i) == wire_len(s[i])
<1>1. n \in Nat /\ \A i \in 1 .. n : s[i] \in Entries
  OBVIOUS
<1>2. r[0] = 0 /\ \A i \in 1 .. n : r[i] = r[i - 1] + step(i)
  BY <1>1, OffsetsStep
<1>3. \A i \in 1 .. n : step(i) \in Nat
  BY <1>1, WireLen
<1> HIDE DEF r, n, step
<1>4. \A i \in 0 .. n : r[i] \in Nat
  <2> DEFINE T == {i \in 0 .. n : r[i] \notin Nat}
  <2> SUFFICES ASSUME T # {} PROVE FALSE
    OBVIOUS
  <2>1. PICK c \in T : \A d \in T : c <= d
    <3>1. T \in SUBSET Nat
      BY <1>1
    <3> HIDE DEF T
    <3> QED
      BY <3>1, LeastNumber
  <2>2. c # 0 /\ c \in 1 .. n /\ c - 1 \in 0 .. n /\ c - 1 \notin T
    BY <1>1, <1>2, <2>1
  <2>3. r[c - 1] \in Nat /\ r[c] = r[c - 1] + step(c) /\ step(c) \in Nat
    BY <1>1, <1>2, <1>3, <2>2
  <2> QED
    BY <2>1, <2>3
<1>5. ASSUME NEW i \in 0 .. n PROVE \A j \in 0 .. n : i <= j => r[i] <= r[j]
  <2> DEFINE T == {j \in 0 .. n : i <= j /\ ~(r[i] <= r[j])}
  <2> SUFFICES ASSUME T # {} PROVE FALSE
    OBVIOUS
  <2>1. PICK c \in T : \A d \in T : c <= d
    <3>1. T \in SUBSET Nat
      BY <1>1
    <3> HIDE DEF T
    <3> QED
      BY <3>1, LeastNumber
  <2>2. c # i /\ c \in 1 .. n /\ c - 1 \in 0 .. n /\ c - 1 \notin T /\ i <= c - 1
    BY <1>1, <1>4, <2>1
  <2>3. r[i] <= r[c - 1] /\ r[c] = r[c - 1] + step(c) /\ step(c) \in Nat
    BY <1>1, <1>2, <1>3, <2>2
  <2> QED
    BY <1>4, <2>1, <2>2, <2>3
<1>6. \A i \in 0 .. n : r[i] <= r[n]
  BY <1>1, <1>5
<1> QED
  BY <1>1, <1>4, <1>6 DEF r, n

LEMMA BytesGrow ==
  ASSUME NEW s \in Seq(Entries), NEW t \in Seq(Entries)
  PROVE  Bytes(s) \in Nat /\ Bytes(s) <= Bytes(s \o t)
<1>1. PICK u : u = s \o t
  OBVIOUS
<1>2. /\ u \in Seq(Entries) /\ Len(u) \in Nat /\ Len(s) \in Nat /\ Len(s) <= Len(u)
      /\ \A i \in 1 .. Len(s) : s[i] = u[i]
  BY <1>1
<1>3. Offsets(s)[Len(s)] = Offsets(u)[Len(s)]
  BY <1>2, OffsetsPrefix
<1>4. Len(s) \in 0 .. Len(u) /\ Len(s) \in 0 .. Len(s)
  BY <1>2
<1>5. Offsets(u)[Len(s)] <= Offsets(u)[Len(u)]
  BY <1>2, <1>4, OffsetsGrow
<1>6. Offsets(s)[Len(s)] \in Nat
  BY <1>4, OffsetsGrow
<1> QED
  BY <1>1, <1>3, <1>5, <1>6 DEF Bytes

\* An entry is cut only in a manifest that is larger than the buffer.
LEMMA CutIsLarge ==
  ASSUME NEW s \in Seq(Entries), NEW i \in DOMAIN s, Cut(s, i)
  PROVE  Bytes(s) > BufSize
<1>1. i \in 0 .. Len(s) /\ (i + 1) - 1 = i
  OBVIOUS
<1>2. PICK b : b = Offsets(s)[i]
  OBVIOUS
<1>3. b \in Nat /\ b <= Bytes(s) /\ Bytes(s) \in Nat
  <2>1. Offsets(s)[i] \in Nat /\ Offsets(s)[i] <= Offsets(s)[Len(s)]
    BY <1>1, OffsetsGrow
  <2>2. Len(s) \in 0 .. Len(s)
    OBVIOUS
  <2>3. Offsets(s)[Len(s)] \in Nat
    BY <2>2, OffsetsGrow
  <2> QED
    BY <1>2, <2>1, <2>3 DEF Bytes
<1>4. PICK k \in 1 .. Bytes(s) : k * BufSize < b
  BY <1>1, <1>2 DEF Cut, StartOf
<1>5. k \in Nat /\ 1 <= k
  BY <1>3, <1>4
<1>6. BufSize <= k * BufSize
  BY <1>5, ManifestAssumption
<1>7. k * BufSize \in Nat /\ BufSize \in Nat
  BY <1>5, ManifestAssumption
<1> QED
  BY <1>3, <1>4, <1>6, <1>7

LEMMA ReplayKind ==
  ASSUME NEW s \in Seq(Entries), NEW i \in 0 .. Len(s)
  PROVE  replay(s)[i].kind = "Snapshot"
<1>1. Len(s) \in Nat
  OBVIOUS
<1>2. CASE i = 0
  BY <1>1, <1>2, ReplayStep DEF EmptySnapshot, Snapshot
<1>3. CASE i # 0
  <2>1. i \in 1 .. Len(s) /\ s[i] \in Entries
    BY <1>3
  <2>2. replay(s)[i] = applied(replay(s)[i - 1], decode(s[i]))
    BY <1>1, <2>1, ReplayStep
  <2>3. After(applied(replay(s)[i - 1], decode(s[i])), replay(s)[i - 1], s[i])
    BY <2>1, EntryAssumption, AppliedFacts, Zenon
  <2> QED
    BY <2>2, <2>3, Zenon DEF After
<1> QED
  BY <1>2, <1>3

-----------------------------------------------------------------------------
(* What from_manifest makes of a log.                                        *)

\* What is dropped was compacted; a compaction of one table drops it.
LEMMA DroppedFacts ==
  ASSUME NEW e \in Entries
  PROVE  /\ \A id \in Dropped(e) : Compacts(e, id)
         /\ (e.kind = "Compaction" => Len(e.ids) = 1) => \A id : Compacts(e, id) => id \in Dropped(e)
<1>1. CASE e.kind # "Compaction"
  BY <1>1 DEF Dropped, Compacts
<1>2. CASE e.kind = "Compaction"
  <2>1. PICK ids : ids = e.ids
    OBVIOUS
  <2>2. ids \in Seq(Nat)
    BY <1>2, <2>1, EntryAssumption DEF IsEntry
  <2>3. decode(e).ids = [i \in DOMAIN ids |-> ids[1]]
    BY <1>2, <2>1 DEF decode, Compaction
  <2>4. Dropped(e) = {ids[1] : i \in DOMAIN ids}
    BY <1>2, <2>3 DEF Dropped, ToSet
  <2>5. \A id : Compacts(e, id) <=> id \in {ids[i] : i \in DOMAIN ids}
    BY <1>2, <2>1 DEF Compacts, ToSet
  <2>6. \A i \in DOMAIN ids : 1 \in DOMAIN ids
    BY <2>2
  <2>7. Len(ids) = 1 => DOMAIN ids = {1}
    BY <2>2
  <2> QED
    BY <1>2, <2>1, <2>4, <2>5, <2>6, <2>7
<1> QED
  BY <1>1, <1>2

\* The step from one snapshot to the next.
LEMMA ReplayAfter ==
  ASSUME NEW s \in Seq(Entries), NEW i \in 1 .. Len(s)
  PROVE  s[i] \in Entries /\ After(replay(s)[i], replay(s)[i - 1], s[i])
<1>1. Len(s) \in Nat /\ s[i] \in Entries
  OBVIOUS
<1>2. replay(s)[i] = applied(replay(s)[i - 1], decode(s[i]))
  BY <1>1, ReplayStep
<1>3. After(applied(replay(s)[i - 1], decode(s[i])), replay(s)[i - 1], s[i])
  BY <1>1, EntryAssumption, AppliedFacts, Zenon
<1> QED
  BY <1>1, <1>2, <1>3, Zenon

\* A table that is flushed at i and not compacted up to m.
Holds(s, id, i, m) ==
  /\ i \in 1 .. m /\ s[i].kind = "MemtableFlush" /\ s[i].id = id
  /\ \A j \in (i + 1) .. m : ~Compacts(s[j], id)

\* It is live then.
LEMMA FlushedIsLive ==
  ASSUME NEW s \in Seq(Entries), NEW id, NEW i, Holds(s, id, i, Len(s))
  PROVE  id \in Live(from_manifest(s))
<1> DEFINE r == replay(s)
           n == Len(s)
           T == {m \in i .. n : id \notin Live(r[m])}
<1>1. n \in Nat /\ i \in 1 .. n /\ s[i].kind = "MemtableFlush" /\ s[i].id = id
      /\ \A j \in (i + 1) .. n : ~Compacts(s[j], id)
  BY DEF Holds
<1>2. \A m \in 1 .. n : s[m] \in Entries /\ After(r[m], r[m - 1], s[m])
  BY ReplayAfter
<1> HIDE DEF r
<1>3. SUFFICES ASSUME T # {} PROVE FALSE
  BY <1>1 DEF r, from_manifest
<1>4. PICK c \in T : \A d \in T : c <= d
  <2>1. T \in SUBSET Nat
    BY <1>1
  <2> HIDE DEF T
  <2> QED
    BY <1>3, <2>1, LeastNumber
<1>5. c \in 1 .. n /\ i <= c /\ id \notin Live(r[c])
  BY <1>1, <1>4
<1>6. After(r[c], r[c - 1], s[c]) /\ s[c] \in Entries
  BY <1>2, <1>5
<1>7. CASE c = i
  BY <1>1, <1>5, <1>6, <1>7 DEF After, Added
<1>8. CASE c # i
  <2>1. c \in (i + 1) .. n /\ c - 1 \in i .. n /\ c - 1 \notin T
    BY <1>1, <1>4, <1>5, <1>8
  <2>2. id \in Live(r[c - 1])
    BY <2>1
  <2>3. ~Compacts(s[c], id)
    BY <1>1, <2>1
  <2>4. id \notin Dropped(s[c])
    BY <1>6, <2>3, DroppedFacts
  <2> QED
    BY <1>5, <1>6, <2>2, <2>4 DEF After
<1> QED
  BY <1>7, <1>8

\* When compactions name one table, nothing else is live.
LEMMA LiveWasFlushed ==
  ASSUME NEW s \in Seq(Entries), NEW id, id \in Live(from_manifest(s)),
         \A i \in 1 .. Len(s) : s[i].kind = "Compaction" => Len(s[i].ids) = 1
  PROVE  \E i : Holds(s, id, i, Len(s))
<1> DEFINE r == replay(s)
           n == Len(s)
           T == {m \in 0 .. n : id \in Live(r[m]) /\ ~\E i : Holds(s, id, i, m)}
<1>1. n \in Nat
  OBVIOUS
<1>2. \A m \in 1 .. n : s[m] \in Entries /\ After(r[m], r[m - 1], s[m])
  BY ReplayAfter
<1>3. r[0] = EmptySnapshot
  BY <1>1, ReplayStep
<1>4. id \in Live(r[n])
  BY DEF from_manifest
<1> HIDE DEF r
<1>5. SUFFICES ASSUME T # {} PROVE FALSE
  BY <1>1, <1>4
<1>6. PICK c \in T : \A d \in T : c <= d
  <2>1. T \in SUBSET Nat
    BY <1>1
  <2> HIDE DEF T
  <2> QED
    BY <1>5, <2>1, LeastNumber
<1>7. c \in 0 .. n /\ id \in Live(r[c]) /\ ~\E i : Holds(s, id, i, c)
  BY <1>6
<1>8. c # 0
  <2>1. Live(EmptySnapshot) = {}
    BY DEF Live, InState, EmptySnapshot, Snapshot
  <2> QED
    BY <1>3, <1>7, <2>1
<1>9. c \in 1 .. n /\ c - 1 \in 0 .. n /\ c - 1 \notin T
  BY <1>1, <1>6, <1>7, <1>8
<1>10. After(r[c], r[c - 1], s[c]) /\ s[c] \in Entries
  BY <1>2, <1>9
<1>11. CASE id \in Added(s[c])
  <2>1. s[c].kind = "MemtableFlush" /\ s[c].id = id
    BY <1>11 DEF Added
  <2>2. Holds(s, id, c, c)
    BY <1>9, <2>1 DEF Holds
  <2> QED
    BY <1>7, <2>2
<1>12. CASE id \notin Added(s[c])
  <2>1. id \in Live(r[c - 1]) /\ id \notin Dropped(s[c])
    BY <1>7, <1>10, <1>12 DEF After
  <2>2. ~Compacts(s[c], id)
    BY <1>9, <1>10, <2>1, DroppedFacts
  <2>3. PICK i : Holds(s, id, i, c - 1)
    BY <1>9, <2>1
  <2>4. Holds(s, id, i, c)
    <3>1. i \in 1 .. (c - 1) /\ s[i].kind = "MemtableFlush" /\ s[i].id = id
          /\ \A j \in (i + 1) .. (c - 1) : ~Compacts(s[j], id)
      BY <2>3 DEF Holds
    <3>2. \A j \in (i + 1) .. c : j = c \/ j \in (i + 1) .. (c - 1)
      BY <1>9, <3>1
    <3>3. i \in 1 .. c
      BY <1>9, <3>1
    <3> QED
      BY <2>2, <3>1, <3>2, <3>3 DEF Holds
  <2> QED
    BY <1>7, <2>4
<1> QED
  BY <1>11, <1>12

\* The last update of a stream is the one that is read.
LEMMA LabelsAreRead ==
  ASSUME NEW s \in Seq(Entries), NEW i \in 1 .. Len(s), s[i].kind = "StreamUpdate",
         \A j \in (i + 1) .. Len(s) : s[j].kind = "StreamUpdate" => s[j].stream # s[i].stream
  PROVE  /\ s[i].stream \in DOMAIN from_manifest(s).labelmaps
         /\ from_manifest(s).labelmaps[s[i].stream] = s[i].labels
<1> DEFINE r == replay(s)
           n == Len(s)
           Read(m) == /\ s[i].stream \in DOMAIN r[m].labelmaps
                      /\ r[m].labelmaps[s[i].stream] = s[i].labels
           T == {m \in i .. n : ~Read(m)}
<1>1. n \in Nat /\ i \in 1 .. n
  OBVIOUS
<1>2. \A m \in 1 .. n : s[m] \in Entries /\ After(r[m], r[m - 1], s[m])
  BY ReplayAfter
<1> HIDE DEF r
<1>3. SUFFICES ASSUME T # {} PROVE FALSE
  BY <1>1 DEF r, from_manifest
<1>4. PICK c \in T : \A d \in T : c <= d
  <2>1. T \in SUBSET Nat
    BY <1>1
  <2> HIDE DEF T
  <2> QED
    BY <1>3, <2>1, LeastNumber
<1>5. c \in 1 .. n /\ i <= c /\ ~Read(c)
  BY <1>1, <1>4
<1>6. After(r[c], r[c - 1], s[c]) /\ s[c] \in Entries
  BY <1>2, <1>5
<1>7. CASE c = i
  <2>1. Named(s[c]) = {s[i].stream}
    BY <1>7 DEF Named
  <2> QED
    BY <1>5, <1>6, <1>7, <2>1 DEF After
<1>8. CASE c # i
  <2>1. c \in (i + 1) .. n /\ c - 1 \in i .. n /\ c - 1 \notin T
    BY <1>1, <1>4, <1>5, <1>8
  <2>2. Read(c - 1)
    BY <2>1
  <2>3. s[i].stream \notin Named(s[c])
    BY <2>1 DEF Named
  <2> QED
    BY <1>5, <1>6, <2>2, <2>3 DEF After
<1> QED
  BY <1>7, <1>8

-----------------------------------------------------------------------------
(* What recovery makes of the files.                                         *)

\* RecoveredWith and FilesStandForLog for any files.
With(snap, entries) ==
  IF snap = NoFile THEN from_manifest(entries) ELSE merge(snap, from_manifest(entries))

StandFor(snap, entries, b, l) ==
  \A n \in 0 .. Len(b) :
    Agree(With(snap, entries \o SubSeq(b, 1, n)), from_manifest(SubSeq(l, 1, Len(l) - Len(b) + n)))

LEMMA FilesAre ==
  /\ FilesStandForLog <=>
       ((snapshot # Torn /\ ~file.torn) => StandFor(snapshot, file.entries, buffered, log))
  /\ FilesStandForLog' <=>
       ((snapshot' # Torn /\ ~file'.torn) => StandFor(snapshot', file'.entries, buffered', log'))
BY Zenon DEF FilesStandForLog, StandFor, RecoveredWith, With, Torn, NoFile

LEMMA WithStep ==
  ASSUME NEW snap, NEW s \in Seq(Entries), NEW e \in Entries
  PROVE  Agree(With(snap, Append(s, e)), applied(With(snap, s), decode(e)))
<1>1. IsEntry(e)
  BY EntryAssumption
<1>2. from_manifest(Append(s, e)) = applied(from_manifest(s), decode(e))
  BY ReadsAppend
<1>3. CASE snap = NoFile
  <2>1. Agree(applied(from_manifest(s), decode(e)), applied(from_manifest(s), decode(e)))
    BY DEF Agree
  <2> QED
    BY <1>2, <1>3, <2>1, Zenon DEF With
<1>4. CASE snap # NoFile
  <2>1. Agree(merge(snap, applied(from_manifest(s), decode(e))),
              applied(merge(snap, from_manifest(s)), decode(e)))
    BY <1>1, MergeStep, Zenon
  <2> QED
    BY <1>2, <1>4, <2>1, Zenon DEF With
<1> QED
  BY <1>3, <1>4

LEMMA SeqFacts ==
  ASSUME NEW s \in Seq(Entries), NEW t \in Seq(Entries)
  PROVE  /\ s \o t \in Seq(Entries) /\ s \o <<>> = s /\ <<>> \o s = s
         /\ <<>> \in Seq(Entries) /\ Len(<<>>) = 0 /\ Len(s) \in Nat
         /\ SubSeq(s, 1, 0) = <<>> /\ SubSeq(s, 1, Len(s)) = s
         /\ \A n \in 0 .. Len(s) : SubSeq(s, 1, n) \in Seq(Entries) /\ Len(SubSeq(s, 1, n)) = n
<1>1. /\ s \o t \in Seq(Entries) /\ s \o <<>> = s
      /\ <<>> \in Seq(Entries) /\ Len(<<>>) = 0 /\ Len(s) \in Nat
  OBVIOUS
<1>2. <<>> \o s = s
  OBVIOUS
<1>3. SubSeq(s, 1, 0) = <<>>
  OBVIOUS
<1>4. SubSeq(s, 1, Len(s)) = s
  OBVIOUS
<1>5. \A n \in 0 .. Len(s) : SubSeq(s, 1, n) \in Seq(Entries) /\ Len(SubSeq(s, 1, n)) = n
  OBVIOUS
<1> QED
  BY <1>1, <1>2, <1>3, <1>4, <1>5

LEMMA ConcatAppend ==
  ASSUME NEW s \in Seq(Entries), NEW t \in Seq(Entries), NEW e \in Entries
  PROVE  /\ s \o Append(t, e) = Append(s \o t, e)
         /\ Append(<<>>, e) = <<e>>
         /\ \A n \in 0 .. Len(t) : SubSeq(Append(t, e), 1, n) = SubSeq(t, 1, n)
<1>1. PICK x : x = s \o Append(t, e)
  OBVIOUS
<1>2. PICK y : y = Append(s \o t, e)
  OBVIOUS
<1>3. /\ x \in Seq(Entries) /\ y \in Seq(Entries)
      /\ Len(x) = Len(s) + Len(t) + 1 /\ Len(y) = Len(s) + Len(t) + 1
  BY <1>1, <1>2
<1>4. ASSUME NEW i \in 1 .. Len(x) PROVE x[i] = y[i]
  <2>1. CASE i <= Len(s)
    BY <1>1, <1>2, <1>3, <2>1
  <2>2. CASE i > Len(s) /\ i <= Len(s) + Len(t)
    BY <1>1, <1>2, <1>3, <2>2
  <2>3. CASE i = Len(s) + Len(t) + 1
    BY <1>1, <1>2, <1>3, <2>3
  <2> QED
    BY <1>3, <2>1, <2>2, <2>3
<1>5. x = y
  BY <1>3, <1>4
<1>6. Append(<<>>, e) = <<e>>
  OBVIOUS
<1>7. ASSUME NEW n \in 0 .. Len(t) PROVE SubSeq(Append(t, e), 1, n) = SubSeq(t, 1, n)
  OBVIOUS
<1> QED
  BY <1>1, <1>2, <1>5, <1>6, <1>7

\* With nothing buffered there is one point to look at.
LEMMA StandEmpty ==
  ASSUME NEW snap, NEW s \in Seq(Entries), NEW l \in Seq(Entries)
  PROVE  StandFor(snap, s, <<>>, l) <=> Agree(With(snap, s), from_manifest(l))
<1>1. PICK b : b = <<>>
  BY SeqFacts
<1>2. Len(b) = 0 /\ SubSeq(b, 1, 0) = <<>> /\ s \o <<>> = s
  BY <1>1, SeqFacts
<1>3. 0 .. Len(b) = {0} /\ Len(l) - Len(b) + 0 = Len(l) /\ SubSeq(l, 1, Len(l)) = l
  BY <1>2, SeqFacts
<1>4. StandFor(snap, s, b, l) <=>
        Agree(With(snap, s \o SubSeq(b, 1, 0)), from_manifest(SubSeq(l, 1, Len(l) - Len(b) + 0)))
  BY <1>3, Zenon DEF StandFor
<1> QED
  BY <1>1, <1>2, <1>3, <1>4, Zenon

\* The last point: everything that is buffered is written.
LEMMA StandAll ==
  ASSUME NEW snap, NEW s \in Seq(Entries), NEW b \in Seq(Entries), NEW l \in Seq(Entries),
         Len(b) <= Len(l), StandFor(snap, s, b, l)
  PROVE  Agree(With(snap, s \o b), from_manifest(l))
<1>1. Len(b) \in 0 .. Len(b) /\ SubSeq(b, 1, Len(b)) = b /\ SubSeq(l, 1, Len(l)) = l
      /\ Len(l) - Len(b) + Len(b) = Len(l)
  BY SeqFacts
<1>2. Agree(With(snap, s \o SubSeq(b, 1, Len(b))),
            from_manifest(SubSeq(l, 1, Len(l) - Len(b) + Len(b))))
  BY <1>1, Zenon DEF StandFor
<1> QED
  BY <1>1, <1>2, Zenon

\* The first one: none of it is.
LEMMA StandNone ==
  ASSUME NEW snap, NEW s \in Seq(Entries), NEW b \in Seq(Entries), NEW l \in Seq(Entries),
         Len(b) <= Len(l), StandFor(snap, s, b, l)
  PROVE  Agree(With(snap, s), from_manifest(SubSeq(l, 1, Len(l) - Len(b))))
<1>1. 0 \in 0 .. Len(b) /\ SubSeq(b, 1, 0) = <<>> /\ s \o <<>> = s
      /\ Len(l) - Len(b) + 0 = Len(l) - Len(b)
  BY SeqFacts
<1>2. Agree(With(snap, s \o SubSeq(b, 1, 0)),
            from_manifest(SubSeq(l, 1, Len(l) - Len(b) + 0)))
  BY <1>1, Zenon DEF StandFor
<1> QED
  BY <1>1, <1>2, Zenon

\* One entry more, in the buffer and in the log.
LEMMA StandAppend ==
  ASSUME NEW snap, NEW s \in Seq(Entries), NEW b \in Seq(Entries), NEW l \in Seq(Entries),
         Len(b) <= Len(l), StandFor(snap, s, b, l), NEW e \in Entries
  PROVE  StandFor(snap, s, Append(b, e), Append(l, e))
<1>1. PICK c : c = Append(b, e)
  OBVIOUS
<1>2. PICK m : m = Append(l, e)
  OBVIOUS
<1>3. /\ c \in Seq(Entries) /\ m \in Seq(Entries) /\ Len(b) \in Nat /\ Len(l) \in Nat
      /\ Len(c) = Len(b) + 1 /\ Len(m) = Len(l) + 1
  BY <1>1, <1>2
<1>4. ASSUME NEW n \in 0 .. Len(c)
      PROVE  Agree(With(snap, s \o SubSeq(c, 1, n)), from_manifest(SubSeq(m, 1, Len(m) - Len(c) + n)))
  <2>1. CASE n <= Len(b)
    <3>1. n \in 0 .. Len(b) /\ Len(m) - Len(c) + n = Len(l) - Len(b) + n
          /\ Len(l) - Len(b) + n \in 0 .. Len(l)
      BY <1>3, <2>1
    <3>2. SubSeq(c, 1, n) = SubSeq(b, 1, n)
      BY <1>1, <3>1, ConcatAppend
    <3>3. SubSeq(m, 1, Len(l) - Len(b) + n) = SubSeq(l, 1, Len(l) - Len(b) + n)
      BY <1>2, <3>1, ConcatAppend
    <3>4. Agree(With(snap, s \o SubSeq(b, 1, n)), from_manifest(SubSeq(l, 1, Len(l) - Len(b) + n)))
      BY <3>1, Zenon DEF StandFor
    <3> QED
      BY <3>1, <3>2, <3>3, <3>4, Zenon
  <2>2. CASE n > Len(b)
    <3>1. n = Len(c) /\ Len(m) - Len(c) + n = Len(m)
      BY <1>3, <2>2
    <3>2. SubSeq(c, 1, n) = c /\ SubSeq(m, 1, Len(m)) = m
      BY <1>3, <3>1, SeqFacts
    <3>3. s \o c = Append(s \o b, e) /\ s \o b \in Seq(Entries)
      BY <1>1, ConcatAppend, SeqFacts
    <3>4. Agree(With(snap, Append(s \o b, e)), applied(With(snap, s \o b), decode(e)))
      BY <3>3, WithStep
    <3>5. Agree(With(snap, s \o b), from_manifest(l))
      BY StandAll
    <3>6. Agree(applied(With(snap, s \o b), decode(e)), applied(from_manifest(l), decode(e)))
      BY <3>5, AgreeStep, EntryAssumption, Zenon
    <3>7. from_manifest(m) = applied(from_manifest(l), decode(e))
      BY <1>2, ReadsAppend, Zenon
    <3>8. Agree(With(snap, s \o c), from_manifest(m))
      BY <3>3, <3>4, <3>6, <3>7, AgreeTrans, Zenon
    <3> QED
      BY <3>1, <3>2, <3>8, Zenon
  <2> QED
    BY <1>3, <2>1, <2>2
<1>5. StandFor(snap, s, c, m)
  BY <1>4, Zenon DEF StandFor
<1> QED
  BY <1>1, <1>2, <1>5, Zenon

\* The buffer gets to the file.
LEMMA StandWritten ==
  ASSUME NEW snap, NEW s \in Seq(Entries), NEW b \in Seq(Entries), NEW l \in Seq(Entries),
         Len(b) <= Len(l), StandFor(snap, s, b, l)
  PROVE  StandFor(snap, s \o b, <<>>, l)
BY StandAll, StandEmpty, SeqFacts

-----------------------------------------------------------------------------
(* The invariant holds and every action keeps it.                            *)

LEMMA InitKeeps ==
  ASSUME Init
  PROVE  ManifestInv
<1>1. <<>> \in Seq(Entries) /\ Len(<<>>) = 0 /\ <<>> \o <<>> = <<>>
  OBVIOUS
<1>2. ManifestTypeOK
  <2>1. log \in Seq(Entries) /\ buffered \in Seq(Entries) /\ Len(buffered) <= Len(log)
    BY <1>1 DEF Init
  <2>2. file \in [entries : Seq(Entries), torn : BOOLEAN] /\ crashes \in [clean : Nat, cut : Nat]
    BY <1>1 DEF Init
  <2>3. pc = "down" /\ opening = FALSE /\ bytes_written = 0
    BY DEF Init
  <2> QED
    BY <2>1, <2>2, <2>3 DEF ManifestTypeOK
<1>3. snapshot = NoFile /\ With(snapshot, <<>>) = from_manifest(<<>>)
  BY DEF Init, With
<1>4. Agree(from_manifest(<<>>), from_manifest(<<>>))
  BY DEF Agree
<1>5. StandFor(snapshot, <<>>, <<>>, <<>>)
  BY <1>1, <1>3, <1>4, StandEmpty, Zenon
<1>6. FilesStandForLog
  <2>1. file.entries = <<>> /\ buffered = <<>> /\ log = <<>>
    BY DEF Init
  <2> QED
    BY <1>5, <2>1, FilesAre, Zenon
<1>7. SnapshotSteps
  BY DEF Init, SnapshotSteps, Steps
<1>8. Causes
  BY <1>3 DEF Init, Causes, ErrorsHaveCause, NoFile, Torn
<1>9. Sizes
  BY DEF Init, Sizes, FileBounded
<1> QED
  BY <1>2, <1>6, <1>7, <1>8, <1>9 DEF ManifestInv

LEMMA KeepOpen ==
  ASSUME ManifestInv, Open
  PROVE  ManifestInv'
<1>1. ManifestTypeOK /\ FilesStandForLog /\ SnapshotSteps /\ Causes /\ Sizes
  BY DEF ManifestInv
<1>2. Len(log) \in Nat /\ Len(buffered) \in Nat
  BY <1>1 DEF ManifestTypeOK
<1>3. ManifestTypeOK'
  BY <1>1 DEF Open, ManifestTypeOK, Steps
<1>4. FilesStandForLog'
  <2>1. snapshot' = snapshot /\ file' = file /\ buffered' = buffered /\ log' = log
    BY DEF Open
  <2> QED
    BY <1>1, <2>1, FilesAre, Zenon
<1>5. SnapshotSteps'
  BY DEF Open, SnapshotSteps, Steps
<1>6. Causes'
  BY <1>1 DEF Open, Causes, ErrorsHaveCause, Torn
<1>7. Sizes'
  BY DEF Open, Sizes, FileBounded
<1> QED
  BY <1>3, <1>4, <1>5, <1>6, <1>7 DEF ManifestInv

LEMMA KeepAppendEntry ==
  ASSUME ManifestInv, NEW e \in Entries, AppendEntry(e)
  PROVE  ManifestInv'
<1> DEFINE full == Bytes(buffered) + wire_len(e) > WriterCap
<1>1. ManifestTypeOK /\ FilesStandForLog /\ SnapshotSteps /\ Causes /\ Sizes
  BY DEF ManifestInv
<1>2. Len(log) \in Nat /\ Len(buffered) \in Nat
  BY <1>1 DEF ManifestTypeOK
<1>a. /\ log \in Seq(Entries) /\ buffered \in Seq(Entries) /\ file.entries \in Seq(Entries)
      /\ file \in [entries : Seq(Entries), torn : BOOLEAN]
      /\ bytes_written \in Nat /\ wire_len(e) \in Nat /\ Len(buffered) <= Len(log)
  BY <1>1, WireLen DEF ManifestTypeOK
<1>b. /\ pc = "ready" /\ log' = Append(log, e) /\ bytes_written' = bytes_written + wire_len(e)
      /\ snapshot' = snapshot /\ opening' = opening /\ crashes' = crashes /\ delta' = delta
      /\ full => buffered' = <<e>> /\ file' = [file EXCEPT !.entries = @ \o buffered]
      /\ ~full => buffered' = Append(buffered, e) /\ file' = file
      /\ \/ snapshot_due(e) /\ pc' = "flush" /\ result' = result
         \/ ~snapshot_due(e) /\ pc' = "ready" /\ result' = "Ok"
  BY DEF AppendEntry
<1> HIDE DEF full
<1>c. /\ file'.torn = file.torn
      /\ full => file'.entries = file.entries \o buffered
      /\ ~full => file'.entries = file.entries
      /\ file' \in [entries : Seq(Entries), torn : BOOLEAN]
  BY <1>a, <1>b, SeqFacts
<1>d. /\ Append(<<>>, e) = <<e>> /\ <<>> \in Seq(Entries) /\ Len(<<>>) = 0
      /\ file.entries \o buffered \in Seq(Entries)
      /\ (file.entries \o buffered) \o <<>> = file.entries \o buffered
  BY <1>a, SeqFacts, ConcatAppend
<1>3. ManifestTypeOK'
  <2>1. log' \in Seq(Entries) /\ Len(log') = Len(log) + 1
    BY <1>a, <1>b
  <2>2. buffered' \in Seq(Entries) /\ Len(buffered') <= Len(log) + 1
    <3>1. CASE full
      <4>1. buffered' = Append(<<>>, e) /\ Len(Append(<<>>, e)) = 1 /\ Append(<<>>, e) \in Seq(Entries)
        BY <1>b, <1>d, <3>1
      <4> QED
        BY <1>2, <4>1
    <3>2. CASE ~full
      <4>1. buffered' = Append(buffered, e)
        BY <1>b, <3>2
      <4>2. Append(buffered, e) \in Seq(Entries) /\ Len(Append(buffered, e)) = Len(buffered) + 1
        BY <1>a, AppendFacts
      <4> QED
        BY <1>2, <1>a, <4>1, <4>2
    <3> QED
      BY <3>1, <3>2
  <2>3. bytes_written' \in Nat /\ pc' \in {"down", "ready"} \cup Steps /\ opening = FALSE
    BY <1>1, <1>a, <1>b DEF ManifestTypeOK, Steps
  <2> QED
    BY <1>1, <1>b, <1>c, <2>1, <2>2, <2>3 DEF ManifestTypeOK
<1>4. FilesStandForLog'
  <2> SUFFICES ASSUME snapshot' # Torn, ~file'.torn
               PROVE  StandFor(snapshot', file'.entries, buffered', log')
    BY FilesAre
  <2>1. StandFor(snapshot, file.entries, buffered, log)
    BY <1>1, <1>b, <1>c, FilesAre
  <2>2. CASE full
    <3>1. StandFor(snapshot, file.entries \o buffered, <<>>, log)
      BY <1>a, <2>1, StandWritten, Zenon
    <3>2. Len(<<>>) <= Len(log)
      BY <1>2, <1>d
    <3>3. StandFor(snapshot, file.entries \o buffered, Append(<<>>, e), Append(log, e))
      BY <1>a, <1>d, <3>1, <3>2, StandAppend, Zenon
    <3> QED
      BY <1>b, <1>c, <1>d, <2>2, <3>3, Zenon
  <2>3. CASE ~full
    <3>1. StandFor(snapshot, file.entries, Append(buffered, e), Append(log, e))
      BY <1>a, <2>1, StandAppend, Zenon
    <3> QED
      BY <1>b, <1>c, <2>3, <3>1, Zenon
  <2> QED
    BY <2>2, <2>3
<1>5. SnapshotSteps'
  BY <1>b DEF SnapshotSteps, Steps
<1>e. Bytes(file.entries) \in Nat /\ Bytes(file.entries) <= Bytes(file'.entries)
      /\ Bytes(file'.entries) \in Nat
  <2>1. Bytes(file.entries) \in Nat /\ Bytes(file.entries) <= Bytes(file.entries \o buffered)
        /\ Bytes(file.entries \o buffered) \in Nat
    <3>1. Bytes(file.entries) \in Nat /\ Bytes(file.entries) <= Bytes(file.entries \o buffered)
      BY <1>a, BytesGrow, Zenon
    <3>2. Bytes(file.entries \o buffered) \in Nat
      BY <1>a, <1>d, BytesGrow, Zenon
    <3> QED
      BY <3>1, <3>2
  <2>2. file'.entries = file.entries \/ file'.entries = file.entries \o buffered
    BY <1>c
  <2>3. Bytes(file.entries) <= Bytes(file.entries)
    BY <2>1
  <2> QED
    BY <2>1, <2>2, <2>3, Zenon
<1>6. Causes'
  BY <1>1, <1>b, <1>c, <1>e, ManifestAssumption DEF Causes, ErrorsHaveCause, Torn
<1>f. Bytes(file'.entries \o buffered') = Bytes(file.entries \o buffered) + wire_len(e)
  <2>1. file'.entries \o buffered' = Append(file.entries \o buffered, e)
    <3>1. CASE full
      <4>1. (file.entries \o buffered) \o Append(<<>>, e)
              = Append((file.entries \o buffered) \o <<>>, e)
        BY <1>d, ConcatAppend, Zenon
      <4> QED
        BY <1>b, <1>c, <1>d, <3>1, <4>1, Zenon
    <3>2. CASE ~full
      <4>1. file.entries \o Append(buffered, e) = Append(file.entries \o buffered, e)
        BY <1>a, ConcatAppend
      <4> QED
        BY <1>b, <1>c, <3>2, <4>1
    <3> QED
      BY <3>1, <3>2
  <2> QED
    BY <1>d, <2>1, ReadsAppend, Zenon
<1>g. Bytes(file.entries \o buffered) \in Nat
  BY <1>d, BytesGrow
<1>h. ~opening /\ Bytes(file.entries \o buffered) <= bytes_written
  BY <1>1, <1>b DEF ManifestTypeOK, Sizes
<1>i. Bytes(file'.entries \o buffered') <= bytes_written'
  BY <1>a, <1>b, <1>f, <1>g, <1>h
<1>7. Sizes'
  <2>1. ASSUME pc' = "ready" PROVE Bytes(file'.entries \o buffered') <= MaxFileSize
    <3>1. bytes_written + wire_len(e) <= MaxFileSize
      BY <1>a, <1>b, <2>1, ManifestAssumption DEF snapshot_due
    <3> QED
      BY <1>a, <1>f, <1>g, <1>h, <3>1, ManifestAssumption
  <2> QED
    BY <1>i, <2>1 DEF Sizes, FileBounded
<1> QED
  BY <1>3, <1>4, <1>5, <1>6, <1>7 DEF ManifestInv

LEMMA KeepFlush ==
  ASSUME ManifestInv, Flush
  PROVE  ManifestInv'
<1>1. ManifestTypeOK /\ FilesStandForLog /\ SnapshotSteps /\ Causes /\ Sizes
  BY DEF ManifestInv
<1>2. /\ log \in Seq(Entries) /\ buffered \in Seq(Entries) /\ Len(buffered) <= Len(log)
      /\ Len(log) \in Nat /\ Len(buffered) \in Nat
      /\ file \in [entries : Seq(Entries), torn : BOOLEAN] /\ file.entries \in Seq(Entries)
      /\ bytes_written \in Nat /\ opening \in BOOLEAN /\ crashes \in [clean : Nat, cut : Nat]
  BY <1>1 DEF ManifestTypeOK
<1>a. /\ file' = [file EXCEPT !.entries = @ \o buffered] /\ buffered' = <<>>
      /\ snapshot' = snapshot /\ log' = log
  BY DEF Flush, Step
<1>b. /\ file'.torn = file.torn /\ file'.entries = file.entries \o buffered
      /\ file' \in [entries : Seq(Entries), torn : BOOLEAN]
  BY <1>2, <1>a, SeqFacts
<1>c. buffered' \in Seq(Entries) /\ Len(buffered') = 0 /\ file'.entries \o buffered' = file'.entries
  BY <1>2, <1>a, <1>b, SeqFacts
<1>d. /\ Bytes(file.entries) \in Nat /\ Bytes(file'.entries) \in Nat
      /\ Bytes(file.entries) <= Bytes(file'.entries)
  <2>1. Bytes(file.entries) \in Nat /\ Bytes(file.entries) <= Bytes(file.entries \o buffered)
    BY <1>2, BytesGrow, Zenon
  <2>2. file'.entries \in Seq(Entries)
    BY <1>b
  <2>3. Bytes(file'.entries) \in Nat
    BY <2>2, BytesGrow, Zenon
  <2> QED
    BY <1>b, <2>1, <2>3, Zenon
<1>e. /\ pc = "flush" /\ pc' = "read" /\ bytes_written' = bytes_written /\ crashes' = crashes
      /\ delta' = delta /\ opening' = opening /\ result' = result
  BY DEF Flush, Step
<1>3. ManifestTypeOK'
  BY <1>2, <1>a, <1>b, <1>c, <1>e DEF ManifestTypeOK, Steps
<1>4. FilesStandForLog'
  <2> SUFFICES ASSUME snapshot' # Torn, ~file'.torn
               PROVE  StandFor(snapshot', file'.entries, buffered', log')
    BY FilesAre
  <2>1. StandFor(snapshot, file.entries, buffered, log)
    BY <1>1, <1>a, <1>b, FilesAre
  <2>2. StandFor(snapshot, file.entries \o buffered, <<>>, log)
    BY <1>2, <2>1, StandWritten, Zenon
  <2> QED
    BY <1>a, <1>b, <2>2, Zenon
<1>5. SnapshotSteps'
  BY <1>a, <1>e DEF SnapshotSteps, Steps
<1>6. Causes'
  BY <1>1, <1>a, <1>b, <1>d, <1>e, ManifestAssumption DEF Causes, ErrorsHaveCause, Torn
<1>7. Sizes'
  BY <1>1, <1>b, <1>c, <1>e DEF Sizes, FileBounded
<1> QED
  BY <1>3, <1>4, <1>5, <1>6, <1>7 DEF ManifestInv

LEMMA KeepClose ==
  ASSUME ManifestInv, Close
  PROVE  ManifestInv'
<1>1. ManifestTypeOK /\ FilesStandForLog /\ SnapshotSteps /\ Causes /\ Sizes
  BY DEF ManifestInv
<1>2. /\ log \in Seq(Entries) /\ buffered \in Seq(Entries) /\ Len(buffered) <= Len(log)
      /\ Len(log) \in Nat /\ Len(buffered) \in Nat
      /\ file \in [entries : Seq(Entries), torn : BOOLEAN] /\ file.entries \in Seq(Entries)
      /\ bytes_written \in Nat /\ opening \in BOOLEAN /\ crashes \in [clean : Nat, cut : Nat]
  BY <1>1 DEF ManifestTypeOK
<1>a. /\ file' = [file EXCEPT !.entries = @ \o buffered] /\ buffered' = <<>>
      /\ snapshot' = snapshot /\ log' = log
  BY DEF Close
<1>b. /\ file'.torn = file.torn /\ file'.entries = file.entries \o buffered
      /\ file' \in [entries : Seq(Entries), torn : BOOLEAN]
  BY <1>2, <1>a, SeqFacts
<1>c. buffered' \in Seq(Entries) /\ Len(buffered') = 0 /\ file'.entries \o buffered' = file'.entries
  BY <1>2, <1>a, <1>b, SeqFacts
<1>d. /\ Bytes(file.entries) \in Nat /\ Bytes(file'.entries) \in Nat
      /\ Bytes(file.entries) <= Bytes(file'.entries)
  <2>1. Bytes(file.entries) \in Nat /\ Bytes(file.entries) <= Bytes(file.entries \o buffered)
    BY <1>2, BytesGrow, Zenon
  <2>2. file'.entries \in Seq(Entries)
    BY <1>b
  <2>3. Bytes(file'.entries) \in Nat
    BY <2>2, BytesGrow, Zenon
  <2> QED
    BY <1>b, <2>1, <2>3, Zenon
<1>e. /\ pc = "ready" /\ pc' = "down" /\ bytes_written' = 0 /\ crashes' = crashes
      /\ delta' = delta /\ opening' = opening /\ result' = "none"
  BY DEF Close
<1>3. ManifestTypeOK'
  BY <1>2, <1>a, <1>b, <1>c, <1>e DEF ManifestTypeOK, Steps
<1>4. FilesStandForLog'
  <2> SUFFICES ASSUME snapshot' # Torn, ~file'.torn
               PROVE  StandFor(snapshot', file'.entries, buffered', log')
    BY FilesAre
  <2>1. StandFor(snapshot, file.entries, buffered, log)
    BY <1>1, <1>a, <1>b, FilesAre
  <2>2. StandFor(snapshot, file.entries \o buffered, <<>>, log)
    BY <1>2, <2>1, StandWritten, Zenon
  <2> QED
    BY <1>a, <1>b, <2>2, Zenon
<1>5. SnapshotSteps'
  BY <1>e DEF SnapshotSteps, Steps
<1>6. Causes'
  BY <1>1, <1>a, <1>b, <1>e DEF Causes, ErrorsHaveCause, Torn
<1>7. Sizes'
  BY <1>e DEF Sizes, FileBounded
<1> QED
  BY <1>3, <1>4, <1>5, <1>6, <1>7 DEF ManifestInv

LEMMA KeepReadManifest ==
  ASSUME ManifestInv, ReadManifest
  PROVE  ManifestInv'
<1>1. ManifestTypeOK /\ FilesStandForLog /\ SnapshotSteps /\ Causes /\ Sizes
  BY DEF ManifestInv
<1>2. /\ log \in Seq(Entries) /\ buffered \in Seq(Entries) /\ Len(buffered) <= Len(log)
      /\ Len(log) \in Nat /\ Len(buffered) \in Nat
      /\ file \in [entries : Seq(Entries), torn : BOOLEAN] /\ file.entries \in Seq(Entries)
      /\ bytes_written \in Nat /\ opening \in BOOLEAN /\ crashes \in [clean : Nat, cut : Nat]
  BY <1>1 DEF ManifestTypeOK
<1>a. /\ file' = file /\ buffered' = buffered /\ snapshot' = snapshot /\ log' = log
      /\ pc = "read" /\ pc' = "merge" /\ bytes_written' = bytes_written /\ crashes' = crashes
      /\ opening' = opening /\ result' = result /\ delta' = from_manifest(file.entries)
      /\ ~file.torn
  BY DEF ReadManifest, Step, Readable
<1>3. ManifestTypeOK'
  BY <1>2, <1>a DEF ManifestTypeOK, Steps
<1>4. FilesStandForLog'
  BY <1>1, <1>a, FilesAre, Zenon
<1>5. SnapshotSteps'
  BY <1>1, <1>a DEF SnapshotSteps, Steps
<1>6. Causes'
  BY <1>1, <1>a DEF Causes, ErrorsHaveCause, Torn
<1>7. Sizes'
  BY <1>1, <1>a DEF Sizes, FileBounded
<1> QED
  BY <1>3, <1>4, <1>5, <1>6, <1>7 DEF ManifestInv

\* A step of a snapshot that fails, for one of the causes.
LEMMA KeepFail ==
  ASSUME ManifestInv, NEW from, Fail(from), from \in Steps \ {"write"},
         crashes.cut > 0 \/ Bytes(file.entries) > BufSize
  PROVE  ManifestInv'
<1>1. ManifestTypeOK /\ FilesStandForLog /\ SnapshotSteps /\ Causes /\ Sizes
  BY DEF ManifestInv
<1>2. /\ log \in Seq(Entries) /\ buffered \in Seq(Entries) /\ Len(buffered) <= Len(log)
      /\ Len(log) \in Nat /\ Len(buffered) \in Nat
      /\ file \in [entries : Seq(Entries), torn : BOOLEAN] /\ file.entries \in Seq(Entries)
      /\ bytes_written \in Nat /\ opening \in BOOLEAN /\ crashes \in [clean : Nat, cut : Nat]
  BY <1>1 DEF ManifestTypeOK
<1>a. /\ file' = file /\ buffered' = buffered /\ snapshot' = snapshot /\ log' = log
      /\ pc = from /\ bytes_written' = bytes_written /\ crashes' = crashes
      /\ opening' = opening /\ result' = "Err"
      /\ opening => pc' = "down"
      /\ ~opening => pc' = "ready"
  BY DEF Fail, Step
<1>b. pc' = "down" \/ (pc' = "ready" /\ ~opening)
  BY <1>a
<1>3. ManifestTypeOK'
  BY <1>2, <1>a, <1>b DEF ManifestTypeOK, Steps
<1>4. FilesStandForLog'
  BY <1>1, <1>a, FilesAre, Zenon
<1>5. SnapshotSteps'
  BY <1>b DEF SnapshotSteps, Steps
<1>6. Causes'
  BY <1>1, <1>a DEF Causes, ErrorsHaveCause, Torn, Steps
<1>7. Sizes'
  BY <1>1, <1>a, <1>b DEF Sizes, FileBounded, Steps
<1> QED
  BY <1>3, <1>4, <1>5, <1>6, <1>7 DEF ManifestInv

LEMMA KeepReadManifestFails ==
  ASSUME ManifestInv, ReadManifestFails
  PROVE  ManifestInv'
<1>1. ManifestTypeOK /\ Causes
  BY DEF ManifestInv
<1>2. Fail("read") /\ ~Readable(file)
  BY DEF ReadManifestFails
<1>3. file.entries \in Seq(Entries)
  BY <1>1 DEF ManifestTypeOK
<1>4. crashes.cut > 0 \/ Bytes(file.entries) > BufSize
  <2>1. CASE file.torn
    BY <1>1, <2>1 DEF Causes
  <2>2. CASE ~file.torn
    <3>1. PICK i \in DOMAIN file.entries : Cut(file.entries, i)
      BY <1>2, <2>2 DEF Readable
    <3> QED
      BY <1>3, <3>1, CutIsLarge, Zenon
  <2> QED
    BY <2>1, <2>2
<1> QED
  BY <1>2, <1>4, KeepFail DEF Steps

LEMMA KeepMergeSnapshotFails ==
  ASSUME ManifestInv, MergeSnapshotFails
  PROVE  ManifestInv'
<1>1. Fail("merge") /\ snapshot = Torn /\ pc = "merge"
  BY DEF MergeSnapshotFails, Fail, Step
<1>2. crashes.cut > 0
  BY <1>1 DEF ManifestInv, Causes
<1> QED
  BY <1>1, <1>2, KeepFail DEF Steps

LEMMA KeepMergeSnapshot ==
  ASSUME ManifestInv, MergeSnapshot
  PROVE  ManifestInv'
<1>1. ManifestTypeOK /\ FilesStandForLog /\ SnapshotSteps /\ Causes /\ Sizes
  BY DEF ManifestInv
<1>2. /\ log \in Seq(Entries) /\ buffered \in Seq(Entries) /\ Len(buffered) <= Len(log)
      /\ Len(log) \in Nat /\ Len(buffered) \in Nat
      /\ file \in [entries : Seq(Entries), torn : BOOLEAN] /\ file.entries \in Seq(Entries)
      /\ bytes_written \in Nat /\ opening \in BOOLEAN /\ crashes \in [clean : Nat, cut : Nat]
  BY <1>1 DEF ManifestTypeOK
<1>a. /\ file' = file /\ buffered' = buffered /\ snapshot' = Torn /\ log' = log
      /\ pc = "merge" /\ pc' = "write" /\ bytes_written' = bytes_written /\ crashes' = crashes
      /\ opening' = opening /\ result' = result /\ snapshot # Torn
      /\ delta' = IF snapshot = NoFile THEN delta ELSE merge(snapshot, delta)
  BY DEF MergeSnapshot, Step
<1>b. buffered = <<>> /\ ~file.torn /\ delta = from_manifest(file.entries)
  BY <1>1, <1>a DEF SnapshotSteps, Steps
<1>3. ManifestTypeOK'
  BY <1>2, <1>a DEF ManifestTypeOK, Steps
<1>4. FilesStandForLog'
  BY <1>a, FilesAre
<1>c. delta' = With(snapshot, file.entries)
  BY <1>a, <1>b, Zenon DEF With
<1>d. Agree(delta', from_manifest(log))
  <2>1. StandFor(snapshot, file.entries, <<>>, log)
    BY <1>1, <1>a, <1>b, FilesAre
  <2> QED
    BY <1>2, <1>c, <2>1, StandEmpty, Zenon
<1>e. Agree(merge(delta', from_manifest(file.entries)), from_manifest(log))
  <2>1. delta' = from_manifest(file.entries)
          \/ \E old : delta' = merge(old, from_manifest(file.entries))
    BY <1>c, Zenon DEF With
  <2>2. Agree(merge(delta', from_manifest(file.entries)), delta')
    BY <2>1, MergeTwice, Zenon
  <2> QED
    BY <1>d, <2>2, AgreeTrans, Zenon
<1>f. delta'.kind = "Snapshot"
  <2>1. CASE snapshot = NoFile
    <3>1. Len(file.entries) \in 0 .. Len(file.entries)
      BY <1>2, SeqFacts
    <3>2. from_manifest(file.entries).kind = "Snapshot"
      BY <1>2, <3>1, ReplayKind, Zenon DEF from_manifest
    <3> QED
      BY <1>a, <1>b, <2>1, <3>2, Zenon
  <2>2. CASE snapshot # NoFile
    BY <1>a, <2>2, MergeFacts, Zenon DEF Merged
  <2> QED
    BY <2>1, <2>2
<1>5. SnapshotSteps'
  <2>1. buffered' = <<>> /\ ~file'.torn
    BY <1>a, <1>b
  <2>2. /\ Agree(delta', from_manifest(log'))
        /\ Agree(merge(delta', from_manifest(file'.entries)), from_manifest(log'))
    BY <1>a, <1>d, <1>e, Zenon
  <2>3. pc' = "write"
    BY <1>a
  <2> QED
    BY <1>f, <2>1, <2>2, <2>3 DEF SnapshotSteps
<1>6. Causes'
  BY <1>1, <1>a DEF Causes, ErrorsHaveCause
<1>7. Sizes'
  BY <1>1, <1>a DEF Sizes, FileBounded
<1> QED
  BY <1>3, <1>4, <1>5, <1>6, <1>7 DEF ManifestInv

LEMMA KeepWriteSnapshot ==
  ASSUME ManifestInv, WriteSnapshot
  PROVE  ManifestInv'
<1>1. ManifestTypeOK /\ FilesStandForLog /\ SnapshotSteps /\ Causes /\ Sizes
  BY DEF ManifestInv
<1>2. /\ log \in Seq(Entries) /\ buffered \in Seq(Entries) /\ Len(buffered) <= Len(log)
      /\ Len(log) \in Nat /\ Len(buffered) \in Nat
      /\ file \in [entries : Seq(Entries), torn : BOOLEAN] /\ file.entries \in Seq(Entries)
      /\ bytes_written \in Nat /\ opening \in BOOLEAN /\ crashes \in [clean : Nat, cut : Nat]
  BY <1>1 DEF ManifestTypeOK
<1>a. /\ file' = file /\ buffered' = buffered /\ snapshot' = delta /\ log' = log
      /\ pc = "write" /\ pc' = "truncate" /\ bytes_written' = bytes_written /\ crashes' = crashes
      /\ opening' = opening /\ result' = result /\ delta' = delta
  BY DEF WriteSnapshot, Step
<1>b. /\ buffered = <<>> /\ ~file.torn /\ delta.kind = "Snapshot"
      /\ Agree(delta, from_manifest(log))
      /\ Agree(merge(delta, from_manifest(file.entries)), from_manifest(log))
  BY <1>1, <1>a DEF SnapshotSteps, Steps
<1>c. delta # NoFile /\ delta # Torn
  BY <1>b DEF NoFile, Torn
<1>3. ManifestTypeOK'
  BY <1>2, <1>a DEF ManifestTypeOK, Steps
<1>4. FilesStandForLog'
  <2>1. With(delta, file.entries) = merge(delta, from_manifest(file.entries))
    BY <1>c, Zenon DEF With
  <2>2. StandFor(delta, file.entries, <<>>, log)
    BY <1>2, <1>b, <2>1, StandEmpty, Zenon
  <2> QED
    BY <1>a, <1>b, <2>2, FilesAre, Zenon
<1>5. SnapshotSteps'
  <2>1. buffered' = <<>> /\ ~file'.torn /\ snapshot'.kind = "Snapshot" /\ pc' = "truncate"
    BY <1>a, <1>b
  <2>2. Agree(snapshot', from_manifest(log'))
    BY <1>a, <1>b, Zenon
  <2> QED
    BY <2>1, <2>2 DEF SnapshotSteps
<1>6. Causes'
  BY <1>1, <1>a, <1>c DEF Causes, ErrorsHaveCause
<1>7. Sizes'
  BY <1>1, <1>a DEF Sizes, FileBounded
<1> QED
  BY <1>3, <1>4, <1>5, <1>6, <1>7 DEF ManifestInv

LEMMA KeepTruncate ==
  ASSUME ManifestInv, Truncate
  PROVE  ManifestInv'
<1>1. ManifestTypeOK /\ FilesStandForLog /\ SnapshotSteps /\ Causes /\ Sizes
  BY DEF ManifestInv
<1>2. /\ log \in Seq(Entries) /\ buffered \in Seq(Entries) /\ Len(buffered) <= Len(log)
      /\ Len(log) \in Nat /\ Len(buffered) \in Nat
      /\ file \in [entries : Seq(Entries), torn : BOOLEAN] /\ file.entries \in Seq(Entries)
      /\ bytes_written \in Nat /\ opening \in BOOLEAN /\ crashes \in [clean : Nat, cut : Nat]
  BY <1>1 DEF ManifestTypeOK
<1>a. /\ file' = [entries |-> <<>>, torn |-> FALSE] /\ buffered' = buffered
      /\ snapshot' = snapshot /\ log' = log
      /\ pc = "truncate" /\ pc' = "ready" /\ bytes_written' = bytes_written /\ crashes' = crashes
      /\ opening' = FALSE /\ result' = "Ok"
  BY DEF Truncate, Step
<1>b. /\ buffered = <<>> /\ snapshot.kind = "Snapshot"
      /\ Agree(snapshot, from_manifest(log))
  BY <1>1, <1>a DEF SnapshotSteps, Steps
<1>c. snapshot # NoFile /\ snapshot # Torn
  BY <1>b DEF NoFile, Torn
<1>d. /\ <<>> \in Seq(Entries) /\ <<>> \o <<>> = <<>>
      /\ file'.entries = <<>> /\ ~file'.torn /\ file' \in [entries : Seq(Entries), torn : BOOLEAN]
  BY <1>a
<1>3. ManifestTypeOK'
  BY <1>2, <1>a, <1>d DEF ManifestTypeOK, Steps
<1>4. FilesStandForLog'
  <2>1. With(snapshot, <<>>) = merge(snapshot, EmptySnapshot)
    BY <1>c, ReadsNothing, Zenon DEF With
  <2>2. Agree(With(snapshot, <<>>), from_manifest(log))
    BY <1>b, <2>1, MergeEmpty, AgreeTrans, Zenon
  <2>3. StandFor(snapshot, <<>>, <<>>, log)
    BY <1>2, <1>d, <2>2, StandEmpty, Zenon
  <2> QED
    BY <1>a, <1>b, <1>d, <2>3, FilesAre, Zenon
<1>5. SnapshotSteps'
  BY <1>a DEF SnapshotSteps, Steps
<1>6. Causes'
  BY <1>a, <1>c, <1>d DEF Causes, ErrorsHaveCause
<1>7. Sizes'
  <2>1. file'.entries \o buffered' = <<>>
    BY <1>a, <1>b, <1>d
  <2>2. Bytes(file'.entries \o buffered') = 0
    BY <2>1, ReadsNothing, Zenon
  <2> QED
    BY <1>2, <1>a, <2>2, ManifestAssumption DEF Sizes, FileBounded
<1> QED
  BY <1>3, <1>4, <1>5, <1>6, <1>7 DEF ManifestInv

LEMMA KeepCrash ==
  ASSUME ManifestInv, Crash
  PROVE  ManifestInv'
<1>1. ManifestTypeOK /\ FilesStandForLog /\ SnapshotSteps /\ Causes /\ Sizes
  BY DEF ManifestInv
<1>2. /\ log \in Seq(Entries) /\ buffered \in Seq(Entries) /\ Len(buffered) <= Len(log)
      /\ Len(log) \in Nat /\ Len(buffered) \in Nat
      /\ file \in [entries : Seq(Entries), torn : BOOLEAN] /\ file.entries \in Seq(Entries)
      /\ bytes_written \in Nat /\ opening \in BOOLEAN /\ crashes \in [clean : Nat, cut : Nat]
  BY <1>1 DEF ManifestTypeOK
<1>a. /\ file' = file /\ snapshot' = snapshot
      /\ log' = SubSeq(log, 1, Len(log) - Len(buffered))
      /\ pc # "down" /\ pc' = "down" /\ result' = "none" /\ opening' = FALSE
      /\ buffered' = <<>> /\ bytes_written' = 0
  BY DEF Crash, Stop
<1>b. /\ crashes' \in [clean : Nat, cut : Nat]
      /\ crashes'.cut >= crashes.cut /\ (pc = "write" => crashes'.cut > 0)
  BY <1>2 DEF Crash
<1>c. /\ Len(log) - Len(buffered) \in 0 .. Len(log) /\ log' \in Seq(Entries)
      /\ Len(log') \in Nat /\ buffered' \in Seq(Entries) /\ Len(buffered') = 0
  BY <1>2, <1>a, SeqFacts
<1>d. /\ pc' = "down" /\ opening' = FALSE /\ bytes_written' = 0
      /\ file' \in [entries : Seq(Entries), torn : BOOLEAN] /\ Len(buffered') <= Len(log')
  BY <1>2, <1>a, <1>c
<1>3. ManifestTypeOK'
  BY <1>b, <1>c, <1>d DEF ManifestTypeOK
<1>4. FilesStandForLog'
  <2> SUFFICES ASSUME snapshot' # Torn, ~file'.torn
               PROVE  StandFor(snapshot', file'.entries, buffered', log')
    BY FilesAre
  <2>1. StandFor(snapshot, file.entries, buffered, log)
    BY <1>1, <1>a, FilesAre
  <2>2. Agree(With(snapshot, file.entries), from_manifest(log'))
    BY <1>2, <1>a, <2>1, StandNone, Zenon
  <2>3. StandFor(snapshot, file.entries, <<>>, log')
    BY <1>2, <1>c, <2>2, StandEmpty, Zenon
  <2> QED
    BY <1>a, <2>3, Zenon
<1>5. SnapshotSteps'
  BY <1>a DEF SnapshotSteps, Steps
<1>6. Causes'
  BY <1>1, <1>2, <1>a, <1>b DEF Causes, ErrorsHaveCause, Torn
<1>7. Sizes'
  BY <1>a DEF Sizes, FileBounded
<1> QED
  BY <1>3, <1>4, <1>5, <1>6, <1>7 DEF ManifestInv

LEMMA KeepCrashInFlush ==
  ASSUME ManifestInv, NEW n \in 0 .. (Len(buffered) - 1), CrashInFlush(n)
  PROVE  ManifestInv'
<1>1. ManifestTypeOK /\ FilesStandForLog /\ SnapshotSteps /\ Causes /\ Sizes
  BY DEF ManifestInv
<1>2. /\ log \in Seq(Entries) /\ buffered \in Seq(Entries) /\ Len(buffered) <= Len(log)
      /\ Len(log) \in Nat /\ Len(buffered) \in Nat
      /\ file \in [entries : Seq(Entries), torn : BOOLEAN] /\ file.entries \in Seq(Entries)
      /\ bytes_written \in Nat /\ opening \in BOOLEAN /\ crashes \in [clean : Nat, cut : Nat]
  BY <1>1 DEF ManifestTypeOK
<1>a. /\ file' = [entries |-> file.entries \o SubSeq(buffered, 1, n), torn |-> TRUE]
      /\ log' = SubSeq(log, 1, Len(log) - Len(buffered) + n)
      /\ pc' = "down" /\ result' = "none" /\ opening' = FALSE
      /\ buffered' = <<>> /\ bytes_written' = 0 /\ crashes' = [crashes EXCEPT !.cut = @ + 1]
  BY DEF CrashInFlush, Stop
<1>b. crashes' \in [clean : Nat, cut : Nat] /\ crashes'.cut > 0
  <2>1. crashes' = [crashes EXCEPT !.cut = @ + 1] /\ crashes \in [clean : Nat, cut : Nat]
    BY <1>2, <1>a
  <2> QED
    BY <2>1
<1>c. /\ Len(log) - Len(buffered) + n \in 0 .. Len(log) /\ n \in 0 .. Len(buffered)
  BY <1>2
<1>d. /\ SubSeq(log, 1, Len(log) - Len(buffered) + n) \in Seq(Entries)
      /\ SubSeq(buffered, 1, n) \in Seq(Entries) /\ <<>> \in Seq(Entries) /\ Len(<<>>) = 0
  BY <1>2, <1>c, SeqFacts, Zenon
<1>e. log' \in Seq(Entries) /\ buffered' \in Seq(Entries) /\ Len(buffered') = 0
  BY <1>a, <1>d, Zenon
<1>f. PICK s \in Seq(Entries) : file' = [entries |-> s, torn |-> TRUE]
  BY <1>2, <1>a, <1>d, SeqFacts, Zenon
<1>g. file' \in [entries : Seq(Entries), torn : BOOLEAN] /\ file'.torn
  BY <1>f
<1>3. ManifestTypeOK'
  <2>1. Len(buffered') <= Len(log')
    BY <1>e
  <2>2. bytes_written' = 0 /\ pc' = "down" /\ opening' = FALSE
    BY <1>a
  <2> QED
    BY <1>b, <1>e, <1>g, <2>1, <2>2 DEF ManifestTypeOK
<1>4. FilesStandForLog'
  BY <1>g, FilesAre
<1>5. SnapshotSteps'
  BY <1>a DEF SnapshotSteps, Steps
<1>6. Causes'
  BY <1>a, <1>b DEF Causes, ErrorsHaveCause
<1>7. Sizes'
  BY <1>a DEF Sizes, FileBounded
<1> QED
  BY <1>3, <1>4, <1>5, <1>6, <1>7 DEF ManifestInv

LEMMA NextKeeps ==
  ASSUME ManifestInv, [Next]_vars
  PROVE  ManifestInv'
<1>1. CASE UNCHANGED vars
  <2>1. /\ buffered' = buffered /\ bytes_written' = bytes_written /\ file' = file
        /\ snapshot' = snapshot /\ pc' = pc /\ delta' = delta /\ opening' = opening
        /\ result' = result /\ log' = log /\ crashes' = crashes
    BY <1>1 DEF vars
  <2>2. ManifestTypeOK' /\ SnapshotSteps' /\ Causes' /\ Sizes'
    BY <2>1 DEF ManifestInv, ManifestTypeOK, SnapshotSteps, Causes, Sizes, ErrorsHaveCause,
                FileBounded, Torn
  <2>3. FilesStandForLog'
    BY <2>1, FilesAre, Zenon DEF ManifestInv
  <2> QED
    BY <2>2, <2>3 DEF ManifestInv
<1>2. CASE Open
  BY <1>2, KeepOpen
<1>3. ASSUME NEW e \in Entries, AppendEntry(e) PROVE ManifestInv'
  BY <1>3, KeepAppendEntry
<1>4. CASE Flush
  BY <1>4, KeepFlush
<1>5. CASE ReadManifest
  BY <1>5, KeepReadManifest
<1>6. CASE ReadManifestFails
  BY <1>6, KeepReadManifestFails
<1>7. CASE MergeSnapshot
  BY <1>7, KeepMergeSnapshot
<1>8. CASE MergeSnapshotFails
  BY <1>8, KeepMergeSnapshotFails
<1>9. CASE WriteSnapshot
  BY <1>9, KeepWriteSnapshot
<1>10. CASE Truncate
  BY <1>10, KeepTruncate
<1>11. CASE Close
  BY <1>11, KeepClose
<1>12. CASE Crash
  BY <1>12, KeepCrash
<1>13. ASSUME NEW n \in 0 .. (Len(buffered) - 1), CrashInFlush(n) PROVE ManifestInv'
  BY <1>13, KeepCrashInFlush
<1> QED
  BY <1>1, <1>2, <1>3, <1>4, <1>5, <1>6, <1>7, <1>8, <1>9, <1>10, <1>11, <1>12, <1>13 DEF Next

\* Files that stand for the log give it back.
LEMMA InvRecovers ==
  ASSUME ManifestInv
  PROVE  RecoversLog
<1>1. ManifestTypeOK /\ FilesStandForLog
  BY DEF ManifestInv
<1>2. /\ log \in Seq(Entries) /\ buffered \in Seq(Entries) /\ Len(buffered) <= Len(log)
      /\ file.entries \in Seq(Entries) /\ DOMAIN log = 1 .. Len(log)
  BY <1>1 DEF ManifestTypeOK
<1> SUFFICES ASSUME snapshot # Torn, ~file.torn
             PROVE  LET live == InState(Recovered.sstable_state, "Live")
                    IN /\ LiveInLog \subseteq live
                       /\ (\A i \in DOMAIN log : log[i].kind = "Compaction" => Len(log[i].ids) = 1)
                            => live = LiveInLog
                       /\ \A i \in DOMAIN log :
                            (/\ log[i].kind = "StreamUpdate"
                             /\ \A j \in Later(i) : log[j].kind = "StreamUpdate"
                                                      => log[j].stream # log[i].stream)
                            => /\ log[i].stream \in DOMAIN Recovered.labelmaps
                               /\ Recovered.labelmaps[log[i].stream] = log[i].labels
  BY DEF RecoversLog
<1>3. PICK r : r = Recovered
  OBVIOUS
<1>4. PICK l : l = from_manifest(log)
  OBVIOUS
<1>5. Agree(r, l)
  <2>1. StandFor(snapshot, file.entries, buffered, log)
    BY <1>1, FilesAre
  <2>2. Agree(With(snapshot, file.entries \o buffered), from_manifest(log))
    BY <1>2, <2>1, StandAll, Zenon
  <2>3. r = With(snapshot, file.entries \o buffered)
    BY <1>3, Zenon DEF Recovered, RecoveredWith, With
  <2> QED
    BY <1>4, <2>2, <2>3, Zenon
<1>6. /\ Live(r) = Live(l) /\ DOMAIN r.labelmaps = DOMAIN l.labelmaps
      /\ \A s \in DOMAIN r.labelmaps : r.labelmaps[s] = l.labelmaps[s]
  BY <1>5, AgreeIs
<1>7. LiveInLog \subseteq Live(r)
  <2>1. SUFFICES ASSUME NEW id \in LiveInLog PROVE id \in Live(l)
    BY <1>6
  <2>2. PICK i \in DOMAIN log : /\ id = log[i].id /\ log[i].kind = "MemtableFlush"
                                /\ \A j \in Later(i) : ~Compacts(log[j], log[i].id)
    BY DEF LiveInLog
  <2>3. Holds(log, id, i, Len(log))
    BY <1>2, <2>2 DEF Holds, Later
  <2> QED
    BY <1>2, <1>4, <2>3, FlushedIsLive, Zenon
<1>8. ASSUME \A i \in DOMAIN log : log[i].kind = "Compaction" => Len(log[i].ids) = 1
      PROVE  Live(r) \subseteq LiveInLog
  <2>1. SUFFICES ASSUME NEW id \in Live(l) PROVE id \in LiveInLog
    BY <1>6
  <2>2. PICK i : Holds(log, id, i, Len(log))
    BY <1>2, <1>4, <1>8, LiveWasFlushed, Zenon
  <2>3. /\ i \in DOMAIN log /\ log[i].kind = "MemtableFlush" /\ log[i].id = id
        /\ \A j \in Later(i) : ~Compacts(log[j], log[i].id)
    BY <1>2, <2>2 DEF Holds, Later
  <2> QED
    BY <2>3 DEF LiveInLog
<1>9. ASSUME NEW i \in DOMAIN log, log[i].kind = "StreamUpdate",
             \A j \in Later(i) : log[j].kind = "StreamUpdate" => log[j].stream # log[i].stream
      PROVE  /\ log[i].stream \in DOMAIN r.labelmaps
             /\ r.labelmaps[log[i].stream] = log[i].labels
  <2>1. /\ log[i].stream \in DOMAIN l.labelmaps
        /\ l.labelmaps[log[i].stream] = log[i].labels
    BY <1>2, <1>4, <1>9, LabelsAreRead, Zenon DEF Later
  <2> QED
    BY <1>6, <2>1
<1> QED
  BY <1>3, <1>7, <1>8, <1>9, Zenon DEF Live

-----------------------------------------------------------------------------
\* The inductive invariant holds in every state.
THEOREM ManifestInvariant == Spec => []ManifestInv
<1>1. Init => ManifestInv
  BY InitKeeps
<1>2. ManifestInv /\ [Next]_vars => ManifestInv'
  BY NextKeeps
<1> QED
  BY <1>1, <1>2, PTL DEF Spec

(* Recovery gives back the log, wherever the process stopped: the tables     *)
(* that open_snapshotted finds live are those that were flushed and not      *)
(* compacted, and a stream has the labels of its last update.  For all       *)
(* entries, sizes and numbers of crashes.                                    *)
THEOREM RecoversTheLog == Spec => []RecoversLog
<1>1. ManifestInv => RecoversLog
  BY InvRecovers
<1> QED
  BY <1>1, ManifestInvariant, PTL

(* append and open_snapshotted fail only after a crash in the middle of a    *)
(* write, or when the manifest is larger than the buffer of its reader.      *)
THEOREM ErrorsAreCaused == Spec => []ErrorsHaveCause
<1>1. ManifestInv => ErrorsHaveCause
  BY DEF ManifestInv, Causes
<1> QED
  BY <1>1, ManifestInvariant, PTL

(* After an append or an open that succeeded, the manifest is not larger     *)
(* than max_file_size, what is buffered included.                            *)
THEOREM FileStaysBounded == Spec => []FileBounded
<1>1. ManifestInv => FileBounded
  BY DEF ManifestInv, Sizes
<1> QED
  BY <1>1, ManifestInvariant, PTL
=============================================================================
