---------------------------- MODULE RepairProofs ----------------------------
(***************************************************************************)
(* What local repair may and does rebuild, for every group size, every     *)
(* number of fragments and every loss pattern (module Parity); and that    *)
(* the frames a client is sent over a lossy connection are put together    *)
(* from their own fragments, cost a bounded number of NACK rounds and      *)
(* reach the decoder as an unbroken chain, for any sizes, limits and       *)
(* losses (module Repair).                                                 *)
(***************************************************************************)
EXTENDS Repair, SequenceTheorems, FiniteSetTheorems, WellFoundedInduction, TLAPS

(* The client holds fragment i itself, or nothing of it.                    *)
Exact(parts, cnt) ==
  /\ DOMAIN parts = Fragments(cnt)
  /\ \A i \in Fragments(cnt) : parts[i] = {} \/ parts[i] = {i}

(* The XOR over a set of slots is the set of the fragments held there.      *)
LEMMA XorOfHeld ==
  ASSUME NEW cnt \in Nat \ {0}, NEW parts, Exact(parts, cnt),
         NEW S, S \subseteq Fragments(cnt)
  PROVE  XorAll(parts, S) = {j \in S : parts[j] # {}}
<1>1. ASSUME NEW j \in Fragments(cnt), j \in S, parts[j] # {}
      PROVE  Cardinality({i \in S : j \in parts[i]}) % 2 = 1
  <2>1. {i \in S : j \in parts[i]} = {j}  BY <1>1 DEF Exact
  <2>2. Cardinality({i \in S : j \in parts[i]}) = 1  BY <2>1, FS_Singleton, Zenon
  <2> QED  BY <2>2
<1>2. ASSUME NEW j \in Fragments(cnt), ~(j \in S /\ parts[j] # {})
      PROVE  Cardinality({i \in S : j \in parts[i]}) % 2 = 0
  <2>1. {i \in S : j \in parts[i]} = {}  BY <1>2 DEF Exact
  <2>2. Cardinality({i \in S : j \in parts[i]}) = 0  BY <2>1, FS_EmptySet, Zenon
  <2> QED  BY <2>2
<1> QED  BY <1>1, <1>2 DEF XorAll, Exact

(* The only hole of a group whose first row came is rebuilt.                *)
LEMMA OnlyHoleIsRebuilt ==
  ASSUME NEW cnt \in Nat \ {0}, NEW parts, Exact(parts, cnt), NEW p1, NEW p2,
         NEW i \in Fragments(cnt), OnlyHole(parts, cnt, p1, p2, i)
  PROVE  Rebuilt(parts, cnt, p1, p2, i) = {i}
<1> DEFINE M == Members(cnt, GroupOf(i))
<1>1. i \in M /\ M \subseteq Fragments(cnt)  BY DEF Members
<1>2. XorAll(parts, M \ {i}) = {j \in M \ {i} : parts[j] # {}}
  BY <1>1, XorOfHeld
<1>3. \A j \in M \ {i} : parts[j] # {}  BY DEF OnlyHole, Holes
<1>4. XorAll(parts, M \ {i}) = M \ {i}  BY <1>2, <1>3
<1>5. Xor(M, M \ {i}) = {i}  BY <1>1 DEF Xor
<1> QED  BY <1>4, <1>5 DEF Rebuilt, Row1

(* A payload rebuilt from parity is the fragment that was lost: the rows    *)
(* never yield the XOR of two fragments (fragment_parity and tryRepair).    *)
LEMMA RebuiltIsExact ==
  ASSUME NEW cnt \in Nat \ {0}, NEW parts, Exact(parts, cnt), NEW p1, NEW p2,
         NEW i \in Fragments(cnt), parts[i] = {}
  PROVE  Rebuilt(parts, cnt, p1, p2, i) \in {{}, {i}}
<1> DEFINE M == Members(cnt, GroupOf(i))
<1>1. i \in M /\ M \subseteq Fragments(cnt)  BY DEF Members
<1>2. CASE OnlyHole(parts, cnt, p1, p2, i)
  BY <1>2, OnlyHoleIsRebuilt
<1>3. CASE ~OnlyHole(parts, cnt, p1, p2, i) /\ ~OneOfTwoHoles(parts, cnt, p1, p2, i)
  BY <1>3 DEF Rebuilt
<1>4. CASE ~OnlyHole(parts, cnt, p1, p2, i) /\ OneOfTwoHoles(parts, cnt, p1, p2, i)
  <2>1. PICK j \in M \ {i} : Holes(parts, M) = {i, j} /\ OddOffset(i) # OddOffset(j)
    BY <1>4 DEF OneOfTwoHoles
  <2>2. \A k \in M \ {i, j} : parts[k] # {}  BY <2>1 DEF Holes
  <2>3. CASE OddOffset(i)
    <3> DEFINE O == {k \in M \ {i} : OddOffset(k)}
    <3>1. ~OddOffset(j)  BY <2>1, <2>3
    <3>2. \A k \in O : parts[k] # {}  BY <2>2, <3>1
    <3>3. XorAll(parts, O) = {k \in O : parts[k] # {}}  BY <1>1, XorOfHeld
    <3>4. XorAll(parts, O) = O  BY <3>2, <3>3
    <3>5. Row2(cnt, GroupOf(i)) = O \cup {i}  BY <1>1, <2>3 DEF Row2
    <3>6. Xor(O \cup {i}, O) = {i}  BY DEF Xor
    <3>7. Rebuilt(parts, cnt, p1, p2, i) = Xor(Row2(cnt, GroupOf(i)), XorAll(parts, O))
      BY <1>4, <2>3 DEF Rebuilt
    <3> QED  BY <3>4, <3>5, <3>6, <3>7
  <2>4. CASE ~OddOffset(i)
    <3> DEFINE E == {k \in M \ {i} : ~OddOffset(k)}
    <3>1. OddOffset(j)  BY <2>1, <2>4 DEF OddOffset
    <3>2. \A k \in E : parts[k] # {}  BY <2>2, <3>1
    <3>3. XorAll(parts, E) = {k \in E : parts[k] # {}}  BY <1>1, XorOfHeld
    <3>4. XorAll(parts, E) = E  BY <3>2, <3>3
    <3>5. Xor(Row1(cnt, GroupOf(i)), Row2(cnt, GroupOf(i))) = E \cup {i}
      BY <1>1, <2>4 DEF Row1, Row2, Xor
    <3>6. Xor(E \cup {i}, E) = {i}  BY DEF Xor
    <3>7. Rebuilt(parts, cnt, p1, p2, i)
            = Xor(Xor(Row1(cnt, GroupOf(i)), Row2(cnt, GroupOf(i))), XorAll(parts, E))
      BY <1>4, <2>4 DEF Rebuilt
    <3> QED  BY <3>4, <3>5, <3>6, <3>7
  <2> QED  BY <2>3, <2>4
<1> QED  BY <1>2, <1>3, <1>4

LEMMA PassIsExact ==
  ASSUME NEW cnt \in Nat \ {0}, NEW parts, Exact(parts, cnt), NEW p1, NEW p2, NEW S
  PROVE  /\ Exact(RepairAll(parts, cnt, p1, p2, S), cnt)
         /\ \A i \in Fragments(cnt) :
              parts[i] # {} => RepairAll(parts, cnt, p1, p2, S)[i] = parts[i]
BY RebuiltIsExact DEF RepairAll, Exact

(* Repair never corrupts a frame: after it every slot is empty or holds     *)
(* exactly its own fragment, and what had arrived is untouched, whatever    *)
(* was lost and whichever parity rows came (wtcore.ts, tryRepair).          *)
THEOREM RepairIsExact ==
  ASSUME NEW cnt \in Nat \ {0}, NEW parts, Exact(parts, cnt), NEW p1, NEW p2
  PROVE  /\ Exact(TryRepair(parts, cnt, p1, p2), cnt)
         /\ \A i \in Fragments(cnt) :
              parts[i] # {} => TryRepair(parts, cnt, p1, p2)[i] = parts[i]
<1> DEFINE inner == RepairAll(parts, cnt, p1, p2, 0..(cnt - 2))
<1>1. /\ Exact(inner, cnt)
      /\ \A i \in Fragments(cnt) : parts[i] # {} => inner[i] = parts[i]
  BY PassIsExact
<1>2. /\ Exact(RepairAll(inner, cnt, p1, p2, {cnt - 1}), cnt)
      /\ \A i \in Fragments(cnt) :
           inner[i] # {} => RepairAll(inner, cnt, p1, p2, {cnt - 1})[i] = inner[i]
  <2> HIDE DEF inner
  <2> QED  BY <1>1, PassIsExact
<1> QED  BY <1>1, <1>2 DEF TryRepair

(* One lost fragment in each group costs no round trip: with every group's  *)
(* first row the frame is whole, its short last fragment included           *)
(* ("rebuilt locally - no NACK, no RTT", wtcore.ts).                        *)
THEOREM OneHolePerGroupIsRepaired ==
  ASSUME NEW cnt \in Nat \ {0}, NEW parts, Exact(parts, cnt), NEW p1, NEW p2,
         \A i \in Fragments(cnt) : GroupOf(i) \in p1,
         \A i, j \in Fragments(cnt) :
           GroupOf(i) = GroupOf(j) /\ parts[i] = {} /\ parts[j] = {} => i = j
  PROVE  Whole(TryRepair(parts, cnt, p1, p2), cnt)
<1> DEFINE inner == RepairAll(parts, cnt, p1, p2, 0..(cnt - 2))
           last == cnt - 1
<1>1. /\ Exact(inner, cnt)
      /\ \A i \in Fragments(cnt) : parts[i] # {} => inner[i] = parts[i]
  BY PassIsExact
<1>2. ASSUME NEW i \in 0..(cnt - 2)  PROVE inner[i] # {}
  <2>1. i \in Fragments(cnt) /\ i # cnt - 1  BY DEF Fragments
  <2>2. CASE parts[i] # {}  BY <1>1, <2>1, <2>2
  <2>3. CASE parts[i] = {}
    <3>1. Holes(parts, Members(cnt, GroupOf(i))) = {i}
      BY <2>1, <2>3 DEF Holes, Members
    <3>2. OnlyHole(parts, cnt, p1, p2, i)  BY <2>1, <3>1 DEF OnlyHole
    <3>3. Rebuilt(parts, cnt, p1, p2, i) = {i}  BY <2>1, <3>2, OnlyHoleIsRebuilt
    <3> QED  BY <2>1, <2>3, <3>3 DEF RepairAll
  <2> QED  BY <2>2, <2>3
<1>3. last \in Fragments(cnt)  BY DEF Fragments
<1>4. \A i \in Fragments(cnt) : i = last \/ i \in 0..(cnt - 2)  BY DEF Fragments
<1>5. CASE inner[last] # {}
  <2>1. \A i \in Fragments(cnt) : inner[i] # {}  BY <1>2, <1>4, <1>5
  <2> HIDE DEF inner
  <2>2. \A i \in Fragments(cnt) : RepairAll(inner, cnt, p1, p2, {cnt - 1})[i] # {}
    BY <2>1 DEF RepairAll
  <2> QED  BY <2>2 DEF TryRepair, Whole, inner
<1>6. CASE inner[last] = {}
  <2>1. Holes(inner, Members(cnt, GroupOf(last))) = {last}
    BY <1>2, <1>3, <1>4, <1>6 DEF Holes, Members
  <2>2. cnt = 1 \/ 0 \in 0..(cnt - 2)  OBVIOUS
  <2>3. FinalKnown(inner, cnt, p1, p2)  BY <1>2, <1>3, <2>2 DEF FinalKnown
  <2>4. OnlyHole(inner, cnt, p1, p2, last)  BY <1>3, <2>1, <2>3 DEF OnlyHole
  <2> HIDE DEF inner
  <2>5. Rebuilt(inner, cnt, p1, p2, last) = {last}
    BY <1>1, <1>3, <2>4, OnlyHoleIsRebuilt
  <2>6. \A i \in Fragments(cnt) : RepairAll(inner, cnt, p1, p2, {cnt - 1})[i] # {}
    BY <1>2, <1>4, <1>6, <2>5 DEF RepairAll
  <2> QED  BY <2>6 DEF TryRepair, Whole, inner
<1> QED  BY <1>5, <1>6

------------------------------------------------------------------------------

\* Of the parts of a set below each of its numbers, one includes no other.
LEMMA LeastNumber ==
  ASSUME NEW S, S \subseteq Nat, IsFiniteSet(S), S # {}
  PROVE  \E t \in S : \A u \in S : t <= u
<1> DEFINE Upto(t) == {u \in S : u <= t}
           Parts == {Upto(t) : t \in S}
           Less == StrictSubsetOrdering(S)
<1>1. IsWellFoundedOn(Less, SUBSET S)
  BY FS_StrictSubsetOrderingWellFounded, FS_FiniteSubsetsOfFinite
<1>2. Parts \subseteq SUBSET S /\ Parts # {}
  OBVIOUS
<1>3. \E x \in Parts : \A y \in Parts : <<y, x>> \notin Less
  <2> HIDE DEF Parts, Less
  <2>1. QED
    BY <1>1, <1>2, WFMin
<1>4. PICK t \in S : \A u \in S : <<Upto(u), Upto(t)>> \notin Less
  BY <1>3
<1>5. ASSUME NEW u \in S, ~(t <= u) PROVE FALSE
  <2>1. u < t /\ t \in Upto(t) /\ t \notin Upto(u)
    BY <1>5
  <2>2. \A v \in S : v <= u => v <= t
    BY <2>1
  <2>3. <<Upto(u), Upto(t)>> \in Less
    <3>1. Upto(u) \subseteq Upto(t) /\ Upto(u) # Upto(t)
      BY <2>1, <2>2
    <3>2. QED
      BY <3>1, Zenon DEF StrictSubsetOrdering
  <2>4. QED
    BY <1>4, <2>3
<1>6. QED
  BY <1>5

\* What is decoded of an unbroken run is the run, in order.
LEMMA AscendingRun ==
  ASSUME NEW a \in Int, NEW b \in Int, a <= b
  PROVE  /\ Ascending(a..b) \in Seq(a..b) /\ Len(Ascending(a..b)) = b - a + 1
         /\ \A i \in 1..(b - a + 1) : Ascending(a..b)[i] = a + i - 1
<1> DEFINE S == a..b
           Below(m) == {k \in S : k < m}
<1>1. Cardinality(S) = b - a + 1
  BY FS_Interval
<1>2. \A m \in S : Cardinality(Below(m)) = m - a
  <2> TAKE m \in S
  <2>1. Below(m) = a..(m - 1)
    OBVIOUS
  <2>2. m \in Int /\ m - 1 \in Int /\ a <= m
    OBVIOUS
  <2> HIDE DEF Below
  <2>3. Cardinality(a..(m - 1)) = IF a > m - 1 THEN 0 ELSE (m - 1) - a + 1
    BY <2>2, FS_Interval
  <2>4. QED
    BY <2>1, <2>2, <2>3
<1> DEFINE At(i) == CHOOSE m \in S : Cardinality(Below(m)) = i - 1
<1>3. ASSUME NEW i \in 1..(b - a + 1) PROVE At(i) = a + i - 1
  <2> HIDE DEF Below
  <2>1. a + i - 1 \in S /\ Cardinality(Below(a + i - 1)) = i - 1
    BY <1>2
  <2>2. \A m \in S : Cardinality(Below(m)) = i - 1 => m = a + i - 1
    BY <1>2
  <2>3. QED
    BY <2>1, <2>2
<1>4. Ascending(S) = [i \in 1..(b - a + 1) |-> At(i)]
  BY <1>1 DEF Ascending
<1> HIDE DEF At
<1>5. \A i \in 1..(b - a + 1) : At(i) \in S /\ At(i) = a + i - 1
  BY <1>3
<1>6. QED
  BY <1>4, <1>5

Orders == [next: Int, pending: SUBSET Nat, last: Int, far: Nat]

\* What is released is unbroken: from `next` up to the first frame missing.
LEMMA RunIs ==
  ASSUME NEW o \in Orders, o.next \in Nat, NEW n \in Nat, o.pending \subseteq 0..n,
         NEW run, run = {m \in o.pending : m >= o.next /\ \A k \in o.next..m : k \in o.pending /\ ~Replay(o, k)}
  PROVE  run = {} \/ \E b \in Nat : o.next <= b /\ run = o.next..b /\ Max(run) = b
<1> DEFINE a == o.next
           P == o.pending
           end == a + n + 1
           S == {m \in a..end : m \notin run}
<1>1. a \in Nat /\ P \subseteq 0..n /\ end \in Nat /\ end > n /\ end >= a
  OBVIOUS
<1>2. \A m : m \in run <=> m \in P /\ m >= a /\ \A k \in a..m : k \in P /\ ~Replay(o, k)
  OBVIOUS
<1> HIDE DEF a, P, end
<1>3. S \subseteq Nat /\ end \in S
  BY <1>1, <1>2
<1>4. IsFiniteSet(S)
  <2>1. IsFiniteSet(a..end)
    BY <1>1, FS_Interval
  <2>2. S \subseteq a..end
    OBVIOUS
  <2> HIDE DEF S
  <2>3. QED
    BY <2>1, <2>2, FS_Subset
<1>5. PICK t \in S : \A u \in S : t <= u
  BY <1>3, <1>4, LeastNumber
<1>6. t \in Nat /\ t >= a /\ t \notin run
  BY <1>1, <1>5
<1>7. ASSUME NEW m \in run PROVE m \in Nat /\ a <= m /\ m < t
  <2>1. m \in P /\ m >= a /\ m \in Nat
    BY <1>1, <1>2
  <2>2. ASSUME t <= m PROVE FALSE
    <3>1. \A k \in a..t : k \in P /\ ~Replay(o, k)
      BY <1>1, <1>2, <1>6, <2>1, <2>2
    <3>2. t \in run
      BY <1>1, <1>2, <1>6, <3>1
    <3>3. QED
      BY <1>6, <3>2
  <2>3. QED
    BY <1>1, <1>6, <2>1, <2>2
<1>8. \A m \in a..(t - 1) : m \in run
  BY <1>1, <1>5, <1>6
<1>9. run = a..(t - 1)
  BY <1>1, <1>6, <1>7, <1>8
<1>10. CASE t = a
  BY <1>1, <1>9, <1>10
<1>11. CASE t # a
  <2>1. t - 1 \in Nat /\ a <= t - 1
    BY <1>1, <1>6, <1>11
  <2>2. Max(run) = t - 1
    BY <1>9, <2>1 DEF Max
  <2>3. QED
    BY <1>9, <2>1, <2>2 DEF a
<1>12. QED
  BY <1>10, <1>11


LEMMA ForgottenIs ==
  ASSUME NEW o \in Orders
  PROVE  /\ Forgotten(o) \in Orders /\ Forgotten(o).next = None /\ Forgotten(o).pending = {}
         /\ Forgotten(o).last = o.last
<1>1. None \in Int /\ {} \in SUBSET Nat
  BY DEF None
<1>2. \A x \in Int, P \in SUBSET Nat :
        LET q == [o EXCEPT !.next = x, !.pending = P]
        IN q \in Orders /\ q.next = x /\ q.pending = P /\ q.last = o.last
  BY DEF Orders
<1>3. QED
  BY <1>1, <1>2 DEF Forgotten

LEMMA ReleaseIs ==
  ASSUME NEW o \in Orders, o.next \in Nat, NEW n \in Nat, o.pending \subseteq 0..n, NEW f
  PROVE  LET r == Release(o, f)
         IN /\ r.order \in Orders /\ r.order.pending \subseteq o.pending
            /\ r.ready \subseteq o.pending
            /\ \/ /\ r.ready = {} /\ r.order.last = o.last /\ r.order.next \in {o.next, None}
                  /\ o.next \notin o.pending \/ Replay(o, o.next)
               \/ \E b \in Nat : /\ o.next <= b /\ r.ready = o.next..b
                                 /\ r.order.last = b /\ r.order.next \in {b + 1, None}
<1> DEFINE r == Release(o, f)
<1>1. PICK run : run = {m \in o.pending : m >= o.next /\ \A k \in o.next..m : k \in o.pending /\ ~Replay(o, k)}
  OBVIOUS
<1>2. PICK after : after = IF run = {} THEN o
                           ELSE [o EXCEPT !.next = Max(run) + 1, !.pending = @ \ run, !.last = Max(run)]
  OBVIOUS
<1>3. r = [order |-> IF Spent(after, f) THEN Forgotten(after) ELSE after, ready |-> run]
  BY <1>1, <1>2 DEF Release
<1> HIDE DEF r
<1>4. run \subseteq o.pending
  BY <1>1
<1>5. ASSUME run = {} PROVE o.next \notin o.pending \/ Replay(o, o.next)
  BY <1>1, <1>5
<1>6. ASSUME after \in Orders
      PROVE  /\ r.order \in Orders /\ r.order.last = after.last
             /\ r.order.next \in {after.next, None} /\ r.order.pending \subseteq after.pending
             /\ r.ready = run
  BY <1>3, <1>6, ForgottenIs
<1>7. CASE run = {}
  BY <1>2, <1>5, <1>6, <1>7 DEF r
<1>8. CASE run # {}
  <2>1. PICK b \in Nat : o.next <= b /\ run = o.next..b /\ Max(run) = b
    BY <1>1, <1>8, RunIs
  <2>2. after = [o EXCEPT !.next = b + 1, !.pending = @ \ run, !.last = b]
    BY <1>2, <1>8, <2>1
  <2>3. /\ after \in Orders /\ after.next = b + 1 /\ after.last = b
        /\ after.pending \subseteq o.pending
    <3>1. o.pending \ run \in SUBSET Nat /\ b + 1 \in Int /\ b \in Int /\ o.far \in Nat
      BY DEF Orders
    <3>2. after = [next |-> b + 1, pending |-> o.pending \ run, last |-> b, far |-> o.far]
      BY <2>2 DEF Orders
    <3>3. QED
      BY <3>1, <3>2 DEF Orders
  <2>4. QED
    BY <1>4, <1>6, <2>1, <2>3 DEF r
<1>9. QED
  BY <1>7, <1>8

\* The orderer waits for the successor of what it released last, or for a key.
Ordered(o) ==
  /\ o \in Orders /\ o.pending \subseteq Sent /\ o.last >= None
  /\ o.next # None => o.last \in Nat /\ o.next = o.last + 1

\* What it releases next is a run that a keyframe begins, or that follows.
Continues(o, r) ==
  \/ r.ready = {} /\ r.order.last = o.last
  \/ \E a \in Nat, b \in Nat :
       /\ a <= b /\ r.ready = a..b /\ a > o.last /\ r.order.last = b
       /\ Key(a) \/ (o.last \in Nat /\ a = o.last + 1)

LEMMA AcceptIs ==
  ASSUME NEW o, Ordered(o), NEW f \in Sent, NEW n \in Nat, Len(film) = n
  PROVE  LET r == Accept(o, f)
         IN Ordered(r.order) /\ Continues(o, r) /\ r.ready \subseteq Sent
<1> DEFINE Good(r) == Ordered(r.order) /\ Continues(o, r) /\ r.ready \subseteq Sent
<1>1. /\ o \in Orders /\ o.next \in Int /\ o.last \in Int /\ o.far \in Nat
      /\ o.pending \subseteq Sent /\ Sent \subseteq Nat /\ f \in Nat
      /\ Sent = 0..(n - 1) /\ n - 1 \in Nat
  BY DEF Ordered, Orders, Sent
<1>2. ASSUME NEW q \in Orders, q.last = o.last, q.pending \subseteq Sent, q.next \in {o.next, None}
      PROVE  Good(Holding(q))
  BY <1>1, <1>2 DEF Holding, Ordered, Continues, None
<1>3. Good(Holding(o))
  BY <1>1, <1>2
<1>4. Good(Holding(Forgotten(o)))
  BY <1>1, <1>2, ForgottenIs
\* A release from a place that is right for its first frame.
<1>5. ASSUME NEW q \in Orders, q.next \in Nat, q.pending \subseteq Sent, q.last = o.last,
             q.next > o.last, Key(q.next) \/ (o.last \in Nat /\ q.next = o.last + 1),
             q.next = o.next \/ (q.next \in q.pending /\ ~Replay(q, q.next))
      PROVE  Good(Release(q, f))
  <2>1. PICK r : r = Release(q, f)
    OBVIOUS
  <2>2. /\ r.order \in Orders /\ r.order.pending \subseteq q.pending
        /\ r.ready \subseteq q.pending
        /\ \/ /\ r.ready = {} /\ r.order.last = q.last /\ r.order.next \in {q.next, None}
              /\ q.next \notin q.pending \/ Replay(q, q.next)
           \/ \E b \in Nat : /\ q.next <= b /\ r.ready = q.next..b
                             /\ r.order.last = b /\ r.order.next \in {b + 1, None}
    BY <1>1, <1>5, <2>1, ReleaseIs
  <2>3. r.ready \subseteq Sent /\ r.order.pending \subseteq Sent
    BY <1>5, <2>2
  <2>4. CASE \E b \in Nat : /\ q.next <= b /\ r.ready = q.next..b
                            /\ r.order.last = b /\ r.order.next \in {b + 1, None}
    <3>1. PICK b \in Nat : /\ q.next <= b /\ r.ready = q.next..b
                           /\ r.order.last = b /\ r.order.next \in {b + 1, None}
      BY <2>4
    <3>2. Ordered(r.order)
      BY <2>2, <2>3, <3>1 DEF Ordered, None
    <3>3. Continues(o, r)
      BY <1>5, <3>1 DEF Continues
    <3>4. QED
      BY <2>1, <2>3, <3>2, <3>3
  <2>5. CASE /\ r.ready = {} /\ r.order.last = q.last /\ r.order.next \in {q.next, None}
             /\ q.next \notin q.pending \/ Replay(q, q.next)
    <3>1. q.next = o.next
      BY <1>5, <2>5
    <3>2. Ordered(r.order)
      BY <1>1, <1>5, <2>2, <2>3, <2>5, <3>1 DEF Ordered, None
    <3>3. Continues(o, r)
      BY <1>5, <2>5 DEF Continues
    <3>4. QED
      BY <2>1, <2>3, <3>2, <3>3
  <2>6. QED
    BY <2>2, <2>4, <2>5
<1>6. CASE Key(f)
  <2>1. CASE Replay(o, f)
    BY <1>3, <1>6, <2>1 DEF Accept, AcceptKey
  <2>2. CASE ~Replay(o, f)
    <3>1. PICK early : early = {m \in o.pending : Plausible(m, f, MaxHeld)}
      OBVIOUS
    <3>2. PICK q : q = [o EXCEPT !.next = f, !.far = 0, !.pending = early \cup {f}]
      OBVIOUS
    <3>3. Accept(o, f) = Release(q, f)
      BY <1>6, <2>2, <3>1, <3>2 DEF Accept, AcceptKey
    <3>4. /\ q \in Orders /\ q.next = f /\ q.last = o.last /\ q.pending \subseteq Sent
          /\ f \in q.pending
      <4>1. early \cup {f} \subseteq Sent /\ early \cup {f} \in SUBSET Nat /\ f \in early \cup {f}
        BY <1>1, <3>1
      <4>2. PICK P \in SUBSET Nat : P = early \cup {f}
        BY <4>1
      <4>3. q = [o EXCEPT !.next = f, !.far = 0, !.pending = P]
        BY <3>2, <4>2
      <4>4. q.next = f /\ q.last = o.last /\ q.pending = P
        BY <4>3 DEF Orders
      <4>5. q \in Orders
        <5>1. P \in SUBSET Nat /\ f \in Int /\ 0 \in Nat /\ o.last \in Int
          BY <1>1, <4>2
        <5>2. q = [next |-> f, pending |-> P, last |-> o.last, far |-> 0]
          BY <1>1, <4>3 DEF Orders
        <5>3. QED
          BY <5>1, <5>2 DEF Orders
      <4>6. QED
        BY <4>1, <4>2, <4>4, <4>5
    <3>5. f > o.last /\ ~Replay(q, f)
      BY <1>1, <2>2, <3>4 DEF Replay
    <3>6. QED
      BY <1>1, <1>5, <1>6, <3>3, <3>4, <3>5
  <2>3. QED
    BY <2>1, <2>2
<1>7. CASE ~Key(f)
  <2>1. CASE o.next = None
    <3>1. PICK q : q = HoldUnanchored(o, f)
      OBVIOUS
    <3>2. q \in Orders /\ q.last = o.last /\ q.next = o.next /\ q.pending \subseteq Sent
      <4>1. CASE q = o
        BY <1>1, <4>1
      <4>2. CASE q = [o EXCEPT !.pending = @ \cup {f}]
        BY <1>1, <4>2 DEF Orders
      <4>3. CASE q = [o EXCEPT !.pending = (@ \ {Min(@)}) \cup {f}]
        BY <1>1, <4>3 DEF Orders
      <4>4. QED
        BY <3>1, <4>1, <4>2, <4>3 DEF HoldUnanchored
    <3>3. Good(Holding(q))
      BY <1>2, <3>2
    <3>4. QED
      BY <1>3, <1>7, <2>1, <3>1, <3>3 DEF Accept, AcceptDelta
  <2>2. CASE o.next # None /\ f < o.next
    <3>1. Accept(o, f) = Holding(o)
      BY <1>1, <1>7, <2>2 DEF Accept, AcceptDelta
    <3>2. QED
      BY <1>3, <3>1
  <2>3. CASE o.next # None /\ f >= o.next /\ Spent(o, f)
    BY <1>1, <1>4, <1>7, <2>3 DEF Accept, AcceptDelta
  <2>4. CASE o.next # None /\ f >= o.next /\ ~Spent(o, f) /\ ~Plausible(f, o.next, 0)
    <3>1. PICK q : q = IF o.far < Horizon THEN [o EXCEPT !.far = @ + 1]
                       ELSE [Forgotten(o) EXCEPT !.far = 0]
      OBVIOUS
    <3>2. Accept(o, f) = Holding(q)
      BY <1>1, <1>7, <2>4, <3>1 DEF Accept, AcceptDelta
    <3>3. q \in Orders /\ q.last = o.last /\ q.next \in {o.next, None} /\ q.pending \subseteq Sent
      <4>1. CASE q = [o EXCEPT !.far = @ + 1]
        BY <1>1, <4>1 DEF Orders
      <4>2. CASE q = [Forgotten(o) EXCEPT !.far = 0]
        BY <1>1, <4>2, ForgottenIs DEF Orders
      <4>3. QED
        BY <3>1, <4>1, <4>2
    <3>4. QED
      BY <1>2, <3>2, <3>3
  <2>5. CASE o.next # None /\ f >= o.next /\ ~Spent(o, f) /\ Plausible(f, o.next, 0)
    <3>1. PICK q : q = [o EXCEPT !.far = 0, !.pending = @ \cup {f}]
      OBVIOUS
    <3>2. Accept(o, f) = Release(q, f)
      BY <1>1, <1>7, <2>5, <3>1 DEF Accept, AcceptDelta
    <3>3. q \in Orders /\ q.next = o.next /\ q.last = o.last /\ q.pending \subseteq Sent
      BY <1>1, <3>1 DEF Orders
    <3>4. q.next \in Nat /\ q.next > o.last /\ o.last \in Nat /\ q.next = o.last + 1
      BY <2>5, <3>3 DEF Ordered
    <3>5. QED
      BY <1>5, <3>2, <3>3, <3>4
  <2>6. QED
    BY <1>1, <2>1, <2>2, <2>3, <2>4, <2>5
<1>8. QED
  BY <1>6, <1>7

------------------------------------------------------------------------------
(* What is on its way, or remembered to be sent again, was encoded.         *)
SentInv ==
  /\ film \in Seq([key: BOOLEAN, cnt: Nat \ {0}]) /\ Len(film) <= LastFrame + 1
  /\ \A e \in cache : e[1] \in Sent
  /\ \A d \in air : d[1] \in Sent /\ d[2] \in {0, 1, 2}
  /\ wire \subseteq Sent

LEMMA Bounds ==
  /\ LastFrame \in Nat /\ MaxRounds \in Nat
  /\ KeySizes \subseteq Nat \ {0} /\ DeltaSizes \subseteq Nat \ {0}
  BY RepairBounds

LEMMA SentIsFrame ==
  ASSUME SentInv
  PROVE  /\ Len(film) \in Nat /\ Sent \subseteq Frames /\ Frames \subseteq Nat
         /\ Sent = 0..(Len(film) - 1)
<1>1. Len(film) \in Nat
  BY LenProperties DEF SentInv
<1>2. QED
  BY <1>1, Bounds DEF SentInv, Sent, Frames

LEMMA SentStarts == Init => SentInv
  BY Bounds DEF Init, SentInv

LEMMA FilmGrows ==
  ASSUME SentInv, NEW e \in [key: BOOLEAN, cnt: Nat \ {0}], Len(film) <= LastFrame, film' = Append(film, e)
  PROVE  /\ film' \in Seq([key: BOOLEAN, cnt: Nat \ {0}]) /\ Len(film') <= LastFrame + 1
         /\ Sent' = Sent \cup {Len(film)}
         /\ \A g \in Sent : Key(g)' = Key(g) /\ Cnt(g)' = Cnt(g)
         /\ \A g : g = Len(film) => Cnt(g)' = e.cnt
<1>1. Len(film) \in Nat
  BY SentIsFrame
<1>2. /\ film' \in Seq([key: BOOLEAN, cnt: Nat \ {0}]) /\ Len(film') = Len(film) + 1
      /\ \A i \in 1..Len(film) : film'[i] = film[i]
      /\ film'[Len(film) + 1] = e
  BY AppendProperties DEF SentInv
<1>3. \A g \in Sent : g + 1 \in 1..Len(film)
  BY <1>1 DEF Sent
<1>4. \A g \in Sent : Key(g)' = Key(g) /\ Cnt(g)' = Cnt(g)
  BY <1>2, <1>3 DEF Key, Cnt
<1>5. \A g : g = Len(film) => Cnt(g)' = e.cnt
  BY <1>2 DEF Cnt
<1>6. Len(film') <= LastFrame + 1 /\ Sent' = Sent \cup {Len(film)}
  BY <1>1, <1>2, Bounds DEF Sent
<1>7. QED
  BY <1>2, <1>4, <1>5, <1>6

LEMMA SentKept == SentInv /\ [Next]_vars => SentInv'
<1> SUFFICES ASSUME SentInv, [Next]_vars PROVE SentInv'
  OBVIOUS
<1>1. ASSUME NEW key \in BOOLEAN, NEW copy \in BOOLEAN, NEW cnt \in Sizes(key), NEW k \in 0..cnt,
             Encode(key, cnt, copy, k)
      PROVE  SentInv'
  <2> DEFINE n == Len(film)
  <2>1. n \in Nat /\ n <= LastFrame
    BY <1>1, SentIsFrame, Bounds DEF Encode
  <2>2. cnt \in Nat \ {0}
    BY Bounds DEF Sizes
  <2>3. film' = Append(film, [key |-> key, cnt |-> cnt])
    BY <1>1 DEF Encode
  <2>4. /\ film' \in Seq([key: BOOLEAN, cnt: Nat \ {0}]) /\ Len(film') <= LastFrame + 1
        /\ Sent' = Sent \cup {n}
    BY <2>1, <2>2, <2>3, FilmGrows
  <2>5. \A e \in cache' : e \in cache \/ e[1] = n
    BY <1>1 DEF Encode, Remembered
  <2>6. \A d \in air' : d \in air \/ (d[1] = n /\ d[2] \in {0, 1, 2})
    <3>1. \A S : \A d \in Data(n, S) : d[1] = n /\ d[2] = 0
      BY DEF Data
    <3>2. \A d \in ParityOf(n, key, cnt) : d[1] = n /\ d[2] \in {1, 2}
      BY DEF ParityOf
    <3>3. PICK S : air' \subseteq air \cup Data(n, S) \cup ParityOf(n, key, cnt)
      BY <1>1 DEF Encode
    <3>4. QED
      BY <3>1, <3>2, <3>3
  <2>7. wire' \subseteq wire \cup {n}
    BY <1>1 DEF Encode
  <2>8. QED
    BY <2>4, <2>5, <2>6, <2>7 DEF SentInv
<1>2. CASE SkipFrame
  <2>1. [key |-> FALSE, cnt |-> 1] \in [key: BOOLEAN, cnt: Nat \ {0}]
    OBVIOUS
  <2>2. QED
    BY <1>2, <2>1, FilmGrows DEF SkipFrame, SentInv
<1>3. ASSUME NEW a \in asks, AnswerNack(a) PROVE SentInv'
  <2>1. /\ \A d \in air' : d \in air \/ \E e \in cache : d = <<e[1], 0, e[2]>>
        /\ UNCHANGED <<film, cache, wire>>
    BY <1>3 DEF AnswerNack, Wanted
  <2>2. Sent' = Sent
    BY <2>1 DEF Sent
  <2>3. QED
    BY <2>1, <2>2 DEF SentInv
<1>4. CASE ClientStep
  <2>1. UNCHANGED hostVars /\ air' \subseteq air /\ wire' \subseteq wire
    BY <1>4 DEF ClientStep, Fragment, StreamFrame
  <2>2. Sent' = Sent
    BY <2>1 DEF Sent, hostVars
  <2>3. QED
    BY <2>1, <2>2 DEF SentInv, hostVars
<1>5. CASE UNCHANGED vars
  <2>1. Sent' = Sent
    BY <1>5 DEF Sent, vars, hostVars
  <2>2. QED
    BY <1>5, <2>1 DEF SentInv, vars, hostVars
<1>6. QED
  BY <1>1, <1>2, <1>3, <1>4, <1>5 DEF Next, HostStep

\* Every client step takes a frame that was sent.
LEMMA ClientTakes ==
  ASSUME SentInv, ClientStep
  PROVE  \/ \E f \in Sent, row \in {0, 1, 2} : \E i : Fragment(f, row, i)
         \/ \E f \in Sent : StreamFrame(f)
  BY DEF ClientStep, SentInv

------------------------------------------------------------------------------
(* Rounds.  The count in an assembly is what the frame has cost; one that   *)
(* is neither assembled nor buried has cost nothing.                        *)
IsAssembly(st) ==
  /\ st = [parts |-> st.parts, p1 |-> st.p1, p2 |-> st.p2, nacks |-> st.nacks]
  /\ st.nacks \in Nat

Agree(a, spent, buried) ==
  /\ a = [g \in Frames |-> a[g]] /\ spent \in [Frames -> Nat]
  /\ \A g \in Frames :
       /\ spent[g] <= MaxRounds
       /\ a[g] = NoAssembly => g \in buried \/ spent[g] = 0
       /\ a[g] # NoAssembly => IsAssembly(a[g]) /\ a[g].nacks = spent[g]

RoundsInv == Agree(asm, rounds, tomb)

LEMMA RoundsStart == Init => RoundsInv
  BY Bounds DEF Init, RoundsInv, Agree

LEMMA AssemblyIsThere ==
  ASSUME NEW st, IsAssembly(st) PROVE st # NoAssembly
<1>1. DOMAIN st = {"parts", "p1", "p2", "nacks"}
  BY DEF IsAssembly
<1>2. DOMAIN NoAssembly = {}
  BY DEF NoAssembly
<1>3. QED
  BY <1>1, <1>2

LEMMA FreshIs == ASSUME NEW f PROVE IsAssembly(Fresh(f)) /\ Fresh(f).nacks = 0
  BY DEF IsAssembly, Fresh

LEMMA JoinedIs ==
  ASSUME NEW st, IsAssembly(st), NEW row \in {0, 1, 2}, NEW i, NEW f
  PROVE  /\ IsAssembly(Repaired(Joined(st, row, i), f))
         /\ Repaired(Joined(st, row, i), f).nacks = st.nacks
<1>1. IsAssembly(Joined(st, row, i)) /\ Joined(st, row, i).nacks = st.nacks
  <2>1. CASE row = 0
    <3>1. PICK parts : parts = [st.parts EXCEPT ![i] = {i}]
      OBVIOUS
    <3>2. Joined(st, row, i) = [st EXCEPT !.parts = parts]
      BY <2>1, <3>1 DEF Joined
    <3>3. QED
      BY <3>2 DEF IsAssembly
  <2>2. CASE row = 1
    BY <2>2 DEF Joined, IsAssembly
  <2>3. CASE row = 2
    BY <2>3 DEF Joined, IsAssembly
  <2>4. QED
    BY <2>1, <2>2, <2>3
<1>2. PICK q : q = Joined(st, row, i)
  OBVIOUS
<1>3. PICK parts : parts = TryRepair(q.parts, Cnt(f), q.p1, q.p2)
  OBVIOUS
<1>4. Repaired(q, f) = [q EXCEPT !.parts = parts]
  BY <1>3 DEF Repaired
<1>5. IsAssembly(Repaired(q, f)) /\ Repaired(q, f).nacks = q.nacks
  BY <1>1, <1>2, <1>4 DEF IsAssembly
<1>6. QED
  BY <1>1, <1>2, <1>5

\* The scan: a round is counted in both places, or in neither.
LEMMA ScanAgrees ==
  ASSUME RoundsInv, NEW gone \in SUBSET Assembling, NEW again \in SUBSET (Assembling \ gone),
         Scan(gone, again)
  PROVE  Agree(AfterScan(gone, again), rounds', tomb \cup gone)
<1> DEFINE a == AfterScan(gone, again)
<1>1. a = [g \in Frames |-> a[g]]
  BY DEF AfterScan
<1>2. ASSUME NEW g \in Frames
      PROVE  /\ rounds'[g] \in Nat /\ rounds'[g] <= MaxRounds
             /\ a[g] = NoAssembly => g \in tomb \cup gone \/ rounds'[g] = 0
             /\ a[g] # NoAssembly => IsAssembly(a[g]) /\ a[g].nacks = rounds'[g]
  <2>1. /\ rounds[g] \in Nat /\ rounds[g] <= MaxRounds
        /\ asm[g] = NoAssembly => g \in tomb \/ rounds[g] = 0
        /\ asm[g] # NoAssembly => IsAssembly(asm[g]) /\ asm[g].nacks = rounds[g]
    BY DEF RoundsInv, Agree
  <2>2. rounds'[g] = IF g \in again THEN rounds[g] + 1 ELSE rounds[g]
    BY DEF Scan
  <2>3. a[g] = IF g \in gone THEN NoAssembly
               ELSE IF g \in again THEN [asm[g] EXCEPT !.nacks = @ + 1] ELSE asm[g]
    BY DEF AfterScan
  <2>4. CASE g \in again
    <3>1. g \notin gone /\ asm[g] # NoAssembly /\ asm[g].nacks < MaxRounds
      BY <2>4 DEF Scan, MayAsk, Assembling
    <3>2. a[g] = [asm[g] EXCEPT !.nacks = @ + 1]
      BY <2>3, <2>4, <3>1
    <3>3. IsAssembly(a[g]) /\ a[g].nacks = asm[g].nacks + 1
      <4>1. PICK st : st = asm[g]
        OBVIOUS
      <4>2. IsAssembly(st)
        BY <2>1, <3>1, <4>1
      <4>3. a[g] = [st EXCEPT !.nacks = @ + 1]
        BY <3>2, <4>1
      <4>4. QED
        BY <4>1, <4>2, <4>3 DEF IsAssembly
    <3>4. asm[g].nacks \in Nat
      BY <2>1, <3>1 DEF IsAssembly
    <3>5. QED
      BY <2>1, <2>2, <2>4, <3>1, <3>3, <3>4, AssemblyIsThere, Bounds
  <2>5. CASE g \notin again
    BY <2>1, <2>2, <2>3, <2>5
  <2>6. QED
    BY <2>4, <2>5
<1>3. rounds' \in [Frames -> Nat]
  <2>1. rounds' = [g \in Frames |-> IF g \in again THEN rounds[g] + 1 ELSE rounds[g]]
    BY DEF Scan
  <2>2. QED
    BY <1>2, <2>1
<1> HIDE DEF a
<1>4. QED
  BY <1>1, <1>2, <1>3 DEF Agree, a

\* The fragment: what is given up is buried, what is whole as well.
LEMMA AssembleAgrees ==
  ASSUME NEW f \in Frames, NEW row \in {0, 1, 2}, NEW i, NEW a, NEW spent, NEW buried,
         Agree(a, spent, buried), f \notin buried, Assemble(f, row, i, a, buried)
  PROVE  Agree(asm', spent, tomb')
<1>1. PICK victims : victims = Victims(a, f)
  OBVIOUS
<1>2. PICK base : base = IF a[f] = NoAssembly THEN Fresh(f) ELSE a[f]
  OBVIOUS
<1>3. IsAssembly(base) /\ base.nacks = spent[f]
  BY <1>2, FreshIs DEF Agree
<1>4. PICK st : st = Repaired(Joined(base, row, i), f)
  OBVIOUS
<1>5. IsAssembly(st) /\ st.nacks = spent[f] /\ st # NoAssembly
  BY <1>3, <1>4, JoinedIs, AssemblyIsThere
<1>6. PICK rest : rest = [g \in Frames |-> IF g \in victims THEN NoAssembly ELSE a[g]]
  OBVIOUS
<1>7. \/ asm' = rest /\ tomb' = buried \cup victims
      \/ asm' = [rest EXCEPT ![f] = NoAssembly] /\ tomb' = buried \cup victims \cup {f}
      \/ asm' = [rest EXCEPT ![f] = st] /\ tomb' = buried \cup victims
  BY <1>1, <1>2, <1>4, <1>6 DEF Assemble, Buried
<1>8. Agree(rest, spent, buried \cup victims)
  BY <1>6 DEF Agree
<1>9. CASE asm' = rest /\ tomb' = buried \cup victims
  BY <1>8, <1>9
<1>10. CASE asm' = [rest EXCEPT ![f] = NoAssembly] /\ tomb' = buried \cup victims \cup {f}
  BY <1>8, <1>10 DEF Agree
<1>11. CASE asm' = [rest EXCEPT ![f] = st] /\ tomb' = buried \cup victims
  BY <1>5, <1>8, <1>11 DEF Agree
<1>12. QED
  BY <1>7, <1>9, <1>10, <1>11

LEMMA RoundsKept == SentInv /\ RoundsInv /\ [Next]_vars => RoundsInv'
<1> SUFFICES ASSUME SentInv, RoundsInv, [Next]_vars PROVE RoundsInv'
  OBVIOUS
<1>1. ASSUME UNCHANGED <<asm, rounds, tomb>> PROVE RoundsInv'
  BY <1>1 DEF RoundsInv, Agree
<1>2. CASE HostStep
  <2>1. UNCHANGED <<asm, rounds, tomb>>
    BY <1>2 DEF HostStep, Encode, SkipFrame, AnswerNack, clientVars
  <2>2. QED
    BY <1>1, <2>1
<1>3. ASSUME NEW f \in Sent, NEW row \in {0, 1, 2}, NEW i, Fragment(f, row, i) PROVE RoundsInv'
  <2>1. CASE f \in tomb
    BY <1>1, <1>3, <2>1 DEF Fragment
  <2>2. CASE f \notin tomb
    <3>1. PICK gone, again :
            /\ gone \in SUBSET Assembling /\ again \in SUBSET (Assembling \ gone)
            /\ Scan(gone, again)
            /\ IF f \in gone
               THEN asm' = AfterScan(gone, again) /\ tomb' = tomb \cup Buried(gone)
               ELSE Assemble(f, row, i, AfterScan(gone, again), tomb \cup Buried(gone))
      BY <1>3, <2>2 DEF Fragment
    <3>2. PICK a : a = AfterScan(gone, again)
      OBVIOUS
    <3>3. PICK buried : buried = tomb \cup gone
      OBVIOUS
    <3>4. PICK spent : spent = rounds'
      OBVIOUS
    <3>5. Agree(a, spent, buried)
      BY <3>1, <3>2, <3>3, <3>4, ScanAgrees
    <3>6. CASE f \in gone
      BY <3>1, <3>2, <3>3, <3>4, <3>5, <3>6 DEF RoundsInv, Buried
    <3>7. CASE f \notin gone
      <4>1. Assemble(f, row, i, a, buried) /\ f \in Frames /\ f \notin buried
        BY <2>2, <3>1, <3>2, <3>3, <3>7, SentIsFrame DEF Buried
      <4>2. Agree(asm', spent, tomb')
        BY <3>5, <4>1, AssembleAgrees
      <4>3. QED
        BY <3>4, <4>2 DEF RoundsInv
    <3>8. QED
      BY <3>6, <3>7
  <2>3. QED
    BY <2>1, <2>2
<1>4. ASSUME NEW f \in Sent, StreamFrame(f) PROVE RoundsInv'
  <2>1. CASE Duplicate(f)
    BY <1>1, <1>4, <2>1 DEF StreamFrame
  <2>2. CASE ~Duplicate(f)
    <3>1. asm' = [asm EXCEPT ![f] = NoAssembly] /\ tomb' = tomb \cup {f} /\ rounds' = rounds
      BY <1>4, <2>2 DEF StreamFrame
    <3>2. QED
      BY <3>1 DEF RoundsInv, Agree
  <2>3. QED
    BY <2>1, <2>2
<1>5. CASE UNCHANGED vars
  BY <1>1, <1>5 DEF vars, clientVars
<1>6. QED
  BY <1>2, <1>3, <1>4, <1>5, ClientTakes DEF Next

(* A frame costs at most MaxRounds rounds of NACKs, for any sizes, limits   *)
(* and losses: what is given up stays buried.                               *)
THEOREM RepairIsBounded == Spec => []RoundsBounded
<1>1. RoundsInv => RoundsBounded
  BY DEF RoundsInv, Agree, RoundsBounded
<1>2. Spec => [](SentInv /\ RoundsInv)
  BY SentStarts, SentKept, RoundsStart, RoundsKept, PTL DEF Spec
<1>3. QED
  BY <1>1, <1>2, PTL

------------------------------------------------------------------------------
(* Fragments.  What is on its way is a fragment of its frame, and a frame   *)
(* under assembly holds its own fragments, each in its place.               *)
FragmentsInv ==
  /\ \A e \in cache : e[2] \in Fragments(Cnt(e[1]))
  /\ \A d \in air : d[2] = 0 => d[3] \in Fragments(Cnt(d[1]))

SlotsInv ==
  \A g \in Frames : asm[g] # NoAssembly => g \in Sent /\ Exact(asm[g].parts, Cnt(g))

LEMMA CountIs == ASSUME SentInv, NEW f \in Sent PROVE Cnt(f) \in Nat \ {0}
<1>1. f + 1 \in 1..Len(film)
  BY SentIsFrame DEF Sent
<1>2. film[f + 1] \in [key: BOOLEAN, cnt: Nat \ {0}]
  BY <1>1, ElementOfSeq DEF SentInv
<1>3. QED
  BY <1>2 DEF Cnt

LEMMA FragmentsStart == Init => FragmentsInv /\ SlotsInv
  BY DEF Init, FragmentsInv, SlotsInv

LEMMA FragmentsKept == SentInv /\ FragmentsInv /\ [Next]_vars => FragmentsInv'
<1> SUFFICES ASSUME SentInv, FragmentsInv, [Next]_vars PROVE FragmentsInv'
  OBVIOUS
<1>1. ASSUME NEW key \in BOOLEAN, NEW copy \in BOOLEAN, NEW cnt \in Sizes(key), NEW k \in 0..cnt,
             Encode(key, cnt, copy, k)
      PROVE  FragmentsInv'
  <2> DEFINE n == Len(film)
  <2>1. n \in Nat /\ n <= LastFrame /\ cnt \in Nat \ {0}
    BY <1>1, SentIsFrame, Bounds DEF Encode, Sizes
  <2>2. film' = Append(film, [key |-> key, cnt |-> cnt])
    BY <1>1 DEF Encode
  <2>3. (\A g \in Sent : Cnt(g)' = Cnt(g)) /\ \A g : g = n => Cnt(g)' = cnt
    BY <2>1, <2>2, FilmGrows
  <2>4. \A e \in cache' : e \in cache \/ (e[1] = n /\ e[2] \in Fragments(cnt))
    <3>1. cache' = cache \/ cache' = Remembered(n, FirstSent(cnt, k + 1))
      BY <1>1 DEF Encode
    <3>2. \A S : \A e \in Remembered(n, S) : e \in cache \/ (e[1] = n /\ e[2] \in S)
      BY DEF Remembered
    <3>3. FirstSent(cnt, k + 1) \subseteq Fragments(cnt)
      BY DEF FirstSent
    <3>4. QED
      BY <3>1, <3>2, <3>3
  <2>5. \A d \in air' : d \in air \/ (d[1] = n /\ (d[2] = 0 => d[3] \in Fragments(cnt)))
    <3>1. \A d \in ParityOf(n, key, cnt) : d[1] = n /\ d[2] # 0
      BY DEF ParityOf
    <3>2. PICK S : air' \subseteq air \cup Data(n, S) \cup ParityOf(n, key, cnt) /\ S \subseteq Fragments(cnt)
      <4>1. FirstSent(cnt, k) \subseteq Fragments(cnt) /\ {} \subseteq Fragments(cnt)
        BY DEF FirstSent
      <4>2. PICK S : S = IF ~key \/ copy THEN FirstSent(cnt, k) ELSE {}
        OBVIOUS
      <4>3. air' \subseteq air \cup Data(n, S) \cup ParityOf(n, key, cnt)
        BY <1>1, <4>2 DEF Encode
      <4>4. QED
        BY <4>1, <4>2, <4>3
    <3>3. \A d \in Data(n, S) : d[1] = n /\ d[3] \in S
      BY DEF Data
    <3>4. QED
      BY <3>1, <3>2, <3>3
  <2>6. ASSUME NEW e \in cache' PROVE e[2] \in Fragments(Cnt(e[1]))'
    BY <2>3, <2>4, <2>6 DEF FragmentsInv, SentInv
  <2>7. ASSUME NEW d \in air', d[2] = 0 PROVE d[3] \in Fragments(Cnt(d[1]))'
    BY <2>3, <2>5, <2>7 DEF FragmentsInv, SentInv
  <2>8. QED
    BY <2>6, <2>7 DEF FragmentsInv
<1>2. CASE SkipFrame
  <2>1. [key |-> FALSE, cnt |-> 1] \in [key: BOOLEAN, cnt: Nat \ {0}]
    OBVIOUS
  <2>2. \A g \in Sent : Cnt(g)' = Cnt(g)
    BY <1>2, <2>1, FilmGrows DEF SkipFrame
  <2>3. QED
    BY <1>2, <2>2 DEF SkipFrame, FragmentsInv, SentInv
<1>3. ASSUME NEW a \in asks, AnswerNack(a) PROVE FragmentsInv'
  <2>1. /\ \A d \in air' : d \in air \/ \E e \in cache : d = <<e[1], 0, e[2]>>
        /\ UNCHANGED <<film, cache>>
    BY <1>3 DEF AnswerNack, Wanted
  <2>2. \A g : Cnt(g)' = Cnt(g)
    BY <2>1 DEF Cnt
  <2>3. QED
    BY <2>1, <2>2 DEF FragmentsInv
<1>4. CASE ClientStep \/ UNCHANGED vars
  <2>1. UNCHANGED hostVars /\ air' \subseteq air
    BY <1>4 DEF ClientStep, Fragment, StreamFrame, vars
  <2>2. UNCHANGED cache /\ \A g : Cnt(g)' = Cnt(g)
    BY <2>1 DEF Cnt, hostVars
  <2>3. QED
    BY <2>1, <2>2 DEF FragmentsInv
<1>5. QED
  BY <1>1, <1>2, <1>3, <1>4 DEF Next, HostStep

\* A fragment that joins its frame goes to its own place, and so does what
\* is rebuilt with it.
LEMMA JoinedIsExact ==
  ASSUME NEW st, IsAssembly(st), NEW f, Cnt(f) \in Nat \ {0}, Exact(st.parts, Cnt(f)),
         NEW row \in {0, 1, 2}, NEW i, row = 0 => i \in Fragments(Cnt(f))
  PROVE  Exact(Repaired(Joined(st, row, i), f).parts, Cnt(f))
<1>1. PICK q : q = Joined(st, row, i)
  OBVIOUS
<1>2. Exact(q.parts, Cnt(f)) /\ q = [parts |-> q.parts, p1 |-> q.p1, p2 |-> q.p2, nacks |-> q.nacks]
  <2>1. CASE row = 0
    <3>1. PICK parts : parts = [st.parts EXCEPT ![i] = {i}]
      OBVIOUS
    <3>2. q = [st EXCEPT !.parts = parts]
      BY <1>1, <2>1, <3>1 DEF Joined
    <3>3. Exact(parts, Cnt(f))
      BY <2>1, <3>1 DEF Exact
    <3>4. q.parts = parts
      BY <3>2 DEF IsAssembly
    <3>5. q = [parts |-> q.parts, p1 |-> q.p1, p2 |-> q.p2, nacks |-> q.nacks]
      BY <3>2 DEF IsAssembly
    <3>6. QED
      BY <3>3, <3>4, <3>5
  <2>2. CASE row = 1
    BY <1>1, <2>2 DEF Joined, IsAssembly
  <2>3. CASE row = 2
    BY <1>1, <2>3 DEF Joined, IsAssembly
  <2>4. QED
    BY <2>1, <2>2, <2>3
<1>3. PICK parts : parts = TryRepair(q.parts, Cnt(f), q.p1, q.p2)
  OBVIOUS
<1>4. Exact(parts, Cnt(f))
  BY <1>2, <1>3, RepairIsExact
<1>5. Repaired(q, f) = [q EXCEPT !.parts = parts]
  BY <1>3 DEF Repaired
<1>6. Repaired(q, f).parts = parts
  BY <1>2, <1>5
<1>7. QED
  BY <1>1, <1>4, <1>6

LEMMA AssembleKeepsSlots ==
  ASSUME NEW f \in Sent, f \in Frames, Cnt(f) \in Nat \ {0},
         NEW row \in {0, 1, 2}, NEW i, row = 0 => i \in Fragments(Cnt(f)),
         NEW a, NEW spent, NEW buried, Agree(a, spent, buried),
         \A g \in Frames : a[g] # NoAssembly => g \in Sent /\ Exact(a[g].parts, Cnt(g)),
         Assemble(f, row, i, a, buried)
  PROVE  \A g \in Frames : asm'[g] # NoAssembly => g \in Sent /\ Exact(asm'[g].parts, Cnt(g))
<1>1. PICK victims : victims = Victims(a, f)
  OBVIOUS
<1>2. PICK base : base = IF a[f] = NoAssembly THEN Fresh(f) ELSE a[f]
  OBVIOUS
<1>3. IsAssembly(base) /\ Exact(base.parts, Cnt(f))
  <2>1. IsAssembly(Fresh(f)) /\ Exact(Fresh(f).parts, Cnt(f))
    BY FreshIs DEF Fresh, Exact
  <2>2. a[f] # NoAssembly => IsAssembly(a[f]) /\ Exact(a[f].parts, Cnt(f))
    BY DEF Agree
  <2>3. QED
    BY <1>2, <2>1, <2>2
<1>4. PICK st : st = Repaired(Joined(base, row, i), f)
  OBVIOUS
<1>5. Exact(st.parts, Cnt(f))
  BY <1>3, <1>4, JoinedIsExact
<1>6. PICK rest : rest = [g \in Frames |-> IF g \in victims THEN NoAssembly ELSE a[g]]
  OBVIOUS
<1>7. asm' = rest \/ asm' = [rest EXCEPT ![f] = NoAssembly] \/ asm' = [rest EXCEPT ![f] = st]
  BY <1>1, <1>2, <1>4, <1>6 DEF Assemble
<1>8. \A g \in Frames : asm'[g] \in {NoAssembly, a[g]} \/ (g = f /\ asm'[g] = st)
  BY <1>6, <1>7
<1>9. QED
  BY <1>5, <1>8

LEMMA SlotsKept == SentInv /\ RoundsInv /\ FragmentsInv /\ SlotsInv /\ [Next]_vars => SlotsInv'
<1> SUFFICES ASSUME SentInv, RoundsInv, FragmentsInv, SlotsInv, [Next]_vars PROVE SlotsInv'
  OBVIOUS
<1>1. ASSUME asm' = asm, Sent \subseteq Sent', \A g \in Sent : Cnt(g)' = Cnt(g) PROVE SlotsInv'
  BY <1>1 DEF SlotsInv
<1>2. CASE HostStep
  <2>1. ASSUME NEW e \in [key: BOOLEAN, cnt: Nat \ {0}], Len(film) <= LastFrame, film' = Append(film, e),
               asm' = asm
        PROVE  SlotsInv'
    BY <1>1, <2>1, FilmGrows
  <2>2. ASSUME NEW key \in BOOLEAN, NEW copy \in BOOLEAN, NEW cnt \in Sizes(key), NEW k \in 0..cnt,
               Encode(key, cnt, copy, k)
        PROVE  SlotsInv'
    <3>1. /\ cnt \in Nat \ {0} /\ Len(film) <= LastFrame
          /\ film' = Append(film, [key |-> key, cnt |-> cnt]) /\ asm' = asm
      BY <2>2, SentIsFrame, Bounds DEF Encode, Sizes, clientVars
    <3>2. [key |-> key, cnt |-> cnt] \in [key: BOOLEAN, cnt: Nat \ {0}]
      BY <3>1
    <3>3. QED
      BY <2>1, <3>1, <3>2
  <2>3. CASE SkipFrame
    <3>1. [key |-> FALSE, cnt |-> 1] \in [key: BOOLEAN, cnt: Nat \ {0}]
      OBVIOUS
    <3>2. QED
      BY <2>1, <2>3, <3>1 DEF SkipFrame, clientVars
  <2>4. ASSUME NEW q \in asks, AnswerNack(q) PROVE SlotsInv'
    BY <1>1, <2>4 DEF AnswerNack, clientVars, Sent, Cnt
  <2>5. QED
    BY <1>2, <2>2, <2>3, <2>4 DEF HostStep
<1>3. ASSUME NEW d \in air, Fragment(d[1], d[2], d[3]) PROVE SlotsInv'
  <2>1. PICK f, row, i : f = d[1] /\ row = d[2] /\ i = d[3]
    OBVIOUS
  <2>2. /\ f \in Sent /\ f \in Frames /\ Cnt(f) \in Nat \ {0}
        /\ row \in {0, 1, 2} /\ (row = 0 => i \in Fragments(Cnt(f)))
    <3>1. f \in Sent /\ row \in {0, 1, 2} /\ (row = 0 => i \in Fragments(Cnt(f)))
      BY <2>1 DEF SentInv, FragmentsInv
    <3>2. QED
      BY <3>1, SentIsFrame, CountIs
  <2>3. Fragment(f, row, i)
    BY <1>3, <2>1
  <2>4. Sent' = Sent /\ \A g : Cnt(g)' = Cnt(g)
    BY <2>3 DEF Fragment, hostVars, Sent, Cnt
  <2>5. CASE f \in tomb
    BY <1>1, <2>3, <2>4, <2>5 DEF Fragment
  <2>6. CASE f \notin tomb
    <3>1. PICK gone, again :
            /\ gone \in SUBSET Assembling /\ again \in SUBSET (Assembling \ gone)
            /\ Scan(gone, again)
            /\ IF f \in gone THEN asm' = AfterScan(gone, again)
               ELSE Assemble(f, row, i, AfterScan(gone, again), tomb \cup Buried(gone))
      BY <2>3, <2>6 DEF Fragment
    <3>2. PICK a : a = AfterScan(gone, again)
      OBVIOUS
    <3>3. PICK buried, spent : buried = tomb \cup Buried(gone) /\ spent = rounds'
      OBVIOUS
    <3>4. Agree(a, spent, buried)
      BY <3>1, <3>2, <3>3, ScanAgrees DEF Buried
    <3>5. \A g \in Frames : a[g] # NoAssembly => g \in Sent /\ Exact(a[g].parts, Cnt(g))
      <4>1. SUFFICES ASSUME NEW g \in Frames, a[g] # NoAssembly
                     PROVE  g \in Sent /\ Exact(a[g].parts, Cnt(g))
        OBVIOUS
      <4>2. a[g] = asm[g] \/ (g \in again /\ a[g] = [asm[g] EXCEPT !.nacks = @ + 1])
        BY <3>2, <4>1 DEF AfterScan
      <4>3. asm[g] # NoAssembly
        BY <3>1, <4>1, <4>2 DEF Assembling
      <4>4. PICK st : st = asm[g]
        OBVIOUS
      <4>5. IsAssembly(st)
        BY <4>3, <4>4 DEF RoundsInv, Agree
      <4>6. a[g].parts = st.parts
        BY <4>2, <4>4, <4>5 DEF IsAssembly
      <4>7. QED
        BY <4>3, <4>4, <4>6 DEF SlotsInv
    <3>6. CASE f \in gone
      BY <2>4, <3>1, <3>2, <3>5, <3>6 DEF SlotsInv
    <3>7. CASE f \notin gone
      <4>1. Assemble(f, row, i, a, buried)
        BY <3>1, <3>2, <3>3, <3>7
      <4>2. \A g \in Frames : asm'[g] # NoAssembly => g \in Sent /\ Exact(asm'[g].parts, Cnt(g))
        BY <2>2, <3>4, <3>5, <4>1, AssembleKeepsSlots
      <4>3. QED
        BY <2>4, <4>2 DEF SlotsInv
    <3>8. QED
      BY <3>6, <3>7
  <2>7. QED
    BY <2>5, <2>6
<1>4. ASSUME NEW f \in wire, StreamFrame(f) PROVE SlotsInv'
  <2>1. Sent' = Sent /\ \A g : Cnt(g)' = Cnt(g)
    BY <1>4 DEF StreamFrame, hostVars, Sent, Cnt
  <2>2. \A g \in Frames : asm'[g] \in {NoAssembly, asm[g]}
    <3>1. asm = [g \in Frames |-> asm[g]]
      BY DEF RoundsInv, Agree
    <3>2. asm' = asm \/ asm' = [asm EXCEPT ![f] = NoAssembly]
      BY <1>4 DEF StreamFrame
    <3>3. QED
      BY <3>1, <3>2
  <2>3. QED
    BY <2>1, <2>2 DEF SlotsInv
<1>5. CASE UNCHANGED vars
  BY <1>1, <1>5 DEF vars, clientVars, hostVars, Sent, Cnt
<1>6. QED
  BY <1>2, <1>3, <1>4, <1>5 DEF Next, ClientStep

(* A frame is put together from its own fragments, in their places, for     *)
(* any sizes and losses: neither a re-send nor a rebuild brings another's.  *)
THEOREM FramesAreTheirOwn == Spec => []SlotsHoldTheirOwn
<1>1. SlotsInv => SlotsHoldTheirOwn
  BY DEF SlotsInv, SlotsHoldTheirOwn, Assembling, Exact
<1>2. Spec => [](SentInv /\ RoundsInv /\ FragmentsInv /\ SlotsInv)
  BY SentStarts, SentKept, RoundsStart, RoundsKept, FragmentsStart, FragmentsKept, SlotsKept, PTL DEF Spec
<1>3. QED
  BY <1>1, <1>2, PTL

------------------------------------------------------------------------------
(* The chain.  The orderer knows what was decoded last and waits, if it     *)
(* waits for a delta at all, for that frame's successor.                    *)
ChainInv ==
  /\ Ordered(order) /\ decoded \in Seq(Sent) /\ ChainUnbroken
  /\ decoded = <<>> => order.last = None
  /\ decoded # <<>> => decoded[Len(decoded)] = order.last

LEMMA ChainStarts == Init => ChainInv
<1> SUFFICES ASSUME Init PROVE ChainInv
  OBVIOUS
<1>1. order = [next |-> None, pending |-> {}, last |-> None, far |-> 0] /\ decoded = <<>>
  BY DEF Init
<1>2. None \in Int /\ None <= None /\ {} \in SUBSET Nat /\ 0 \in Nat
  BY DEF None
<1>3. Ordered(order)
  BY <1>1, <1>2 DEF Ordered, Orders
<1>4. decoded \in Seq(Sent) /\ Len(decoded) = 0
  BY <1>1
<1>5. ChainUnbroken
  BY <1>4 DEF ChainUnbroken
<1>6. QED
  BY <1>1, <1>3, <1>4, <1>5 DEF ChainInv

LEMMA NothingAscends == Ascending({}) = <<>>
  BY FS_EmptySet DEF Ascending

\* An unbroken chain of numbers of S, the last one given.
ChainOf(S, d, last) ==
  /\ S \subseteq Nat /\ d \in Seq(S) /\ last \in Int
  /\ d = <<>> => last = None
  /\ d # <<>> => d[Len(d)] = last
  /\ \A i \in 1..Len(d) : /\ i > 1 => d[i - 1] < d[i]
                          /\ Key(d[i]) \/ (i > 1 /\ d[i] = d[i - 1] + 1)

Carries(a, last) == a > last /\ (Key(a) \/ (last \in Nat /\ a = last + 1))

\* A run that continues the chain, appended to it: first with the run's
\* numbers spelled out.
LEMMA RunContinues ==
  ASSUME NEW S, NEW d, NEW last, ChainOf(S, d, last),
         NEW a \in Nat, NEW b \in Nat, NEW k \in Nat, k >= 1, b = a + k - 1, Carries(a, last),
         NEW e \in Seq(S), Len(e) = Len(d) + k,
         \A i \in 1..Len(d) : e[i] = d[i],
         \A i \in (Len(d) + 1)..(Len(d) + k) : e[i] = a + (i - Len(d)) - 1
  PROVE  e # <<>> /\ ChainOf(S, e, b)
<1>0. /\ S \subseteq Nat /\ d \in Seq(S) /\ last \in Int
      /\ d = <<>> => last = None
      /\ d # <<>> => d[Len(d)] = last
      /\ \A i \in 1..Len(d) : /\ i > 1 => d[i - 1] < d[i]
                              /\ Key(d[i]) \/ (i > 1 /\ d[i] = d[i - 1] + 1)
      /\ a > last /\ (Key(a) \/ (last \in Nat /\ a = last + 1))
  BY DEF ChainOf, Carries
<1> DEFINE n == Len(d)
<1>1. n \in Nat /\ k \in Nat /\ k >= 1 /\ b = a + k - 1
  BY <1>0, LenProperties
<1>4. Len(e) = n + k
  OBVIOUS
<1>5. \A i \in 1..n : e[i] = d[i]
  OBVIOUS
<1>6. \A i \in (n + 1)..(n + k) : e[i] = a + (i - n) - 1
  OBVIOUS
<1> HIDE DEF n
<1>7. e[n + k] = b /\ e # <<>>
  <2>1. e[n + k] = b
    BY <1>1, <1>6
  <2>2. Len(e) > 0
    BY <1>1, <1>4
  <2>3. QED
    BY <2>1, <2>2
<1>8. \A i \in 1..n : d[i] \in Nat
  BY <1>0, ElementOfSeq DEF n
<1>9. ASSUME NEW i \in 1..(n + k)
      PROVE  /\ i > 1 => e[i - 1] < e[i]
             /\ Key(e[i]) \/ (i > 1 /\ e[i] = e[i - 1] + 1)
  <2>1. CASE i <= n
    <3>1. i \in 1..n /\ e[i] = d[i] /\ (i > 1 => e[i - 1] = d[i - 1])
      BY <1>1, <1>5, <2>1
    <3>2. QED
      BY <1>0, <3>1 DEF n
  <2>2. CASE i = n + 1
    <3>1. e[i] = a
      BY <1>1, <1>6, <2>2
    <3>2. CASE n = 0
      <4>1. last = None
        BY <1>0, <3>2, EmptySeq DEF n
      <4>2. QED
        BY <1>0, <1>1, <2>2, <3>1, <3>2, <4>1 DEF None
    <3>3. CASE n > 0
      <4>1. e[i - 1] = d[n] /\ i > 1
        BY <1>1, <1>5, <2>2, <3>3
      <4>2. d[n] = last
        BY <1>0, <3>3, EmptySeq DEF n
      <4>3. QED
        BY <1>0, <3>1, <4>1, <4>2
    <3>4. QED
      BY <1>1, <3>2, <3>3
  <2>3. CASE i > n + 1
    <3>1. e[i] = a + (i - n) - 1 /\ e[i - 1] = a + (i - 1 - n) - 1 /\ i > 1
      BY <1>1, <1>6, <2>3
    <3>2. QED
      BY <1>1, <3>1
  <2>4. QED
    BY <1>1, <2>1, <2>2, <2>3
<1>10. QED
  <2>1. b \in Int /\ e[Len(e)] = b
    BY <1>1, <1>4, <1>7
  <2>2. QED
    BY <1>0, <1>4, <1>7, <1>9, <2>1 DEF ChainOf

LEMMA ChainGrows ==
  ASSUME NEW S, NEW d, NEW last, ChainOf(S, d, last),
         NEW a \in Nat, NEW b \in Nat, a <= b, a..b \subseteq S, Carries(a, last)
  PROVE  d \o Ascending(a..b) # <<>> /\ ChainOf(S, d \o Ascending(a..b), b)
<1>1. PICK s : s = Ascending(a..b)
  OBVIOUS
<1>2. PICK k : k = b - a + 1
  OBVIOUS
<1>3. PICK e : e = d \o s
  OBVIOUS
<1>4. k \in Nat /\ k >= 1 /\ b = a + k - 1 /\ a \in Int /\ b \in Int
  BY <1>2
<1>5. s \in Seq(a..b) /\ Len(s) = k /\ \A i \in 1..k : s[i] = a + i - 1
  BY ONLY <1>1, <1>2, <1>4, a <= b, AscendingRun
<1>6. s \in Seq(S) /\ d \in Seq(S) /\ Len(d) \in Nat
  BY <1>5, LenProperties DEF ChainOf
<1>7. /\ d \o s \in Seq(S) /\ Len(d \o s) = Len(d) + Len(s)
      /\ \A i \in 1..(Len(d) + Len(s)) : (d \o s)[i] = IF i <= Len(d) THEN d[i] ELSE s[i - Len(d)]
  BY ONLY <1>6, ConcatProperties
<1>8. /\ e \in Seq(S) /\ Len(e) = Len(d) + k
      /\ \A i \in 1..(Len(d) + k) : e[i] = IF i <= Len(d) THEN d[i] ELSE s[i - Len(d)]
  BY ONLY <1>3, <1>5, <1>7
<1>9. \A i \in 1..Len(d) : e[i] = d[i]
  BY ONLY <1>4, <1>6, <1>8
<1>10. ASSUME NEW i \in (Len(d) + 1)..(Len(d) + k) PROVE e[i] = a + (i - Len(d)) - 1
  <2>1. i - Len(d) \in 1..k /\ ~(i <= Len(d)) /\ i \in 1..(Len(d) + k)
    BY ONLY <1>4, <1>6, i \in (Len(d) + 1)..(Len(d) + k)
  <2>2. e[i] = s[i - Len(d)]
    BY ONLY <1>8, <2>1
  <2>3. QED
    BY ONLY <1>5, <2>1, <2>2
<1>11. e # <<>> /\ ChainOf(S, e, b)
  BY <1>4, <1>8, <1>9, <1>10, RunContinues
<1>12. QED
  BY ONLY <1>1, <1>3, <1>11

LEMMA DeliverKeepsChain ==
  ASSUME SentInv, ChainInv, film' = film, NEW f \in Sent, Deliver(f)
  PROVE  ChainInv'
<1>1. Sent' = Sent /\ \A g : Key(g)' = Key(g)
  BY DEF Sent, Key
<1>2. CASE Duplicate(f)
  <2>1. UNCHANGED <<order, decoded>>
    BY <1>2 DEF Deliver
  <2>2. QED
    BY <1>1, <2>1 DEF ChainInv, Ordered, ChainUnbroken
<1>3. CASE ~Duplicate(f)
  <2>1. PICK r : r = Accept(order, f)
    OBVIOUS
  <2>2. order' = r.order /\ decoded' = decoded \o Ascending(r.ready)
    BY <1>3, <2>1 DEF Deliver
  <2>3. Ordered(r.order) /\ Continues(order, r) /\ r.ready \subseteq Sent
    BY <2>1, AcceptIs, SentIsFrame DEF ChainInv
  <2>4. Ordered(order)'
    BY <1>1, <2>2, <2>3 DEF Ordered
  <2>5. CASE r.ready = {} /\ r.order.last = order.last
    <3>1. decoded' = decoded
      BY <2>2, <2>5, NothingAscends, ConcatEmptySeq DEF ChainInv
    <3>2. QED
      BY <1>1, <2>2, <2>4, <2>5, <3>1 DEF ChainInv, ChainUnbroken
  <2>6. CASE \E a \in Nat, b \in Nat :
               /\ a <= b /\ r.ready = a..b /\ a > order.last /\ r.order.last = b
               /\ Key(a) \/ (order.last \in Nat /\ a = order.last + 1)
    <3>1. PICK a \in Nat, b \in Nat :
               /\ a <= b /\ r.ready = a..b /\ a > order.last /\ r.order.last = b
               /\ Key(a) \/ (order.last \in Nat /\ a = order.last + 1)
      BY <2>6
    <3>b. a \in Nat /\ b \in Nat /\ a <= b
      BY <3>1
    <3>2. PICK d, S, last : d = decoded /\ S = Sent /\ last = order.last
      OBVIOUS
    <3>3. PICK e : e = d \o Ascending(a..b)
      OBVIOUS
    <3>4. ChainOf(S, d, last)
      BY <3>2, SentIsFrame DEF ChainInv, ChainUnbroken, Ordered, Orders, ChainOf
    <3>5. a..b \subseteq S /\ Carries(a, last)
      BY <2>3, <3>1, <3>2 DEF Carries
    <3>g. e # <<>> /\ ChainOf(S, e, b)
      BY ONLY <3>b, <3>3, <3>4, <3>5, ChainGrows
    <3>6. /\ e \in Seq(S) /\ e # <<>> /\ e[Len(e)] = b
          /\ \A i \in 1..Len(e) : /\ i > 1 => e[i - 1] < e[i]
                                  /\ Key(e[i]) \/ (i > 1 /\ e[i] = e[i - 1] + 1)
      BY <3>g DEF ChainOf
    <3>7. decoded' = e /\ order'.last = b
      BY <2>2, <3>1, <3>2, <3>3
    <3>8. ChainUnbroken'
      BY <1>1, <3>6, <3>7 DEF ChainUnbroken
    <3>9. QED
      BY <1>1, <2>4, <3>2, <3>6, <3>7, <3>8 DEF ChainInv
  <2>7. QED
    BY <2>3, <2>5, <2>6 DEF Continues
<1>4. QED
  BY <1>2, <1>3

LEMMA ChainKept == SentInv /\ ChainInv /\ [Next]_vars => ChainInv'
<1> SUFFICES ASSUME SentInv, ChainInv, [Next]_vars PROVE ChainInv'
  OBVIOUS
\* Frames that are encoded change nothing of those that were.
<1>1. ASSUME UNCHANGED <<order, decoded>>, Sent \subseteq Sent', \A g \in Sent : Key(g)' = Key(g)
      PROVE  ChainInv'
  <2>1. decoded \in Seq(Sent')
    BY <1>1 DEF ChainInv
  <2>2. \A i \in 1..Len(decoded) : decoded[i] \in Sent
    BY ElementOfSeq DEF ChainInv
  <2>3. ChainUnbroken'
    BY <1>1, <2>2 DEF ChainInv, ChainUnbroken
  <2>4. QED
    BY <1>1, <2>1, <2>3 DEF ChainInv, Ordered
<1>2. ASSUME UNCHANGED <<film, order, decoded>> PROVE ChainInv'
  BY <1>1, <1>2 DEF Sent, Key
<1>3. ASSUME NEW key \in BOOLEAN, NEW copy \in BOOLEAN, NEW cnt \in Sizes(key), NEW k \in 0..cnt,
             Encode(key, cnt, copy, k)
      PROVE  ChainInv'
  <2>1. [key |-> key, cnt |-> cnt] \in [key: BOOLEAN, cnt: Nat \ {0}]
    BY Bounds DEF Sizes
  <2>2. Sent \subseteq Sent' /\ \A g \in Sent : Key(g)' = Key(g)
    <3>1. PICK e : e = [key |-> key, cnt |-> cnt]
      OBVIOUS
    <3>2. film' = Append(film, e) /\ Len(film) <= LastFrame
      BY <1>3, <3>1 DEF Encode
    <3>3. QED
      BY <2>1, <3>1, <3>2, FilmGrows
  <2>3. UNCHANGED <<order, decoded>>
    BY <1>3 DEF Encode, clientVars
  <2>4. QED
    BY <1>1, <2>2, <2>3
<1>4. CASE SkipFrame
  <2>1. [key |-> FALSE, cnt |-> 1] \in [key: BOOLEAN, cnt: Nat \ {0}]
    OBVIOUS
  <2>2. Sent \subseteq Sent' /\ \A g \in Sent : Key(g)' = Key(g)
    BY <1>4, <2>1, FilmGrows DEF SkipFrame
  <2>3. UNCHANGED <<order, decoded>>
    BY <1>4 DEF SkipFrame, clientVars
  <2>4. QED
    BY <1>1, <2>2, <2>3
<1>5. ASSUME NEW a \in asks, AnswerNack(a) PROVE ChainInv'
  BY <1>2, <1>5 DEF AnswerNack, clientVars
<1>6. ASSUME NEW f \in Sent, NEW row \in {0, 1, 2}, NEW i, Fragment(f, row, i) PROVE ChainInv'
  <2>1. film' = film /\ (Deliver(f) \/ UNCHANGED <<order, decoded>>)
    BY <1>6 DEF Fragment, Assemble, hostVars
  <2>2. QED
    BY <1>2, <2>1, DeliverKeepsChain
<1>7. ASSUME NEW f \in Sent, StreamFrame(f) PROVE ChainInv'
  BY <1>7, DeliverKeepsChain DEF StreamFrame, hostVars
<1>8. CASE UNCHANGED vars
  BY <1>2, <1>8 DEF vars, clientVars, hostVars
<1>9. QED
  BY <1>3, <1>4, <1>5, <1>6, <1>7, <1>8, ClientTakes DEF Next, HostStep

(* What the decoder is given is an unbroken chain, whatever was lost,       *)
(* repaired, given up, sent again or sent on two carriers, for every frame  *)
(* size and every budget of the client.                                     *)
THEOREM DecoderGetsAChain == Spec => []ChainUnbroken
<1>1. ChainInv => ChainUnbroken
  BY DEF ChainInv
<1>2. Spec => [](SentInv /\ ChainInv)
  BY SentStarts, SentKept, ChainStarts, ChainKept, PTL DEF Spec
<1>3. QED
  BY <1>1, <1>2, PTL

(* A keyframe read from the stream reaches the page, also when its datagram *)
(* copy was given up: only a frame the page already has is dropped.         *)
THEOREM StreamIsHeard == Spec => StreamCopyCounts
<1>1. [Next]_vars => [\A f \in wire \ wire' : f \in given']_vars
  <2> SUFFICES ASSUME Next, NEW f \in wire \ wire' PROVE f \in given'
    BY DEF vars, hostVars
  <2>1. PICK g \in wire : StreamFrame(g)
    BY DEF Next, HostStep, ClientStep, Encode, SkipFrame, AnswerNack, Fragment
  <2>2. f = g
    BY <2>1 DEF StreamFrame
  <2>3. QED
    BY <2>1, <2>2 DEF StreamFrame, Deliver, Duplicate
<1>2. QED
  BY <1>1, PTL DEF Spec, StreamCopyCounts

------------------------------------------------------------------------------
(* Types.  What is asked for is a fragment of its frame, because the holes  *)
(* of a damaged group can be counted off.                                   *)
LEMMA MostIs ==
  /\ MaxFragments \in Nat \ {0}
  /\ \A cnt \in KeySizes \cup DeltaSizes : cnt \in 1..MaxFragments
<1>1. KeySizes \cup DeltaSizes \subseteq Nat \ {0}
  BY RepairBounds
<1>2. PICK most \in KeySizes \cup DeltaSizes : \A cnt \in KeySizes \cup DeltaSizes : most >= cnt
  BY RepairBounds
<1>3. MaxFragments \in KeySizes \cup DeltaSizes /\ \A cnt \in KeySizes \cup DeltaSizes : MaxFragments >= cnt
  BY <1>2 DEF MaxFragments, Max
<1>4. QED
  BY <1>1, <1>3

LEMMA GroupsAreFew ==
  ASSUME NEW cnt \in Nat \ {0}
  PROVE  GroupCount(cnt) \in Int /\ GroupCount(cnt) <= cnt
<1>1. PICK n : n = cnt + FragmentGroup - 1
  OBVIOUS
<1>2. PICK q : q = n \div FragmentGroup
  OBVIOUS
<1>3. n \in Int /\ FragmentGroup \in Int /\ FragmentGroup > 0
  BY <1>1, GroupIsPositive
<1>4. q \in Int /\ FragmentGroup * q <= n
  <2>1. q \in Int /\ n % FragmentGroup \in 0..(FragmentGroup - 1)
        /\ n = FragmentGroup * (n \div FragmentGroup) + (n % FragmentGroup)
    BY <1>2, <1>3, SMT
  <2>2. QED
    BY <1>2, <1>3, <2>1
<1>5. q <= cnt
  <2>1. SUFFICES ASSUME q >= cnt + 1 PROVE FALSE
    BY <1>4
  <2>2. FragmentGroup * q >= FragmentGroup * (cnt + 1)
    BY <1>3, <1>4, <2>1, SMT
  <2>3. FragmentGroup * (cnt + 1) = FragmentGroup * cnt + FragmentGroup
    BY <1>3
  <2>4. FragmentGroup * cnt >= cnt
    BY <1>3, SMT
  <2>5. QED
    BY <1>1, <1>3, <1>4, <2>2, <2>3, <2>4
<1>6. QED
  BY <1>1, <1>2, <1>4, <1>5 DEF GroupCount

\* A finite set of numbers has an element with n smaller ones, for every n
\* below its size: no two elements have equally many.
LEMMA NthIs ==
  ASSUME NEW S, S \subseteq Nat, IsFiniteSet(S), NEW n \in 0..(Cardinality(S) - 1)
  PROVE  NthOf(S, n) \in S
<1> DEFINE Below(i) == {j \in S : j < i}
           T == 0..(Cardinality(S) - 1)
           rank == [i \in S |-> Cardinality(Below(i))]
<1>1. Cardinality(S) \in Nat /\ IsFiniteSet(T) /\ Cardinality(T) = Cardinality(S)
  <2>1. Cardinality(S) \in Nat
    BY FS_CardinalityType
  <2>2. QED
    BY <2>1, FS_Interval
<1>2. ASSUME NEW i \in S
      PROVE  IsFiniteSet(Below(i)) /\ Cardinality(Below(i)) \in T
  <2>1. Below(i) \in SUBSET S /\ Below(i) # S
    OBVIOUS
  <2> HIDE DEF Below
  <2>2. IsFiniteSet(Below(i)) /\ Cardinality(Below(i)) <= Cardinality(S)
        /\ Cardinality(Below(i)) # Cardinality(S)
    BY <2>1, FS_Subset
  <2>3. Cardinality(Below(i)) \in Nat
    BY <2>2, FS_CardinalityType
  <2>4. QED
    BY <1>1, <2>2, <2>3
<1>3. ASSUME NEW i \in S, NEW j \in S, i < j
      PROVE  Cardinality(Below(i)) < Cardinality(Below(j))
  <2>1. i \in Nat /\ j \in Nat /\ \A k \in S : k \in Nat /\ (k < i => k < j)
    BY <1>3
  <2>2. Below(i) \in SUBSET Below(j) /\ i \in Below(j) /\ i \notin Below(i)
    <3>1. ~(i < i)
      BY <2>1
    <3>2. i \in Below(j) /\ i \notin Below(i)
      BY <1>3, <3>1
    <3>3. \A k \in Below(i) : k \in Below(j)
      BY <2>1
    <3> HIDE DEF Below
    <3>4. QED
      BY <3>2, <3>3
  <2> HIDE DEF Below
  <2>3. IsFiniteSet(Below(j)) /\ Cardinality(Below(i)) \in Nat /\ Cardinality(Below(j)) \in Nat
    BY <1>2, FS_CardinalityType
  <2>4. Cardinality(Below(i)) <= Cardinality(Below(j)) /\ Cardinality(Below(i)) # Cardinality(Below(j))
    BY <2>2, <2>3, FS_Subset
  <2>5. QED
    BY <2>3, <2>4
<1>4. rank \in Injection(S, T)
  <2>1. rank \in [S -> T]
    BY <1>2
  <2>2. \A i, j \in S : rank[i] = rank[j] => i = j
    <3> HIDE DEF Below
    <3>1. SUFFICES ASSUME NEW i \in S, NEW j \in S, rank[i] = rank[j], i # j PROVE FALSE
      OBVIOUS
    <3>2. i < j \/ j < i
      BY <3>1
    <3>3. rank[i] = Cardinality(Below(i)) /\ rank[j] = Cardinality(Below(j))
      OBVIOUS
    <3>4. Cardinality(Below(i)) \in Nat /\ Cardinality(Below(j)) \in Nat
      BY <1>1, <1>2
    <3>5. QED
      BY <1>3, <3>1, <3>2, <3>3, <3>4
  <2> HIDE DEF rank, T
  <2>3. QED
    BY <2>1, <2>2 DEF Injection, IsInjective
<1>5. rank \in Surjection(S, T)
  <2> HIDE DEF rank, T
  <2>1. QED
    BY <1>1, <1>4, FS_Injection
<1>6. PICK i \in S : rank[i] = n
  <2> HIDE DEF rank
  <2>1. QED
    BY <1>5 DEF Surjection
<1>7. Cardinality({j \in S : j < i}) = n
  BY <1>6
<1>8. QED
  BY <1>7 DEF NthOf

LEMMA AskedIs ==
  ASSUME SentInv, SlotsInv, NEW f \in Assembling, NEW round \in Nat, NEW e \in Asked(f, round)
  PROVE  e[1] = f /\ e[2] \in Fragments(Cnt(f)) /\ e = <<e[1], e[2]>>
<1>1. f \in Sent /\ Exact(asm[f].parts, Cnt(f)) /\ Cnt(f) \in Nat \ {0}
  BY CountIs DEF Assembling, SlotsInv
<1> DEFINE holes(g) == Holes(asm[f].parts, Members(Cnt(f), g))
<1>2. PICK g \in 0..(GroupCount(Cnt(f)) - 1) :
        holes(g) # {} /\ e = <<f, NthOf(holes(g), (round + g) % Cardinality(holes(g)))>>
  BY DEF Asked
<1>3. PICK S : S = holes(g)
  OBVIOUS
<1>4. S \subseteq Fragments(Cnt(f)) /\ S # {}
  BY <1>2, <1>3 DEF Holes, Members
<1>5. S \subseteq Nat /\ IsFiniteSet(S)
  <2>1. PICK last \in Int : last = Cnt(f) - 1
    BY <1>1
  <2>2. IsFiniteSet(0..last) /\ 0..last \subseteq Nat /\ 0 \in Int
    BY FS_Interval
  <2>3. S \in SUBSET (0..last)
    BY <1>4, <2>1 DEF Fragments
  <2>4. QED
    BY <2>2, <2>3, FS_Subset
<1>6. Cardinality(S) \in Nat /\ Cardinality(S) # 0
  BY <1>4, <1>5, FS_CardinalityType, FS_EmptySet
<1>7. round + g \in Int
  BY <1>1, GroupsAreFew
<1>8. (round + g) % Cardinality(S) \in 0..(Cardinality(S) - 1)
  BY <1>6, <1>7
<1>9. NthOf(S, (round + g) % Cardinality(S)) \in S
  BY <1>5, <1>8, NthIs
<1>10. QED
  BY <1>2, <1>3, <1>4, <1>9

LEMMA VictimsAre ==
  ASSUME NEW f \in Frames, NEW a
  PROVE  Victims(a, f) \subseteq Frames
<1> DEFINE open == {g \in Frames : a[g] # NoAssembly} \cup {f}
           deltas == {g \in open \ {f} : ~Key(g)}
<1>1. open \subseteq Frames /\ Frames \subseteq Nat /\ IsFiniteSet(Frames)
  BY Bounds, FS_Interval DEF Frames
<1>2. ASSUME NEW S, S \subseteq Frames, S # {}
      PROVE  Min(S) \in Frames
  <2>1. IsFiniteSet(S) /\ S \subseteq Nat
    BY <1>1, <1>2, FS_Subset
  <2>2. \E t \in S : \A u \in S : t <= u
    BY <1>2, <2>1, LeastNumber
  <2>3. QED
    BY <1>2, <2>2 DEF Min
<1>3. ASSUME ~(Cardinality(open) <= MaxAssemblies)
      PROVE  open \ {f} # {}
  <2>1. SUFFICES ASSUME open \ {f} = {} PROVE FALSE
    OBVIOUS
  <2>2. open = {f}
    BY <2>1
  <2> HIDE DEF open
  <2>3. Cardinality({f}) = 1
    BY FS_Singleton
  <2>4. MaxAssemblies \in Nat \ {0}
    BY RepairBounds
  <2>5. QED
    BY <1>3, <2>2, <2>3, <2>4
<1>4. deltas \subseteq Frames /\ open \ {f} \subseteq Frames
  BY <1>1
<1>5. Victims(a, f) = IF Cardinality(open) <= MaxAssemblies \/ a[f] # NoAssembly THEN {}
                      ELSE IF deltas # {} THEN {Min(deltas)}
                      ELSE IF ~Key(f) THEN {f} ELSE {Min(open \ {f})}
  BY DEF Victims
<1> HIDE DEF open, deltas
<1>6. QED
  BY <1>2, <1>3, <1>4, <1>5

\* The orderer starts over before it has counted more than Horizon frames that
\* are too far ahead.
LEMMA ReleaseKeepsFar ==
  ASSUME NEW o, o = [next |-> o.next, pending |-> o.pending, last |-> o.last, far |-> o.far], NEW f
  PROVE  Release(o, f).order.far = o.far
<1> DEFINE run == {m \in o.pending : m >= o.next /\ \A k \in o.next..m : k \in o.pending /\ ~Replay(o, k)}
           after == IF run = {} THEN o
                    ELSE [o EXCEPT !.next = Max(run) + 1, !.pending = @ \ run, !.last = Max(run)]
<1>1. /\ after = [next |-> after.next, pending |-> after.pending, last |-> after.last, far |-> after.far]
      /\ after.far = o.far
  <2> HIDE DEF run
  <2>1. QED
    OBVIOUS
<1>2. Release(o, f).order = IF Spent(after, f) THEN Forgotten(after) ELSE after
  BY DEF Release
<1> HIDE DEF after
<1>3. Forgotten(after).far = after.far
  BY <1>1 DEF Forgotten
<1>4. QED
  BY <1>1, <1>2, <1>3

LEMMA FarStays ==
  ASSUME NEW o \in Orders, o.far \in 0..Horizon, NEW f \in Nat
  PROVE  Accept(o, f).order.far \in 0..Horizon
<1>1. o = [next |-> o.next, pending |-> o.pending, last |-> o.last, far |-> o.far]
  BY DEF Orders
<1>2. Horizon \in Nat
  BY RepairBounds
<1>3. o.next \in Int
  BY DEF Orders
<1>4. Accept(o, f).order.far \in 0..Horizon
  <2>1. CASE Key(f) /\ Replay(o, f)
    BY <2>1 DEF Accept, AcceptKey, Holding
  <2>2. CASE Key(f) /\ ~Replay(o, f)
    <3>1. PICK q, pending : /\ q = [o EXCEPT !.next = f, !.far = 0, !.pending = pending]
                            /\ Accept(o, f) = Release(q, f)
      BY <2>2 DEF Accept, AcceptKey
    <3>2. q = [next |-> q.next, pending |-> q.pending, last |-> q.last, far |-> q.far] /\ q.far = 0
      BY <1>1, <3>1
    <3>3. QED
      BY <1>2, <3>1, <3>2, ReleaseKeepsFar
  <2>3. CASE ~Key(f) /\ o.next = None
    <3>1. PICK q : q \in {o, HoldUnanchored(o, f)} /\ Accept(o, f).order = q
      <4>1. AcceptDelta(o, f) = Holding(IF Replay(o, f) THEN o ELSE HoldUnanchored(o, f))
        BY <2>3 DEF AcceptDelta
      <4>2. QED
        BY <2>3, <4>1 DEF Accept, Holding
    <3>2. HoldUnanchored(o, f).far = o.far
      <4>1. PICK a, b : a = o.pending \cup {f} /\ b = (o.pending \ {Min(o.pending)}) \cup {f}
        OBVIOUS
      <4>2. HoldUnanchored(o, f) \in {o, [o EXCEPT !.pending = a], [o EXCEPT !.pending = b]}
        BY <4>1 DEF HoldUnanchored
      <4>3. QED
        BY <1>1, <4>2
    <3>3. QED
      BY <3>1, <3>2
  <2>4. CASE ~Key(f) /\ o.next # None /\ f < o.next
    <3>1. Accept(o, f) = Holding(o)
      BY <1>3, <2>4 DEF Accept, AcceptDelta
    <3>2. QED
      BY <3>1 DEF Holding
  <2>5. CASE ~Key(f) /\ o.next # None /\ f >= o.next /\ Spent(o, f)
    <3>1. Accept(o, f) = Holding(Forgotten(o))
      BY <1>3, <2>5 DEF Accept, AcceptDelta
    <3>2. Forgotten(o).far = o.far
      BY <1>1 DEF Forgotten
    <3>3. QED
      BY <3>1, <3>2 DEF Holding
  <2>6. CASE ~Key(f) /\ o.next # None /\ f >= o.next /\ ~Spent(o, f) /\ ~Plausible(f, o.next, 0)
    <3>1. PICK q : q = IF o.far < Horizon THEN [o EXCEPT !.far = @ + 1]
                       ELSE [Forgotten(o) EXCEPT !.far = 0]
      OBVIOUS
    <3>2. Accept(o, f) = Holding(q)
      BY <1>3, <2>6, <3>1 DEF Accept, AcceptDelta
    <3>3. q.far \in 0..Horizon
      <4>1. CASE o.far < Horizon
        BY <1>1, <1>2, <3>1, <4>1
      <4>2. CASE ~(o.far < Horizon)
        <5>1. [Forgotten(o) EXCEPT !.far = 0].far = 0
          BY <1>1 DEF Forgotten
        <5>2. QED
          BY <1>2, <3>1, <4>2, <5>1
      <4>3. QED
        BY <4>1, <4>2
    <3>4. QED
      BY <3>2, <3>3 DEF Holding
  <2>7. CASE ~Key(f) /\ o.next # None /\ f >= o.next /\ ~Spent(o, f) /\ Plausible(f, o.next, 0)
    <3>1. PICK q : q = [o EXCEPT !.far = 0, !.pending = @ \cup {f}]
      OBVIOUS
    <3>2. Accept(o, f) = Release(q, f)
      BY <1>3, <2>7, <3>1 DEF Accept, AcceptDelta
    <3>3. q = [next |-> q.next, pending |-> q.pending, last |-> q.last, far |-> q.far] /\ q.far = 0
      BY <1>1, <3>1
    <3>4. QED
      BY <1>2, <3>2, <3>3, ReleaseKeepsFar
  <2>8. QED
    BY <1>3, <2>1, <2>2, <2>3, <2>4, <2>5, <2>6, <2>7
<1>5. QED
  BY <1>4

Slots == 0..(MaxFragments - 1)

HostTyped ==
  /\ film \in Seq([key: BOOLEAN, cnt: 1..MaxFragments])
  /\ cache \subseteq Frames \X Slots /\ air \subseteq Frames \X (0..2) \X Slots

ClientTyped ==
  /\ asks \subseteq Frames \X (-1..(MaxFragments - 1))
  /\ tomb \subseteq Frames /\ given \subseteq Frames /\ skipped \subseteq Frames
  /\ highest \in -1..LastFrame /\ order.far \in 0..Horizon

TypesInv == HostTyped /\ ClientTyped

LEMMA TypesStart == Init => TypesInv
<1> SUFFICES ASSUME Init PROVE TypesInv
  OBVIOUS
<1>1. order.far = 0 /\ Horizon \in Nat
  BY RepairBounds DEF Init
<1>2. QED
  BY <1>1, Bounds DEF Init, TypesInv, HostTyped, ClientTyped, None

LEMMA SlotsOf ==
  ASSUME NEW cnt \in 1..MaxFragments
  PROVE  Fragments(cnt) \subseteq Slots
  BY MostIs DEF Fragments, Slots

LEMMA CountIsBounded ==
  ASSUME SentInv, HostTyped, NEW f \in Sent
  PROVE  Cnt(f) \in 1..MaxFragments
<1>1. f + 1 \in 1..Len(film)
  BY SentIsFrame DEF Sent
<1>2. film[f + 1] \in [key: BOOLEAN, cnt: 1..MaxFragments]
  BY <1>1, ElementOfSeq DEF HostTyped
<1>3. QED
  BY <1>2 DEF Cnt

LEMMA HostTypesKept == SentInv /\ HostTyped /\ [Next]_vars => HostTyped'
<1> SUFFICES ASSUME SentInv, HostTyped, [Next]_vars PROVE HostTyped'
  OBVIOUS
<1>1. ASSUME NEW key \in BOOLEAN, NEW copy \in BOOLEAN, NEW cnt \in Sizes(key), NEW k \in 0..cnt,
             Encode(key, cnt, copy, k)
      PROVE  HostTyped'
  <2>1. PICK f : f = Len(film)
    OBVIOUS
  <2>2. f \in Frames /\ cnt \in 1..MaxFragments /\ cnt \in Nat \ {0}
    BY <1>1, <2>1, SentIsFrame, Bounds, MostIs DEF Encode, Frames, Sizes
  <2>3. film' \in Seq([key: BOOLEAN, cnt: 1..MaxFragments])
    <3>1. [key |-> key, cnt |-> cnt] \in [key: BOOLEAN, cnt: 1..MaxFragments]
      BY <2>2
    <3>2. film' = Append(film, [key |-> key, cnt |-> cnt])
      BY <1>1 DEF Encode
    <3>3. QED
      BY <3>1, <3>2, AppendProperties DEF HostTyped
  <2>4. \A n : FirstSent(cnt, n) \subseteq Slots
    BY <2>2, SlotsOf DEF FirstSent
  <2>5. cache' \subseteq Frames \X Slots
    <3>1. cache' \subseteq cache \cup {<<f, i>> : i \in Slots}
      BY <1>1, <2>1, <2>4 DEF Encode, Remembered
    <3>2. QED
      BY <2>2, <3>1 DEF HostTyped
  <2>6. air' \subseteq Frames \X (0..2) \X Slots
    <3>1. PICK S : S \subseteq Slots /\ air' \subseteq air \cup Data(f, S) \cup ParityOf(f, key, cnt)
      <4>1. {} \subseteq Slots /\ FirstSent(cnt, k) \subseteq Slots
        BY <2>4
      <4>2. PICK S : S = IF ~key \/ copy THEN FirstSent(cnt, k) ELSE {}
        OBVIOUS
      <4>3. air' \subseteq air \cup Data(f, S) \cup ParityOf(f, key, cnt)
        BY <1>1, <2>1, <4>2 DEF Encode
      <4>4. QED
        BY <4>1, <4>2, <4>3
    <3>2. Data(f, S) \subseteq Frames \X (0..2) \X Slots
      BY <2>2, <3>1 DEF Data
    <3>3. 0..(GroupCount(cnt) - 1) \subseteq Slots
      BY <2>2, GroupsAreFew, MostIs DEF Slots
    <3>4. ParityOf(f, key, cnt) \subseteq Frames \X (0..2) \X Slots
      BY <2>2, <3>3 DEF ParityOf
    <3>5. QED
      BY <3>1, <3>2, <3>4 DEF HostTyped
  <2>7. QED
    BY <2>3, <2>5, <2>6 DEF HostTyped
<1>2. CASE SkipFrame
  <2>1. [key |-> FALSE, cnt |-> 1] \in [key: BOOLEAN, cnt: 1..MaxFragments]
    BY MostIs
  <2>2. film' = Append(film, [key |-> FALSE, cnt |-> 1])
    BY <1>2 DEF SkipFrame
  <2>3. film' \in Seq([key: BOOLEAN, cnt: 1..MaxFragments])
    BY <2>1, <2>2, AppendProperties DEF HostTyped
  <2>4. QED
    BY <1>2, <2>3 DEF SkipFrame, HostTyped
<1>3. ASSUME NEW a \in asks, AnswerNack(a) PROVE HostTyped'
  <2>1. /\ \A d \in air' : d \in air \/ \E e \in cache : d = <<e[1], 0, e[2]>>
        /\ UNCHANGED <<film, cache>>
    BY <1>3 DEF AnswerNack, Wanted
  <2>2. \A e \in cache : <<e[1], 0, e[2]>> \in Frames \X (0..2) \X Slots
    BY DEF HostTyped
  <2>3. QED
    BY <2>1, <2>2 DEF HostTyped
<1>4. CASE ClientStep \/ UNCHANGED vars
  BY <1>4 DEF ClientStep, Fragment, StreamFrame, vars, hostVars, HostTyped
<1>5. QED
  BY <1>1, <1>2, <1>3, <1>4 DEF Next, HostStep

LEMMA DeliverKeepsTypes ==
  ASSUME SentInv, ChainInv, ClientTyped, NEW f \in Frames, Deliver(f)
  PROVE  given' \subseteq Frames /\ order'.far \in 0..Horizon
<1>1. CASE Duplicate(f)
  BY <1>1 DEF Deliver, ClientTyped
<1>2. CASE ~Duplicate(f)
  <2>1. given' = given \cup {f} /\ order' = Accept(order, f).order
    BY <1>2 DEF Deliver
  <2>2. order \in Orders /\ order.far \in 0..Horizon /\ f \in Nat
    BY SentIsFrame DEF ChainInv, Ordered, ClientTyped
  <2>3. QED
    BY <2>1, <2>2, FarStays DEF ClientTyped
<1>3. QED
  BY <1>1, <1>2

LEMMA AssembleKeepsTypes ==
  ASSUME SentInv, ChainInv, ClientTyped, NEW f \in Frames, NEW row, NEW i, NEW a,
         NEW buried \in SUBSET Frames, Assemble(f, row, i, a, buried)
  PROVE  tomb' \subseteq Frames /\ given' \subseteq Frames /\ order'.far \in 0..Horizon
<1>1. PICK victims : victims = Victims(a, f) /\ victims \subseteq Frames
  BY VictimsAre
<1>2. tomb' = buried \cup victims \/ tomb' = buried \cup victims \cup {f}
  BY <1>1 DEF Assemble, Buried
<1>3. Deliver(f) \/ UNCHANGED <<given, order>>
  BY DEF Assemble
<1>4. given' \subseteq Frames /\ order'.far \in 0..Horizon
  BY <1>3, DeliverKeepsTypes DEF ClientTyped
<1>5. QED
  BY <1>1, <1>2, <1>4

LEMMA FragmentKeepsTypes ==
  ASSUME SentInv, RoundsInv, SlotsInv, ChainInv, TypesInv,
         NEW f \in Sent, NEW row, NEW i, Fragment(f, row, i)
  PROVE  ClientTyped'
<1>1. HostTyped /\ ClientTyped /\ f \in Frames /\ Frames \subseteq Nat
  BY SentIsFrame DEF TypesInv
<1>2. highest' \in -1..LastFrame
  <2>1. highest' = Max({highest, f}) /\ highest \in -1..LastFrame /\ f \in 0..LastFrame
    BY <1>1 DEF Fragment, ClientTyped, Frames
  <2>2. \E x \in {highest, f} : \A y \in {highest, f} : x >= y
    BY <2>1, Bounds
  <2>3. Max({highest, f}) \in {highest, f}
    BY <2>2 DEF Max
  <2>4. QED
    BY <2>1, <2>3, Bounds
<1>3. Unseen(f) \subseteq Frames
  BY <1>1, Bounds DEF Unseen, ClientTyped, Frames
<1>4. skipped' \subseteq Frames
  BY <1>1, <1>3 DEF Fragment, ClientTyped
<1>5. Unseen(f) \X {Every} \subseteq Frames \X (-1..(MaxFragments - 1))
  BY <1>3, MostIs DEF Every
<1>6. CASE f \in tomb
  BY <1>1, <1>2, <1>4, <1>5, <1>6 DEF Fragment, ClientTyped
<1>7. CASE f \notin tomb
  <2>1. PICK gone, again :
          /\ gone \in SUBSET Assembling /\ again \in SUBSET (Assembling \ gone)
          /\ asks' = asks \cup (Unseen(f) \X {Every})
                     \cup UNION {Asked(g, asm[g].nacks + 1) : g \in again}
          /\ IF f \in gone
             THEN tomb' = tomb \cup Buried(gone) /\ UNCHANGED <<given, order>>
             ELSE Assemble(f, row, i, AfterScan(gone, again), tomb \cup Buried(gone))
    BY <1>7 DEF Fragment
  <2>2. ASSUME NEW g \in again, NEW e \in Asked(g, asm[g].nacks + 1)
        PROVE  e \in Frames \X (-1..(MaxFragments - 1))
    <3>1. g \in Assembling /\ g \in Sent /\ g \in Frames
      BY <2>1, SentIsFrame DEF Assembling, SlotsInv
    <3>2. asm[g].nacks + 1 \in Nat
      BY <3>1 DEF Assembling, RoundsInv, Agree, IsAssembly
    <3>3. e = <<g, e[2]>> /\ e[2] \in Fragments(Cnt(g))
      BY <2>2, <3>1, <3>2, AskedIs
    <3>4. Fragments(Cnt(g)) \subseteq -1..(MaxFragments - 1)
      BY <1>1, <3>1, CountIsBounded, MostIs DEF Fragments
    <3>5. QED
      BY <3>1, <3>3, <3>4
  <2>3. asks' \subseteq Frames \X (-1..(MaxFragments - 1))
    BY <1>1, <1>5, <2>1, <2>2 DEF ClientTyped
  <2>4. tomb \cup Buried(gone) \in SUBSET Frames
    BY <1>1, <2>1 DEF Buried, Assembling, ClientTyped
  <2>5. tomb' \subseteq Frames /\ given' \subseteq Frames /\ order'.far \in 0..Horizon
    <3>1. CASE f \in gone
      BY <1>1, <2>1, <2>4, <3>1 DEF ClientTyped
    <3>2. CASE f \notin gone
      <4>1. PICK a, buried : a = AfterScan(gone, again) /\ buried = tomb \cup Buried(gone)
        OBVIOUS
      <4>2. Assemble(f, row, i, a, buried) /\ buried \in SUBSET Frames
        BY <2>1, <2>4, <3>2, <4>1
      <4>3. QED
        BY <1>1, <4>2, AssembleKeepsTypes
    <3>3. QED
      BY <3>1, <3>2
  <2>6. QED
    BY <1>2, <1>4, <2>3, <2>5 DEF ClientTyped
<1>8. QED
  BY <1>6, <1>7

LEMMA TypesKept ==
  SentInv /\ RoundsInv /\ SlotsInv /\ ChainInv /\ TypesInv /\ [Next]_vars => TypesInv'
<1> SUFFICES ASSUME SentInv, RoundsInv, SlotsInv, ChainInv, TypesInv, [Next]_vars PROVE TypesInv'
  OBVIOUS
<1>1. HostTyped'
  BY HostTypesKept DEF TypesInv
<1>2. ClientTyped
  BY DEF TypesInv
<1>3. CASE HostStep \/ UNCHANGED vars
  <2>1. asks' \subseteq asks /\ UNCHANGED clientVars
    BY <1>3 DEF HostStep, Encode, SkipFrame, AnswerNack, vars
  <2>2. QED
    BY <1>1, <1>2, <2>1 DEF TypesInv, ClientTyped, clientVars
<1>4. ASSUME NEW f \in Sent, NEW row \in {0, 1, 2}, NEW i, Fragment(f, row, i) PROVE TypesInv'
  BY <1>1, <1>4, FragmentKeepsTypes DEF TypesInv
<1>5. ASSUME NEW f \in Sent, StreamFrame(f) PROVE TypesInv'
  <2>1. f \in Frames /\ Deliver(f) /\ UNCHANGED <<asks, skipped, highest>>
        /\ (tomb' = tomb \/ tomb' = tomb \cup {f})
    BY <1>5, SentIsFrame DEF StreamFrame
  <2>2. given' \subseteq Frames /\ order'.far \in 0..Horizon
    BY <1>2, <2>1, DeliverKeepsTypes
  <2>3. QED
    BY <1>1, <1>2, <2>1, <2>2 DEF TypesInv, ClientTyped
<1>6. QED
  BY <1>3, <1>4, <1>5, ClientTakes DEF Next

(* Every variable of the video's way keeps its type, for any sizes, limits  *)
(* and losses: in particular a NACK names a fragment there can be, and the  *)
(* orderer starts over within its horizon (wtcore.ts, frameorder.ts).       *)
THEOREM RepairTypeCorrect == Spec => []TypeOK
<1>1. SentInv /\ ChainInv /\ TypesInv => TypeOK
  <2> SUFFICES ASSUME SentInv, ChainInv, TypesInv PROVE TypeOK
    OBVIOUS
  <2>1. /\ Sent \subseteq Frames /\ Frames = 0..LastFrame /\ LastFrame \in Nat
        /\ Sent = 0..(Len(film) - 1) /\ Len(film) \in Nat
    BY SentIsFrame, Bounds DEF Frames
  <2>2. order.last \in -1..LastFrame
    <3>1. CASE decoded = <<>>
      BY <2>1, <3>1 DEF ChainInv, None
    <3>2. CASE decoded # <<>>
      <4>1. Len(decoded) \in 1..Len(decoded)
        BY <3>2, EmptySeq, LenProperties DEF ChainInv
      <4>2. decoded[Len(decoded)] \in Sent
        BY <4>1, ElementOfSeq DEF ChainInv
      <4>3. QED
        BY <2>1, <3>2, <4>2 DEF ChainInv
    <3>3. QED
      BY <3>1, <3>2
  <2>3. order.pending \subseteq Frames /\ order.next \in -1..(LastFrame + 1)
    BY <2>1, <2>2 DEF ChainInv, Ordered, Orders, None
  <2>4. wire \subseteq Frames /\ Len(film) <= LastFrame + 1
    BY <2>1 DEF SentInv
  <2>5. QED
    BY <2>2, <2>3, <2>4 DEF TypesInv, HostTyped, ClientTyped, Slots, TypeOK
<1>2. Spec => [](SentInv /\ RoundsInv /\ FragmentsInv /\ SlotsInv /\ ChainInv /\ TypesInv)
  BY SentStarts, SentKept, RoundsStart, RoundsKept, FragmentsStart, FragmentsKept, SlotsKept,
     ChainStarts, ChainKept, TypesStart, TypesKept, PTL DEF Spec
<1>3. QED
  BY <1>1, <1>2, PTL
=============================================================================
