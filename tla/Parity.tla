------------------------------- MODULE Parity -------------------------------
(***************************************************************************)
(* The forward error correction of a video frame: groups of fragments, one *)
(* or two parity rows per group, and what the client rebuilds from them    *)
(* (crates/protocol/src/wtvideo.rs, fragment_parity; web/src/wtcore.ts,    *)
(* tryRepair).  Fragment i of a frame is the set {i}; XOR of payloads is   *)
(* the symmetric difference, so a payload is the set of the fragments it   *)
(* is the XOR of, and {} is one that is missing.                           *)
(***************************************************************************)
EXTENDS Integers, FiniteSets

CONSTANT FragmentGroup      \* FRAGMENT_GROUP

ASSUME GroupIsPositive == FragmentGroup \in Nat \ {0}

Fragments(cnt) == 0..(cnt - 1)
GroupOf(i) == i \div FragmentGroup
OddOffset(i) == (i % FragmentGroup) % 2 = 1
GroupCount(cnt) == (cnt + FragmentGroup - 1) \div FragmentGroup
Members(cnt, g) == {i \in Fragments(cnt) : GroupOf(i) = g}

(* wants_two_parity_rows; the threshold is TWO_ROW_MIN_FRAGMENTS.           *)
TwoRows(key, cnt, threshold) == key \/ cnt >= threshold

Row1(cnt, g) == Members(cnt, g)
Row2(cnt, g) == {i \in Members(cnt, g) : OddOffset(i)}

(* fragment_send_order: one fragment of every group, then the next offset.  *)
SentBefore(i, j) ==
  \/ i % FragmentGroup < j % FragmentGroup
  \/ i % FragmentGroup = j % FragmentGroup /\ GroupOf(i) < GroupOf(j)
FirstSent(cnt, k) ==
  {i \in Fragments(cnt) : Cardinality({j \in Fragments(cnt) : SentBefore(j, i)}) < k}

------------------------------------------------------------------------------
(* The client's side.  parts is what it holds of a frame, p1 and p2 the     *)
(* groups whose parity rows arrived.                                        *)

Xor(a, b) == (a \ b) \cup (b \ a)
XorAll(parts, S) ==
  {j \in DOMAIN parts : Cardinality({i \in S : j \in parts[i]}) % 2 = 1}

Holes(parts, S) == {i \in S : parts[i] = {}}

(* finalLength: the last fragment is shorter than the others; its length    *)
(* comes from a parity trailer and from the size of any other fragment.     *)
FinalKnown(parts, cnt, p1, p2) ==
  p1 \cup p2 # {} /\ (cnt = 1 \/ \E i \in 0..(cnt - 2) : parts[i] # {})

OnlyHole(parts, cnt, p1, p2, i) ==
  /\ Holes(parts, Members(cnt, GroupOf(i))) = {i}
  /\ GroupOf(i) \in p1
  /\ i = cnt - 1 => FinalKnown(parts, cnt, p1, p2)

OneOfTwoHoles(parts, cnt, p1, p2, i) ==
  /\ \E j \in Members(cnt, GroupOf(i)) \ {i} :
       /\ Holes(parts, Members(cnt, GroupOf(i))) = {i, j}
       /\ OddOffset(i) # OddOffset(j) /\ i # cnt - 1 /\ j # cnt - 1
  /\ GroupOf(i) \in p1 \cap p2

Rebuilt(parts, cnt, p1, p2, i) ==
  LET g == GroupOf(i)
      others == Members(cnt, g) \ {i}
  IN IF OnlyHole(parts, cnt, p1, p2, i)
     THEN Xor(Row1(cnt, g), XorAll(parts, others))
     ELSE IF ~OneOfTwoHoles(parts, cnt, p1, p2, i) THEN {}
     ELSE IF OddOffset(i)
     THEN Xor(Row2(cnt, g), XorAll(parts, {j \in others : OddOffset(j)}))
     ELSE Xor(Xor(Row1(cnt, g), Row2(cnt, g)),
              XorAll(parts, {j \in others : ~OddOffset(j)}))

(* tryRepair: group by group, so the last fragment sees what the groups     *)
(* before its own gained.                                                   *)
RepairAll(parts, cnt, p1, p2, S) ==
  [i \in Fragments(cnt) |->
    IF i \in S /\ parts[i] = {} THEN Rebuilt(parts, cnt, p1, p2, i) ELSE parts[i]]

TryRepair(parts, cnt, p1, p2) ==
  LET inner == RepairAll(parts, cnt, p1, p2, 0..(cnt - 2))
  IN RepairAll(inner, cnt, p1, p2, {cnt - 1})

Whole(parts, cnt) == \A i \in Fragments(cnt) : parts[i] # {}
=============================================================================
