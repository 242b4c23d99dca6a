------------------------------ MODULE WireProofs ------------------------------
(***************************************************************************)
(* The bytes of the input, for every packet, every base and every way the  *)
(* reads cut a stream: a packet that is written reads back field by field, *)
(* one of another version or cut short is refused, and the host hears the  *)
(* packets that were written, in order, on either carrier.                 *)
(***************************************************************************)
EXTENDS InputWire, SequenceTheorems, FiniteSetTheorems, TLAPS

-----------------------------------------------------------------------------
(* Digits *)

LEMMA Division ==
  ASSUME NEW m \in Int, m > 0, NEW n \in Int
  PROVE  /\ n \div m \in Int /\ n % m \in 0..(m - 1)
         /\ n = m * (n \div m) + (n % m)
  BY SMT

LEMMA Remainder ==
  ASSUME NEW m \in Int, m > 0, NEW q \in Int, NEW r \in 0..(m - 1)
  PROVE  (m * q + r) % m = r
  BY SMT

\* A quotient between two bounds lies between their factors.
LEMMA Between ==
  ASSUME NEW m \in Int, m > 0, NEW q \in Int, NEW r \in 0..(m - 1),
         NEW lo \in Int, NEW hi \in Int, m * lo <= m * q + r, m * q + r < m * hi
  PROVE  lo <= q /\ q < hi
<1>1. ASSUME q < lo PROVE FALSE
  <2>1. q + 1 <= lo
    BY <1>1
  <2>2. m * (q + 1) <= m * lo
    BY <2>1
  <2>3. m * (q + 1) = m * q + m
    OBVIOUS
  <2>4. m * q \in Int /\ m * lo \in Int
    OBVIOUS
  <2> QED  BY <2>2, <2>3, <2>4
<1>2. ASSUME hi <= q PROVE FALSE
  <2>1. m * hi <= m * q
    BY <1>2
  <2>2. m * q \in Int /\ m * hi \in Int
    OBVIOUS
  <2> QED  BY <2>1, <2>2
<1> QED  BY <1>1, <1>2

LEMMA Places ==
  /\ Base \in Int /\ Base > 7
  /\ Word \in Int /\ Word = Base * Base /\ Word > 7 * Base
  /\ Long \in Int /\ Long = Word * Word /\ Long > Word
  /\ Half \in Int /\ Half > 0 /\ 2 * Half <= Word /\ Word < 2 * Half + 2
<1>1. Base \in Int /\ Base > 7
  BY WireBounds
<1>2. Word \in Int /\ Word = Base * Base
  BY <1>1 DEF Word
<1>3. Base * Base >= 8 * Base
  BY <1>1
<1>4. Word > 7 * Base /\ Word > 7
  BY <1>1, <1>2, <1>3
<1>5. Long \in Int /\ Long = Word * Word
  BY <1>2 DEF Long
<1>6. Word * Word >= 7 * Word
  BY <1>2, <1>4
<1>7. Long > Word
  BY <1>2, <1>4, <1>5, <1>6
<1>8. Word = 2 * (Word \div 2) + (Word % 2) /\ Word \div 2 \in Int /\ Word % 2 \in 0..1
  BY <1>2
<1>9. Half \in Int /\ 2 * Half <= Word /\ Word < 2 * Half + 2
  BY <1>2, <1>8 DEF Half
<1>10. Half > 0
  BY <1>2, <1>4, <1>9
<1> QED  BY <1>1, <1>2, <1>4, <1>5, <1>7, <1>9, <1>10

\* A number splits into a low digit and the rest.
LEMMA Digits ==
  ASSUME NEW m \in Int, m > 0, NEW v \in 0..(m * m - 1)
  PROVE  /\ v % m \in 0..(m - 1) /\ v \div m \in 0..(m - 1)
         /\ (v \div m) % m = v \div m
         /\ (v % m) + m * (v \div m) = v
<1> DEFINE q == v \div m
           r == v % m
<1>1. q \in Int /\ r \in 0..(m - 1) /\ v = m * q + r
  BY Division
<1> HIDE DEF q, r
<1>2. m * 0 = 0 /\ m * m \in Int
  OBVIOUS
<1>3. 0 <= q /\ q < m
  BY <1>1, <1>2, Between
<1>4. (m * 0 + q) % m = q
  BY <1>1, <1>3, Remainder
<1>5. q % m = q
  BY <1>1, <1>2, <1>4
<1> QED  BY <1>1, <1>3, <1>5 DEF q, r

\* A negative number and its two's complement have the same digits.
LEMMA NegativeDigits ==
  ASSUME NEW v \in (-Half)..(-1)
  PROVE  (v % Base) + Base * ((v \div Base) % Base) = v + Word
<1> DEFINE q == v \div Base
           r == v % Base
<1>1. q \in Int /\ r \in 0..(Base - 1) /\ v = Base * q + r
  BY Places, Division
<1> HIDE DEF q, r
<1>2. Base * (-Base) = -Word /\ Base * 0 = 0
  BY Places
<1>3. -Base <= q /\ q < 0
  BY <1>1, <1>2, Places, Between
<1>4. (Base * (-1) + (q + Base)) % Base = q + Base
  BY <1>1, <1>3, Places, Remainder
<1>5. q % Base = q + Base
  BY <1>1, <1>4, Places
<1>6. Base * (q + Base) = Base * q + Word
  BY <1>1, Places
<1> QED  BY <1>1, <1>5, <1>6, Places DEF q, r

-----------------------------------------------------------------------------
(* Fields *)

LEMMA Joined ==
  \A S : \A s, t \in Seq(S) : s \o t \in Seq(S) /\ Len(s \o t) = Len(s) + Len(t)
  BY ConcatProperties

LEMMA OneByte ==
  ASSUME NEW v \in Byte
  PROVE  Le1(v) \in Seq(Byte) /\ Len(Le1(v)) = 1 /\ Le1(v)[1] = v
<1>1. v \in 0..(Base - 1) /\ Base * 0 + v = v
  BY Places DEF Byte
<1>2. v % Base = v
  BY <1>1, Places, Remainder
<1> QED  BY <1>2 DEF Le1

LEMMA TwoBytes ==
  ASSUME NEW v \in Int
  PROVE  /\ Le2(v) \in Seq(Byte) /\ Len(Le2(v)) = 2
         /\ Le2(v)[1] = v % Base /\ Le2(v)[2] = (v \div Base) % Base
<1>1. v \div Base \in Int /\ v % Base \in Byte
  BY Places, Division DEF Byte
<1>2. (v \div Base) % Base \in Byte
  BY <1>1, Places, Division DEF Byte
<1> QED  BY <1>1, <1>2 DEF Le2

LEMMA FourBytes ==
  ASSUME NEW v \in Int
  PROVE  /\ Le4(v) \in Seq(Byte) /\ Len(Le4(v)) = 4
         /\ v % Word \in Int /\ v \div Word \in Int
<1>1. v % Word \in Int /\ v \div Word \in Int
  BY Places, Division
<1>2. /\ Le2(v % Word) \in Seq(Byte) /\ Len(Le2(v % Word)) = 2
      /\ Le2(v \div Word) \in Seq(Byte) /\ Len(Le2(v \div Word)) = 2
  BY <1>1, TwoBytes
<1>3. PICK s \in Seq(Byte), t \in Seq(Byte) :
        s = Le2(v % Word) /\ t = Le2(v \div Word)
  BY <1>2
<1>4. s \o t \in Seq(Byte) /\ Len(s \o t) = 2 + 2
  BY <1>2, <1>3, Joined
<1> QED  BY <1>1, <1>3, <1>4 DEF Le4

LEMMA EightBytes ==
  ASSUME NEW v \in Int
  PROVE  /\ Le8(v) \in Seq(Byte) /\ Len(Le8(v)) = 8
         /\ v % Long \in Int /\ v \div Long \in Int
<1>1. v % Long \in Int /\ v \div Long \in Int
  BY Places, Division
<1>2. /\ Le4(v % Long) \in Seq(Byte) /\ Len(Le4(v % Long)) = 4
      /\ Le4(v \div Long) \in Seq(Byte) /\ Len(Le4(v \div Long)) = 4
  BY <1>1, FourBytes
<1>3. PICK s \in Seq(Byte), t \in Seq(Byte) :
        s = Le4(v % Long) /\ t = Le4(v \div Long)
  BY <1>2
<1>4. s \o t \in Seq(Byte) /\ Len(s \o t) = 4 + 4
  BY <1>2, <1>3, Joined
<1> QED  BY <1>1, <1>3, <1>4 DEF Le8

LEMMA TwoBytesEach ==
  ASSUME NEW s \in Seq(Int)
  PROVE  /\ Le2s(s) \in Seq(Byte) /\ Len(Le2s(s)) = 2 * Len(s)
         /\ \A i \in 1..Len(s) : /\ Le2s(s)[2 * i - 1] = Le2(s[i])[1]
                                 /\ Le2s(s)[2 * i] = Le2(s[i])[2]
<1>1. \A j \in 1..(2 * Len(s)) :
        (j + 1) \div 2 \in 1..Len(s) /\ 2 - (j % 2) \in 1..2
  OBVIOUS
<1>2. \A j \in 1..(2 * Len(s)) : Le2(s[(j + 1) \div 2])[2 - (j % 2)] \in Byte
  <2> TAKE j \in 1..(2 * Len(s))
  <2>1. PICK k \in Int : k = s[(j + 1) \div 2]
    BY <1>1, ElementOfSeq
  <2>2. Le2(k) \in Seq(Byte) /\ Len(Le2(k)) = 2
    BY TwoBytes
  <2> QED  BY <1>1, <2>1, <2>2, ElementOfSeq
<1>3. Le2s(s) \in [1..(2 * Len(s)) -> Byte]
  BY <1>2 DEF Le2s
<1>4. \A i \in 1..Len(s) :
        /\ 2 * i - 1 \in 1..(2 * Len(s)) /\ ((2 * i - 1) + 1) \div 2 = i /\ 2 - ((2 * i - 1) % 2) = 1
        /\ 2 * i \in 1..(2 * Len(s)) /\ (2 * i + 1) \div 2 = i /\ 2 - ((2 * i) % 2) = 2
  OBVIOUS
<1>5. \A i \in 1..Len(s) : /\ Le2s(s)[2 * i - 1] = Le2(s[i])[1]
                           /\ Le2s(s)[2 * i] = Le2(s[i])[2]
  BY <1>4 DEF Le2s
<1>6. 2 * Len(s) \in Nat
  OBVIOUS
<1>7. \A n \in Nat : \A f \in [1..n -> Byte] : f \in Seq(Byte) /\ Len(f) = n
  OBVIOUS
<1>8. Le2s(s) \in Seq(Byte) /\ Len(Le2s(s)) = 2 * Len(s)
  BY <1>3, <1>6, <1>7
<1> QED  BY <1>5, <1>8

\* The bytes t stand in b from position `at` on.
Holds(b, at, t) == \A j \in 1..Len(t) : b[at + j - 1] = t[j]

LEMMA HoldsParts ==
  ASSUME NEW S, NEW s \in Seq(S), NEW t \in Seq(S), NEW b, NEW at \in Int, Holds(b, at, s \o t)
  PROVE  Holds(b, at, s) /\ Holds(b, at + Len(s), t)
<1>1. \A j \in 1..Len(s) : b[at + j - 1] = s[j]
  BY ConcatProperties DEF Holds
<1>2. \A j \in 1..Len(t) : b[(at + Len(s)) + j - 1] = t[j]
  <2> TAKE j \in 1..Len(t)
  <2>1. Len(s) + j \in 1..Len(s \o t) /\ (s \o t)[Len(s) + j] = t[j]
    BY ConcatProperties
  <2>2. at + (Len(s) + j) - 1 = (at + Len(s)) + j - 1
    OBVIOUS
  <2> QED  BY <2>1, <2>2 DEF Holds
<1> QED  BY <1>1, <1>2 DEF Holds

LEMMA ReadByte ==
  ASSUME NEW v \in Byte, NEW b, NEW at \in Int, Holds(b, at, Le1(v))
  PROVE  b[at] = v
  BY OneByte DEF Holds

LEMMA ReadTwo ==
  ASSUME NEW v \in Int, NEW b, NEW at \in Int, Holds(b, at, Le2(v))
  PROVE  /\ v \in Unsigned => U2(b, at) = v
         /\ v \in AnInt16 => I2(b, at) = v
<1>1. b[at] = v % Base /\ b[at + 1] = (v \div Base) % Base
  <2>1. at + 1 - 1 = at /\ at + 2 - 1 = at + 1
    OBVIOUS
  <2> QED  BY <2>1, TwoBytes DEF Holds
<1>2. ASSUME v \in 0..(Word - 1) PROVE U2(b, at) = v
  <2>1. v \in 0..(Base * Base - 1)
    BY <1>2, Places
  <2> QED  BY <1>1, <2>1, Digits, Places DEF U2
<1>3. ASSUME v \in (-Half)..(-1) PROVE U2(b, at) = v + Word
  BY <1>1, <1>3, NegativeDigits DEF U2
<1>4. v \in AnInt16 => v \in 0..(Word - 1) \/ v \in (-Half)..(-1)
  BY Places DEF AnInt16
<1> QED  BY <1>2, <1>3, <1>4, Places DEF Unsigned, AnInt16, I2

LEMMA ReadFour ==
  ASSUME NEW v \in 0..(Long - 1), NEW b, NEW at \in Int, Holds(b, at, Le4(v))
  PROVE  U4(b, at) = v
<1>1. /\ v % Word \in 0..(Word - 1) /\ v \div Word \in 0..(Word - 1)
      /\ (v % Word) + Word * (v \div Word) = v
  BY Places, Digits
<1>2. Holds(b, at, Le2(v % Word)) /\ Holds(b, at + 2, Le2(v \div Word))
  <2>1. /\ Le2(v % Word) \in Seq(Byte) /\ Len(Le2(v % Word)) = 2
        /\ Le2(v \div Word) \in Seq(Byte)
    BY <1>1, TwoBytes
  <2>2. Holds(b, at, Le2(v % Word) \o Le2(v \div Word))
    BY DEF Le4
  <2> QED  BY <2>1, <2>2, HoldsParts
<1>3. U2(b, at) = v % Word /\ U2(b, at + 2) = v \div Word
  BY <1>1, <1>2, ReadTwo DEF Unsigned
<1> QED  BY <1>1, <1>3 DEF U4

LEMMA ReadEight ==
  ASSUME NEW v \in 0..(Long * Long - 1), NEW b, NEW at \in Int, Holds(b, at, Le8(v))
  PROVE  U8(b, at) = v
<1>1. /\ v % Long \in 0..(Long - 1) /\ v \div Long \in 0..(Long - 1)
      /\ (v % Long) + Long * (v \div Long) = v
  <2>1. Long \in Int /\ Long > 0
    BY Places
  <2> QED  BY <2>1, Digits
<1>2. Holds(b, at, Le4(v % Long)) /\ Holds(b, at + 4, Le4(v \div Long))
  <2>1. /\ Le4(v % Long) \in Seq(Byte) /\ Len(Le4(v % Long)) = 4
        /\ Le4(v \div Long) \in Seq(Byte)
    BY <1>1, FourBytes
  <2>2. Holds(b, at, Le4(v % Long) \o Le4(v \div Long))
    BY DEF Le8
  <2> QED  BY <2>1, <2>2, HoldsParts
<1>3. U4(b, at) = v % Long /\ U4(b, at + 4) = v \div Long
  BY <1>1, <1>2, ReadFour
<1> QED  BY <1>1, <1>3 DEF U8

LEMMA ReadTwoEach ==
  ASSUME NEW s \in Seq(Int), NEW b, NEW at \in Int, Holds(b, at, Le2s(s)), NEW i \in 1..Len(s)
  PROVE  Holds(b, at + 2 * i - 2, Le2(s[i]))
<1>1. s[i] \in Int /\ 2 * i - 1 \in 1..(2 * Len(s)) /\ 2 * i \in 1..(2 * Len(s))
  BY ElementOfSeq
<1>2. b[at + (2 * i - 1) - 1] = Le2(s[i])[1] /\ b[at + (2 * i) - 1] = Le2(s[i])[2]
  BY <1>1, TwoBytesEach DEF Holds
<1>3. Len(Le2(s[i])) = 2
  BY <1>1, TwoBytes
<1>4. /\ (at + 2 * i - 2) + 1 - 1 = at + (2 * i - 1) - 1
      /\ (at + 2 * i - 2) + 2 - 1 = at + (2 * i) - 1
  OBVIOUS
<1>5. \A j \in 1..2 : b[(at + 2 * i - 2) + j - 1] = Le2(s[i])[j]
  <2> TAKE j \in 1..2
  <2>1. j = 1 \/ j = 2
    OBVIOUS
  <2> QED  BY <1>2, <1>4, <2>1
<1> QED  BY <1>3, <1>5 DEF Holds

-----------------------------------------------------------------------------
(* Packets *)

\* A byte string of n bytes.
Bytes(s, n) == s \in Seq(Byte) /\ Len(s) = n

LEMMA TwoBytesAll ==
  ASSUME NEW s \in Seq(Int), NEW n \in Nat, Len(s) = n, NEW m, m = 2 * n
  PROVE  Bytes(Le2s(s), m)
  BY TwoBytesEach DEF Bytes

\* What is put together of parts is read part by part.
LEMMA Join ==
  ASSUME NEW s, NEW t, NEW n \in Nat, NEW m \in Nat, Bytes(s, n), Bytes(t, m)
  PROVE  /\ Bytes(s \o t, n + m)
         /\ \A b : \A at \in Int : Holds(b, at, s \o t) => Holds(b, at, s) /\ Holds(b, at + n, t)
<1>1. s \in Seq(Byte) /\ t \in Seq(Byte) /\ Len(s) = n /\ Len(t) = m
  BY DEF Bytes
<1>2. Bytes(s \o t, n + m)
  BY <1>1, Joined DEF Bytes
<1>3. ASSUME NEW b, NEW at \in Int, Holds(b, at, s \o t)
      PROVE  Holds(b, at, s) /\ Holds(b, at + n, t)
  BY <1>1, <1>3, HoldsParts
<1> QED  BY <1>2, <1>3

LEMMA PacketTyped ==
  ASSUME NEW p, IsPacket(p)
  PROVE  /\ p.kind \in 1..6 /\ p.kind \in Byte /\ p.flags \in Unsigned /\ p.flags \in Int
         /\ p.seq \in 0..(Long - 1) /\ p.seq \in Int
         /\ p.at \in 0..(Long * Long - 1) /\ p.at \in Int
         /\ p.nums \in Seq(Int) /\ p.keys \in Seq(Unsigned) /\ p.pad \in Seq(Seq(Int))
         /\ p = [kind |-> p.kind, flags |-> p.flags, seq |-> p.seq, at |-> p.at,
                 nums |-> p.nums, keys |-> p.keys, pad |-> p.pad]
<1>1. p \in [kind : 1..6, flags : Unsigned, seq : 0..(Long - 1), at : 0..(Long * Long - 1),
              nums : Seq(Int), keys : Seq(Unsigned), pad : Seq(Seq(Int))]
  BY DEF IsPacket
<1>2. Word \in Int /\ Long \in Int /\ Long * Long \in Int /\ Base \in Int /\ Base > 7
  BY Places
<1>3. p.kind \in 1..6 /\ p.flags \in Unsigned /\ p.seq \in 0..(Long - 1)
      /\ p.at \in 0..(Long * Long - 1)
  BY <1>1
<1>4. p.kind \in Byte /\ p.flags \in Int /\ p.seq \in Int /\ p.at \in Int
  BY <1>2, <1>3 DEF Unsigned, Byte
<1>5. p.nums \in Seq(Int) /\ p.keys \in Seq(Unsigned) /\ p.pad \in Seq(Seq(Int))
  BY <1>1
<1>6. p = [kind |-> p.kind, flags |-> p.flags, seq |-> p.seq, at |-> p.at,
           nums |-> p.nums, keys |-> p.keys, pad |-> p.pad]
  BY <1>1
<1> QED  BY <1>3, <1>4, <1>5, <1>6

LEMMA HeaderReads ==
  ASSUME NEW p, IsPacket(p), NEW version \in Byte
  PROVE  /\ Bytes(Header(p, version), HeaderLen)
         /\ \A b : Holds(b, 1, Header(p, version)) =>
              /\ b[1] = version /\ b[2] = p.kind /\ U2(b, 3) = p.flags
              /\ U4(b, 5) = p.seq /\ U8(b, 9) = p.at
<1> DEFINE f1 == Le1(version)
           f2 == Le1(p.kind)
           f3 == Le2(p.flags)
           f4 == Le4(p.seq)
           f5 == Le8(p.at)
<1>1. Bytes(f1, 1) /\ Bytes(f2, 1)
  BY PacketTyped, OneByte DEF Bytes
<1>2. Bytes(f3, 2)
  BY PacketTyped, TwoBytes DEF Bytes
<1>3. Bytes(f4, 4)
  BY PacketTyped, FourBytes DEF Bytes
<1>4. Bytes(f5, 8)
  BY PacketTyped, EightBytes DEF Bytes
<1>5. Header(p, version) = f1 \o f2 \o f3 \o f4 \o f5
  BY DEF Header
<1>6. ASSUME NEW b PROVE
        /\ Holds(b, 1, f1) => b[1] = version
        /\ Holds(b, 2, f2) => b[2] = p.kind
        /\ Holds(b, 3, f3) => U2(b, 3) = p.flags
        /\ Holds(b, 5, f4) => U4(b, 5) = p.seq
        /\ Holds(b, 9, f5) => U8(b, 9) = p.at
  BY PacketTyped, ReadByte, ReadTwo, ReadFour, ReadEight
<1> HIDE DEF f1, f2, f3, f4, f5
<1>7. PICK g2 : g2 = f1 \o f2
  OBVIOUS
<1>8. PICK g3 : g3 = g2 \o f3
  OBVIOUS
<1>9. PICK g4 : g4 = g3 \o f4
  OBVIOUS
<1>10. Bytes(g2, 1 + 1) /\ \A b : Holds(b, 1, g2) => Holds(b, 1, f1) /\ Holds(b, 1 + 1, f2)
  BY <1>1, <1>7, Join
<1>11. Bytes(g3, 2 + 2) /\ \A b : Holds(b, 1, g3) => Holds(b, 1, g2) /\ Holds(b, 1 + 2, f3)
  <2>1. Bytes(g2, 2)
    BY <1>10
  <2> QED  BY <1>2, <1>8, <2>1, Join
<1>12. Bytes(g4, 4 + 4) /\ \A b : Holds(b, 1, g4) => Holds(b, 1, g3) /\ Holds(b, 1 + 4, f4)
  <2>1. Bytes(g3, 4)
    BY <1>11
  <2> QED  BY <1>3, <1>9, <2>1, Join
<1>13. /\ Bytes(g4 \o f5, 8 + 8)
       /\ \A b : Holds(b, 1, g4 \o f5) => Holds(b, 1, g4) /\ Holds(b, 1 + 8, f5)
  <2>1. Bytes(g4, 8)
    BY <1>12
  <2> QED  BY <1>4, <2>1, Join
<1>14. Header(p, version) = g4 \o f5
  BY <1>5, <1>7, <1>8, <1>9
<1>15. 1 + 1 = 2 /\ 1 + 2 = 3 /\ 1 + 4 = 5 /\ 1 + 8 = 9 /\ 8 + 8 = 16
  OBVIOUS
<1> QED  BY <1>6, <1>10, <1>11, <1>12, <1>13, <1>14, <1>15 DEF HeaderLen

LEMMA GamepadReads ==
  ASSUME NEW g, IsGamepad(g)
  PROVE  /\ Bytes(WriteGamepad(g), 16)
         /\ \A b : \A at \in Int : Holds(b, at, WriteGamepad(g)) => ReadGamepad(b, at) = g
<1> DEFINE t == Tail(g)
<1>1. g \in Seq(Int) /\ Len(g) = 7 /\ g[1] \in Int /\ g[1] \in 0..(Long - 1)
  BY Places DEF IsGamepad
<1>2. t \in Seq(Int) /\ Len(t) = Len(g) - 1 /\ \A i \in 1..Len(t) : t[i] = g[i + 1]
  <2>1. g # <<>>
    <3>1. Len(g) = 7
      BY <1>1
    <3>2. Len(<<>>) = 0
      OBVIOUS
    <3>3. Len(g) # Len(<<>>)
      BY ONLY <3>1, <3>2
    <3> QED  BY ONLY <3>3, Zenon
  <2> QED  BY <1>1, <2>1, HeadTailProperties
<1> HIDE DEF t
<1>3. Len(t) = 6 /\ \A i \in 1..6 : t[i] = g[i + 1]
  <2>1. Len(t) = 6
    BY <1>1, <1>2
  <2> QED  BY <1>2, <2>1
<1>4. Bytes(Le4(g[1]), 4)
  BY <1>1, FourBytes DEF Bytes
<1>5. Bytes(Le2s(t), 12)
  <2>1. Le2s(t) \in Seq(Byte) /\ Len(Le2s(t)) = 2 * Len(t)
    BY <1>2, TwoBytesEach
  <2> QED  BY <1>3, <2>1 DEF Bytes
<1>6. WriteGamepad(g) = Le4(g[1]) \o Le2s(t)
  BY DEF WriteGamepad, t
<1>7. ASSUME NEW b, NEW at \in Int, Holds(b, at, WriteGamepad(g))
      PROVE  ReadGamepad(b, at) = g
  <2>1. Holds(b, at, Le4(g[1])) /\ Holds(b, at + 4, Le2s(t))
    BY <1>4, <1>5, <1>6, <1>7, Join
  <2>2. U4(b, at) = g[1]
    BY <1>1, <2>1, ReadFour
  <2>3. \A i \in 2..7 : Holds(b, at + 2 * i, Le2(g[i]))
    <3> TAKE i \in 2..7
    <3>1. i - 1 \in 1..Len(t) /\ t[i - 1] = g[i]
      <4>1. i - 1 \in 1..6 /\ (i - 1) + 1 = i
        OBVIOUS
      <4> QED  BY <1>3, <4>1
    <3>2. Holds(b, (at + 4) + 2 * (i - 1) - 2, Le2(t[i - 1]))
      <4>1. at + 4 \in Int
        OBVIOUS
      <4> QED  BY <1>2, <2>1, <3>1, <4>1, ReadTwoEach
    <3>3. (at + 4) + 2 * (i - 1) - 2 = at + 2 * i
      OBVIOUS
    <3> QED  BY <3>1, <3>2, <3>3
  <2>4. \A i \in 2..7 : /\ g[i] \in Unsigned => U2(b, at + 2 * i) = g[i]
                        /\ g[i] \in AnInt16 => I2(b, at + 2 * i) = g[i]
    <3> TAKE i \in 2..7
    <3>1. g[i] \in Int
      <4>1. i \in 1..Len(g)
        BY <1>1
      <4> QED  BY <1>1, <4>1, ElementOfSeq
    <3>2. at + 2 * i \in Int
      OBVIOUS
    <3> QED  BY <2>3, <3>1, <3>2, ReadTwo
  <2>5. \A i \in 1..7 : ReadGamepad(b, at)[i] = g[i]
    <3> TAKE i \in 1..7
    <3>1. ReadGamepad(b, at)[i] = IF i = 1 THEN U4(b, at)
                                  ELSE IF i <= 5 THEN I2(b, at + 2 * i) ELSE U2(b, at + 2 * i)
      BY DEF ReadGamepad
    <3>2. CASE i = 1
      BY <2>2, <3>1, <3>2
    <3>3. CASE i \in 2..5
      <4>1. i \in 2..7 /\ g[i] \in AnInt16
        BY <3>3 DEF IsGamepad
      <4>2. I2(b, at + 2 * i) = g[i]
        BY <2>4, <4>1
      <4> QED  BY <3>1, <3>3, <4>2
    <3>4. CASE i \in 6..7
      <4>1. i \in 2..7 /\ g[i] \in Unsigned
        BY <3>4 DEF IsGamepad
      <4>2. U2(b, at + 2 * i) = g[i]
        BY <2>4, <4>1
      <4> QED  BY <3>1, <3>4, <4>2
    <3> QED  BY <3>2, <3>3, <3>4
  <2>6. ReadGamepad(b, at) = [i \in 1..7 |-> ReadGamepad(b, at)[i]]
    BY DEF ReadGamepad
  <2>7. g = [i \in 1..7 |-> g[i]]
    BY <1>1
  <2> QED  BY <2>5, <2>6, <2>7
<1>8. Bytes(WriteGamepad(g), 4 + 12)
  BY <1>4, <1>5, <1>6, Join
<1> QED  BY <1>7, <1>8

LEMMA NumsTyped ==
  ASSUME NEW p, IsPacket(p)
  PROVE  /\ p.kind = 1 => Len(p.nums) = 4 /\ \A i \in 1..4 : p.nums[i] \in AnInt16
         /\ p.kind = 2 => Len(p.nums) = 1 /\ p.nums[1] \in Unsigned
         /\ p.kind = 3 => /\ Len(p.nums) = 3 /\ p.nums[1] \in Unsigned
                          /\ p.nums[2] \in 0..1 /\ p.nums[3] \in Byte
         /\ p.kind = 4 => Len(p.nums) = 0
         /\ p.kind = 5 => Len(p.nums) = 2 /\ p.nums[1] \in Unsigned /\ p.nums[2] \in Byte
         /\ p.kind = 6 => /\ Len(p.nums) = 4 /\ p.nums[1] \in 0..(Long - 1) /\ p.nums[2] \in Byte
                          /\ p.nums[3] \in Unsigned /\ p.nums[4] \in Unsigned
<1>1. Len(p.nums) = Len(Nums[p.kind]) /\ \A i \in 1..Len(p.nums) : p.nums[i] \in Nums[p.kind][i]
  BY DEF IsPacket
<1>2. p.nums \in Seq(Int)
  BY PacketTyped
<1>3. CASE p.kind = 1
  <2>1. /\ Len(Nums[1]) = 4 /\ Nums[1][1] = AnInt16 /\ Nums[1][2] = AnInt16
        /\ Nums[1][3] = AnInt16 /\ Nums[1][4] = AnInt16
    BY DEF Nums
  <2>2. Len(p.nums) = 4 /\ \A i \in 1..4 : p.nums[i] \in Nums[1][i]
    BY <1>1, <1>3, <2>1
  <2>3. \A i \in 1..4 : i = 1 \/ i = 2 \/ i = 3 \/ i = 4
    OBVIOUS
  <2> QED  BY <1>3, <2>1, <2>2, <2>3
<1>4. CASE p.kind = 2
  <2>1. Len(Nums[2]) = 1 /\ Nums[2][1] = Unsigned
    BY DEF Nums
  <2> QED  BY <1>1, <1>4, <2>1
<1>5. CASE p.kind = 3
  <2>1. /\ Len(Nums[3]) = 3 /\ Nums[3][1] = Unsigned /\ Nums[3][2] = 0..1 /\ Nums[3][3] = Byte
    BY DEF Nums
  <2>2. Len(p.nums) = 3 /\ \A i \in 1..3 : p.nums[i] \in Nums[3][i]
    BY <1>1, <1>5, <2>1
  <2> QED  BY <1>5, <2>1, <2>2
<1>6. CASE p.kind = 4
  <2>1. Len(Nums[4]) = 0
    BY DEF Nums
  <2> QED  BY <1>1, <1>6, <2>1
<1>7. CASE p.kind = 5
  <2>1. /\ Len(Nums[5]) = 2 /\ Nums[5][1] = Unsigned /\ Nums[5][2] = Byte
    BY DEF Nums
  <2>2. Len(p.nums) = 2 /\ \A i \in 1..2 : p.nums[i] \in Nums[5][i]
    BY <1>1, <1>7, <2>1
  <2> QED  BY <1>7, <2>1, <2>2
<1>8. CASE p.kind = 6
  <2>1. /\ Len(Nums[6]) = 4 /\ Nums[6][1] = 0..(Long - 1) /\ Nums[6][2] = Byte
        /\ Nums[6][3] = Unsigned /\ Nums[6][4] = Unsigned
    BY DEF Nums
  <2>2. Len(p.nums) = 4 /\ \A i \in 1..4 : p.nums[i] \in Nums[6][i]
    BY <1>1, <1>8, <2>1
  <2>3. p.nums[1] \in Nums[6][1] /\ p.nums[2] \in Nums[6][2]
    BY <2>2
  <2>4. p.nums[3] \in Unsigned /\ p.nums[4] \in Unsigned
    BY <2>1, <2>2
  <2>5. p.nums[1] \in 0..(Long - 1) /\ p.nums[2] \in Byte
    BY <2>1, <2>3, Zenon
  <2> QED  BY <1>8, <2>2, <2>4, <2>5
<1> QED  BY <1>3, <1>4, <1>5, <1>6, <1>7, <1>8, PacketTyped

LEMMA PadTyped ==
  ASSUME NEW p, IsPacket(p)
  PROVE  /\ p.kind = 4 => Len(p.pad) = 1 /\ IsGamepad(p.pad[1])
         /\ p.kind = 5 => /\ Len(p.pad) \in 0..1 /\ (Len(p.pad) = 1 => IsGamepad(p.pad[1]))
                          /\ Len(p.keys) \in Unsigned /\ p.keys \in Seq(Int)
         /\ p.kind \notin {4, 5} => p.pad = <<>>
         /\ p.kind # 5 => p.keys = <<>>
<1>1. p.pad \in Seq(Seq(Int)) /\ p.keys \in Seq(Unsigned)
  BY PacketTyped
<1>2. Len(p.pad) \in (CASE p.kind = 4 -> {1} [] p.kind = 5 -> {0, 1} [] OTHER -> {0})
  BY DEF IsPacket
<1>3. \A i \in 1..Len(p.pad) : IsGamepad(p.pad[i])
  BY DEF IsPacket
<1>4. Len(p.keys) < Word /\ (p.kind # 5 => p.keys = <<>>)
  BY DEF IsPacket
<1>5. Len(p.keys) \in Unsigned
  BY <1>1, <1>4, Places DEF Unsigned
<1>6. p.keys \in Seq(Int)
  BY <1>1, Places DEF Unsigned
<1>7. p.kind \notin {4, 5} => Len(p.pad) = 0
  BY <1>2
<1>8. p.kind = 4 => Len(p.pad) = 1
  BY <1>2
<1>9. p.kind = 5 => Len(p.pad) \in 0..1
  BY <1>2
<1>10. Len(p.pad) = 1 => IsGamepad(p.pad[1])
  BY <1>3
<1>11. Len(p.pad) = 0 => p.pad = <<>>
  BY <1>1, EmptySeq
<1> QED  BY <1>4, <1>5, <1>6, <1>7, <1>8, <1>9, <1>10, <1>11

\* What the fields of b are when the payload of p stands after its header.
PayloadIs(b, p) == Fields(b).nums = p.nums /\ Fields(b).keys = p.keys /\ Fields(b).pad = p.pad

LEMMA EqualSeqs ==
  ASSUME NEW S, NEW s \in Seq(S), NEW n \in Nat, Len(s) = n
  PROVE  s = [i \in 1..n |-> s[i]]
  OBVIOUS

LEMMA PointerReads ==
  ASSUME NEW p, IsPacket(p), p.kind = 1
  PROVE  /\ Bytes(Payload(p), 8)
         /\ \A b : b[2] = 1 /\ Holds(b, 17, Payload(p)) => PayloadIs(b, p)
<1>1. p.nums \in Seq(Int) /\ Len(p.nums) = 4 /\ \A i \in 1..4 : p.nums[i] \in AnInt16
  BY PacketTyped, NumsTyped
<1>2. Payload(p) = Le2s(p.nums)
  BY DEF Payload
<1>3. Bytes(Payload(p), 8)
  <2>1. 8 = 2 * 4
    OBVIOUS
  <2> QED  BY <1>1, <1>2, <2>1, TwoBytesAll
<1>4. ASSUME NEW b, b[2] = 1, Holds(b, 17, Payload(p)) PROVE PayloadIs(b, p)
  <2>1. \A i \in 1..4 : I2(b, 17 + 2 * i - 2) = p.nums[i]
    <3> TAKE i \in 1..4
    <3>1. Holds(b, 17 + 2 * i - 2, Le2(p.nums[i]))
      <4>1. Holds(b, 17, Le2s(p.nums)) /\ p.nums \in Seq(Int) /\ i \in 1..Len(p.nums)
        BY <1>1, <1>2, <1>4
      <4>2. 17 \in Int
        OBVIOUS
      <4> QED  BY ONLY <4>1, <4>2, ReadTwoEach
    <3>2. p.nums[i] \in Int /\ p.nums[i] \in AnInt16
      BY <1>1, ElementOfSeq
    <3>3. 17 + 2 * i - 2 \in Int
      OBVIOUS
    <3> QED  BY <3>1, <3>2, <3>3, ReadTwo
  <2>2. Fields(b) = [nums |-> [i \in 1..4 |-> I2(b, 17 + 2 * i - 2)], keys |-> <<>>, pad |-> <<>>]
    BY <1>4 DEF Fields, HeaderLen
  <2>3. [i \in 1..4 |-> I2(b, 17 + 2 * i - 2)] = [i \in 1..4 |-> p.nums[i]]
    BY <2>1
  <2>4. [i \in 1..4 |-> p.nums[i]] = p.nums
    BY <1>1, EqualSeqs
  <2> QED  BY <2>2, <2>3, <2>4, PadTyped DEF PayloadIs
<1> QED  BY <1>3, <1>4

LEMMA WheelReads ==
  ASSUME NEW p, IsPacket(p), p.kind = 2
  PROVE  /\ Bytes(Payload(p), 2)
         /\ \A b : b[2] = 2 /\ Holds(b, 17, Payload(p)) => PayloadIs(b, p)
<1>1. /\ p.nums \in Seq(Int) /\ Len(p.nums) = 1 /\ p.nums[1] \in Unsigned /\ p.nums[1] \in Int
  BY PacketTyped, NumsTyped, Places DEF Unsigned
<1>2. Payload(p) = Le2s(p.nums)
  BY DEF Payload
<1>3. Bytes(Payload(p), 2)
  <2>1. 2 = 2 * 1
    OBVIOUS
  <2> QED  BY <1>1, <1>2, <2>1, TwoBytesAll
<1>4. ASSUME NEW b, b[2] = 2, Holds(b, 17, Payload(p)) PROVE PayloadIs(b, p)
  <2>1. U2(b, 17) = p.nums[1]
    <3>1. Holds(b, 17 + 2 * 1 - 2, Le2(p.nums[1]))
      <4>1. Holds(b, 17, Le2s(p.nums)) /\ p.nums \in Seq(Int) /\ 1 \in 1..Len(p.nums)
        BY <1>1, <1>2, <1>4
      <4>2. 17 \in Int
        OBVIOUS
      <4> QED  BY <4>1, <4>2, ReadTwoEach
    <3>2. 17 + 2 * 1 - 2 = 17
      OBVIOUS
    <3> QED  BY <1>1, <3>1, <3>2, ReadTwo
  <2>2. Fields(b) = [nums |-> <<U2(b, 17)>>, keys |-> <<>>, pad |-> <<>>]
    BY <1>4 DEF Fields, HeaderLen
  <2>3. p.nums = <<p.nums[1]>>
    BY <1>1
  <2> QED  BY <2>1, <2>2, <2>3, PadTyped DEF PayloadIs
<1> QED  BY <1>3, <1>4

LEMMA ButtonReads ==
  ASSUME NEW p, IsPacket(p), p.kind = 3
  PROVE  /\ Bytes(Payload(p), 4)
         /\ \A b : b[2] = 3 /\ Holds(b, 17, Payload(p)) => PayloadIs(b, p)
<1> DEFINE f1 == Le2(p.nums[1])
           f2 == Le1(p.nums[2])
           f3 == Le1(p.nums[3])
<1>1. /\ p.nums \in Seq(Int) /\ Len(p.nums) = 3
      /\ p.nums[1] \in Unsigned /\ p.nums[2] \in 0..1 /\ p.nums[3] \in Byte
  BY PacketTyped, NumsTyped
<1>2. p.nums[1] \in Int /\ p.nums[2] \in Byte
  BY <1>1, Places DEF Unsigned, Byte
<1>3. Payload(p) = f1 \o f2 \o f3
  BY DEF Payload
<1>4. Bytes(f1, 2) /\ Bytes(f2, 1) /\ Bytes(f3, 1)
  BY <1>1, <1>2, OneByte, TwoBytes DEF Bytes
<1>5. ASSUME NEW b PROVE /\ Holds(b, 17, f1) => U2(b, 17) = p.nums[1]
                         /\ Holds(b, 19, f2) => b[19] = p.nums[2]
                         /\ Holds(b, 20, f3) => b[20] = p.nums[3]
  BY <1>1, <1>2, ReadByte, ReadTwo
<1> HIDE DEF f1, f2, f3
<1>6. PICK g2 : g2 = f1 \o f2
  OBVIOUS
<1>7. Bytes(g2, 2 + 1) /\ \A b : Holds(b, 17, g2) => Holds(b, 17, f1) /\ Holds(b, 17 + 2, f2)
  BY <1>4, <1>6, Join
<1>8. /\ Bytes(g2 \o f3, 3 + 1)
      /\ \A b : Holds(b, 17, g2 \o f3) => Holds(b, 17, g2) /\ Holds(b, 17 + 3, f3)
  <2>1. Bytes(g2, 3)
    BY <1>7
  <2> QED  BY <1>4, <2>1, Join
<1>9. Payload(p) = g2 \o f3
  BY <1>3, <1>6
<1>10. 17 + 2 = 19 /\ 17 + 3 = 20 /\ 3 + 1 = 4
  OBVIOUS
<1>11. ASSUME NEW b, b[2] = 3, Holds(b, 17, Payload(p)) PROVE PayloadIs(b, p)
  <2>1. U2(b, 17) = p.nums[1] /\ b[19] = p.nums[2] /\ b[20] = p.nums[3]
    BY <1>5, <1>7, <1>8, <1>9, <1>10, <1>11
  <2>2. Fields(b) = [nums |-> <<U2(b, 17), IF b[19] # 0 THEN 1 ELSE 0, b[20]>>,
                     keys |-> <<>>, pad |-> <<>>]
    BY <1>11 DEF Fields, HeaderLen
  <2>3. (IF b[19] # 0 THEN 1 ELSE 0) = p.nums[2]
    BY <1>1, <2>1
  <2>4. p.nums = <<p.nums[1], p.nums[2], p.nums[3]>>
    BY <1>1
  <2>5. Fields(b).nums = p.nums
    BY <2>1, <2>2, <2>3, <2>4
  <2> QED  BY <2>2, <2>5, PadTyped DEF PayloadIs
<1> QED  BY <1>8, <1>9, <1>10, <1>11

LEMMA PadReads ==
  ASSUME NEW p, IsPacket(p), p.kind = 4
  PROVE  /\ Bytes(Payload(p), 16)
         /\ \A b : b[2] = 4 /\ Holds(b, 17, Payload(p)) => PayloadIs(b, p)
<1>1. /\ p.nums \in Seq(Int) /\ Len(p.nums) = 0 /\ p.pad \in Seq(Seq(Int)) /\ Len(p.pad) = 1
      /\ IsGamepad(p.pad[1]) /\ p.keys = <<>>
  BY PacketTyped, NumsTyped, PadTyped
<1>2. Payload(p) = WriteGamepad(p.pad[1])
  BY DEF Payload
<1>3. Bytes(Payload(p), 16)
  BY <1>1, <1>2, GamepadReads
<1>4. ASSUME NEW b, b[2] = 4, Holds(b, 17, Payload(p)) PROVE PayloadIs(b, p)
  <2>1. ReadGamepad(b, 17) = p.pad[1]
    BY <1>1, <1>2, <1>4, GamepadReads
  <2>2. Fields(b) = [nums |-> <<>>, keys |-> <<>>, pad |-> <<ReadGamepad(b, 17)>>]
    BY <1>4 DEF Fields, HeaderLen
  <2>3. p.pad = <<p.pad[1]>> /\ p.nums = <<>>
    BY <1>1
  <2> QED  BY <1>1, <2>1, <2>2, <2>3 DEF PayloadIs
<1> QED  BY <1>3, <1>4

\* The fixed part of a keyboard's payload says how long the rest is.
KeyboardStart(p) == Le2(p.nums[1]) \o Le1(p.nums[2]) \o Le1(Len(p.pad)) \o Le2(Len(p.keys))

LEMMA KeyboardStarts ==
  ASSUME NEW p, IsPacket(p), p.kind = 5
  PROVE  /\ Bytes(KeyboardStart(p), 6)
         /\ \A b : Holds(b, 17, KeyboardStart(p)) =>
              /\ U2(b, 17) = p.nums[1] /\ b[19] = p.nums[2]
              /\ b[20] = Len(p.pad) /\ U2(b, 21) = Len(p.keys)
<1> DEFINE f1 == Le2(p.nums[1])
           f2 == Le1(p.nums[2])
           f3 == Le1(Len(p.pad))
           f4 == Le2(Len(p.keys))
<1>1. /\ p.nums[1] \in Unsigned /\ p.nums[2] \in Byte
      /\ Len(p.pad) \in 0..1 /\ Len(p.keys) \in Unsigned
  BY NumsTyped, PadTyped
<1>2. p.nums[1] \in Int /\ Len(p.pad) \in Byte /\ Len(p.keys) \in Int
  <2>1. \A i \in Unsigned : i \in Int
    BY Places DEF Unsigned
  <2>2. \A i \in 0..1 : i \in Byte
    BY Places DEF Byte
  <2> QED  BY <1>1, <2>1, <2>2, Zenon
<1>3. KeyboardStart(p) = f1 \o f2 \o f3 \o f4
  BY DEF KeyboardStart
<1>4. Bytes(f1, 2) /\ Bytes(f2, 1) /\ Bytes(f3, 1) /\ Bytes(f4, 2)
  BY <1>1, <1>2, OneByte, TwoBytes DEF Bytes
<1>5. ASSUME NEW b PROVE /\ Holds(b, 17, f1) => U2(b, 17) = p.nums[1]
                         /\ Holds(b, 19, f2) => b[19] = p.nums[2]
                         /\ Holds(b, 20, f3) => b[20] = Len(p.pad)
                         /\ Holds(b, 21, f4) => U2(b, 21) = Len(p.keys)
  BY <1>1, <1>2, ReadByte, ReadTwo
<1> HIDE DEF f1, f2, f3, f4
<1>6. PICK g2 : g2 = f1 \o f2
  OBVIOUS
<1>7. PICK g3 : g3 = g2 \o f3
  OBVIOUS
<1>8. Bytes(g2, 2 + 1) /\ \A b : Holds(b, 17, g2) => Holds(b, 17, f1) /\ Holds(b, 17 + 2, f2)
  BY <1>4, <1>6, Join
<1>9. Bytes(g3, 3 + 1) /\ \A b : Holds(b, 17, g3) => Holds(b, 17, g2) /\ Holds(b, 17 + 3, f3)
  <2>1. Bytes(g2, 3)
    BY <1>8
  <2> QED  BY <1>4, <1>7, <2>1, Join
<1>10. /\ Bytes(g3 \o f4, 4 + 2)
       /\ \A b : Holds(b, 17, g3 \o f4) => Holds(b, 17, g3) /\ Holds(b, 17 + 4, f4)
  <2>1. Bytes(g3, 4)
    BY <1>9
  <2> QED  BY <1>4, <2>1, Join
<1>11. KeyboardStart(p) = g3 \o f4
  BY <1>3, <1>6, <1>7
<1>12. 17 + 2 = 19 /\ 17 + 3 = 20 /\ 17 + 4 = 21 /\ 4 + 2 = 6
  OBVIOUS
<1> QED  BY <1>5, <1>8, <1>9, <1>10, <1>11, <1>12

LEMMA KeyboardReads ==
  ASSUME NEW p, IsPacket(p), p.kind = 5
  PROVE  /\ Bytes(Payload(p), 6 + 2 * Len(p.keys) + 16 * Len(p.pad))
         /\ \A b : Holds(b, 17, Payload(p)) =>
              Holds(b, 17, KeyboardStart(p)) /\ (b[2] = 5 => PayloadIs(b, p))
<1> DEFINE keys == Le2s(p.keys)
           pad == IF p.pad = <<>> THEN <<>> ELSE WriteGamepad(p.pad[1])
           k == Len(p.keys)
<1>1. /\ p.keys \in Seq(Int) /\ p.nums \in Seq(Int) /\ p.pad \in Seq(Seq(Int)) /\ k \in Nat
      /\ Len(p.pad) \in 0..1 /\ (Len(p.pad) = 1 => IsGamepad(p.pad[1]))
      /\ Len(p.nums) = 2 /\ k \in Unsigned
  BY PacketTyped, NumsTyped, PadTyped, LenProperties
<1>2. PICK g4 : g4 = KeyboardStart(p)
  OBVIOUS
<1>3. Bytes(g4, 6)
  BY <1>2, KeyboardStarts
<1>4. Payload(p) = g4 \o keys \o pad
  <2>1. KeyboardStart(p) \o keys \o pad = Payload(p)
    <3>1. CASE p.pad = <<>>
      BY <3>1 DEF Payload, KeyboardStart
    <3>2. CASE p.pad # <<>>
      BY <3>2 DEF Payload, KeyboardStart
    <3> QED  BY <3>1, <3>2
  <2> QED  BY <1>2, <2>1
<1>5. Bytes(keys, 2 * k)
  BY <1>1, TwoBytesAll
<1>6. (Len(p.pad) = 0 => pad = <<>>) /\ (Len(p.pad) = 1 => pad = WriteGamepad(p.pad[1]))
  <2>1. Len(p.pad) = 0 => p.pad = <<>>
    BY <1>1, EmptySeq
  <2>2. Len(p.pad) = 1 => p.pad # <<>>
    OBVIOUS
  <2> QED  BY <2>1, <2>2
<1>7. ASSUME NEW b, NEW at \in Int, Holds(b, at, keys), NEW i \in 1..k
      PROVE  U2(b, at + 2 * i - 2) = p.keys[i]
  <2>1. Holds(b, at + 2 * i - 2, Le2(p.keys[i]))
    BY <1>1, <1>7, ReadTwoEach
  <2>2. p.keys[i] \in Unsigned /\ p.keys[i] \in Int
    BY <1>1, PacketTyped, ElementOfSeq
  <2>3. at + 2 * i - 2 \in Int
    BY <1>1
  <2> QED  BY <2>1, <2>2, <2>3, ReadTwo
<1> HIDE DEF keys, pad
<1>8. ASSUME NEW b, NEW at \in Int, Holds(b, at, pad), Len(p.pad) = 1
      PROVE  ReadGamepad(b, at) = p.pad[1]
  BY <1>1, <1>6, <1>8, GamepadReads
<1>9. PICK g5 : g5 = g4 \o keys
  OBVIOUS
<1>10. PICK u \in Nat : u = 6 + 2 * k
  BY <1>1
<1>16. PICK m \in Nat : m = 16 * Len(p.pad)
  BY <1>1
<1>17. Bytes(pad, m)
  <2>1. CASE Len(p.pad) = 0
    BY <1>6, <1>16, <2>1, EmptySeq DEF Bytes
  <2>2. CASE Len(p.pad) = 1
    <3>1. m = 16
      BY <1>16, <2>2
    <3> QED  BY <1>1, <1>6, <2>2, <3>1, GamepadReads
  <2> QED  BY <1>1, <2>1, <2>2
<1>11. Bytes(g5, u) /\ \A b : Holds(b, 17, g5) => Holds(b, 17, g4) /\ Holds(b, 17 + 6, keys)
  <2>1. 2 * k \in Nat
    BY <1>1
  <2> QED  BY <1>3, <1>5, <1>9, <1>10, <2>1, Join
<1>12. /\ Bytes(g5 \o pad, u + m)
       /\ \A b : Holds(b, 17, g5 \o pad) => Holds(b, 17, g5) /\ Holds(b, 17 + u, pad)
  BY <1>17, <1>11, Join
<1>13. Payload(p) = g5 \o pad
  BY <1>4, <1>9
<1>14. ASSUME NEW b, Holds(b, 17, Payload(p))
       PROVE  Holds(b, 17, KeyboardStart(p)) /\ (b[2] = 5 => PayloadIs(b, p))
  <2>1. Holds(b, 17, g4) /\ Holds(b, 23, keys) /\ Holds(b, 23 + 2 * k, pad)
    <3>1. Holds(b, 17, g5) /\ Holds(b, 17 + u, pad)
      BY <1>12, <1>13, <1>14
    <3>2. Holds(b, 17, g4) /\ Holds(b, 17 + 6, keys)
      BY <1>11, <3>1
    <3>3. 17 + 6 = 23 /\ 17 + u = 23 + 2 * k
      BY <1>1, <1>10
    <3> QED  BY <3>1, <3>2, <3>3
  <2>2. /\ U2(b, 17) = p.nums[1] /\ b[19] = p.nums[2] /\ b[20] = Len(p.pad) /\ U2(b, 21) = k
    BY <1>2, <2>1, KeyboardStarts
  <2>3. KeyCount(b) = k /\ (PadPresent(b) <=> Len(p.pad) = 1)
    <3>1. KeyCount(b) = U2(b, 21) /\ (PadPresent(b) <=> b[20] % 2 = 1)
      <4>1. HeaderLen + 4 = 20 /\ HeaderLen + 5 = 21
        BY DEF HeaderLen
      <4> QED  BY <4>1 DEF KeyCount, PadPresent
    <3>2. \A i \in 0..1 : (i % 2 = 1 <=> i = 1)
      OBVIOUS
    <3> QED  BY <1>1, <2>2, <3>1, <3>2
  <2>4. SUFFICES ASSUME b[2] = 5 PROVE PayloadIs(b, p)
    BY <1>2, <2>1
  <2>5. Fields(b) = [nums |-> <<U2(b, 17), b[19]>>,
                     keys |-> [i \in 1..KeyCount(b) |-> U2(b, 17 + 4 + 2 * i)],
                     pad |-> IF PadPresent(b) THEN <<ReadGamepad(b, 17 + 6 + 2 * KeyCount(b))>> ELSE <<>>]
    BY <2>4 DEF Fields, HeaderLen
  <2>6. Fields(b).nums = p.nums
    <3>1. p.nums = <<p.nums[1], p.nums[2]>>
      BY <1>1
    <3> QED  BY <2>2, <2>5, <3>1
  <2>7. Fields(b).keys = p.keys
    <3>1. \A i \in 1..k : U2(b, 17 + 4 + 2 * i) = p.keys[i]
      <4> TAKE i \in 1..k
      <4>1. 23 + 2 * i - 2 = 17 + 4 + 2 * i
        BY <1>1
      <4>2. 23 \in Int
        OBVIOUS
      <4> QED  BY <1>7, <2>1, <4>1, <4>2
    <3>2. p.keys = [i \in 1..k |-> p.keys[i]]
      BY <1>1, EqualSeqs
    <3>3. [i \in 1..k |-> U2(b, 17 + 4 + 2 * i)] = [i \in 1..k |-> p.keys[i]]
      BY <3>1
    <3>4. Fields(b).keys = [i \in 1..KeyCount(b) |-> U2(b, 17 + 4 + 2 * i)]
      BY <2>5
    <3> QED  BY <2>3, <3>2, <3>3, <3>4
  <2>8. Fields(b).pad = p.pad
    <3> DEFINE there == <<ReadGamepad(b, 17 + 6 + 2 * KeyCount(b))>>
    <3>3. Fields(b).pad = IF PadPresent(b) THEN there ELSE <<>>
      BY <2>5
    <3> HIDE DEF there
    <3>1. CASE Len(p.pad) = 0
      <4>1. p.pad = <<>>
        BY <1>1, <3>1, EmptySeq
      <4>2. ~PadPresent(b)
        BY <2>3, <3>1
      <4>3. Fields(b).pad = <<>>
        BY <3>3, <4>2, Zenon
      <4> QED  BY <4>1, <4>3
    <3>2. CASE Len(p.pad) = 1
      <4>1. 23 + 2 * k \in Int /\ 17 + 6 + 2 * k = 23 + 2 * k
        BY <1>1
      <4>2. ReadGamepad(b, 17 + 6 + 2 * k) = p.pad[1]
        BY <1>8, <2>1, <3>2, <4>1
      <4>3. p.pad = <<p.pad[1]>>
        BY <1>1, <3>2
      <4>4. PadPresent(b)
        BY <2>3, <3>2
      <4> QED  BY <2>3, <3>3, <4>2, <4>3, <4>4 DEF there
    <3> QED  BY <1>1, <3>1, <3>2
  <2> QED  BY <2>6, <2>7, <2>8 DEF PayloadIs
<1>15. u + m = 6 + 2 * Len(p.keys) + 16 * Len(p.pad)
  BY <1>10, <1>16
<1> QED  BY <1>12, <1>13, <1>14, <1>15

LEMMA TouchReads ==
  ASSUME NEW p, IsPacket(p), p.kind = 6
  PROVE  /\ Bytes(Payload(p), 10)
         /\ \A b : b[2] = 6 /\ Holds(b, 17, Payload(p)) => PayloadIs(b, p)
<1> DEFINE f1 == Le4(p.nums[1])
           f2 == Le1(p.nums[2])
           f3 == Le1(0)
           f4 == Le2(p.nums[3])
           f5 == Le2(p.nums[4])
<1>1. /\ p.nums \in Seq(Int) /\ Len(p.nums) = 4 /\ p.nums[1] \in 0..(Long - 1)
      /\ p.nums[2] \in Byte /\ p.nums[3] \in Unsigned /\ p.nums[4] \in Unsigned
  BY PacketTyped, NumsTyped
<1>2. p.nums[1] \in Int /\ 0 \in Byte /\ p.nums[3] \in Int /\ p.nums[4] \in Int
  BY <1>1, Places DEF Unsigned, Byte
<1>3. Payload(p) = f1 \o f2 \o f3 \o f4 \o f5
  BY DEF Payload
<1>4. Bytes(f1, 4) /\ Bytes(f2, 1) /\ Bytes(f3, 1) /\ Bytes(f4, 2) /\ Bytes(f5, 2)
  BY <1>1, <1>2, OneByte, TwoBytes, FourBytes DEF Bytes
<1>5. ASSUME NEW b PROVE /\ Holds(b, 17, f1) => U4(b, 17) = p.nums[1]
                         /\ Holds(b, 21, f2) => b[21] = p.nums[2]
                         /\ Holds(b, 23, f4) => U2(b, 23) = p.nums[3]
                         /\ Holds(b, 25, f5) => U2(b, 25) = p.nums[4]
  <2>1. 17 \in Int /\ 21 \in Int /\ 23 \in Int /\ 25 \in Int
    OBVIOUS
  <2>2. Holds(b, 17, f1) => U4(b, 17) = p.nums[1]
    BY <1>1, <2>1, ReadFour
  <2>3. Holds(b, 21, f2) => b[21] = p.nums[2]
    BY <1>1, <2>1, ReadByte
  <2>4. Holds(b, 23, f4) => U2(b, 23) = p.nums[3]
    BY <1>1, <1>2, <2>1, ReadTwo
  <2>5. Holds(b, 25, f5) => U2(b, 25) = p.nums[4]
    BY <1>1, <1>2, <2>1, ReadTwo
  <2> QED  BY <2>2, <2>3, <2>4, <2>5
<1> HIDE DEF f1, f2, f3, f4, f5
<1>6. PICK g2 : g2 = f1 \o f2
  OBVIOUS
<1>7. PICK g3 : g3 = g2 \o f3
  OBVIOUS
<1>8. PICK g4 : g4 = g3 \o f4
  OBVIOUS
<1>9. Bytes(g2, 4 + 1) /\ \A b : Holds(b, 17, g2) => Holds(b, 17, f1) /\ Holds(b, 17 + 4, f2)
  BY <1>4, <1>6, Join
<1>10. Bytes(g3, 5 + 1) /\ \A b : Holds(b, 17, g3) => Holds(b, 17, g2)
  <2>1. Bytes(g2, 5)
    BY <1>9
  <2> QED  BY <1>4, <1>7, <2>1, Join
<1>11. Bytes(g4, 6 + 2) /\ \A b : Holds(b, 17, g4) => Holds(b, 17, g3) /\ Holds(b, 17 + 6, f4)
  <2>1. Bytes(g3, 6)
    BY <1>10
  <2> QED  BY <1>4, <1>8, <2>1, Join
<1>12. /\ Bytes(g4 \o f5, 8 + 2)
       /\ \A b : Holds(b, 17, g4 \o f5) => Holds(b, 17, g4) /\ Holds(b, 17 + 8, f5)
  <2>1. Bytes(g4, 8)
    BY <1>11
  <2> QED  BY <1>4, <2>1, Join
<1>13. Payload(p) = g4 \o f5
  BY <1>3, <1>6, <1>7, <1>8
<1>14. 17 + 4 = 21 /\ 17 + 6 = 23 /\ 17 + 8 = 25 /\ 8 + 2 = 10
  OBVIOUS
<1>15. ASSUME NEW b, b[2] = 6, Holds(b, 17, Payload(p)) PROVE PayloadIs(b, p)
  <2>1. /\ U4(b, 17) = p.nums[1] /\ b[21] = p.nums[2]
        /\ U2(b, 23) = p.nums[3] /\ U2(b, 25) = p.nums[4]
    BY <1>5, <1>9, <1>10, <1>11, <1>12, <1>13, <1>14, <1>15
  <2>2. Fields(b) = [nums |-> <<U4(b, 17), b[21], U2(b, 23), U2(b, 25)>>,
                     keys |-> <<>>, pad |-> <<>>]
    BY <1>15 DEF Fields, HeaderLen
  <2>3. p.nums = <<p.nums[1], p.nums[2], p.nums[3], p.nums[4]>>
    BY <1>1
  <2> QED  BY <2>1, <2>2, <2>3, PadTyped DEF PayloadIs
<1> QED  BY <1>12, <1>13, <1>14, <1>15

PayloadSize(p) ==
  CASE p.kind = 1 -> 8 [] p.kind = 2 -> 2 [] p.kind = 3 -> 4 [] p.kind = 4 -> 16
    [] p.kind = 5 -> 6 + 2 * Len(p.keys) + 16 * Len(p.pad) [] p.kind = 6 -> 10

LEMMA PayloadReads ==
  ASSUME NEW p, IsPacket(p)
  PROVE  /\ PayloadSize(p) \in Nat /\ Bytes(Payload(p), PayloadSize(p))
         /\ \A b : Holds(b, 17, Payload(p)) =>
              /\ b[2] = p.kind => PayloadIs(b, p)
              /\ p.kind = 5 => Holds(b, 17, KeyboardStart(p))
<1>1. CASE p.kind = 1
  BY <1>1, PointerReads DEF PayloadSize
<1>2. CASE p.kind = 2
  BY <1>2, WheelReads DEF PayloadSize
<1>3. CASE p.kind = 3
  BY <1>3, ButtonReads DEF PayloadSize
<1>4. CASE p.kind = 4
  BY <1>4, PadReads DEF PayloadSize
<1>5. CASE p.kind = 5
  <2>1. PayloadSize(p) = 6 + 2 * Len(p.keys) + 16 * Len(p.pad)
    BY <1>5 DEF PayloadSize
  <2>2. Len(p.keys) \in Nat /\ Len(p.pad) \in Nat
    BY PacketTyped, LenProperties
  <2>3. PayloadSize(p) \in Nat
    <3>1. \A i, j \in Nat : 6 + 2 * i + 16 * j \in Nat
      OBVIOUS
    <3> QED  BY <2>1, <2>2, <3>1, Zenon
  <2> QED  BY <1>5, <2>1, <2>3, KeyboardReads
<1>6. CASE p.kind = 6
  BY <1>6, TouchReads DEF PayloadSize
<1> QED  BY <1>1, <1>2, <1>3, <1>4, <1>5, <1>6, PacketTyped

LEMMA PacketReads ==
  ASSUME NEW p, IsPacket(p), NEW version \in Byte
  PROVE  /\ Bytes(EncodePacket(p, version), 16 + PayloadSize(p))
         /\ \A b : Holds(b, 1, EncodePacket(p, version)) =>
              /\ b[1] = version /\ b[2] = p.kind /\ U2(b, 3) = p.flags
              /\ U4(b, 5) = p.seq /\ U8(b, 9) = p.at /\ PayloadIs(b, p)
              /\ p.kind = 5 => Holds(b, 17, KeyboardStart(p))
<1>1. PICK h : h = Header(p, version)
  OBVIOUS
<1>2. PICK t : t = Payload(p)
  OBVIOUS
<1>3. PICK m \in Nat : m = PayloadSize(p)
  BY PayloadReads
<1>4. Bytes(h, 16) /\ Bytes(t, m)
  BY <1>1, <1>2, <1>3, HeaderReads, PayloadReads DEF HeaderLen
<1>5. /\ Bytes(h \o t, 16 + m)
      /\ \A b : Holds(b, 1, h \o t) => Holds(b, 1, h) /\ Holds(b, 1 + 16, t)
  BY <1>4, Join
<1>6. EncodePacket(p, version) = h \o t
  BY <1>1, <1>2 DEF EncodePacket
<1>7. 1 + 16 = 17
  OBVIOUS
<1>8. ASSUME NEW b, Holds(b, 1, h), Holds(b, 17, t)
      PROVE  /\ b[1] = version /\ b[2] = p.kind /\ U2(b, 3) = p.flags
             /\ U4(b, 5) = p.seq /\ U8(b, 9) = p.at /\ PayloadIs(b, p)
             /\ p.kind = 5 => Holds(b, 17, KeyboardStart(p))
  <2>1. /\ b[1] = version /\ b[2] = p.kind /\ U2(b, 3) = p.flags
        /\ U4(b, 5) = p.seq /\ U8(b, 9) = p.at
    BY <1>1, <1>8, HeaderReads
  <2>2. PayloadIs(b, p) /\ (p.kind = 5 => Holds(b, 17, KeyboardStart(p)))
    BY <1>2, <1>8, <2>1, PayloadReads
  <2> QED  BY <2>1, <2>2
<1> QED  BY <1>3, <1>5, <1>6, <1>7, <1>8

\* What the host takes the length of a packet for.
LEMMA NeedIs ==
  ASSUME NEW p, IsPacket(p), NEW b, b[2] = p.kind,
         p.kind = 5 => ~(Len(b) < 22) /\ Holds(b, 17, KeyboardStart(p))
  PROVE  Need(b) = 16 + PayloadSize(p)
<1>1. CASE p.kind = 5
  <2>1. b[20] = Len(p.pad) /\ U2(b, 21) = Len(p.keys)
    BY <1>1, KeyboardStarts
  <2>2. KeyCount(b) = U2(b, 21) /\ (PadPresent(b) <=> b[20] % 2 = 1)
    <3>1. HeaderLen + 4 = 20 /\ HeaderLen + 5 = 21
      BY DEF HeaderLen
    <3> QED  BY <3>1 DEF KeyCount, PadPresent
  <2>3. Len(p.pad) \in 0..1 /\ Len(p.keys) \in Nat
    BY <1>1, PadTyped, PacketTyped, LenProperties
  <2>4. \A i \in 0..1 : (i % 2 = 1 <=> i = 1)
    OBVIOUS
  <2>5. PadPresent(b) <=> Len(p.pad) = 1
    BY <2>1, <2>2, <2>3, <2>4
  <2>6. ~(Len(b) < HeaderLen + 6)
    BY <1>1 DEF HeaderLen
  <2>7. Need(b) = 16 + (6 + 2 * KeyCount(b) + (IF PadPresent(b) THEN 16 ELSE 0))
    BY <1>1, <2>6 DEF Need, HeaderLen
  <2>8. (IF PadPresent(b) THEN 16 ELSE 0) = 16 * Len(p.pad)
    <3>1. CASE Len(p.pad) = 1
      BY <2>5, <3>1
    <3>2. CASE Len(p.pad) = 0
      BY <2>5, <3>2
    <3> QED  BY <2>3, <3>1, <3>2
  <2>9. PayloadSize(p) = 6 + 2 * Len(p.keys) + 16 * Len(p.pad)
    BY <1>1 DEF PayloadSize
  <2> QED  BY <2>1, <2>2, <2>7, <2>8, <2>9
<1>2. CASE p.kind # 5
  BY <1>2, PacketTyped DEF Need, PayloadSize, HeaderLen
<1> QED  BY <1>1, <1>2

LEMMA HoldsItself ==
  ASSUME NEW s
  PROVE  Holds(s, 1, s)
  BY DEF Holds

(* A packet that a browser writes (encodePointer, encodeKeyboardState and   *)
(* the others of web/src/input/protocol.ts) is one that InputPacket::decode *)
(* reads, and reads back to the field: every sign, key and gamepad axis.    *)
THEOREM PacketsReadBack ==
  ASSUME NEW p, IsPacket(p)
  PROVE  Decodes(EncodePacket(p, 1)) /\ Decode(EncodePacket(p, 1)) = p
<1>1. PICK b : b = EncodePacket(p, 1)
  OBVIOUS
<1>2. 1 \in Byte
  BY Places DEF Byte
<1>3. Bytes(b, 16 + PayloadSize(p))
  BY <1>1, <1>2, PacketReads
<1>4. /\ b[1] = 1 /\ b[2] = p.kind /\ U2(b, 3) = p.flags
      /\ U4(b, 5) = p.seq /\ U8(b, 9) = p.at /\ PayloadIs(b, p)
      /\ p.kind = 5 => Holds(b, 17, KeyboardStart(p))
  BY <1>1, <1>2, PacketReads, HoldsItself
<1>5. PICK m \in Nat : m = PayloadSize(p)
  BY PayloadReads
<1>6. Len(b) = 16 + m
  BY <1>3, <1>5 DEF Bytes
<1>7. p.kind = 5 => ~(Len(b) < 22)
  <2>1. ASSUME p.kind = 5 PROVE 6 <= m
    <3>1. PICK i \in Nat, j \in Nat : i = Len(p.keys) /\ j = Len(p.pad)
      BY PacketTyped, LenProperties
    <3>2. m = 6 + 2 * i + 16 * j
      BY <1>5, <2>1, <3>1 DEF PayloadSize
    <3> QED  BY <3>2
  <2> QED  BY <1>6, <2>1
<1>8. Need(b) = 16 + m
  BY <1>4, <1>5, <1>7, NeedIs
<1>9. Decodes(b)
  BY <1>4, <1>6, <1>8, PacketTyped DEF Decodes, HeaderLen
<1>10. Decode(b) = [kind |-> p.kind, flags |-> p.flags, seq |-> p.seq, at |-> p.at,
                    nums |-> p.nums, keys |-> p.keys, pad |-> p.pad]
  BY <1>4 DEF Decode, PayloadIs
<1> QED  BY <1>1, <1>9, <1>10, PacketTyped

(* InputPacket::decode refuses a packet of another version, whatever it     *)
(* holds.                                                                   *)
THEOREM OtherVersionsAreRefused ==
  ASSUME NEW p, IsPacket(p), NEW version \in Byte \ {1}
  PROVE  ~Decodes(EncodePacket(p, version))
<1>1. PICK b : b = EncodePacket(p, version)
  OBVIOUS
<1>2. b[1] = version
  BY <1>1, PacketReads, HoldsItself
<1> QED  BY <1>1, <1>2 DEF Decodes

(* A packet cut short, at whatever byte, is refused: the length that its    *)
(* own fields ask for (InputPacket::decode's `need`) is never met by less   *)
(* than all of it, so no shorter packet is heard in its place.              *)
THEOREM CutShortIsRefused ==
  ASSUME NEW p, IsPacket(p), NEW n \in 0..(Len(EncodePacket(p, 1)) - 1)
  PROVE  ~Decodes(SubSeq(EncodePacket(p, 1), 1, n))
<1>1. PICK w : w = EncodePacket(p, 1)
  OBVIOUS
<1>2. 1 \in Byte
  BY Places DEF Byte
<1>3. PICK m \in Nat : m = PayloadSize(p)
  BY PayloadReads
<1>4. w \in Seq(Byte) /\ Len(w) = 16 + m
  BY <1>1, <1>2, <1>3, PacketReads DEF Bytes
<1>5. w[2] = p.kind /\ (p.kind = 5 => Holds(w, 17, KeyboardStart(p)))
  BY <1>1, <1>2, PacketReads, HoldsItself
<1>6. n \in Nat /\ n < 16 + m
  BY <1>1, <1>4
<1>7. PICK b : b = SubSeq(w, 1, n)
  OBVIOUS
<1>8. Len(b) = n /\ \A j \in 1..n : b[j] = w[j]
  BY <1>4, <1>6, <1>7
<1>9. SUFFICES ASSUME Decodes(b) PROVE FALSE
  BY <1>1, <1>7
<1>10. n >= 16 /\ n >= Need(b)
  BY <1>8, <1>9 DEF Decodes, HeaderLen
<1>11. b[2] = p.kind
  BY <1>5, <1>8, <1>10
<1>12. CASE p.kind = 5 /\ n < 22
  <2>1. Need(b) = 16 + 6
    BY <1>8, <1>11, <1>12 DEF Need, HeaderLen
  <2> QED  BY <1>10, <1>12, <2>1
<1>13. CASE ~(p.kind = 5 /\ n < 22)
  <2>1. p.kind = 5 => Holds(b, 17, KeyboardStart(p))
    <3>1. SUFFICES ASSUME p.kind = 5 PROVE Holds(b, 17, KeyboardStart(p))
      OBVIOUS
    <3>2. n >= 22
      BY <1>6, <1>13, <3>1
    <3>3. Len(KeyboardStart(p)) = 6
      BY <3>1, KeyboardStarts DEF Bytes
    <3>4. \A j \in 1..6 : 17 + j - 1 \in 1..n
      BY <1>6, <3>2
    <3> QED  BY <1>5, <1>8, <3>1, <3>3, <3>4 DEF Holds
  <2>2. Need(b) = 16 + PayloadSize(p)
    BY <1>8, <1>11, <1>13, <2>1, NeedIs
  <2> QED  BY <1>3, <1>6, <1>10, <2>2
<1> QED  BY <1>12, <1>13

-----------------------------------------------------------------------------
(* What is heard of what is written *)

LEMMA SendableTyped ==
  ASSUME NEW m \in Sendable
  PROVE  /\ m.bytes \in Seq(Byte) /\ Len(m.bytes) < Word
         /\ m.packet \in Seq(Packets) /\ Len(m.packet) \in 0..1
         /\ m.packet # <<>> => Decodes(m.bytes) /\ m.packet = <<Decode(m.bytes)>>
         /\ m.packet = <<>> => ~Decodes(m.bytes)
<1>1. CASE m \in {[packet |-> <<p>>, bytes |-> EncodePacket(p, 1)] : p \in Packets}
  <2>1. PICK p \in Packets : m = [packet |-> <<p>>, bytes |-> EncodePacket(p, 1)]
    BY <1>1
  <2>2. IsPacket(p) /\ Len(EncodePacket(p, 1)) < Word
    BY WrittenFits
  <2>3. EncodePacket(p, 1) \in Seq(Byte)
    <3>1. 1 \in Byte
      BY Places DEF Byte
    <3> QED  BY <2>2, <3>1, PacketReads DEF Bytes
  <2>4. Decodes(EncodePacket(p, 1)) /\ Decode(EncodePacket(p, 1)) = p
    BY <2>2, PacketsReadBack
  <2>5. m.packet = <<p>> /\ m.bytes = EncodePacket(p, 1)
    BY <2>1
  <2>6. <<p>> \in Seq(Packets) /\ Len(<<p>>) \in 0..1 /\ <<p>> # <<>>
    OBVIOUS
  <2> QED  BY <2>2, <2>3, <2>4, <2>5, <2>6
<1>2. CASE m \in {[packet |-> <<>>, bytes |-> b] : b \in Garbled}
  <2>1. PICK b \in Garbled : m = [packet |-> <<>>, bytes |-> b]
    BY <1>2
  <2>2. b \in Seq(Byte) /\ Len(b) < Word /\ ~Decodes(b)
    BY WrittenFits
  <2> QED  BY <2>1, <2>2
<1> QED  BY <1>1, <1>2 DEF Sendable

\* How many of the first k of the messages w are packets.
Counted(w, k) == Cardinality({i \in 1..k : w[i].packet # <<>>})

LEMMA Counting ==
  ASSUME NEW w \in Seq(Sendable)
  PROVE  /\ Counted(w, 0) = 0
         /\ \A k \in 0..Len(w) : Counted(w, k) \in Nat
         /\ \A k \in 1..Len(w) : Counted(w, k) = Counted(w, k - 1) + Len(w[k].packet)
<1> DEFINE P(k) == {i \in 1..k : w[i].packet # <<>>}
<1>1. P(0) = {}
  OBVIOUS
<1>2. Counted(w, 0) = 0
  BY <1>1, FS_EmptySet DEF Counted
<1>3. \A k \in 0..Len(w) : IsFiniteSet(P(k))
  <2> TAKE k \in 0..Len(w)
  <2>1. IsFiniteSet(1..k)
    BY FS_Interval
  <2> QED  BY <2>1, FS_Subset
<1>4. \A k \in 0..Len(w) : Counted(w, k) \in Nat
  BY <1>3, FS_CardinalityType DEF Counted
<1>5. ASSUME NEW k \in 1..Len(w) PROVE Counted(w, k) = Counted(w, k - 1) + Len(w[k].packet)
  <2>1. k - 1 \in 0..Len(w) /\ k \notin P(k - 1) /\ IsFiniteSet(P(k - 1))
    BY <1>3
  <2>2. w[k].packet \in Seq(Packets) /\ Len(w[k].packet) \in 0..1
    BY ElementOfSeq, SendableTyped
  <2>3. CASE w[k].packet = <<>>
    <3>1. P(k) = P(k - 1)
      BY <2>3
    <3>2. Counted(w, k) = Counted(w, k - 1)
      BY <3>1 DEF Counted
    <3>3. Len(w[k].packet) = 0 /\ Counted(w, k - 1) \in Nat
      BY <1>4, <2>1, <2>3
    <3> QED  BY <3>2, <3>3
  <2>4. CASE w[k].packet # <<>>
    <3>1. P(k) = P(k - 1) \cup {k}
      BY <2>4
    <3>2. Cardinality(P(k)) = Cardinality(P(k - 1)) + 1
      BY <2>1, <3>1, FS_AddElement
    <3>3. Len(w[k].packet) = 1
      BY <2>2, <2>4, EmptySeq
    <3> QED  BY <3>2, <3>3 DEF Counted
  <2> QED  BY <2>3, <2>4
<1> QED  BY <1>2, <1>4, <1>5

\* No message is counted before one that was written earlier.
LEMMA CountingGrows ==
  ASSUME NEW w \in Seq(Sendable), NEW k \in 0..Len(w), NEW i \in 1..k, w[i].packet # <<>>
  PROVE  Counted(w, i) \in 1..Counted(w, k)
<1> DEFINE P(j) == {n \in 1..j : w[n].packet # <<>>}
<1>1. Counted(w, i) \in Nat /\ Counted(w, k) \in Nat /\ i \in 0..Len(w)
  BY Counting
<1>2. IsFiniteSet(P(k)) /\ IsFiniteSet(P(i))
  <2>1. IsFiniteSet(1..k) /\ IsFiniteSet(1..i)
    BY FS_Interval
  <2> QED  BY <2>1, FS_Subset
<1>3. P(i) \subseteq P(k) /\ i \in P(i)
  OBVIOUS
<1>4. Cardinality(P(i)) <= Cardinality(P(k))
  BY <1>2, <1>3, FS_Subset
<1>5. Cardinality(P(i)) # 0
  BY <1>2, <1>3, FS_EmptySet
<1> QED  BY <1>1, <1>4, <1>5 DEF Counted

\* The packets in h are those of the first k of the messages w.
Told(h, w, k) ==
  /\ Len(h) = Counted(w, k)
  /\ \A i \in 1..k : \A n \in 1..Len(w[i].packet) : h[Counted(w, i)] = w[i].packet[n]

LEMMA OneLong ==
  ASSUME NEW s, Len(s) = 1
  PROVE  s # <<>>
<1>1. SUFFICES ASSUME s = <<>> PROVE FALSE
  OBVIOUS
<1>2. Len(<<>>) = 0
  OBVIOUS
<1> QED  BY <1>1, <1>2

LEMMA TellNext ==
  ASSUME NEW w \in Seq(Sendable), NEW h \in Seq(Packets), NEW k \in 1..Len(w), Told(h, w, k - 1)
  PROVE  h \o w[k].packet \in Seq(Packets) /\ Told(h \o w[k].packet, w, k)
<1>1. w[k].packet \in Seq(Packets) /\ Len(w[k].packet) \in 0..1
  BY ElementOfSeq, SendableTyped
<1>2. PICK g : g = h \o w[k].packet
  OBVIOUS
<1>3. g \in Seq(Packets) /\ Len(g) = Len(h) + Len(w[k].packet)
  BY <1>1, <1>2, ConcatProperties
<1>4. Counted(w, k) = Counted(w, k - 1) + Len(w[k].packet) /\ Len(h) = Counted(w, k - 1)
  BY Counting DEF Told
<1>5. Counted(w, k) = Len(g)
  BY <1>3, <1>4
<1>6. ASSUME NEW i \in 1..k, NEW n \in 1..Len(w[i].packet)
      PROVE  g[Counted(w, i)] = w[i].packet[n]
  <2>1. Len(w[i].packet) \in 0..1
    BY ElementOfSeq, SendableTyped
  <2>2. n = 1 /\ Len(w[i].packet) = 1
    <3>1. \A l \in 0..1 : \A x \in 1..l : x = 1 /\ l = 1
      OBVIOUS
    <3> QED  BY <2>1, <3>1, Zenon
  <2>5. w[i].packet # <<>>
    BY <2>2, OneLong
  <2>3. CASE i = k
    <3>1. Counted(w, i) = Len(h) + 1
      BY <1>4, <2>2, <2>3
    <3>2. g[Len(h) + 1] = w[k].packet[1]
      BY <1>1, <1>2, <2>2, <2>3, ConcatProperties
    <3> QED  BY <2>2, <2>3, <3>1, <3>2
  <2>4. CASE i # k
    <3>1. k - 1 \in 0..Len(w) /\ i \in 1..(k - 1)
      BY <2>4
    <3>2. Counted(w, i) \in 1..Len(h)
      BY <1>4, <2>5, <3>1, CountingGrows
    <3>3. g[Counted(w, i)] = h[Counted(w, i)]
      BY <1>1, <1>2, <3>2, ConcatProperties
    <3> QED  BY <3>1, <3>3 DEF Told
  <2> QED  BY <2>3, <2>4
<1> QED  BY <1>2, <1>3, <1>5, <1>6 DEF Told

\* Messages that are written later change nothing of it.
LEMMA TellSame ==
  ASSUME NEW w \in Seq(Sendable), NEW m \in Sendable, NEW h \in Seq(Packets),
         NEW k \in 0..Len(w), Told(h, w, k)
  PROVE  Told(h, Append(w, m), k)
<1>1. PICK v : v = Append(w, m)
  OBVIOUS
<1>2. \A i \in 1..Len(w) : v[i] = w[i]
  BY <1>1, AppendProperties
<1>3. ASSUME NEW j \in 0..k PROVE Counted(v, j) = Counted(w, j)
  <2>1. {i \in 1..j : v[i].packet # <<>>} = {i \in 1..j : w[i].packet # <<>>}
    BY <1>2
  <2> QED  BY <2>1 DEF Counted
<1>4. \A i \in 1..k : i \in 0..k /\ v[i] = w[i]
  BY <1>2
<1>5. k \in 0..k
  OBVIOUS
<1> QED  BY <1>1, <1>3, <1>4, <1>5 DEF Told

LEMMA PacketSays ==
  ASSUME NEW m \in Sendable
  PROVE  PacketOf(m.bytes) = m.packet
BY SendableTyped DEF PacketOf

-----------------------------------------------------------------------------
(* What comes down a carrier *)

\* A message as it goes out: Chunk, of either carrier.
Wrap(c, m) == IF c = "stream" THEN Framed(m.bytes) ELSE Line(m.bytes)

LEMMA Wrapped ==
  ASSUME NEW c \in {"stream", "lines"}, NEW m \in Sendable
  PROVE  /\ Len(m.bytes) \in Nat /\ Len(Wrap(c, m)) = Len(m.bytes) + 2
         /\ Wrap(c, m) \in Seq(0..Close)
         /\ c = "stream" => /\ Wrap(c, m)[1] * Base + Wrap(c, m)[2] = Len(m.bytes)
                            /\ \A x \in 1..Len(m.bytes) : Wrap(c, m)[x + 2] = m.bytes[x]
         /\ c = "lines" => /\ \A x \in 1..Len(m.bytes) : Wrap(c, m)[x] = m.bytes[x]
                           /\ Wrap(c, m)[Len(m.bytes) + 1] = Close
                           /\ Wrap(c, m)[Len(m.bytes) + 2] = NL
<1>1. PICK b : b = m.bytes
  OBVIOUS
<1>2. PICK n : n = Len(b)
  OBVIOUS
<1>3. b \in Seq(Byte) /\ n \in Nat /\ n < Word
  BY <1>1, <1>2, SendableTyped, LenProperties
<1>4. Byte \subseteq 0..Close /\ Close \in 0..Close /\ NL \in 0..Close
  BY Places DEF Byte, Close, NL
<1>5. b \in Seq(0..Close)
  BY <1>3, <1>4, SeqMonotonic
<1>6. CASE c = "stream"
  <2>1. PICK hi, lo : hi = (n \div Base) % Base /\ lo = n % Base
    OBVIOUS
  <2>2. lo \in 0..(Base - 1) /\ hi \in 0..(Base - 1) /\ lo + Base * hi = n
    <3>1. n \in 0..(Base * Base - 1)
      BY <1>3, Places
    <3> QED  BY <2>1, <3>1, Digits, Places
  <2>3. hi * Base + lo = n
    BY <2>2, Places
  <2>4. <<hi, lo>> \in Seq(0..Close) /\ Len(<<hi, lo>>) = 2
    BY <2>2, <1>4 DEF Byte
  <2>5. PICK s : s = <<hi, lo>>
    OBVIOUS
  <2>6. PICK t : t = s \o b
    OBVIOUS
  <2>7. t \in Seq(0..Close) /\ Len(t) = 2 + n /\ \A i \in 1..(2 + n) : t[i] = IF i <= 2 THEN s[i] ELSE b[i - 2]
    BY <1>2, <1>5, <2>4, <2>5, <2>6, ConcatProperties
  <2>8. t[1] = hi /\ t[2] = lo
    BY <1>3, <2>5, <2>7
  <2>9. \A x \in 1..n : t[x + 2] = b[x]
    <3> TAKE x \in 1..n
    <3>1. x + 2 \in 1..(2 + n) /\ ~(x + 2 <= 2) /\ (x + 2) - 2 = x
      BY <1>3
    <3> QED  BY <2>7, <3>1
  <2>10. Wrap(c, m) = t
    BY <1>1, <1>2, <1>6, <2>1, <2>5, <2>6 DEF Wrap, Framed
  <2> QED  BY <1>1, <1>2, <1>3, <1>6, <2>3, <2>7, <2>8, <2>9, <2>10
<1>7. CASE c = "lines"
  <2>1. PICK s : s = <<Close, NL>>
    OBVIOUS
  <2>2. s \in Seq(0..Close) /\ Len(s) = 2 /\ s[1] = Close /\ s[2] = NL
    BY <1>4, <2>1
  <2>3. PICK t : t = b \o s
    OBVIOUS
  <2>4. t \in Seq(0..Close) /\ Len(t) = n + 2 /\ \A i \in 1..(n + 2) : t[i] = IF i <= n THEN b[i] ELSE s[i - n]
    <3>1. /\ t \in Seq(0..Close) /\ Len(t) = Len(b) + Len(s)
          /\ \A i \in 1..(Len(b) + Len(s)) : t[i] = IF i <= Len(b) THEN b[i] ELSE s[i - Len(b)]
      BY <1>5, <2>2, <2>3, ConcatProperties
    <3>2. Len(b) = n /\ Len(s) = 2
      BY <1>2, <2>2
    <3> QED  BY <3>1, <3>2
  <2>5. \A x \in 1..n : t[x] = b[x]
    BY <1>3, <2>4
  <2>6. t[n + 1] = Close /\ t[n + 2] = NL
    <3>1. /\ n + 1 \in 1..(n + 2) /\ ~(n + 1 <= n) /\ (n + 1) - n = 1
          /\ n + 2 \in 1..(n + 2) /\ ~(n + 2 <= n) /\ (n + 2) - n = 2
      BY <1>3
    <3> QED  BY <2>2, <2>4, <3>1
  <2>7. Wrap(c, m) = t
    BY <1>1, <1>7, <2>1, <2>3 DEF Wrap, Line
  <2> QED  BY <1>1, <1>2, <1>3, <1>7, <2>4, <2>5, <2>6, <2>7
<1> QED  BY <1>6, <1>7

LEMMA WrapHasLength ==
  ASSUME NEW c \in {"stream", "lines"}, NEW m \in Sendable
  PROVE  Len(Wrap(c, m)) \in Nat
  BY Wrapped, LenProperties, Zenon

\* Where the messages w begin and end when they are laid end to end.
Laid(c, w, at) ==
  /\ at \in [0..Len(w) -> Nat]
  /\ \A i, j \in 0..Len(w) : i <= j => at[i] <= at[j]
  /\ \A i \in 1..Len(w) : at[i] = at[i - 1] + Len(Wrap(c, w[i]))

\* What is still to be consumed, q, starts with the message after the kth, and may
\* end anywhere.
Follows(c, w, q, k, at) ==
  /\ Len(q) <= at[Len(w)] - at[k]
  /\ \A i \in (k + 1)..Len(w) : \A x \in 1..Len(Wrap(c, w[i])) :
       (at[i - 1] - at[k]) + x <= Len(q) => q[(at[i - 1] - at[k]) + x] = Wrap(c, w[i])[x]

\* Nothing is missing at the end.
Whole(w, q, k, at) == Len(q) = at[Len(w)] - at[k]

SameUpTo(n, a, at) == \A i \in 0..n : a[i] = at[i]

LEMMA LayNext ==
  ASSUME NEW c \in {"stream", "lines"}, NEW w \in Seq(Sendable), NEW m \in Sendable,
         NEW at, Laid(c, w, at)
  PROVE  \E a : Laid(c, Append(w, m), a) /\ SameUpTo(Len(w), a, at)
<1>1. PICK n \in Nat : n = Len(w)
  BY LenProperties
<1>2. PICK l \in Nat : l = Len(Wrap(c, m))
  BY WrapHasLength
<1>3. PICK v : v = Append(w, m)
  OBVIOUS
<1>4. Len(v) = n + 1 /\ v[n + 1] = m /\ \A i \in 1..n : v[i] = w[i]
  BY <1>1, <1>3, AppendProperties
<1>5. /\ at \in [0..n -> Nat]
      /\ \A i, j \in 0..n : i <= j => at[i] <= at[j]
      /\ \A i \in 1..n : at[i] = at[i - 1] + Len(Wrap(c, w[i]))
  BY <1>1 DEF Laid
<1> DEFINE a == [i \in 0..(n + 1) |-> IF i = n + 1 THEN at[n] + l ELSE at[i]]
<1>6. at[n] \in Nat /\ n \in 0..n
  BY <1>5
<1>7. a \in [0..(n + 1) -> Nat]
  BY <1>5, <1>6
<1>8. (\A i \in 0..n : a[i] = at[i]) /\ a[n + 1] = at[n] + l
  OBVIOUS
<1> HIDE DEF a
<1>9. ASSUME NEW i \in 0..(n + 1), NEW j \in 0..(n + 1), i <= j PROVE a[i] <= a[j]
  <2>1. CASE j \in 0..n
    <3>1. i \in 0..n
      BY <1>9, <2>1
    <3>2. at[i] <= at[j]
      BY <1>5, <1>9, <2>1, <3>1
    <3> QED  BY <1>8, <2>1, <3>1, <3>2
  <2>2. CASE j = n + 1 /\ i \in 0..n
    <3>1. at[i] <= at[n] /\ at[i] \in Nat
      BY <1>5, <1>6, <2>2
    <3> QED  BY <1>6, <1>8, <2>2, <3>1
  <2>3. CASE i = n + 1 /\ j = n + 1
    BY <1>6, <1>8, <2>3
  <2> QED  BY <1>9, <2>1, <2>2, <2>3
<1>10. ASSUME NEW i \in 1..(n + 1) PROVE a[i] = a[i - 1] + Len(Wrap(c, v[i]))
  <2>1. CASE i \in 1..n
    <3>1. i \in 0..n /\ i - 1 \in 0..n
      BY <2>1
    <3> QED  BY <1>4, <1>5, <1>8, <2>1, <3>1
  <2>2. CASE i = n + 1
    <3>1. i - 1 = n
      BY <2>2
    <3> QED  BY <1>2, <1>4, <1>6, <1>8, <2>2, <3>1
  <2> QED  BY <1>10, <2>1, <2>2
<1>11. Laid(c, v, a)
  BY <1>4, <1>7, <1>9, <1>10 DEF Laid
<1> QED  BY <1>1, <1>3, <1>8, <1>11 DEF SameUpTo

LEMMA FollowNext ==
  ASSUME NEW c \in {"stream", "lines"}, NEW w \in Seq(Sendable), NEW m \in Sendable,
         NEW q \in Seq(0..Close), NEW k \in 0..Len(w), NEW at, NEW a,
         Laid(c, w, at), Laid(c, Append(w, m), a), SameUpTo(Len(w), a, at),
         Follows(c, w, q, k, at), Whole(w, q, k, at)
  PROVE  /\ Follows(c, Append(w, m), q \o Wrap(c, m), k, a)
         /\ Whole(Append(w, m), q \o Wrap(c, m), k, a)
<1>1. PICK n \in Nat : n = Len(w)
  BY LenProperties
<1>2. PICK t : t = Wrap(c, m)
  OBVIOUS
<1>3. t \in Seq(0..Close) /\ Len(t) \in Nat
  BY <1>2, Wrapped, LenProperties
<1>4. PICK v : v = Append(w, m)
  OBVIOUS
<1>5. Len(v) = n + 1 /\ v[n + 1] = m /\ \A i \in 1..n : v[i] = w[i]
  BY <1>1, <1>4, AppendProperties
<1>6. PICK r : r = q \o t
  OBVIOUS
<1>7. PICK s \in Nat : s = Len(q)
  BY LenProperties
<1>8. Len(r) = s + Len(t) /\ \A i \in 1..(s + Len(t)) : r[i] = IF i <= s THEN q[i] ELSE t[i - s]
  BY <1>3, <1>6, <1>7, ConcatProperties
<1>9. /\ \A i \in 0..n : at[i] \in Nat /\ a[i] = at[i]
      /\ s = at[n] - at[k] /\ k \in 0..n /\ n \in 0..n /\ n + 1 \in 1..(n + 1)
      /\ \A i, j \in 0..n : i <= j => at[i] <= at[j]
  <2>1. at \in [0..n -> Nat] /\ \A i, j \in 0..n : i <= j => at[i] <= at[j]
    BY <1>1 DEF Laid
  <2>2. k \in 0..n /\ n \in 0..n /\ n + 1 \in 1..(n + 1)
    BY <1>1
  <2>3. \A i \in 0..n : a[i] = at[i]
    BY <1>1 DEF SameUpTo
  <2>4. s = at[n] - at[k]
    BY <1>1, <1>7 DEF Whole
  <2> QED  BY <2>1, <2>2, <2>3, <2>4
<1>10. a[n + 1] = a[n] + Len(t)
  <2>1. a[n + 1] = a[(n + 1) - 1] + Len(Wrap(c, v[n + 1]))
    BY <1>4, <1>5, <1>9 DEF Laid
  <2> QED  BY <1>1, <1>2, <1>5, <2>1
<1>11. Len(r) = a[n + 1] - a[k]
  <2>1. /\ a[n] = at[n] /\ a[k] = at[k] /\ at[n] \in Nat /\ at[k] \in Nat
        /\ s = at[n] - at[k]
    BY <1>9
  <2>2. Len(r) = s + Len(t)
    BY <1>8
  <2>3. PICK from \in Nat, to \in Nat, l \in Nat : from = a[k] /\ to = a[n] /\ l = Len(t)
    BY <1>3, <2>1
  <2>4. Len(r) = s + l /\ a[n + 1] = to + l /\ s = to - from
    BY <1>10, <2>1, <2>2, <2>3
  <2>5. s + l = (to + l) - from
    BY ONLY <2>4, s \in Nat, l \in Nat, from \in Nat, to \in Nat
  <2> QED  BY <2>3, <2>4, <2>5
<1>12. ASSUME NEW i \in (k + 1)..(n + 1), NEW x \in 1..Len(Wrap(c, v[i])),
              (a[i - 1] - a[k]) + x <= Len(r)
       PROVE  r[(a[i - 1] - a[k]) + x] = Wrap(c, v[i])[x]
  <2>1. i - 1 \in 0..n /\ k <= i - 1
    BY <1>9
  <2>2. PICK d \in Nat : d = at[i - 1] - at[k]
    <3>1. at[k] \in Nat /\ at[i - 1] \in Nat /\ at[k] <= at[i - 1]
      BY <1>9, <2>1
    <3> QED  BY <3>1
  <2>3. a[i - 1] - a[k] = d
    BY <1>9, <2>1, <2>2
  <2>4. CASE i = n + 1
    <3>1. d = s /\ v[i] = m /\ x \in 1..Len(t)
      BY <1>2, <1>5, <1>9, <2>2, <2>4
    <3>2. s + x \in 1..(s + Len(t)) /\ ~(s + x <= s) /\ (s + x) - s = x
      BY <1>3, <3>1
    <3>3. r[s + x] = t[x]
      BY <1>8, <3>2
    <3> QED  BY <1>2, <2>3, <3>1, <3>3
  <2>5. CASE i \in (k + 1)..n
    <3>1. i \in 1..n /\ i \in 0..n /\ v[i] = w[i]
      BY <1>5, <1>9, <2>5
    <3>2. x \in 1..Len(Wrap(c, w[i])) /\ at[i] = at[i - 1] + Len(Wrap(c, w[i]))
      BY <1>1, <3>1 DEF Laid
    <3>3. w[i] \in Sendable
      BY <1>1, <3>1, ElementOfSeq
    <3>4. PICK l \in Nat : l = Len(Wrap(c, w[i]))
      BY <3>3, WrapHasLength
    <3>5. at[i] <= at[n] /\ at[i] \in Nat /\ at[n] \in Nat /\ at[k] \in Nat /\ at[i - 1] \in Nat
      BY <1>9, <2>1, <3>1
    <3>6. d + x \in 1..s
      <4>1. at[i] = at[i - 1] + l /\ x \in 1..l
        BY <3>2, <3>4
      <4>2. \A e, f, g, h \in Nat : f = e + l /\ f <= g /\ s = g - h /\ d = e - h => d + x \in 1..s
        BY <4>1
      <4>3. s = at[n] - at[k]
        BY <1>9
      <4> QED  BY <2>2, <3>5, <4>1, <4>2, <4>3
    <3>7. q[d + x] = Wrap(c, w[i])[x]
      <4>1. \A j \in (k + 1)..n : \A y \in 1..Len(Wrap(c, w[j])) :
              (at[j - 1] - at[k]) + y <= s => q[(at[j - 1] - at[k]) + y] = Wrap(c, w[j])[y]
        BY <1>1, <1>7 DEF Follows
      <4> QED  BY <2>2, <2>5, <3>2, <3>6, <4>1
    <3>8. r[d + x] = q[d + x]
      <4>1. PICK u \in Nat : u = Len(t)
        BY <1>3
      <4>2. d + x \in 1..(s + u) /\ d + x <= s
        BY ONLY <3>6, s \in Nat, u \in Nat
      <4> QED  BY <1>8, <4>1, <4>2
    <3> QED  BY <2>3, <3>1, <3>7, <3>8
  <2> QED  BY <1>12, <2>4, <2>5
<1>13. Follows(c, v, r, k, a)
  <2>1. Len(r) <= a[n + 1] - a[k]
    BY <1>3, <1>8, <1>11
  <2> QED  BY <1>5, <1>12, <2>1 DEF Follows
<1> QED  BY <1>2, <1>4, <1>5, <1>6, <1>11, <1>13 DEF Whole

\* What has come starts with the next message, as far as it goes.
LEMMA NextComes ==
  ASSUME NEW c \in {"stream", "lines"}, NEW w \in Seq(Sendable), NEW q \in Seq(0..Close),
         NEW k \in 0..Len(w), NEW at, Laid(c, w, at), Follows(c, w, q, k, at), q # <<>>
  PROVE  /\ k + 1 \in 1..Len(w) /\ w[k + 1] \in Sendable
         /\ \A x \in 1..Len(Wrap(c, w[k + 1])) : x <= Len(q) => q[x] = Wrap(c, w[k + 1])[x]
<1>1. PICK n \in Nat : n = Len(w)
  BY LenProperties
<1>2. Len(q) \in Nat /\ Len(q) # 0
  BY EmptySeq
<1>3. at \in [0..n -> Nat] /\ k \in 0..n /\ Len(q) <= at[n] - at[k]
  BY <1>1 DEF Laid, Follows
<1>4. at[n] \in Nat /\ at[k] \in Nat
  BY <1>3
<1>5. k # n
  BY <1>2, <1>3, <1>4
<1>6. k + 1 \in 1..n /\ k + 1 \in (k + 1)..n /\ (k + 1) - 1 = k
  BY <1>3, <1>5
<1>7. w[k + 1] \in Sendable
  BY <1>1, <1>6, ElementOfSeq
<1>8. PICK l \in Nat : l = Len(Wrap(c, w[k + 1]))
  BY <1>7, WrapHasLength
<1>9. ASSUME NEW x \in 1..Len(Wrap(c, w[k + 1])), x <= Len(q)
      PROVE  q[x] = Wrap(c, w[k + 1])[x]
  <2>1. x \in 1..l
    BY <1>8
  <2>2. (at[(k + 1) - 1] - at[k]) + x = x
    BY <1>4, <1>6, <2>1
  <2>3. \A i \in (k + 1)..n : \A y \in 1..Len(Wrap(c, w[i])) :
          (at[i - 1] - at[k]) + y <= Len(q) => q[(at[i - 1] - at[k]) + y] = Wrap(c, w[i])[y]
    BY <1>1 DEF Follows
  <2> QED  BY <1>6, <1>9, <2>2, <2>3
<1> QED  BY <1>1, <1>6, <1>7, <1>9

\* When the next message is taken off, the one after it comes.
LEMMA FollowTaken ==
  ASSUME NEW c \in {"stream", "lines"}, NEW w \in Seq(Sendable), NEW q \in Seq(0..Close),
         NEW k \in 0..Len(w), NEW at, Laid(c, w, at), Follows(c, w, q, k, at),
         k + 1 \in 1..Len(w), NEW l \in Nat, l = Len(Wrap(c, w[k + 1])), l <= Len(q)
  PROVE  /\ SubSeq(q, l + 1, Len(q)) \in Seq(0..Close)
         /\ Follows(c, w, SubSeq(q, l + 1, Len(q)), k + 1, at)
         /\ Whole(w, q, k, at) => Whole(w, SubSeq(q, l + 1, Len(q)), k + 1, at)
<1>1. PICK n \in Nat : n = Len(w)
  BY LenProperties
<1>2. PICK s \in Nat : s = Len(q)
  BY LenProperties
<1>3. PICK r : r = SubSeq(q, l + 1, s)
  OBVIOUS
<1>4. r \in Seq(0..Close) /\ Len(r) = s - l /\ \A i \in 1..(s - l) : r[i] = q[l + i]
  <2>1. \A i \in (l + 1)..s : q[i] \in 0..Close
    <3> TAKE i \in (l + 1)..s
    <3>1. i \in 1..Len(q)
      BY <1>2
    <3> QED  BY <3>1, ElementOfSeq
  <2>2. /\ r \in Seq(0..Close) /\ Len(r) = IF l + 1 <= s THEN s - (l + 1) + 1 ELSE 0
        /\ \A i \in 1..(s - (l + 1) + 1) : r[i] = q[(l + 1) + i - 1]
    <3>1. l + 1 \in Int /\ s \in Int
      OBVIOUS
    <3> HIDE <1>2
    <3> QED  BY <1>3, <2>1, <3>1, SubSeqProperties
  <2>3. s - (l + 1) + 1 = s - l /\ (IF l + 1 <= s THEN s - l ELSE 0) = s - l
    <3>1. l <= s
      BY <1>2
    <3>2. s - (l + 1) + 1 = s - l
      OBVIOUS
    <3>3. ~(l + 1 <= s) => s - l = 0
      BY <3>1
    <3> QED  BY <3>2, <3>3
  <2>4. \A i \in 1..(s - l) : (l + 1) + i - 1 = l + i
    BY <1>2
  <2> QED  BY <2>2, <2>3, <2>4
<1>5. at \in [0..n -> Nat] /\ k \in 0..n /\ k + 1 \in 0..n /\ k + 1 \in 1..n
  BY <1>1 DEF Laid
<1>6. at[k + 1] = at[k] + l
  <2>1. at[k + 1] = at[(k + 1) - 1] + Len(Wrap(c, w[k + 1]))
    BY DEF Laid
  <2>2. (k + 1) - 1 = k
    BY <1>5
  <2> QED  BY <2>1, <2>2
<1>7. at[n] \in Nat /\ at[k] \in Nat /\ at[k + 1] \in Nat
  BY <1>5
<1>8. s <= at[n] - at[k]
  BY <1>1, <1>2 DEF Follows
<1>9. /\ Len(r) <= at[n] - at[k + 1]
      /\ s = at[n] - at[k] => Len(r) = at[n] - at[k + 1]
  <2>1. PICK from \in Nat, to \in Nat : from = at[k] /\ to = at[n]
    BY <1>7
  <2>2. at[k + 1] = from + l /\ s <= to - from /\ (s = at[n] - at[k] <=> s = to - from)
    BY <1>6, <1>8, <2>1
  <2>3. s - l <= to - (from + l) /\ (s = to - from => s - l = to - (from + l))
    BY ONLY <2>2, s \in Nat, l \in Nat, from \in Nat, to \in Nat
  <2> QED  BY <1>4, <2>1, <2>2, <2>3
<1>10. s = at[n] - at[k] => Len(r) = at[n] - at[k + 1]
  BY <1>9
<1>11. ASSUME NEW i \in ((k + 1) + 1)..n, NEW x \in 1..Len(Wrap(c, w[i])),
              (at[i - 1] - at[k + 1]) + x <= Len(r)
       PROVE  r[(at[i - 1] - at[k + 1]) + x] = Wrap(c, w[i])[x]
  <2>1. i \in (k + 1)..n /\ i - 1 \in 0..n /\ k + 1 <= i - 1 /\ i \in 1..n
    BY <1>5
  <2>2. at[i - 1] \in Nat /\ at[k + 1] <= at[i - 1]
    BY <1>1, <1>5, <2>1 DEF Laid
  <2>3. w[i] \in Sendable
    BY <1>1, <2>1, ElementOfSeq
  <2>4. PICK m \in Nat : m = Len(Wrap(c, w[i]))
    BY <2>3, WrapHasLength
  <2>5. PICK d \in Nat : d = at[i - 1] - at[k + 1]
    BY <1>7, <2>2
  <2>6. x \in Nat /\ x >= 1
    BY <2>4
  <2>7. d + x \in 1..(s - l) /\ at[i - 1] - at[k] = l + d
    <3>1. d + x <= s - l
      BY <1>4, <1>11, <2>5
    <3>2. at[i - 1] - at[k] = l + d
      <4>1. at[i - 1] = at[k + 1] + d
        BY <1>7, <2>2, <2>5
      <4>2. d \in Nat /\ l \in Nat
        OBVIOUS
      <4>3. PICK from \in Nat : from = at[k]
        BY <1>7
      <4>4. PICK to : to = at[i - 1]
        OBVIOUS
      <4>5. to = (from + l) + d
        BY <1>6, <4>1, <4>3, <4>4
      <4>6. to - from = l + d
        BY ONLY <4>2, <4>5, from \in Nat
      <4> QED  BY ONLY <4>3, <4>4, <4>6
    <3> QED  BY <2>6, <3>1, <3>2
  <2>8. r[d + x] = q[l + (d + x)]
    BY <1>4, <2>7
  <2>9. l + (d + x) = (at[i - 1] - at[k]) + x /\ (at[i - 1] - at[k]) + x <= s
    BY <1>2, <2>6, <2>7
  <2>10. q[(at[i - 1] - at[k]) + x] = Wrap(c, w[i])[x]
    <3>1. \A j \in (k + 1)..n : \A y \in 1..Len(Wrap(c, w[j])) :
            (at[j - 1] - at[k]) + y <= s => q[(at[j - 1] - at[k]) + y] = Wrap(c, w[j])[y]
      BY <1>1, <1>2 DEF Follows
    <3> QED  BY <1>11, <2>1, <2>9, <3>1
  <2> QED  BY <2>5, <2>8, <2>9, <2>10
<1>12. Follows(c, w, r, k + 1, at)
  BY <1>1, <1>9, <1>11 DEF Follows
<1> QED  BY <1>1, <1>2, <1>3, <1>4, <1>10, <1>12 DEF Whole

\* What follows may be cut off, and the messages that are cut off be given up.
LEMMA FollowLost ==
  ASSUME NEW c \in {"stream", "lines"}, NEW w \in Seq(Sendable),
         NEW k \in 0..Len(w), NEW at, Laid(c, w, at)
  PROVE  /\ Follows(c, w, <<>>, k, at)
         /\ \A q, r \in Seq(0..Close) :
              Follows(c, w, q \o r, k, at) => Follows(c, w, q, k, at)
<1>1. PICK n \in Nat : n = Len(w)
  BY LenProperties
<1>2. at \in [0..n -> Nat] /\ k \in 0..n /\ \A i, j \in 0..n : i <= j => at[i] <= at[j]
  BY <1>1 DEF Laid
<1>3. Follows(c, w, <<>>, k, at)
  <2>1. Len(<<>>) = 0
    OBVIOUS
  <2>2. 0 <= at[n] - at[k]
    <3>1. at[k] <= at[n] /\ at[k] \in Nat /\ at[n] \in Nat
      BY <1>2
    <3> QED  BY <3>1
  <2>3. ASSUME NEW i \in (k + 1)..n, NEW x \in 1..Len(Wrap(c, w[i]))
        PROVE  ~((at[i - 1] - at[k]) + x <= 0)
    <3>1. i - 1 \in 0..n /\ k <= i - 1 /\ i \in 1..n
      BY <1>2
    <3>2. at[k] <= at[i - 1] /\ at[k] \in Nat /\ at[i - 1] \in Nat
      BY <1>2, <3>1
    <3>3. w[i] \in Sendable
      BY <1>1, <3>1, ElementOfSeq
    <3>4. PICK l \in Nat : l = Len(Wrap(c, w[i]))
      BY <3>3, WrapHasLength
    <3>5. x \in 1..l
      BY <3>4
    <3> QED  BY <3>2, <3>5
  <2> QED  BY <1>1, <2>1, <2>2, <2>3 DEF Follows
<1>4. ASSUME NEW q \in Seq(0..Close), NEW r \in Seq(0..Close), Follows(c, w, q \o r, k, at)
      PROVE  Follows(c, w, q, k, at)
  <2>1. PICK s \in Nat, u \in Nat : s = Len(q) /\ u = Len(r)
    BY LenProperties
  <2>2. PICK t : t = q \o r
    OBVIOUS
  <2>3. Len(t) = s + u /\ \A i \in 1..s : t[i] = q[i]
    BY <2>1, <2>2, ConcatProperties
  <2>4. s <= at[n] - at[k]
    <3>1. s + u <= at[n] - at[k]
      BY <1>1, <1>4, <2>2, <2>3 DEF Follows
    <3>2. n \in 0..n
      OBVIOUS
    <3>3. at[n] \in Nat /\ at[k] \in Nat
      BY <1>2, <3>2
    <3> QED  BY <3>1, <3>3
  <2>5. ASSUME NEW i \in (k + 1)..n, NEW x \in 1..Len(Wrap(c, w[i])),
               (at[i - 1] - at[k]) + x <= s
        PROVE  q[(at[i - 1] - at[k]) + x] = Wrap(c, w[i])[x]
    <3>1. i - 1 \in 0..n /\ k <= i - 1 /\ i \in 1..n
      BY <1>2
    <3>2. at[k] <= at[i - 1] /\ at[k] \in Nat /\ at[i - 1] \in Nat
      BY <1>2, <3>1
    <3>3. w[i] \in Sendable
      BY <1>1, <3>1, ElementOfSeq
    <3>4. PICK l \in Nat : l = Len(Wrap(c, w[i]))
      BY <3>3, WrapHasLength
    <3>5. x \in 1..l
      BY <3>4
    <3>6. (at[i - 1] - at[k]) + x \in 1..s /\ (at[i - 1] - at[k]) + x <= s + u
      <4>1. PICK from \in Nat, to \in Nat : from = at[k] /\ to = at[i - 1] /\ from <= to
        BY <3>2
      <4>2. /\ (to - from) + x <= s /\ s \in Nat /\ u \in Nat /\ x \in Nat /\ x >= 1
            /\ from \in Nat /\ to \in Nat /\ from <= to
        BY <2>5, <3>5, <4>1
      <4>3. (to - from) + x \in 1..s /\ (to - from) + x <= s + u
        BY ONLY <4>2
      <4> QED  BY <4>1, <4>3, Zenon
    <3>7. \A j \in (k + 1)..n : \A y \in 1..Len(Wrap(c, w[j])) :
            (at[j - 1] - at[k]) + y <= s + u => t[(at[j - 1] - at[k]) + y] = Wrap(c, w[j])[y]
      BY <1>1, <1>4, <2>2, <2>3 DEF Follows
    <3>8. t[(at[i - 1] - at[k]) + x] = Wrap(c, w[i])[x]
      BY <3>6, <3>7
    <3> QED  BY <2>3, <3>6, <3>8
  <2> QED  BY <1>1, <2>1, <2>4, <2>5 DEF Follows
<1> QED  BY <1>3, <1>4

LEMMA Dropped ==
  ASSUME NEW S, NEW s \in Seq(S), NEW l \in 0..Len(s)
  PROVE  /\ SubSeq(s, l + 1, Len(s)) \in Seq(S) /\ Len(SubSeq(s, l + 1, Len(s))) = Len(s) - l
         /\ \A i \in 1..(Len(s) - l) : SubSeq(s, l + 1, Len(s))[i] = s[l + i]
<1>1. PICK n \in Nat : n = Len(s)
  BY LenProperties
<1>2. l \in 0..n
  BY <1>1
<1>3. \A i \in (l + 1)..n : s[i] \in S
  <2> TAKE i \in (l + 1)..n
  <2>1. i \in 1..Len(s)
    BY <1>1, <1>2
  <2> QED  BY <2>1, ElementOfSeq
<1>4. PICK r : r = SubSeq(s, l + 1, n)
  OBVIOUS
<1>5. /\ r \in Seq(S) /\ Len(r) = IF l + 1 <= n THEN n - (l + 1) + 1 ELSE 0
      /\ \A i \in 1..(n - (l + 1) + 1) : r[i] = s[(l + 1) + i - 1]
  <2>1. l + 1 \in Int /\ n \in Int
    BY <1>2
  <2> HIDE <1>1
  <2> QED  BY <1>3, <1>4, <2>1, SubSeqProperties
<1>6. n - (l + 1) + 1 = n - l /\ (~(l + 1 <= n) => n - l = 0)
  BY <1>2
<1>7. \A i \in 1..(n - l) : (l + 1) + i - 1 = l + i
  BY <1>2
<1>8. Len(r) = n - l /\ \A i \in 1..(n - l) : r[i] = s[l + i]
  BY <1>5, <1>6, <1>7
<1> QED  BY <1>1, <1>4, <1>5, <1>8

LEMMA DropFront ==
  ASSUME NEW S, NEW s \in Seq(S), NEW t \in Seq(S), NEW l \in 0..Len(s)
  PROVE  SubSeq(s, l + 1, Len(s)) \o t = SubSeq(s \o t, l + 1, Len(s \o t))
<1>1. PICK n \in Nat, m \in Nat : n = Len(s) /\ m = Len(t)
  BY LenProperties
<1>2. PICK u : u = s \o t
  OBVIOUS
<1>3. /\ u \in Seq(S) /\ Len(u) = n + m
      /\ \A i \in 1..(n + m) : u[i] = IF i <= n THEN s[i] ELSE t[i - n]
  BY <1>1, <1>2, ConcatProperties
<1>4. PICK a : a = SubSeq(s, l + 1, n)
  OBVIOUS
<1>5. a \in Seq(S) /\ Len(a) = n - l /\ \A i \in 1..(n - l) : a[i] = s[l + i]
  BY <1>1, <1>4, Dropped
<1>6. l \in 0..n /\ l \in 0..(n + m)
  BY <1>1
<1>7. PICK b : b = SubSeq(u, l + 1, n + m)
  OBVIOUS
<1>8. b \in Seq(S) /\ Len(b) = (n + m) - l /\ \A i \in 1..((n + m) - l) : b[i] = u[l + i]
  BY <1>3, <1>6, <1>7, Dropped
<1>9. PICK c : c = a \o t
  OBVIOUS
<1>10. /\ c \in Seq(S) /\ Len(c) = (n - l) + m
       /\ \A i \in 1..((n - l) + m) : c[i] = IF i <= n - l THEN a[i] ELSE t[i - (n - l)]
  <2>1. /\ c \in Seq(S) /\ Len(c) = Len(a) + Len(t)
        /\ \A i \in 1..(Len(a) + Len(t)) : c[i] = IF i <= Len(a) THEN a[i] ELSE t[i - Len(a)]
    BY <1>5, <1>9, ConcatProperties
  <2> QED  BY <1>1, <1>5, <2>1
<1>11. (n - l) + m = (n + m) - l
  BY <1>6
<1>12. \A i \in 1..((n + m) - l) : c[i] = b[i]
  <2> TAKE i \in 1..((n + m) - l)
  <2>1. l + i \in 1..(n + m)
    BY <1>6
  <2>2. CASE i <= n - l
    <3>1. i \in 1..(n - l) /\ l + i <= n
      BY <1>6, <2>2
    <3> QED  BY <1>3, <1>5, <1>8, <1>10, <1>11, <2>1, <2>2, <3>1
  <2>3. CASE ~(i <= n - l)
    <3>1. ~(l + i <= n) /\ i - (n - l) = (l + i) - n
      BY <1>6, <2>3
    <3> QED  BY <1>3, <1>8, <1>10, <1>11, <2>1, <2>3, <3>1
  <2> QED  BY <2>2, <2>3
<1>13. Len(c) = (n + m) - l
  BY <1>10, <1>11
<1>14. c = b
  BY <1>8, <1>10, <1>12, <1>13, SeqEqual
<1> QED  BY <1>1, <1>2, <1>3, <1>4, <1>7, <1>9, <1>14

-----------------------------------------------------------------------------
(* The invariant: the host has heard the packets of the first k messages,   *)
(* and what it holds and what is on its way are the messages after those,   *)
(* whole as long as the client has not finished.                            *)
Coming == held \o flight

StandsAt(k, at) ==
  /\ Told(heard, written, k)
  /\ Laid(carrier, written, at) /\ Follows(carrier, written, Coming, k, at)
  /\ ended = "no" => Whole(written, Coming, k, at)

WireInv == InputWireTypeOK /\ \E k \in 0..Len(written) : \E at : StandsAt(k, at)

LEMMA ChunkIsWrap ==
  ASSUME NEW m
  PROVE  Chunk(m) = Wrap(carrier, m)
  BY DEF Chunk, Wrap

LEMMA WireStarts == InputWireInit => WireInv
<1> SUFFICES ASSUME InputWireInit PROVE WireInv
  OBVIOUS
<1>1. /\ carrier \in {"stream", "lines"} /\ written = <<>> /\ flight = <<>> /\ held = <<>>
      /\ ended = "no" /\ heard = <<>> /\ again = <<>>
  BY DEF InputWireInit
<1>2. MaxWrites \in Nat
  BY WireBounds
<1>3. InputWireTypeOK
  BY <1>1, <1>2 DEF InputWireTypeOK
<1>4. Len(written) = 0 /\ Len(heard) = 0 /\ written \in Seq(Sendable) /\ Coming = <<>>
  BY <1>1 DEF Coming
<1>5. Told(heard, written, 0)
  <2>1. Counted(written, 0) = 0
    BY <1>4, Counting
  <2> QED  BY <1>4, <2>1 DEF Told
<1>6. PICK at : at = [i \in 0..0 |-> 0]
  OBVIOUS
<1>7. Laid(carrier, written, at)
  BY <1>4, <1>6 DEF Laid
<1>8. Follows(carrier, written, <<>>, 0, at)
  <2>1. 0 \in 0..Len(written)
    BY <1>4
  <2> QED  BY <1>1, <1>4, <1>7, <2>1, FollowLost
<1>9. Whole(written, Coming, 0, at)
  BY <1>4, <1>6 DEF Whole
<1>10. StandsAt(0, at)
  BY <1>4, <1>5, <1>7, <1>8, <1>9 DEF StandsAt
<1> QED  BY <1>3, <1>4, <1>10 DEF WireInv

LEMMA BytesAssociate ==
  \A r, s, t \in Seq(0..Close) : (r \o s) \o t = r \o (s \o t)
<1> TAKE r, s, t \in Seq(0..Close)
<1> QED  BY ConcatAssociative

LEMMA WriteKeeps ==
  ASSUME WireInv, NEW m \in Sendable, Write(m)
  PROVE  WireInv'
<1>1. /\ carrier \in {"stream", "lines"} /\ ended \in {"no", "fin", "lost", "dropped"}
      /\ written \in Seq(Sendable) /\ Len(written) <= MaxWrites
      /\ flight \in Seq(0..Close) /\ held \in Seq(0..Close) /\ heard \in Seq(Packets)
      /\ again \in Seq(Packets)
  BY DEF WireInv, InputWireTypeOK
<1>0. PICK k \in 0..Len(written) : \E at : StandsAt(k, at)
  BY DEF WireInv
<1>2. PICK at : StandsAt(k, at)
  BY <1>0
<1>3. /\ ended = "no" /\ Len(written) < MaxWrites
      /\ written' = Append(written, m) /\ flight' = flight \o Chunk(m)
      /\ carrier' = carrier /\ held' = held /\ ended' = ended /\ heard' = heard
      /\ again' = again
  BY DEF Write
<1>4. PICK c : c = carrier
  OBVIOUS
<1>5. PICK t : t = Wrap(c, m)
  OBVIOUS
<1>6. c \in {"stream", "lines"} /\ t \in Seq(0..Close) /\ Chunk(m) = t
  BY <1>1, <1>4, <1>5, Wrapped, ChunkIsWrap
<1>7. flight' \in Seq(0..Close)
  BY <1>1, <1>3, <1>6, ConcatProperties
<1>8. written' \in Seq(Sendable) /\ Len(written') = Len(written) + 1
  BY <1>1, <1>3, AppendProperties
<1>9. InputWireTypeOK'
  <2>1. Len(written') <= MaxWrites
    BY <1>1, <1>3, <1>8, WireBounds, LenProperties
  <2> QED  BY <1>1, <1>3, <1>7, <1>8, <2>1 DEF InputWireTypeOK
<1>10. Coming \in Seq(0..Close) /\ Coming' = Coming \o t
  <2>1. Coming \in Seq(0..Close)
    BY <1>1, ConcatProperties DEF Coming
  <2>2. (held \o flight) \o t = held \o (flight \o t)
    <3>1. held \in Seq(0..Close) /\ flight \in Seq(0..Close) /\ t \in Seq(0..Close)
      BY <1>1, <1>6
    <3> QED  BY ONLY <3>1, BytesAssociate, Zenon
  <2> QED  BY <1>3, <1>6, <2>1, <2>2 DEF Coming
<1>11. /\ Told(heard, written, k) /\ Laid(c, written, at) /\ Follows(c, written, Coming, k, at)
       /\ Whole(written, Coming, k, at)
  BY <1>2, <1>3, <1>4 DEF StandsAt
<1>12. Told(heard', written', k)
  BY <1>1, <1>3, <1>11, TellSame
<1>13. PICK a : Laid(c, written', a) /\ SameUpTo(Len(written), a, at)
  BY <1>1, <1>3, <1>6, <1>11, LayNext
<1>14. Follows(c, written', Coming', k, a) /\ Whole(written', Coming', k, a)
  BY <1>1, <1>3, <1>5, <1>6, <1>10, <1>11, <1>13, FollowNext
<1>15. StandsAt(k, a)'
  BY <1>3, <1>4, <1>12, <1>13, <1>14 DEF StandsAt
<1>16. k \in 0..Len(written')
  BY <1>1, <1>8, LenProperties
<1> QED  BY <1>9, <1>15, <1>16 DEF WireInv

\* A step that leaves what is coming and what was said as they are.
LEMMA SameComes ==
  ASSUME WireInv, InputWireTypeOK', UNCHANGED <<carrier, written, heard>>, Coming' = Coming,
         ended' = "no" => ended = "no"
  PROVE  WireInv'
<1>0. PICK k \in 0..Len(written) : \E at : StandsAt(k, at)
  BY DEF WireInv
<1>1. PICK at : StandsAt(k, at)
  BY <1>0
<1>2. StandsAt(k, at)'
  BY <1>1 DEF StandsAt
<1>3. k \in 0..Len(written')
  BY <1>1
<1> QED  BY <1>2, <1>3 DEF WireInv

LEMMA ArriveKeeps ==
  ASSUME WireInv, NEW n \in 1..Len(flight), Arrive(n)
  PROVE  WireInv'
<1>1. InputWireTypeOK /\ flight \in Seq(0..Close) /\ held \in Seq(0..Close)
  BY DEF WireInv, InputWireTypeOK
<1>2. /\ held' = held \o SubSeq(flight, 1, n) /\ flight' = SubSeq(flight, n + 1, Len(flight))
      /\ carrier' = carrier /\ written' = written /\ ended' = ended /\ heard' = heard
      /\ again' = again
  BY DEF Arrive
<1>3. PICK s, t : s = SubSeq(flight, 1, n) /\ t = SubSeq(flight, n + 1, Len(flight))
  OBVIOUS
<1>4. n \in 0..Len(flight)
  OBVIOUS
<1>5. t \in Seq(0..Close)
  BY <1>1, <1>3, <1>4, Dropped
<1>6. s \in Seq(0..Close)
  <2>1. \A i \in 1..n : flight[i] \in 0..Close
    <3> TAKE i \in 1..n
    <3>1. i \in 1..Len(flight)
      OBVIOUS
    <3> QED  BY <1>1, <3>1, ElementOfSeq
  <2> QED  BY <1>3, <2>1, SubSeqProperties
<1>7. s \o t = flight
  <2>1. SubSeq(flight, 1, n) \o SubSeq(flight, n + 1, Len(flight)) = SubSeq(flight, 1, Len(flight))
    <3>1. /\ 1 \in 1..Len(flight) + 1 /\ n \in (1 - 1)..Len(flight) /\ Len(flight) \in n..Len(flight)
      BY <1>1, LenProperties
    <3> QED  BY <1>1, <3>1, ConcatAdjacentSubSeq
  <2>2. SubSeq(flight, 1, Len(flight)) = flight
    BY <1>1, SubSeqFull
  <2> QED  BY <1>3, <2>1, <2>2
<1>8. (held \o s) \o t = held \o (s \o t)
  <2>1. held \in Seq(0..Close) /\ s \in Seq(0..Close) /\ t \in Seq(0..Close)
    BY <1>1, <1>5, <1>6
  <2> QED  BY ONLY <2>1, BytesAssociate, Zenon
<1>9. Coming' = Coming
  BY <1>2, <1>3, <1>7, <1>8 DEF Coming
<1>10. held' \in Seq(0..Close)
  BY <1>1, <1>2, <1>3, <1>6, ConcatProperties
<1>11. InputWireTypeOK'
  BY <1>1, <1>2, <1>3, <1>5, <1>10 DEF InputWireTypeOK
<1> QED  BY <1>2, <1>9, <1>11, SameComes

LEMMA EndsKeep ==
  ASSUME WireInv, FramingViolation \/ LineTooLong \/ UNCHANGED wireVars
  PROVE  WireInv'
<1>1. /\ carrier' = carrier /\ written' = written /\ flight' = flight /\ held' = held
      /\ heard' = heard /\ again' = again /\ (ended' = ended \/ ended' = "dropped")
  BY DEF FramingViolation, LineTooLong, wireVars
<1>2. InputWireTypeOK'
  BY <1>1 DEF WireInv, InputWireTypeOK
<1>3. Coming' = Coming
  BY <1>1 DEF Coming
<1> QED  BY <1>1, <1>2, <1>3, SameComes

LEMMA FinKeeps ==
  ASSUME WireInv, Fin \/ Lost
  PROVE  WireInv'
<1>1. /\ InputWireTypeOK /\ written \in Seq(Sendable) /\ carrier \in {"stream", "lines"}
      /\ flight \in Seq(0..Close) /\ held \in Seq(0..Close)
  BY DEF WireInv, InputWireTypeOK
<1>2. /\ ended' \in {"fin", "lost"} /\ again' = again /\ (flight' = flight \/ flight' = <<>>)
      /\ carrier' = carrier /\ written' = written /\ held' = held /\ heard' = heard
  BY DEF Fin, Lost
<1>3. InputWireTypeOK'
  <2>1. flight' \in Seq(0..Close)
    BY <1>1, <1>2, EmptySeq
  <2> QED  BY <1>1, <1>2, <2>1 DEF InputWireTypeOK
<1>0. PICK k \in 0..Len(written) : \E at : StandsAt(k, at)
  BY DEF WireInv
<1>4. PICK at : StandsAt(k, at)
  BY <1>0
<1>5. /\ Told(heard, written, k) /\ Laid(carrier, written, at)
      /\ Follows(carrier, written, held \o flight, k, at)
  BY <1>4 DEF StandsAt, Coming
<1>6. Follows(carrier, written, held, k, at)
  BY <1>1, <1>5, FollowLost
<1>7. held \o <<>> = held
  BY <1>1, ConcatEmptySeq
<1>8. Follows(carrier, written, Coming', k, at)
  BY <1>2, <1>5, <1>6, <1>7 DEF Coming
<1>9. StandsAt(k, at)'
  BY <1>2, <1>5, <1>8 DEF StandsAt
<1> QED  BY <1>2, <1>3, <1>9 DEF WireInv

LEMMA RedialKeeps ==
  ASSUME WireInv, Redial
  PROVE  WireInv'
<1>1. carrier \in {"stream", "lines"}
  BY DEF WireInv, InputWireTypeOK
<1>2. InputWireInit'
  BY <1>1 DEF Redial, InputWireInit
<1>3. (InputWireInit => WireInv)'
  BY WireStarts, PTL
<1> QED  BY <1>2, <1>3

\* A step that takes the next message off and says what it holds.
LEMMA TakenKeeps ==
  ASSUME WireInv, NEW k \in 0..Len(written), NEW at, StandsAt(k, at), k + 1 \in 1..Len(written),
         NEW l \in 0..Len(held), l = Len(Wrap(carrier, written[k + 1])),
         held' = SubSeq(held, l + 1, Len(held)), heard' = heard \o written[k + 1].packet,
         UNCHANGED <<carrier, written, flight, ended, again>>
  PROVE  WireInv'
<1>1. /\ InputWireTypeOK /\ carrier \in {"stream", "lines"} /\ written \in Seq(Sendable)
      /\ flight \in Seq(0..Close) /\ held \in Seq(0..Close) /\ heard \in Seq(Packets)
  BY DEF WireInv, InputWireTypeOK
<1>2. /\ Told(heard, written, k) /\ Laid(carrier, written, at)
      /\ Follows(carrier, written, Coming, k, at)
      /\ ended = "no" => Whole(written, Coming, k, at)
  BY DEF StandsAt
<1>3. PICK q : q = Coming
  OBVIOUS
<1>4. q \in Seq(0..Close) /\ Len(q) = Len(held) + Len(flight)
  BY <1>1, <1>3, ConcatProperties DEF Coming
<1>5. Coming' = SubSeq(q, l + 1, Len(q))
  BY <1>1, <1>3, DropFront DEF Coming
<1>6. l \in Nat /\ l <= Len(q)
  BY <1>1, <1>4, LenProperties
<1>7. /\ SubSeq(q, l + 1, Len(q)) \in Seq(0..Close)
      /\ Follows(carrier, written, SubSeq(q, l + 1, Len(q)), k + 1, at)
      /\ Whole(written, q, k, at) => Whole(written, SubSeq(q, l + 1, Len(q)), k + 1, at)
  BY <1>1, <1>2, <1>3, <1>4, <1>6, FollowTaken
<1>8. heard' \in Seq(Packets) /\ Told(heard', written, k + 1)
  <2>1. (k + 1) - 1 = k
    OBVIOUS
  <2> QED  BY <1>1, <1>2, <2>1, TellNext
<1>9. held' \in Seq(0..Close)
  BY <1>1, Dropped
<1>10. InputWireTypeOK'
  BY <1>1, <1>8, <1>9 DEF InputWireTypeOK
<1>11. StandsAt(k + 1, at)'
  BY <1>2, <1>3, <1>5, <1>7, <1>8 DEF StandsAt
<1>12. k + 1 \in 0..Len(written')
  OBVIOUS
<1> QED  BY <1>10, <1>11, <1>12 DEF WireInv

\* What is held of the next message, when anything is.
LEMMA HeldIsNext ==
  ASSUME WireInv, NEW k \in 0..Len(written), NEW at, StandsAt(k, at), held # <<>>
  PROVE  /\ k + 1 \in 1..Len(written) /\ written[k + 1] \in Sendable
         /\ \A x \in 1..Len(Wrap(carrier, written[k + 1])) :
              x <= Len(held) => held[x] = Wrap(carrier, written[k + 1])[x]
<1>1. /\ carrier \in {"stream", "lines"} /\ written \in Seq(Sendable)
      /\ flight \in Seq(0..Close) /\ held \in Seq(0..Close)
  BY DEF WireInv, InputWireTypeOK
<1>2. Laid(carrier, written, at) /\ Follows(carrier, written, Coming, k, at)
  BY DEF StandsAt
<1>3. PICK q : q = Coming
  OBVIOUS
<1>4. PICK s \in Nat, u \in Nat : s = Len(held) /\ u = Len(flight)
  BY <1>1, LenProperties
<1>5. q \in Seq(0..Close) /\ Len(q) = s + u /\ \A x \in 1..s : q[x] = held[x]
  BY <1>1, <1>3, <1>4, ConcatProperties DEF Coming
<1>6. q # <<>>
  <2>1. s # 0
    BY <1>1, <1>4, EmptySeq
  <2>2. Len(q) # 0
    BY <1>5, <2>1
  <2> QED  BY <2>2
<1>7. /\ k + 1 \in 1..Len(written) /\ written[k + 1] \in Sendable
      /\ \A x \in 1..Len(Wrap(carrier, written[k + 1])) :
           x <= Len(q) => q[x] = Wrap(carrier, written[k + 1])[x]
  BY <1>1, <1>2, <1>3, <1>5, <1>6, NextComes
<1>8. PICK l \in Nat : l = Len(Wrap(carrier, written[k + 1]))
  BY <1>1, <1>7, WrapHasLength
<1>9. ASSUME NEW x \in 1..l, x <= s PROVE held[x] = Wrap(carrier, written[k + 1])[x]
  <2>1. x \in 1..s /\ x <= s + u
    BY <1>9
  <2> QED  BY <1>5, <1>7, <1>8, <2>1
<1> QED  BY <1>4, <1>7, <1>8, <1>9

LEMMA ReadFrameKeeps ==
  ASSUME WireInv, ReadFrame
  PROVE  WireInv'
<1>1. /\ carrier = "stream" /\ held \in Seq(0..Close) /\ heard \in Seq(Packets)
  BY DEF WireInv, InputWireTypeOK, ReadFrame
<1>0. PICK k \in 0..Len(written) : \E at : StandsAt(k, at)
  BY DEF WireInv
<1>2. PICK at : StandsAt(k, at)
  BY <1>0
<1>3. PICK s \in Nat : s = Len(held)
  BY <1>1, LenProperties
<1>4. s >= 2 /\ held # <<>>
  BY <1>3 DEF ReadFrame
<1>5. PICK m : m = written[k + 1]
  OBVIOUS
<1>6. PICK t : t = Wrap("stream", m)
  OBVIOUS
<1>7. PICK b : b = m.bytes
  OBVIOUS
<1>8. k + 1 \in 1..Len(written) /\ m \in Sendable /\ \A x \in 1..Len(t) : x <= s => held[x] = t[x]
  BY <1>1, <1>2, <1>3, <1>4, <1>5, <1>6, HeldIsNext
<1>9. PICK n \in Nat : n = Len(b)
  BY <1>7, <1>8, Wrapped
<1>10. Len(t) = n + 2 /\ t[1] * Base + t[2] = n /\ \A x \in 1..n : t[x + 2] = b[x]
  BY <1>6, <1>7, <1>8, <1>9, Wrapped
<1>11. FrameLen(held) = n
  <2>1. 1 \in 1..Len(t) /\ 2 \in 1..Len(t)
    BY <1>10
  <2>2. held[1] = t[1] /\ held[2] = t[2]
    BY <1>4, <1>8, <2>1
  <2> QED  BY <1>10, <2>2 DEF FrameLen
<1>12. /\ s >= 2 + n /\ heard' = heard \o PacketOf(SubSeq(held, 3, 2 + n))
       /\ held' = SubSeq(held, 3 + n, s)
       /\ UNCHANGED <<carrier, written, flight, ended, again>>
  BY <1>3, <1>11 DEF ReadFrame
<1>13. SubSeq(held, 3, 2 + n) = b
  <2>1. b \in Seq(Byte) /\ b \in Seq(0..Close)
    <3>1. b \in Seq(Byte)
      BY <1>7, <1>8, SendableTyped
    <3>2. Byte \subseteq 0..Close
      BY Places DEF Byte, Close
    <3> QED  BY <3>1, <3>2, SeqMonotonic
  <2>2. PICK r : r = SubSeq(held, 3, 2 + n)
    OBVIOUS
  <2>3. \A i \in 3..(2 + n) : held[i] \in 0..Close
    <3> TAKE i \in 3..(2 + n)
    <3>1. i \in 1..Len(held)
      BY <1>3, <1>12
    <3> QED  BY <1>1, <3>1, ElementOfSeq
  <2>4. /\ r \in Seq(0..Close) /\ Len(r) = IF 3 <= 2 + n THEN (2 + n) - 3 + 1 ELSE 0
        /\ \A i \in 1..((2 + n) - 3 + 1) : r[i] = held[3 + i - 1]
    <3>1. 3 \in Int /\ 2 + n \in Int
      OBVIOUS
    <3> QED  BY <2>2, <2>3, <3>1, SubSeqProperties
  <2>5. (2 + n) - 3 + 1 = n /\ (~(3 <= 2 + n) => n = 0)
    OBVIOUS
  <2>6. Len(r) = n /\ \A i \in 1..n : r[i] = held[3 + i - 1]
    BY <2>4, <2>5
  <2>7. \A i \in 1..n : r[i] = b[i]
    <3> TAKE i \in 1..n
    <3>1. 3 + i - 1 = i + 2 /\ i + 2 \in 1..Len(t) /\ i + 2 <= s
      BY <1>10, <1>12
    <3> QED  BY <1>8, <1>10, <2>6, <3>1
  <2>8. r = b
    BY <1>9, <2>1, <2>4, <2>6, <2>7, SeqEqual
  <2> QED  BY <2>2, <2>8
<1>14. heard' = heard \o m.packet
  BY <1>7, <1>8, <1>12, <1>13, PacketSays
<1>15. PICK l \in 0..Len(held) : l = n + 2
  BY <1>3, <1>12
<1>16. held' = SubSeq(held, l + 1, Len(held))
  <2>1. 3 + n = l + 1
    BY <1>15
  <2> QED  BY <1>3, <1>12, <2>1
<1>17. l = Len(Wrap(carrier, written[k + 1]))
  BY <1>1, <1>5, <1>6, <1>10, <1>15
<1> QED  BY <1>2, <1>5, <1>8, <1>12, <1>14, <1>16, <1>17, TakenKeeps

LEMMA Front ==
  ASSUME NEW S, NEW q \in Seq(S), NEW n \in 0..Len(q)
  PROVE  /\ SubSeq(q, 1, n) \in Seq(S) /\ Len(SubSeq(q, 1, n)) = n
         /\ \A i \in 1..n : SubSeq(q, 1, n)[i] = q[i]
<1>1. PICK r : r = SubSeq(q, 1, n)
  OBVIOUS
<1>2. \A i \in 1..n : q[i] \in S
  <2> TAKE i \in 1..n
  <2>1. i \in 1..Len(q)
    BY LenProperties
  <2> QED  BY <2>1, ElementOfSeq
<1>3. /\ r \in Seq(S) /\ Len(r) = IF 1 <= n THEN n - 1 + 1 ELSE 0
      /\ \A i \in 1..(n - 1 + 1) : r[i] = q[1 + i - 1]
  <2>1. 1 \in Int /\ n \in Int
    OBVIOUS
  <2> QED  BY <1>1, <1>2, <2>1, SubSeqProperties
<1>4. n \in Nat /\ n - 1 + 1 = n /\ (~(1 <= n) => n = 0) /\ \A i \in 1..n : 1 + i - 1 = i
  OBVIOUS
<1>5. Len(r) = n /\ \A i \in 1..n : r[i] = q[i]
  BY <1>3, <1>4
<1> QED  BY <1>1, <1>3, <1>5

\* What can be told of a line by the bytes of it that are there.
LEMMA LineShows ==
  ASSUME NEW m \in Sendable, NEW q \in Seq(0..Close), NEW n \in Nat, n = Len(m.bytes),
         \A x \in 1..Len(Wrap("lines", m)) : x <= Len(q) => q[x] = Wrap("lines", m)[x]
  PROVE  \A x \in 1..Len(q) :
           /\ x <= n => q[x] = m.bytes[x] /\ q[x] # NL /\ q[x] # Close
           /\ x = n + 1 => q[x] = Close /\ q[x] # NL
           /\ x = n + 2 => q[x] = NL
<1>1. PICK t : t = Wrap("lines", m)
  OBVIOUS
<1>2. /\ Len(t) = n + 2 /\ \A x \in 1..n : t[x] = m.bytes[x]
      /\ t[n + 1] = Close /\ t[n + 2] = NL
  BY <1>1, Wrapped
<1>3. m.bytes \in Seq(Byte)
  BY SendableTyped
<1>4. NL # Close /\ \A v \in Byte : v # NL /\ v # Close
  BY Places DEF NL, Close, Byte
<1> TAKE x \in 1..Len(q)
<1>5. x \in 1..Len(t) => q[x] = t[x]
  BY <1>1
<1>6. ASSUME x <= n PROVE q[x] = m.bytes[x] /\ q[x] # NL /\ q[x] # Close
  <2>1. x \in 1..n /\ x \in 1..Len(t)
    BY <1>2, <1>6
  <2>2. m.bytes[x] \in Byte
    BY <1>3, <2>1, ElementOfSeq
  <2> QED  BY <1>2, <1>4, <1>5, <2>1, <2>2
<1>7. x = n + 1 => x \in 1..Len(t)
  BY <1>2
<1>8. x = n + 2 => x \in 1..Len(t)
  BY <1>2
<1> QED  BY <1>2, <1>4, <1>5, <1>6, <1>7, <1>8

\* A line that its JSON closes is the message that was written.
LEMMA ParseSays ==
  ASSUME NEW m \in Sendable, NEW n \in Nat, n = Len(m.bytes),
         NEW line \in Seq(0..Close), Len(line) = n + 1, line[n + 1] = Close,
         \A x \in 1..n : line[x] = m.bytes[x]
  PROVE  Parsed(line) = m.packet
<1>1. line # <<>> /\ line[Len(line)] = Close
  <2>1. Len(<<>>) = 0 /\ Len(line) # 0
    OBVIOUS
  <2> QED  BY <2>1
<1>2. Parsed(line) = PacketOf(SubSeq(line, 1, Len(line) - 1))
  BY <1>1 DEF Parsed
<1>3. PICK r : r = SubSeq(line, 1, n)
  OBVIOUS
<1>4. Len(line) - 1 = n /\ n \in 0..Len(line)
  OBVIOUS
<1>5. r \in Seq(0..Close) /\ Len(r) = n /\ \A i \in 1..n : r[i] = line[i]
  BY <1>3, <1>4, Front
<1>6. PICK b : b = m.bytes
  OBVIOUS
<1>7. b \in Seq(0..Close) /\ Len(b) = n
  <2>1. b \in Seq(Byte)
    BY <1>6, SendableTyped
  <2>2. Byte \subseteq 0..Close
    BY Places DEF Byte, Close
  <2> QED  BY <1>6, <2>1, <2>2, SeqMonotonic
<1>8. \A i \in 1..n : r[i] = b[i]
  BY <1>5, <1>6
<1>9. r = b
  BY <1>5, <1>7, <1>8, SeqEqual
<1>10. Parsed(line) = PacketOf(b)
  BY <1>2, <1>3, <1>4, <1>9
<1> QED  BY <1>6, <1>10, PacketSays

LEMMA TakeLineKeeps ==
  ASSUME WireInv, TakeLine
  PROVE  WireInv'
<1>1. /\ carrier = "lines" /\ held \in Seq(0..Close) /\ heard \in Seq(Packets) /\ HasLine
  BY DEF WireInv, InputWireTypeOK, TakeLine
<1>0. PICK k \in 0..Len(written) : \E at : StandsAt(k, at)
  BY DEF WireInv
<1>2. PICK at : StandsAt(k, at)
  BY <1>0
<1>3. PICK s \in Nat : s = Len(held)
  BY <1>1, LenProperties
<1>4. PICK e \in 1..s : held[e] = NL
  BY <1>1, <1>3 DEF HasLine
<1>5. held # <<>>
  <2>1. Len(<<>>) = 0 /\ s # 0
    BY <1>4
  <2> QED  BY <1>3, <2>1
<1>6. PICK m : m = written[k + 1]
  OBVIOUS
<1>7. /\ k + 1 \in 1..Len(written) /\ m \in Sendable
      /\ \A x \in 1..Len(Wrap("lines", m)) : x <= Len(held) => held[x] = Wrap("lines", m)[x]
  BY <1>1, <1>2, <1>5, <1>6, HeldIsNext
<1>8. PICK n \in Nat : n = Len(m.bytes)
  BY <1>7, Wrapped
<1>9. \A x \in 1..s : /\ x <= n => held[x] = m.bytes[x] /\ held[x] # NL
                      /\ x = n + 1 => held[x] = Close /\ held[x] # NL
                      /\ x = n + 2 => held[x] = NL
  <2>1. \A x \in 1..Len(held) :
          /\ x <= n => held[x] = m.bytes[x] /\ held[x] # NL /\ held[x] # Close
          /\ x = n + 1 => held[x] = Close /\ held[x] # NL
          /\ x = n + 2 => held[x] = NL
    <3>1. held \in Seq(0..Close)
      BY <1>1
    <3> QED  BY <1>7, <1>8, <3>1, LineShows
  <2> QED  BY <1>3, <2>1
<1>10. n + 2 \in 1..s /\ held[n + 2] = NL
  <2>1. e > n + 1
    BY <1>4, <1>9
  <2>2. n + 2 \in 1..s
    BY <1>4, <2>1
  <2> QED  BY <1>9, <2>2
<1>11. \A j \in 1..(n + 1) : j \in 1..s /\ held[j] # NL
  <2> TAKE j \in 1..(n + 1)
  <2>1. j \in 1..s /\ (j <= n \/ j = n + 1)
    BY <1>10
  <2> QED  BY <1>9, <2>1
<1>12. FirstNL = n + 2
  <2> DEFINE P(i) == held[i] = NL /\ \A j \in 1..(i - 1) : held[j] # NL
  <2>1. n + 2 \in 1..s /\ P(n + 2)
    <3>1. (n + 2) - 1 = n + 1
      OBVIOUS
    <3> QED  BY <1>10, <1>11, <3>1
  <2>2. FirstNL = CHOOSE i \in 1..s : P(i)
    BY <1>3 DEF FirstNL
  <2>3. FirstNL \in 1..s /\ P(FirstNL)
    <3>1. \E i \in 1..s : P(i)
      BY <2>1
    <3> HIDE DEF P
    <3> QED  BY <2>2, <3>1
  <2>4. ~(FirstNL < n + 2)
    <3>1. FirstNL < n + 2 => FirstNL \in 1..(n + 1)
      BY <2>3
    <3> QED  BY <1>11, <2>3, <3>1
  <2>5. ~(FirstNL > n + 2)
    <3>1. FirstNL > n + 2 => n + 2 \in 1..(FirstNL - 1)
      BY <2>3
    <3> QED  BY <1>10, <2>3, <3>1
  <2> QED  BY <2>3, <2>4, <2>5
<1>13. PICK line : line = SubSeq(held, 1, n + 1)
  OBVIOUS
<1>14. /\ heard' = heard \o Parsed(line) /\ held' = SubSeq(held, (n + 2) + 1, s)
       /\ UNCHANGED <<carrier, written, flight, ended, again>>
  <2>1. (n + 2) - 1 = n + 1
    OBVIOUS
  <2> QED  BY <1>3, <1>12, <1>13, <2>1 DEF TakeLine, Retained
<1>15. /\ line \in Seq(0..Close) /\ Len(line) = n + 1
       /\ \A i \in 1..(n + 1) : line[i] = held[i]
  <2>1. n + 1 \in 0..Len(held)
    BY <1>3, <1>10
  <2> QED  BY <1>1, <1>13, <2>1, Front
<1>16. line[n + 1] = Close /\ \A x \in 1..n : line[x] = m.bytes[x]
  <2>1. n + 1 \in 1..(n + 1) /\ n + 1 \in 1..s /\ \A x \in 1..n : x \in 1..(n + 1) /\ x \in 1..s
    BY <1>10
  <2> QED  BY <1>9, <1>15, <2>1
<1>17. heard' = heard \o m.packet
  BY <1>7, <1>8, <1>14, <1>15, <1>16, ParseSays
<1>18. PICK l \in 0..Len(held) : l = n + 2
  BY <1>3, <1>10
<1>19. l = Len(Wrap(carrier, written[k + 1]))
  BY <1>1, <1>6, <1>7, <1>8, <1>18, Wrapped
<1>20. held' = SubSeq(held, l + 1, Len(held))
  BY <1>3, <1>14, <1>18
<1> QED  BY <1>2, <1>6, <1>7, <1>14, <1>17, <1>19, <1>20, TakenKeeps

\* What the stream ended inside holds the packet of the message after, or none.
LEMMA RestIs ==
  ASSUME WireInv, NEW k \in 0..Len(written), NEW at, StandsAt(k, at),
         carrier = "lines", held # <<>>, ~HasLine
  PROVE  /\ k + 1 \in 1..Len(written) /\ written[k + 1] \in Sendable
         /\ Parsed(held) \in {<<>>, written[k + 1].packet}
<1>1. held \in Seq(0..Close)
  BY DEF WireInv, InputWireTypeOK
<1>5. PICK s \in Nat : s = Len(held) /\ s # 0
  BY <1>1, EmptySeq
<1>6. PICK m : m = written[k + 1]
  OBVIOUS
<1>7. /\ k + 1 \in 1..Len(written) /\ m \in Sendable
      /\ \A x \in 1..Len(Wrap("lines", m)) : x <= Len(held) => held[x] = Wrap("lines", m)[x]
  BY <1>6, HeldIsNext
<1>8. PICK n \in Nat : n = Len(m.bytes)
  BY <1>7, Wrapped
<1>9. \A x \in 1..s : /\ x <= n => held[x] = m.bytes[x] /\ held[x] # Close
                      /\ x = n + 1 => held[x] = Close
                      /\ x = n + 2 => held[x] = NL
  <2>1. \A x \in 1..Len(held) :
          /\ x <= n => held[x] = m.bytes[x] /\ held[x] # NL /\ held[x] # Close
          /\ x = n + 1 => held[x] = Close /\ held[x] # NL
          /\ x = n + 2 => held[x] = NL
    <3>1. held \in Seq(0..Close)
      BY <1>1
    <3> QED  BY <1>7, <1>8, <3>1, LineShows
  <2> QED  BY <1>5, <2>1
<1>10. s <= n + 1
  <2>1. ASSUME n + 2 <= s PROVE FALSE
    <3>1. n + 2 \in 1..s
      BY <2>1
    <3> QED  BY <1>5, <1>9, <3>1 DEF HasLine
  <2> QED  BY <2>1
<1>12. s \in 1..s
  BY <1>5
<1>13. CASE s = n + 1
  <2>1. held[n + 1] = Close /\ \A x \in 1..n : held[x] = m.bytes[x]
    BY <1>9, <1>12, <1>13
  <2>2. Len(held) = n + 1 /\ n = Len(m.bytes) /\ m \in Sendable
    BY <1>5, <1>7, <1>8, <1>13
  <2>3. Parsed(held) = m.packet
    BY <1>1, <2>1, <2>2, ParseSays
  <2> QED  BY <1>6, <1>7, <2>3
<1>14. CASE s # n + 1
  <2>1. held[s] # Close
    <3>1. s <= n
      BY <1>10, <1>14
    <3> QED  BY <1>9, <1>12, <3>1
  <2>2. Parsed(held) = <<>>
    BY <1>5, <2>1 DEF Parsed
  <2> QED  BY <1>6, <1>7, <2>2
<1> QED  BY <1>13, <1>14

LEMMA LastLineKeeps ==
  ASSUME WireInv, LastLine
  PROVE  WireInv'
<1>1. /\ InputWireTypeOK /\ carrier = "lines" /\ held # <<>> /\ ~HasLine /\ again \in Seq(Packets)
  BY DEF WireInv, InputWireTypeOK, LastLine
<1>2. /\ again' = again \o Parsed(held) /\ carrier' = carrier /\ written' = written
      /\ flight' = flight /\ held' = held /\ ended' = ended /\ heard' = heard
  BY DEF LastLine
<1>0. PICK k \in 0..Len(written) : \E at : StandsAt(k, at)
  BY DEF WireInv
<1>3. PICK at : StandsAt(k, at)
  BY <1>0
<1>4. PICK p : p = Parsed(held)
  OBVIOUS
<1>5. p \in Seq(Packets)
  <2>1. written[k + 1] \in Sendable /\ p \in {<<>>, written[k + 1].packet}
    BY <1>1, <1>3, <1>4, RestIs
  <2> QED  BY <2>1, SendableTyped, EmptySeq
<1>6. again' \in Seq(Packets)
  BY <1>1, <1>2, <1>4, <1>5, ConcatProperties
<1>7. InputWireTypeOK'
  BY <1>1, <1>2, <1>6 DEF InputWireTypeOK
<1>8. Coming' = Coming
  BY <1>2 DEF Coming
<1> QED  BY <1>2, <1>7, <1>8, SameComes

\* While a last line is heard again and again nothing else happens to the stream.
AgainInv ==
  again # <<>> =>
    /\ carrier = "lines" /\ ended = "fin" /\ flight = <<>> /\ held # <<>> /\ ~HasLine
    /\ Len(held) <= LineCap /\ \A n \in 1..Len(again) : Parsed(held) = <<again[n]>>

LEMMA AgainStep ==
  ASSUME InputWireTypeOK, AgainInv, [InputWireNext]_wireVars
  PROVE  AgainInv'
<1>1. again \in Seq(Packets) /\ held \in Seq(0..Close)
  BY DEF InputWireTypeOK
<1>2. ASSUME again' = <<>> PROVE AgainInv'
  BY <1>2 DEF AgainInv
<1>3. CASE LastLine
  <2>1. /\ carrier = "lines" /\ ended = "fin" /\ flight = <<>> /\ held # <<>> /\ ~HasLine
        /\ Len(held) <= LineCap /\ again' = again \o Parsed(held)
        /\ carrier' = carrier /\ flight' = flight /\ held' = held /\ ended' = ended
    BY <1>3 DEF LastLine
  <2>2. HasLine' = HasLine /\ Parsed(held)' = Parsed(held)
    BY <2>1 DEF HasLine, Parsed, PacketOf
  <2>3. PICK p : p = Parsed(held)
    OBVIOUS
  <2>4. CASE p = <<>>
    <3>1. again' = again
      BY <1>1, <2>1, <2>3, <2>4, ConcatEmptySeq
    <3> QED  BY <2>1, <2>2, <3>1 DEF AgainInv
  <2>5. CASE p # <<>>
    <3>1. PICK d : p = <<d>>
      BY <2>3, <2>5 DEF Parsed, PacketOf
    <3>2. again' = again \o <<d>>
      BY <2>1, <2>3, <3>1
    <3>3. \A n \in 1..Len(again) : again[n] = d
      <4> TAKE n \in 1..Len(again)
      <4>1. again # <<>>
        <5>1. Len(again) # 0
          OBVIOUS
        <5>2. Len(<<>>) = 0
          OBVIOUS
        <5> QED  BY <5>1, <5>2
      <4>2. <<d>> = <<again[n]>>
        BY <2>3, <3>1, <4>1 DEF AgainInv
      <4> QED  BY <4>2
    <3>4. PICK j \in Nat : j = Len(again)
      BY <1>1, LenProperties
    <3>5. again \in Seq(Packets \cup {d}) /\ <<d>> \in Seq(Packets \cup {d}) /\ Len(<<d>>) = 1
      <4>1. Packets \subseteq Packets \cup {d}
        OBVIOUS
      <4> QED  BY <1>1, <4>1, SeqMonotonic
    <3>6. /\ Len(again \o <<d>>) = j + 1
          /\ \A n \in 1..(j + 1) : (again \o <<d>>)[n] = IF n <= j THEN again[n] ELSE <<d>>[n - j]
      BY <3>4, <3>5, ConcatProperties
    <3>7. \A n \in 1..Len(again') : again'[n] = d
      <4> SUFFICES ASSUME NEW n \in 1..(j + 1) PROVE (again \o <<d>>)[n] = d
        BY <3>2, <3>6
      <4>1. CASE n <= j
        <5>1. n \in 1..Len(again)
          BY <3>4, <4>1
        <5> QED  BY <3>3, <3>6, <4>1, <5>1
      <4>2. CASE ~(n <= j)
        <5>1. n - j = 1
          BY <4>2
        <5> QED  BY <3>6, <4>2, <5>1
      <4> QED  BY <4>1, <4>2
    <3> QED  BY <2>1, <2>2, <2>3, <3>1, <3>7 DEF AgainInv
  <2> QED  BY <2>4, <2>5
<1>4. CASE Redial
  BY <1>2, <1>4 DEF Redial
<1>5. CASE UNCHANGED wireVars
  BY <1>5 DEF AgainInv, wireVars, HasLine, Parsed, PacketOf
<1>6. ASSUME again' = again, again = <<>> PROVE AgainInv'
  BY <1>2, <1>6
<1>7. ASSUME again # <<>>
      PROVE  /\ carrier = "lines" /\ ended = "fin" /\ flight = <<>> /\ ~HasLine
             /\ ~(Len(held) > LineCap)
  <2>1. Len(held) \in Nat /\ LineCap \in Nat
    BY <1>1, WireBounds, LenProperties
  <2> QED  BY <1>7, <2>1 DEF AgainInv
<1>8. ASSUME NEW m \in Sendable, Write(m) PROVE AgainInv'
  BY <1>6, <1>7, <1>8 DEF Write
<1>9. ASSUME NEW n \in 1..Len(flight), Arrive(n) PROVE AgainInv'
  BY <1>6, <1>7, <1>9 DEF Arrive
<1>10. CASE Fin \/ Lost
  BY <1>6, <1>7, <1>10 DEF Fin, Lost
<1>11. CASE ReadFrame
  BY <1>6, <1>7, <1>11 DEF ReadFrame
<1>12. CASE FramingViolation
  BY <1>6, <1>7, <1>12 DEF FramingViolation
<1>13. CASE TakeLine
  BY <1>6, <1>7, <1>13 DEF TakeLine
<1>14. CASE LineTooLong
  BY <1>6, <1>7, <1>14 DEF LineTooLong
<1> QED  BY <1>3, <1>4, <1>5, <1>8, <1>9, <1>10, <1>11, <1>12, <1>13, <1>14 DEF InputWireNext

LEMMA WireStep == WireInv /\ [InputWireNext]_wireVars => WireInv'
<1> SUFFICES ASSUME WireInv, [InputWireNext]_wireVars PROVE WireInv'
  OBVIOUS
<1>1. ASSUME NEW m \in Sendable, Write(m) PROVE WireInv'
  BY <1>1, WriteKeeps
<1>2. ASSUME NEW n \in 1..Len(flight), Arrive(n) PROVE WireInv'
  BY <1>2, ArriveKeeps
<1>3. CASE Fin \/ Lost
  BY <1>3, FinKeeps
<1>4. CASE Redial
  BY <1>4, RedialKeeps
<1>5. CASE ReadFrame
  BY <1>5, ReadFrameKeeps
<1>6. CASE TakeLine
  BY <1>6, TakeLineKeeps
<1>7. CASE LastLine
  BY <1>7, LastLineKeeps
<1>8. CASE FramingViolation \/ LineTooLong \/ UNCHANGED wireVars
  BY <1>8, EndsKeep
<1> QED  BY <1>1, <1>2, <1>3, <1>4, <1>5, <1>6, <1>7, <1>8 DEF InputWireNext

LEMMA WireIsRead == WireInv /\ AgainInv => InputWireTypeOK /\ HeardIsWritten
<1> SUFFICES ASSUME WireInv, AgainInv PROVE InputWireTypeOK /\ HeardIsWritten
  OBVIOUS
<1>1. PICK k \in 0..Len(written) : \E at : StandsAt(k, at)
  BY DEF WireInv
<1>2. PICK at : StandsAt(k, at)
  BY <1>1
<1>3. Told(heard, written, k)
  BY <1>2 DEF StandsAt
<1>4. \A i : PacketsIn(i) = Counted(written, i)
  BY DEF PacketsIn, Counted
<1>5. ASSUME NEW n \in 1..Len(again)
      PROVE  k < Len(written) /\ written[k + 1].packet = <<again[n]>>
  <2>1. again # <<>>
    <3>1. Len(again) # 0 /\ Len(<<>>) = 0
      OBVIOUS
    <3> QED  BY <3>1
  <2>2. /\ carrier = "lines" /\ held # <<>> /\ ~HasLine /\ Parsed(held) = <<again[n]>>
    BY <2>1 DEF AgainInv
  <2>3. /\ k + 1 \in 1..Len(written) /\ Parsed(held) \in {<<>>, written[k + 1].packet}
    BY <1>2, <2>2, RestIs
  <2>4. <<again[n]>> # <<>>
    OBVIOUS
  <2>5. k < Len(written)
    BY <2>3
  <2> QED  BY <2>2, <2>3, <2>4, <2>5
<1>6. HeardIsWritten
  BY <1>3, <1>4, <1>5 DEF Told, HeardIsWritten
<1> QED  BY <1>6 DEF WireInv

LEMMA WireStands == InputWireSpec => [](WireInv /\ AgainInv)
<1>1. InputWireInit => WireInv /\ AgainInv
  BY WireStarts DEF InputWireInit, AgainInv
<1>2. WireInv /\ AgainInv /\ [InputWireNext]_wireVars => (WireInv /\ AgainInv)'
  BY WireStep, AgainStep DEF WireInv
<1> QED  BY <1>1, <1>2, PTL DEF InputWireSpec

(* What read_framed and the control stream's lines hold is always made of   *)
(* bytes, and what reaches the input session of packets that were written.  *)
THEOREM InputWireTypeCorrect == InputWireSpec => []InputWireTypeOK
<1>1. WireInv /\ AgainInv => InputWireTypeOK
  BY WireIsRead
<1> QED  BY <1>1, WireStands, PTL

(* Whatever the reads cut the stream into, for every set of packets and of  *)
(* bytes that are none, on either carrier and at whatever byte the client   *)
(* finishes or is lost: of whole frames and lines the host hears the        *)
(* packets the browser wrote, field by field, in order, none twice and none *)
(* left out, and of a line that the stream ends inside nothing but the      *)
(* packet after those, however often it reads it (read_framed, LineReader). *)
THEOREM HostHearsWhatIsWritten == InputWireSpec => []HeardIsWritten
<1>1. WireInv /\ AgainInv => HeardIsWritten
  BY WireIsRead
<1> QED  BY <1>1, WireStands, PTL

=============================================================================
