----------------------------- MODULE InputProofs -----------------------------
(***************************************************************************)
(* The input processor keeps its invariant whatever packets arrive, and    *)
(* the whole input path implements it: the client and the network only     *)
(* choose the packets.                                                     *)
(***************************************************************************)
EXTENDS InputPath, SequenceTheorems, TLAPS

LEMMA EventTyping ==
  ASSUME NEW e \in Events
  PROVE  /\ e.kind \in {"move", "jump", "key", "buttons", "gamepad", "snapshot"}
         /\ e.on \subseteq Controls
         /\ e.off \subseteq Controls
         /\ e.pad \in Pads \cup {NoPad}
  BY DEF Events, Move, Jump, Key, Mouse, Gamepad, Snapshot, Event, Controls

LEMMA SnapshotSaysAll ==
  ASSUME NEW e \in Events, e.kind = "snapshot"
  PROVE  e.off = Controls \ e.on
  BY DEF Events, Move, Jump, Key, Mouse, Gamepad, Snapshot, Event

LEMMA InitInv == InputInit => InputInv
<1> SUFFICES ASSUME InputInit PROVE InputInv
  OBVIOUS
<1>1. tokens \in 0..Burst
  BY BurstIsNat DEF InputInit
<1>2. InputTypeOK
  BY <1>1 DEF InputInit, InputTypeOK
<1>3. OsAgrees /\ PadAgrees /\ ReleasedIsEmpty /\ EndLetsGo
  BY DEF InputInit, OsAgrees, PadAgrees, ReleasedIsEmpty, EndLetsGo
<1>4. QED
  BY <1>2, <1>3 DEF InputInv

-----------------------------------------------------------------------------
(* A packet *)

\* What the session holds after an event is what Windows was told.
LEMMA InjectControlsAgrees ==
  ASSUME InputInv, NEW e \in Events, InjectControls(NextHeld(e))
  PROVE  os' = held' /\ held' \subseteq Controls
<1>1. os = held /\ held \subseteq Controls
  BY DEF InputInv, OsAgrees, InputTypeOK
<1>2. NextHeld(e) \subseteq Controls
  BY <1>1, EventTyping DEF NextHeld
<1>3. QED
  BY <1>1, <1>2 DEF InjectControls

\* The virtual pad follows every change, or was not there to follow.
LEMMA InjectPadAgrees ==
  ASSUME InputInv, NEW e \in Events, InjectPad(e)
  PROVE  /\ device' = "plugged" => padOut' = pad'
         /\ {pad', padOut'} \subseteq Pads \cup {NoPad}
         /\ device' \in {"none", "failed", "plugged"}
<1> DEFINE Typed == Pads \cup {NoPad}
<1>1. NextPad(e) \in Typed /\ pad \in Typed /\ padOut \in Typed
  BY EventTyping DEF InputInv, InputTypeOK, NextPad
<1>2. /\ device \in {"none", "failed", "plugged"}
      /\ device = "plugged" => padOut = pad
  BY DEF InputInv, InputTypeOK, PadAgrees
<1>3. CASE e.kind = "gamepad" \/ NextPad(e) # pad
  <2>1. device' \in {"none", "failed", "plugged"}
    BY <1>2, <1>3 DEF InjectPad
  <2>2. pad' = NextPad(e) /\ padOut' = IF device' = "plugged" THEN NextPad(e) ELSE padOut
    BY <1>3 DEF InjectPad
  <2>3. QED
    BY <1>1, <2>1, <2>2
<1>4. CASE ~(e.kind = "gamepad" \/ NextPad(e) # pad)
  BY <1>1, <1>2, <1>4 DEF InjectPad
<1>5. QED
  BY <1>3, <1>4

LEMMA PacketKeepsInv ==
  ASSUME InputInv, NEW seq \in Seqs, NEW e \in Events, HandlePacket(seq, e)
  PROVE  InputInv'
<1>1. /\ alive = TRUE /\ alive' = TRUE /\ armed' = armed
      /\ quiet' = FALSE /\ released' = FALSE
  BY DEF HandlePacket, InputInv, InputTypeOK
<1>2. CASE Throttle \/ DropStale(seq)
  <2>1. UNCHANGED <<held, pad, high, os, device, padOut>>
    BY <1>2 DEF Throttle, DropStale, heldVars, outVars
  <2>2. tokens' \in 0..Burst
    BY <1>2, BurstIsNat DEF Throttle, DropStale, InputInv, InputTypeOK
  <2>3. QED
    BY <1>1, <2>1, <2>2
    DEF InputInv, InputTypeOK, OsAgrees, PadAgrees, ReleasedIsEmpty, EndLetsGo
<1>3. CASE Accept(seq, e)
  <2>1. os' = held' /\ held' \subseteq Controls
    BY <1>3, InjectControlsAgrees DEF Accept
  <2>2. /\ device' = "plugged" => padOut' = pad'
        /\ {pad', padOut'} \subseteq Pads \cup {NoPad}
        /\ device' \in {"none", "failed", "plugged"}
    BY <1>3, InjectPadAgrees DEF Accept
  <2>3. high' \in Seqs /\ tokens' \in 0..Burst
    BY <1>3, BurstIsNat DEF Accept, InputInv, InputTypeOK
  <2>4. InputTypeOK'
    BY <1>1, <2>1, <2>2, <2>3 DEF InputInv, InputTypeOK
  <2>5. QED
    BY <1>1, <2>1, <2>2, <2>4
    DEF InputInv, OsAgrees, PadAgrees, ReleasedIsEmpty, EndLetsGo
<1>4. QED
  BY <1>2, <1>3 DEF HandlePacket

-----------------------------------------------------------------------------
(* The host's own steps *)

LEMMA HostKeepsInv ==
  ASSUME InputInv, HostStep
  PROVE  InputInv'
<1> USE DEF InputInv, OsAgrees, PadAgrees, ReleasedIsEmpty, EndLetsGo
<1>1. CASE Arm
  BY <1>1 DEF Arm, InputTypeOK, heldVars, outVars
<1>2. CASE Refill
  BY <1>2, BurstIsNat DEF Refill, InputTypeOK, heldVars, outVars
<1>3. CASE Elapse
  BY <1>3 DEF Elapse, InputTypeOK, heldVars, outVars
<1>4. CASE TickWatchdog
  BY <1>4 DEF TickWatchdog, ReleaseAll, InputTypeOK
<1>5. CASE Shutdown
  BY <1>5 DEF Shutdown, ReleaseAll, InputTypeOK
<1>6. CASE Drop
  <2>1. CASE released
    <3>1. held = {} /\ os = {}
      BY <2>1
    <3>2. UNCHANGED <<held, pad, os, released>> /\ padOut' = NoPad
      BY <1>6, <2>1 DEF Drop, heldVars
    <3>3. QED
      BY <1>6, <3>1, <3>2 DEF Drop, InputTypeOK
  <2>2. CASE ~released
    BY <1>6, <2>2 DEF Drop, ReleaseAll, InputTypeOK
  <2>3. QED
    BY <2>1, <2>2
<1>7. QED
  BY <1>1, <1>2, <1>3, <1>4, <1>5, <1>6 DEF HostStep

LEMMA InputStepKeepsInv == InputInv /\ [InputNext]_inputVars => InputInv'
<1> SUFFICES ASSUME InputInv, [InputNext]_inputVars PROVE InputInv'
  OBVIOUS
<1>1. CASE \E seq \in Seqs, e \in Events : HandlePacket(seq, e)
  BY <1>1, PacketKeepsInv
<1>2. CASE HostStep
  BY <1>2, HostKeepsInv
<1>3. CASE UNCHANGED inputVars
  BY <1>3 DEF inputVars, heldVars, outVars, InputInv, InputTypeOK, OsAgrees,
              PadAgrees, ReleasedIsEmpty, EndLetsGo
<1>4. QED
  BY <1>1, <1>2, <1>3 DEF InputNext

\* Windows and the virtual pad show what the session believes, `released` means
\* nothing is left to release, and nothing stays down after the session
\* (input/mod.rs), for any packets in any order.
THEOREM AnyPacketsAreSafe == InputSpec => []InputInv
<1>1. QED
  BY InitInv, InputStepKeepsInv, PTL DEF InputSpec
-----------------------------------------------------------------------------
(* Remainders *)

LEMMA Division ==
  ASSUME NEW n \in Int, NEW m \in Int, m > 0
  PROVE  /\ n \div m \in Int
         /\ n % m \in 0..(m - 1)
         /\ n = m * (n \div m) + (n % m)
  BY SMT

LEMMA Remainder ==
  ASSUME NEW m \in Int, m > 0, NEW q \in Int, NEW r \in 0..(m - 1)
  PROVE  (m * q + r) % m = r
  BY SMT

LEMMA RemainderShift ==
  ASSUME NEW m \in Int, m > 0, NEW x \in Int, NEW q \in Int
  PROVE  (m * q + x) % m = x % m
<1> DEFINE p == x \div m
           r == x % m
<1>1. p \in Int /\ r \in 0..(m - 1) /\ x = m * p + r
  BY Division
<1> HIDE DEF p, r
<1>2. m * q + x = m * (q + p) + r
  BY <1>1
<1>3. (m * (q + p) + r) % m = r
  BY <1>1, Remainder
<1>4. QED
  BY <1>2, <1>3 DEF r

LEMMA RemainderMinus ==
  ASSUME NEW m \in Int, m > 0, NEW x \in Int, NEW y \in Int
  PROVE  ((x % m) - y) % m = (x - y) % m
<1> DEFINE p == x \div m
           r == x % m
           d == r - y
<1>1. p \in Int /\ r \in 0..(m - 1) /\ x = m * p + r
  BY Division
<1> HIDE DEF p, r
<1>2. x - y = m * p + d /\ d \in Int
  BY <1>1
<1> HIDE DEF d
<1>3. (m * p + d) % m = d % m
  BY <1>1, <1>2, RemainderShift
<1>4. QED
  BY <1>2, <1>3 DEF r, d

\* Ages, below the size of the space, grow by one with each packet sent.
LEMMA AgeGrows ==
  ASSUME NEW m \in Int, m > 0, NEW n \in Int, NEW s \in Int,
         (n - s) % m < m - 1
  PROVE  (((n + 1) % m) - s) % m = ((n - s) % m) + 1
<1> DEFINE x == n - s
           p == x \div m
           r == x % m
<1>1. p \in Int /\ r \in 0..(m - 1) /\ x = m * p + r /\ r < m - 1
  BY Division
<1>2. (((n + 1) % m) - s) % m = ((n + 1) - s) % m
  <2> DEFINE k == n + 1
  <2>1. k \in Int
    OBVIOUS
  <2> HIDE DEF k
  <2>2. ((k % m) - s) % m = (k - s) % m
    BY <2>1, RemainderMinus
  <2>3. QED
    BY <2>2 DEF k
<1> HIDE DEF p, r
<1>3. (n + 1) - s = m * p + (r + 1) /\ r + 1 \in 0..(m - 1)
  BY <1>1
<1>4. (m * p + (r + 1)) % m = r + 1
  BY <1>1, <1>3, Remainder
<1>5. QED
  BY <1>2, <1>3, <1>4 DEF r

\* The difference of two numbers is that of their ages.
LEMMA AgesDiffer ==
  ASSUME NEW m \in Int, m > 0, NEW n \in Int, NEW s \in Int, NEW h \in Int
  PROVE  (s - h) % m = (((n - h) % m) - ((n - s) % m)) % m
<1> DEFINE b == (n - s) % m
           q == (n - s) \div m
<1>1. b \in Int /\ q \in Int /\ n - s = m * q + b
  BY Division
<1> HIDE DEF b, q
<1>2. (((n - h) % m) - b) % m = ((n - h) - b) % m
  <2> DEFINE a == n - h
  <2>1. a \in Int
    OBVIOUS
  <2> HIDE DEF a
  <2>2. ((a % m) - b) % m = (a - b) % m
    BY <1>1, <2>1, RemainderMinus
  <2>3. QED
    BY <2>2 DEF a
<1>3. (n - h) - b = m * q + (s - h)
  BY <1>1
<1>4. (m * q + (s - h)) % m = (s - h) % m
  <2> DEFINE d == s - h
  <2>1. d \in Int
    OBVIOUS
  <2> HIDE DEF d
  <2>2. (m * q + d) % m = d % m
    BY <1>1, <2>1, RemainderShift
  <2>3. QED
    BY <2>2 DEF d
<1>5. QED
  BY <1>2, <1>3, <1>4 DEF b

-----------------------------------------------------------------------------
(* Sending *)

PathInv == TypeOK /\ InputInv /\ GateInv

LEMMA Space ==
  /\ SeqSpace \in Int /\ SeqSpace > 1
  /\ MaxLag \in Nat /\ MaxBehind \in Nat /\ MaxLag <= MaxBehind
  /\ 2 * MaxBehind <= SeqSpace - 1
  /\ 0 % SeqSpace = 0
<1>1. SeqSpace \in Int /\ SeqSpace > 1
  BY SeqSpaceIsEven
<1>2. MaxLag \in Nat /\ MaxBehind \in Nat /\ MaxLag <= MaxBehind
  BY LagIsNat, BehindIsHalf, LagIsBehind
<1>3. 2 * MaxBehind <= SeqSpace - 1
  BY <1>1, BehindIsHalf
<1>4. (SeqSpace * 0 + 0) % SeqSpace = 0
  BY <1>1, Remainder
<1>5. QED
  BY <1>1, <1>2, <1>3, <1>4

LEMMA ClientEvents ==
  /\ {Move, Jump} \subseteq Events
  /\ \A k \in Keys, d \in BOOLEAN : Key(k, d) \in Events
  /\ \A down \in SUBSET Buttons : Mouse(down) \in Events
  /\ \A g \in Pads : Gamepad(g) \in Events
  /\ \A down \in SUBSET Controls, g \in Pads \cup {NoPad} : Snapshot(down, g) \in Events
  BY DEF Events

\* What each event says is down.
LEMMA ClientSays ==
  /\ \A e \in {Move, Jump} : e.on = {}
  /\ \A k, d : Key(k, d).on = IF d THEN {k} ELSE {}
  /\ \A down : Mouse(down).on = down
  /\ \A g : Gamepad(g).on = {}
  /\ \A down, g : Snapshot(down, g).on = down
  BY DEF Move, Jump, Key, Mouse, Gamepad, Snapshot, Event

\* Once another packet is numbered, every other one is a packet older.
LEMMA NextAge ==
  ASSUME next \in Seqs, NEW s \in Seqs, Age(s) < SeqSpace - 1
  PROVE  (NextSeq - s) % SeqSpace = Age(s) + 1
<1>1. next \in Int /\ s \in Int
  BY Space DEF Seqs
<1>2. (next - s) % SeqSpace < SeqSpace - 1
  BY DEF Age
<1>3. SeqSpace \in Int /\ SeqSpace > 0
  BY Space
<1>4. (((next + 1) % SeqSpace) - s) % SeqSpace = ((next - s) % SeqSpace) + 1
  BY <1>1, <1>2, <1>3, AgeGrows
<1>5. QED
  BY <1>4 DEF Age, NextSeq

LEMMA NewestAge ==
  ASSUME next \in Seqs
  PROVE  (NextSeq - next) % SeqSpace = 1
<1>1. next \in Int /\ next - next = 0
  BY Space DEF Seqs
<1>2. Age(next) = 0
  BY <1>1, Space DEF Age
<1>3. (NextSeq - next) % SeqSpace = Age(next) + 1
  BY <1>2, Space, NextAge
<1>4. QED
  BY <1>2, <1>3

LEMMA SendKeepsInv ==
  ASSUME PathInv, NEW e \in Events, NEW down \in SUBSET Controls,
         Send(e, down), high' = high
  PROVE  WireTypeOK' /\ GateInv'
<1> DEFINE packet == [seq |-> next, event |-> e]
<1>1. /\ next \in Seqs /\ up \in BOOLEAN /\ up' = up
      /\ next' = NextSeq
      /\ grams \subseteq Datagrams
      /\ stream \in Seq(Datagrams) /\ Len(stream) < MaxLag
      /\ high \in Seqs \cup {NoSeq}
  BY DEF PathInv, TypeOK, InputTypeOK, WireTypeOK, Send, CanSend
<1>2. next' \in Seqs
  <2>1. next + 1 \in Int
    BY <1>1, Space DEF Seqs
  <2>2. (next + 1) % SeqSpace \in 0..(SeqSpace - 1)
    BY <2>1, Space, Division
  <2>3. QED
    BY <1>1, <2>2 DEF NextSeq, Seqs
<1>3. packet \in Datagrams
  BY <1>1 DEF Datagrams
<1>4. (next' - next) % SeqSpace = 1
  BY <1>1, NewestAge
<1>5. WireTypeOK'
  <2>1. recent' \in Seq(SUBSET Controls) /\ Len(recent') <= MaxLag
    <3> DEFINE r == Append(recent, down)
    <3>1. recent \in Seq(SUBSET Controls) /\ Len(recent) <= MaxLag
      BY DEF PathInv, TypeOK, WireTypeOK
    <3>2. r \in Seq(SUBSET Controls) /\ Len(r) = Len(recent) + 1 /\ r # <<>>
      BY <3>1, AppendProperties
    <3> HIDE DEF r
    <3>3. Tail(r) \in Seq(SUBSET Controls) /\ Len(Tail(r)) = Len(r) - 1
      BY <3>2, HeadTailProperties
    <3>4. recent' = IF Len(r) > MaxLag THEN Tail(r) ELSE r
      BY DEF Send, r
    <3>5. Len(recent) \in Nat
      BY <3>1, LenProperties
    <3>6. CASE Len(r) > MaxLag
      BY <3>1, <3>2, <3>3, <3>4, <3>5, <3>6, Space
    <3>7. CASE ~(Len(r) > MaxLag)
      BY <3>2, <3>4, <3>5, <3>7, Space
    <3>8. QED
      BY <3>6, <3>7
  <2>2. excuse' \subseteq Controls
    BY DEF Send, PathInv, TypeOK, WireTypeOK
  <2>3. grams' \subseteq Datagrams
    BY <1>1, <1>3 DEF Send
  <2>4. stream' \in Seq(Datagrams) /\ Len(stream') <= MaxLag
    <3>1. Len(stream) \in Nat
      BY <1>1, LenProperties
    <3>2. stream' = Append(stream, packet) \/ stream' = stream
      BY DEF Send
    <3>3. QED
      BY <1>1, <1>3, <3>1, <3>2, AppendProperties, Space
  <2>5. QED
    BY <1>1, <1>2, <2>1, <2>2, <2>3, <2>4 DEF WireTypeOK
<1>6. high # NoSeq => Age(high)' \in 1..MaxBehind
  <2> SUFFICES ASSUME high # NoSeq PROVE Age(high)' \in 1..MaxBehind
    OBVIOUS
  <2>1. Age(high) \in 1..MaxBehind /\ Age(high) < MaxBehind
    BY DEF PathInv, GateInv, Send, CanSend
  <2>2. Age(high)' = Age(high) + 1
    <3>1. high \in Seqs /\ Age(high) < SeqSpace - 1
      BY <1>1, <2>1, Space
    <3>2. (NextSeq - high) % SeqSpace = Age(high) + 1
      BY <1>1, <3>1, NextAge
    <3>3. QED
      BY <1>1, <3>2 DEF Age
  <2>3. QED
    BY <2>1, <2>2, Space
<1>7. ~up' => grams' = {} /\ stream' = <<>>
  BY <1>1 DEF Send, PathInv, GateInv
<1>8. \A p \in grams' : (next' - p.seq) % SeqSpace \in 1..MaxLag
  <2> SUFFICES ASSUME NEW p \in grams' PROVE (next' - p.seq) % SeqSpace \in 1..MaxLag
    OBVIOUS
  <2>1. up = TRUE
    BY <1>1, <1>7
  <2>2. CASE p = packet
    <3>1. p.seq = next /\ 1 <= MaxLag
      BY <1>1, <2>2, LenProperties, Space
    <3>2. QED
      BY <1>4, <3>1, Space
  <2>3. CASE p # packet
    <3>1. p \in grams /\ Age(p.seq) < MaxLag
      BY <2>1, <2>3 DEF Send
    <3>2. p.seq \in Seqs
      BY <1>1, <3>1 DEF Datagrams
    <3>3. Age(p.seq) \in 1..MaxLag
      BY <3>1 DEF PathInv, GateInv
    <3>4. (NextSeq - p.seq) % SeqSpace = Age(p.seq) + 1
      BY <1>1, <3>1, <3>2, <3>3, NextAge, Space
    <3>5. QED
      BY <1>1, <3>1, <3>3, <3>4, Space
  <2>4. QED
    BY <2>2, <2>3
<1>9. \A i \in DOMAIN stream' :
        (next' - stream'[i].seq) % SeqSpace = Len(stream') - i + 1
  <2> SUFFICES ASSUME NEW i \in DOMAIN stream'
               PROVE  (next' - stream'[i].seq) % SeqSpace = Len(stream') - i + 1
    OBVIOUS
  <2>1. Len(stream) \in Nat /\ DOMAIN stream = 1..Len(stream)
    BY <1>1, LenProperties
  <2>2. up = TRUE /\ stream' = Append(stream, packet)
    <3>1. CASE up
      BY <1>1, <3>1 DEF Send
    <3>2. CASE ~up
      BY <1>1, <1>7, <3>2
    <3>3. QED
      BY <3>1, <3>2, <1>1
  <2>3. /\ Len(stream') = Len(stream) + 1
        /\ i \in 1..(Len(stream) + 1)
        /\ i # Len(stream) + 1 => stream'[i] = stream[i]
        /\ i = Len(stream) + 1 => stream'[i] = packet
    BY <1>1, <1>3, <2>1, <2>2, AppendProperties
  <2>4. CASE i = Len(stream) + 1
    BY <1>4, <2>1, <2>3, <2>4
  <2>5. CASE i # Len(stream) + 1
    <3>1. i \in DOMAIN stream /\ stream'[i] = stream[i]
      BY <2>1, <2>3, <2>5
    <3>2. stream[i].seq \in Seqs
      <4>1. i \in 1..Len(stream) /\ stream \in Seq(Datagrams)
        BY <1>1, <2>1, <3>1
      <4>2. stream[i] \in Datagrams
        BY <4>1, ElementOfSeq
      <4>3. QED
        BY <4>2 DEF Datagrams
    <3>3. Age(stream[i].seq) = Len(stream) - i + 1
      BY <3>1 DEF PathInv, GateInv
    <3>4. (NextSeq - stream[i].seq) % SeqSpace = Age(stream[i].seq) + 1
      BY <1>1, <2>1, <2>3, <3>1, <3>2, <3>3, NextAge, Space
    <3>5. QED
      BY <1>1, <2>1, <2>3, <3>1, <3>3, <3>4
  <2>6. QED
    BY <2>4, <2>5
<1>10. QED
  BY <1>2, <1>5, <1>6, <1>7, <1>8, <1>9 DEF GateInv, Age

-----------------------------------------------------------------------------
(* Receiving *)

\* What is_fresh lets through is younger than the newest accepted, or its copy.
LEMMA FreshIsYounger ==
  ASSUME next \in Seqs, high \in Seqs, NEW s \in Seqs,
         Age(high) \in 1..MaxBehind, Age(s) \in 1..MaxLag, Fresh(s)
  PROVE  s # high => Age(s) < Age(high)
<1> DEFINE a == Age(high)
           b == Age(s)
<1>1. a \in 1..MaxBehind /\ b \in 1..MaxBehind
  BY Space
<1>2. SeqSpace \in Int /\ SeqSpace > 0
  BY Space
<1>3. (s - high) % SeqSpace = (a - b) % SeqSpace
  <2>1. next \in Int /\ s \in Int /\ high \in Int
    BY <1>2 DEF Seqs
  <2>2. QED
    <3>1. (s - high) % SeqSpace
             = (((next - high) % SeqSpace) - ((next - s) % SeqSpace)) % SeqSpace
      <4>1. \A m \in Int : m > 0 => \A n, x, y \in Int :
              (x - y) % m = (((n - y) % m) - ((n - x) % m)) % m
        BY ONLY AgesDiffer, Zenon
      <4>2. \A n, x, y \in Int :
              (x - y) % SeqSpace = (((n - y) % SeqSpace) - ((n - x) % SeqSpace)) % SeqSpace
        BY ONLY <1>2, <4>1, Zenon
      <4>3. QED
        BY ONLY <2>1, <4>2, Zenon
    <3>2. QED
      BY <3>1 DEF Age
<1>4. high # NoSeq
  BY NoSeqIsNone
<1>5. (s - high) % SeqSpace < (SeqSpace - 1) \div 2
  BY <1>4 DEF Fresh
<1> HIDE DEF a, b
<1>6. CASE b > a
  <2> DEFINE r == SeqSpace - (b - a)
  <2>1. r \in 0..(SeqSpace - 1) /\ SeqSpace * (-1) + r = a - b
    BY <1>1, <1>2, <1>6, Space
  <2>2. 2 * r > SeqSpace - 1
    BY <1>1, Space
  <2> HIDE DEF r
  <2>3. (SeqSpace * (-1) + r) % SeqSpace = r
    BY <1>2, <2>1, Remainder
  <2>4. r < (SeqSpace - 1) \div 2
    BY <1>3, <1>5, <2>1, <2>3
  <2>5. QED
    BY <1>2, <2>1, <2>2, <2>4
<1>7. CASE b = a
  <2>1. (s - high) % SeqSpace = 0
    BY <1>1, <1>3, <1>7, Space
  <2>2. s \in 0..(SeqSpace - 1) /\ high \in 0..(SeqSpace - 1)
    BY DEF Seqs
  <2>3. CASE s >= high
    <3> DEFINE d == s - high
    <3>1. d \in 0..(SeqSpace - 1) /\ SeqSpace * 0 + d = d
      BY <1>2, <2>2, <2>3
    <3> HIDE DEF d
    <3>2. d % SeqSpace = d
      BY <1>2, <3>1, Remainder
    <3>3. d = 0
      BY <2>1, <3>2 DEF d
    <3>4. QED
      BY <2>2, <3>3 DEF d
  <2>4. CASE s < high
    <3> DEFINE d == SeqSpace + (s - high)
    <3>1. d \in 1..(SeqSpace - 1) /\ SeqSpace * (-1) + d = s - high
      BY <1>2, <2>2, <2>4
    <3> HIDE DEF d
    <3>2. (SeqSpace * (-1) + d) % SeqSpace = d
      BY <1>2, <3>1, Remainder
    <3>3. QED
      BY <2>1, <3>1, <3>2
  <2>5. QED
    BY <1>2, <2>2, <2>3, <2>4
<1>8. CASE b < a
  BY <1>8 DEF a, b
<1>9. QED
  BY <1>1, <1>6, <1>7, <1>8

LEMMA ArriveIsAnInputStep ==
  ASSUME NEW p \in Datagrams, Arrive(p)
  PROVE  [InputNext]_inputVars
<1>1. p.seq \in Seqs /\ p.event \in Events
  BY DEF Datagrams
<1>2. QED
  BY <1>1 DEF Arrive, IgnorePacket, InputNext

LEMMA ArriveMovesTheGateForward ==
  ASSUME PathInv, NEW p \in Datagrams, Age(p.seq) \in 1..MaxLag, Arrive(p)
  PROVE  /\ high' # NoSeq => Age(high') \in 1..MaxBehind
         /\ high # NoSeq /\ high' # high => Age(high') < Age(high)
<1>1. next \in Seqs /\ high \in Seqs \cup {NoSeq} /\ p.seq \in Seqs
  BY DEF PathInv, TypeOK, InputTypeOK, WireTypeOK, Datagrams
<1>2. high # NoSeq => Age(high) \in 1..MaxBehind
  BY DEF PathInv, GateInv
<1>3. Age(p.seq) \in 1..MaxBehind
  BY Space
<1>4. high' = high \/ (high' = p.seq /\ Fresh(p.seq))
  BY DEF Arrive, HandlePacket, IgnorePacket, Throttle, DropStale, Accept, inputVars
<1>5. CASE high' = high
  BY <1>2, <1>5
<1>6. CASE high' = p.seq /\ Fresh(p.seq)
  <2>1. high # NoSeq /\ high' # high => Age(p.seq) < Age(high)
    BY <1>1, <1>2, <1>6, FreshIsYounger
  <2>2. QED
    BY <1>3, <1>6, <2>1
<1>7. QED
  BY <1>4, <1>5, <1>6

LEMMA ArriveKeepsHistoryTyped ==
  ASSUME PathInv, NEW p \in Datagrams, Arrive(p)
  PROVE  excuse' \subseteq Controls
<1>1. recent \in Seq(SUBSET Controls) /\ excuse \subseteq Controls
  BY DEF PathInv, TypeOK, WireTypeOK
<1>2. \A i \in DOMAIN recent : recent[i] \in SUBSET Controls
  BY <1>1, ElementOfSeq, LenProperties
<1>3. HeldSince(p.seq) \subseteq Controls
  BY <1>2 DEF HeldSince
<1>4. QED
  BY <1>1, <1>3 DEF Arrive

LEMMA DatagramKeepsInv ==
  ASSUME PathInv, NEW p \in grams, DatagramArrives(p)
  PROVE  WireTypeOK' /\ GateInv' /\ UNCHANGED managerVars /\ [InputNext]_inputVars
<1>1. /\ p \in Datagrams /\ Age(p.seq) \in 1..MaxLag /\ Arrive(p)
      /\ grams' = grams \ {p}
      /\ UNCHANGED <<managerVars, next, up, recent, stream>>
  BY DEF PathInv, TypeOK, WireTypeOK, GateInv, DatagramArrives, Arrive
<1>2. high' # NoSeq => Age(high') \in 1..MaxBehind
  BY <1>1, ArriveMovesTheGateForward
<1>3. excuse' \subseteq Controls
  BY <1>1, ArriveKeepsHistoryTyped
<1>4. [InputNext]_inputVars
  BY <1>1, ArriveIsAnInputStep
<1>5. WireTypeOK'
  BY <1>1, <1>3 DEF PathInv, TypeOK, WireTypeOK
<1>6. GateInv'
  BY <1>1, <1>2 DEF PathInv, GateInv, Age
<1>7. QED
  BY <1>1, <1>4, <1>5, <1>6

LEMMA StreamKeepsInv ==
  ASSUME PathInv, StreamArrives
  PROVE  WireTypeOK' /\ GateInv' /\ UNCHANGED managerVars /\ [InputNext]_inputVars
<1> DEFINE p == Head(stream)
<1>1. /\ Arrive(p) /\ stream # <<>> /\ stream' = Tail(stream)
      /\ UNCHANGED <<managerVars, next, up, recent, grams>>
      /\ stream \in Seq(Datagrams)
  BY DEF PathInv, TypeOK, WireTypeOK, StreamArrives, Arrive
<1>2. /\ Len(stream) \in Nat /\ Len(stream) > 0 /\ Len(stream) <= MaxLag
      /\ DOMAIN stream = 1..Len(stream)
  BY <1>1, LenProperties, EmptySeq DEF PathInv, TypeOK, WireTypeOK
<1>3. /\ Tail(stream) \in Seq(Datagrams)
      /\ Len(Tail(stream)) = Len(stream) - 1
      /\ \A i \in 1..(Len(stream) - 1) : Tail(stream)[i] = stream[i + 1]
      /\ p \in Datagrams /\ p = stream[1]
  BY <1>1, <1>2, HeadTailProperties
<1>4. \A i \in 1..Len(stream) : Age(stream[i].seq) = Len(stream) - i + 1
  BY <1>2 DEF PathInv, GateInv
<1>5. Age(p.seq) \in 1..MaxLag
  <2>1. Age(stream[1].seq) = Len(stream)
    BY <1>2, <1>4
  <2>2. QED
    BY <1>2, <1>3, <2>1, Space
<1>6. high' # NoSeq => Age(high') \in 1..MaxBehind
  BY <1>1, <1>3, <1>5, ArriveMovesTheGateForward
<1>7. excuse' \subseteq Controls
  BY <1>1, <1>3, ArriveKeepsHistoryTyped
<1>8. [InputNext]_inputVars
  BY <1>1, <1>3, ArriveIsAnInputStep
<1>9. WireTypeOK'
  BY <1>1, <1>2, <1>3, <1>7, Space DEF PathInv, TypeOK, WireTypeOK
<1>10. \A i \in DOMAIN stream' : Age(stream'[i].seq) = Len(stream') - i + 1
  <2> SUFFICES ASSUME NEW i \in DOMAIN stream'
               PROVE  Age(stream'[i].seq) = Len(stream') - i + 1
    OBVIOUS
  <2>1. i \in 1..(Len(stream) - 1)
    BY <1>1, <1>3, LenProperties
  <2>2. stream'[i] = stream[i + 1] /\ i + 1 \in 1..Len(stream)
    BY <1>1, <1>2, <1>3, <2>1
  <2>3. Age(stream[i + 1].seq) = Len(stream) - (i + 1) + 1
    BY <1>4, <2>2
  <2>4. Len(stream') = Len(stream) - 1
    BY <1>1, <1>3
  <2>5. QED
    BY <1>2, <2>1, <2>2, <2>3, <2>4
<1>11. up
  BY <1>1 DEF PathInv, GateInv
<1>12. GateInv'
  BY <1>1, <1>6, <1>10, <1>11 DEF PathInv, GateInv, Age
<1>13. QED
  BY <1>1, <1>8, <1>9, <1>12

-----------------------------------------------------------------------------
(* The client *)

LEMMA ClientOnlySends ==
  ASSUME TypeOK, Client
  PROVE  /\ UNCHANGED inputVars
         /\ ManagerTypeOK'
         /\ \/ UNCHANGED <<wireVars, historyVars>>
            \/ \E e \in Events, down \in SUBSET Controls :
                 e.on \subseteq down /\ Send(e, down)
<1> DEFINE Sends == \E e \in Events, down \in SUBSET Controls :
                      e.on \subseteq down /\ Send(e, down)
           Goal == /\ UNCHANGED inputVars
                   /\ ManagerTypeOK'
                   /\ UNCHANGED <<wireVars, historyVars>> \/ Sends
<1>0. /\ captured \in BOOLEAN /\ cHeld \subseteq Controls
      /\ cPad \in Pads \cup {NoPad} /\ lastPad \in Pads \cup {NoPad}
      /\ taps \subseteq Controls /\ tapped \in 0..MaxTaps
      /\ Keys \subseteq Controls /\ Buttons \subseteq Controls
  BY DEF TypeOK, ManagerTypeOK, Controls
<1>1. CASE Capture
  BY <1>0, <1>1 DEF Capture, ManagerTypeOK
<1>2. LetGoOfAll => Sends /\ cHeld' = {} /\ cPad' = NoPad /\ lastPad' = NoPad
  <2>1. Snapshot({}, NoPad) \in Events
    BY ClientEvents
  <2>2. QED
    BY <2>1, ClientSays DEF LetGoOfAll
<1>3. CASE Leave
  BY <1>0, <1>2, <1>3 DEF Leave, ManagerTypeOK
<1>4. CASE Blur
  BY <1>0, <1>2, <1>4 DEF Blur, ManagerTypeOK
<1>5. CASE SendSnapshot
  <2>1. Snapshot(IF captured THEN cHeld ELSE {}, cPad) \in Events
    BY <1>0, ClientEvents
  <2>2. Sends
    BY <1>0, <1>5, <2>1, ClientSays DEF SendSnapshot
  <2>3. QED
    BY <1>0, <1>5, <2>2 DEF SendSnapshot, ManagerTypeOK, managerVars
<1>6. ASSUME NEW k \in Keys, NEW down \in BOOLEAN, SendKey(k, down)
      PROVE  Sends /\ cHeld' \subseteq Controls
  <2>1. cHeld' \subseteq Controls /\ Key(k, down) \in Events
    BY <1>0, <1>6, ClientEvents DEF SendKey
  <2>2. QED
    BY <1>0, <1>6, <2>1, ClientSays DEF SendKey
<1>7. ASSUME NEW b \in Buttons, NEW down \in BOOLEAN, SendButton(b, down)
      PROVE  Sends /\ cHeld' \subseteq Controls
  <2>1. cHeld' \subseteq Controls
    BY <1>0, <1>7 DEF SendButton
  <2>2. Mouse(cHeld' \cap Buttons) \in Events
    BY ClientEvents
  <2>3. QED
    BY <1>0, <1>7, <2>1, <2>2, ClientSays DEF SendButton
<1>8. ASSUME NEW k \in Keys, NEW down \in BOOLEAN, PhysicalKey(k, down) PROVE Goal
  BY <1>0, <1>6, <1>8 DEF PhysicalKey, ManagerTypeOK
<1>9. ASSUME NEW c \in Controls, StartTap(c)
      PROVE  tapped' \in 0..MaxTaps /\ taps' \subseteq Controls
  BY <1>0, <1>9, TapsAreNat DEF StartTap
<1>10. ASSUME NEW k \in Keys, Tap(k) PROVE Goal
  BY <1>0, <1>6, <1>9, <1>10 DEF Tap, ManagerTypeOK
<1>11. ASSUME NEW b \in Buttons, NEW down \in BOOLEAN, SetButton(b, down) PROVE Goal
  BY <1>0, <1>7, <1>11 DEF SetButton, ManagerTypeOK
<1>12. ASSUME NEW b \in Buttons, ContextMenu(b) PROVE Goal
  BY <1>0, <1>7, <1>9, <1>12 DEF ContextMenu, ManagerTypeOK
<1>13. ASSUME NEW c \in Controls, TapEnd(c) PROVE Goal
  <2>1. Sends /\ cHeld' \subseteq Controls
    BY <1>6, <1>7, <1>13 DEF TapEnd, Controls
  <2>2. QED
    BY <1>0, <1>13, <2>1 DEF TapEnd, ManagerTypeOK
<1>14. ASSUME NEW e \in {Move, Jump}, MouseMove(e) PROVE Goal
  BY <1>0, <1>14, ClientEvents, ClientSays DEF MouseMove, ManagerTypeOK, managerVars
<1>15. ASSUME NEW g \in Pads \cup {NoPad}, PollGamepad(g) PROVE Goal
  <2>1. CASE g # NoPad /\ g # lastPad
    <3>1. Gamepad(g) \in Events
      BY <2>1, ClientEvents
    <3>2. QED
      BY <1>0, <1>15, <2>1, <3>1, ClientSays DEF PollGamepad, ManagerTypeOK
  <2>2. CASE ~(g # NoPad /\ g # lastPad)
    BY <1>0, <1>15, <2>2 DEF PollGamepad, ManagerTypeOK
  <2>3. QED
    BY <2>1, <2>2
<1>16. QED
  BY <1>1, <1>3, <1>4, <1>5, <1>8, <1>10, <1>11, <1>12, <1>13, <1>14, <1>15
  DEF Client, Capture, Leave, Blur, SendSnapshot

LEMMA ClientKeepsInv ==
  ASSUME PathInv, Client
  PROVE  WireTypeOK' /\ GateInv' /\ ManagerTypeOK' /\ UNCHANGED inputVars
<1>1. /\ UNCHANGED inputVars /\ ManagerTypeOK'
      /\ \/ UNCHANGED <<wireVars, historyVars>>
         \/ \E e \in Events, down \in SUBSET Controls : Send(e, down)
  BY ClientOnlySends DEF PathInv
<1>2. high' = high
  BY <1>1 DEF inputVars
<1>3. CASE UNCHANGED <<wireVars, historyVars>>
  BY <1>1, <1>2, <1>3
  DEF PathInv, TypeOK, WireTypeOK, GateInv, Age, wireVars, historyVars
<1>4. CASE \E e \in Events, down \in SUBSET Controls : Send(e, down)
  BY <1>1, <1>2, <1>4, SendKeepsInv
<1>5. QED
  BY <1>1, <1>3, <1>4

-----------------------------------------------------------------------------
(* The whole path *)

\* Whatever happens, the host takes one of its own steps, or none; the gate's
\* invariant holds; and the gate moves forward.
LEMMA PathStep ==
  ASSUME PathInv, [Next]_vars
  PROVE  /\ [InputNext]_inputVars
         /\ WireTypeOK' /\ GateInv' /\ ManagerTypeOK'
         /\ high # NoSeq /\ high' # high => Age(high') < Age(high)
<1> DEFINE Goal == /\ [InputNext]_inputVars
                   /\ WireTypeOK' /\ GateInv' /\ ManagerTypeOK'
                   /\ high # NoSeq /\ high' # high => Age(high') < Age(high)
<1> USE DEF PathInv, TypeOK
<1>1. CASE Client
  BY <1>1, ClientKeepsInv DEF inputVars
<1>2. ASSUME NEW p \in grams, DatagramArrives(p) PROVE Goal
  <2>1. p \in Datagrams /\ Age(p.seq) \in 1..MaxLag /\ Arrive(p)
    BY <1>2 DEF WireTypeOK, GateInv, DatagramArrives
  <2>2. QED
    BY <1>2, <2>1, DatagramKeepsInv, ArriveMovesTheGateForward
    DEF ManagerTypeOK, managerVars
<1>3. CASE StreamArrives
  <2>1. WireTypeOK' /\ GateInv' /\ UNCHANGED managerVars /\ [InputNext]_inputVars
    BY <1>3, StreamKeepsInv
  <2>2. /\ Arrive(Head(stream)) /\ stream # <<>>
        /\ stream \in Seq(Datagrams) /\ Len(stream) <= MaxLag
    BY <1>3 DEF StreamArrives, WireTypeOK
  <2>3. Head(stream) \in Datagrams /\ Head(stream) = stream[1]
    BY <2>2, HeadTailProperties
  <2>4. Len(stream) \in 1..MaxLag /\ 1 \in DOMAIN stream
    BY <2>2, LenProperties, EmptySeq, Space
  <2>5. Age(Head(stream).seq) \in 1..MaxLag
    BY <2>3, <2>4, Space DEF GateInv
  <2>6. high # NoSeq /\ high' # high => Age(high') < Age(high)
    BY <2>2, <2>3, <2>5, ArriveMovesTheGateForward
  <2>7. QED
    BY <2>1, <2>6 DEF ManagerTypeOK, managerVars
<1>4. ASSUME NEW p \in grams, DatagramLost(p) PROVE Goal
  BY <1>4 DEF DatagramLost, WireTypeOK, GateInv, Age, ManagerTypeOK, managerVars,
              inputVars, historyVars
<1>5. CASE Disconnect
  <2>1. <<>> \in Seq(Datagrams) /\ Len(<<>>) = 0 /\ DOMAIN <<>> = {}
    BY EmptySeq
  <2>2. /\ up' = FALSE /\ grams' = {} /\ stream' = <<>>
        /\ UNCHANGED <<inputVars, managerVars, next, historyVars>>
        /\ high' = high
    BY <1>5 DEF Disconnect, inputVars
  <2>3. WireTypeOK'
    <3>1. stream' \in Seq(Datagrams) /\ Len(stream') <= MaxLag
      BY <2>1, <2>2, Space
    <3>2. grams' \subseteq Datagrams /\ up' \in BOOLEAN
      BY <2>2
    <3>3. /\ next' \in Seqs /\ excuse' \subseteq Controls
          /\ recent' \in Seq(SUBSET Controls) /\ Len(recent') <= MaxLag
      BY <2>2 DEF WireTypeOK, historyVars
    <3>4. QED
      BY <3>1, <3>2, <3>3 DEF WireTypeOK
  <2>4. \A i \in DOMAIN stream' :
          (next' - stream'[i].seq) % SeqSpace = Len(stream') - i + 1
    BY <2>1, <2>2
  <2>5. GateInv'
    BY <2>2, <2>4 DEF GateInv, Age
  <2>6. QED
    BY <2>2, <2>3, <2>5 DEF ManagerTypeOK, managerVars
<1>6. CASE Redial
  BY <1>6 DEF Redial, WireTypeOK, GateInv, Age, ManagerTypeOK, managerVars,
              inputVars, historyVars
<1>7. CASE Host
  <2>1. HostStep /\ high' = high
    BY <1>7 DEF Host, HostStep, Arm, Refill, Elapse, TickWatchdog, Shutdown, Drop
  <2>2. UNCHANGED <<managerVars, wireVars, historyVars>>
    BY <1>7 DEF Host
  <2>3. [InputNext]_inputVars
    BY <2>1 DEF InputNext
  <2>4. WireTypeOK' /\ GateInv' /\ ManagerTypeOK'
    BY <2>1, <2>2 DEF WireTypeOK, GateInv, Age, ManagerTypeOK, managerVars,
                      wireVars, historyVars
  <2>5. QED
    BY <2>1, <2>3, <2>4
<1>8. CASE UNCHANGED vars
  BY <1>8 DEF vars, WireTypeOK, GateInv, Age, ManagerTypeOK, managerVars,
              inputVars, wireVars, historyVars
<1>9. QED
  BY <1>1, <1>2, <1>3, <1>4, <1>5, <1>6, <1>7, <1>8 DEF Next, Wire

LEMMA InitPathInv == Init => PathInv
<1> SUFFICES ASSUME Init PROVE PathInv
  OBVIOUS
<1>1. InputInv
  BY InitInv DEF Init
<1>2. ManagerTypeOK
  <2>1. tapped \in 0..MaxTaps
    BY TapsAreNat DEF Init
  <2>2. QED
    BY <2>1 DEF Init, ManagerTypeOK
<1>3. <<>> \in Seq(Datagrams) /\ <<>> \in Seq(SUBSET Controls) /\ Len(<<>>) = 0
      /\ DOMAIN <<>> = {}
  BY EmptySeq
<1>4. 0 \in Seqs
  BY Space DEF Seqs
<1>5. WireTypeOK
  BY <1>3, <1>4, Space DEF Init, WireTypeOK
<1>6. GateInv
  BY <1>3, <1>4 DEF Init, InputInit, GateInv
<1>7. QED
  BY <1>1, <1>2, <1>5, <1>6 DEF PathInv, TypeOK, InputInv

LEMMA PathStepKeepsInv == PathInv /\ [Next]_vars => PathInv'
<1> SUFFICES ASSUME PathInv, [Next]_vars PROVE PathInv'
  OBVIOUS
<1>1. InputInv'
  BY PathStep, InputStepKeepsInv DEF PathInv
<1>2. QED
  BY <1>1, PathStep DEF PathInv, TypeOK, InputInv

LEMMA PathInvariant == Spec => []PathInv
<1>1. QED
  BY InitPathInv, PathStepKeepsInv, PTL DEF Spec

-----------------------------------------------------------------------------
(* What the host holds, the client held *)

\* Everything in flight is typed, young, and known to the history.
LEMMA InFlightIsYoung ==
  ASSUME PathInv, NEW p \in InFlightPackets
  PROVE  p \in Datagrams /\ p.seq \in Seqs /\ p.event \in Events
         /\ Age(p.seq) \in 1..MaxLag
<1>1. CASE p \in grams
  <2>1. p \in Datagrams /\ Age(p.seq) \in 1..MaxLag
    BY <1>1 DEF PathInv, TypeOK, WireTypeOK, GateInv
  <2>2. QED
    BY <2>1 DEF Datagrams
<1>2. ASSUME NEW i \in DOMAIN stream, p = stream[i]
      PROVE  p \in Datagrams /\ Age(p.seq) \in 1..MaxLag
  <2>1. stream \in Seq(Datagrams) /\ Len(stream) <= MaxLag
    BY DEF PathInv, TypeOK, WireTypeOK
  <2>2. Len(stream) \in Nat /\ i \in 1..Len(stream)
    BY <2>1, <1>2, LenProperties
  <2>3. p \in Datagrams
    BY <1>2, <2>1, <2>2, ElementOfSeq
  <2>4. Age(p.seq) = Len(stream) - i + 1
    BY <1>2 DEF PathInv, GateInv
  <2>5. QED
    BY <2>1, <2>2, <2>3, <2>4, Space
<1>3. QED
  BY <1>1, <1>2 DEF InFlightPackets, Datagrams

\* A packet sent shifts the history by one: what the client held after an older
\* packet is still known, and the newest entry is the new one.
LEMMA SendShiftsHistory ==
  ASSUME PathInv, NEW e, NEW down \in SUBSET Controls, Send(e, down)
  PROVE  /\ \A s \in Seqs : Age(s) \in 1..Len(recent) /\ Age(s) < MaxLag =>
              /\ Age(s)' = Age(s) + 1
              /\ Age(s)' \in 1..Len(recent')
              /\ HeldAt(s)' = HeldAt(s)
         /\ (next' - next) % SeqSpace = 1
         /\ Len(recent') \in Nat /\ Len(recent') >= 1
         /\ recent'[Len(recent')] = down
<1> DEFINE r == Append(recent, down)
<1>1. /\ next \in Seqs /\ next' = NextSeq
      /\ recent \in Seq(SUBSET Controls) /\ Len(recent) <= MaxLag
      /\ stream \in Seq(Datagrams) /\ Len(stream) < MaxLag
  BY DEF PathInv, TypeOK, WireTypeOK, Send, CanSend
<1>2. /\ Len(recent) \in Nat /\ DOMAIN recent = 1..Len(recent)
      /\ Len(stream) \in Nat /\ MaxLag \in Nat /\ MaxLag >= 1
  BY <1>1, LenProperties, Space
<1>3. /\ r \in Seq(SUBSET Controls) /\ Len(r) = Len(recent) + 1 /\ r # <<>>
      /\ \A i \in 1..Len(recent) : r[i] = recent[i]
      /\ r[Len(recent) + 1] = down
  BY <1>1, <1>2, AppendProperties
<1> HIDE DEF r
<1>4. /\ Len(Tail(r)) = Len(r) - 1
      /\ \A i \in 1..(Len(r) - 1) : Tail(r)[i] = r[i + 1]
  BY <1>3, HeadTailProperties
<1>5. recent' = IF Len(r) > MaxLag THEN Tail(r) ELSE r
  BY DEF Send, r
<1>6. (next' - next) % SeqSpace = 1
  BY <1>1, NewestAge
<1>7. /\ Len(recent') \in Nat /\ Len(recent') >= 1
      /\ recent'[Len(recent')] = down
  <2>1. CASE Len(r) > MaxLag
    <3>1. /\ Len(recent') = Len(recent) /\ Len(recent) >= 1
          /\ Len(recent) \in 1..(Len(r) - 1)
      BY <1>1, <1>2, <1>3, <1>4, <1>5, <2>1
    <3>2. recent'[Len(recent)] = r[Len(recent) + 1]
      BY <1>4, <1>5, <2>1, <3>1
    <3>3. QED
      BY <1>2, <1>3, <3>1, <3>2
  <2>2. CASE ~(Len(r) > MaxLag)
    BY <1>2, <1>3, <1>5, <2>2
  <2>3. QED
    BY <2>1, <2>2
<1>8. ASSUME NEW s \in Seqs, Age(s) \in 1..Len(recent), Age(s) < MaxLag
      PROVE  /\ Age(s)' = Age(s) + 1
             /\ Age(s)' \in 1..Len(recent')
             /\ HeldAt(s)' = HeldAt(s)
  <2> DEFINE a == Age(s)
             n == Len(recent)
  <2>1. a \in 1..n /\ a < MaxLag /\ n \in Nat /\ n <= MaxLag
    BY <1>1, <1>2, <1>8
  <2>2. Age(s)' = a + 1
    <3>1. (NextSeq - s) % SeqSpace = Age(s) + 1
      BY <1>1, <1>8, <2>1, NextAge, Space
    <3>2. QED
      BY <1>1, <3>1 DEF Age
  <2>3. HeldAt(s)' = recent'[Len(recent') + 1 - (a + 1)]
    BY <2>2 DEF HeldAt
  <2>4. HeldAt(s) = recent[n + 1 - a]
    BY DEF HeldAt
  <2> HIDE DEF a, n
  <2>5. CASE Len(r) > MaxLag
    <3>0. recent' = Tail(r)
      BY <1>5, <2>5
    <3>1. n = MaxLag /\ Len(recent') = n /\ Len(r) - 1 = n
      <4>1. Len(r) = n + 1 /\ n \in Nat /\ n <= MaxLag /\ MaxLag \in Nat
        BY <1>1, <1>2, <1>3 DEF n
      <4>2. Len(recent') = Len(r) - 1
        BY <1>4, <3>0
      <4>3. QED
        BY <2>5, <4>1, <4>2
    <3>2. n - a \in 1..n /\ n - a + 1 \in 1..n
      BY <2>1, <3>1
    <3>3. recent'[n - a] = r[n - a + 1] /\ r[n - a + 1] = recent[n - a + 1]
      BY <1>3, <1>4, <1>5, <2>5, <3>1, <3>2 DEF n
    <3>4. Len(recent') + 1 - (a + 1) = n - a /\ n + 1 - a = n - a + 1
      BY <2>1, <3>1
    <3>5. HeldAt(s)' = HeldAt(s)
      BY <2>3, <2>4, <3>3, <3>4
    <3>6. a + 1 \in 1..Len(recent')
      BY <2>1, <3>1
    <3>7. QED
      BY <2>2, <3>5, <3>6 DEF a
  <2>6. CASE ~(Len(r) > MaxLag)
    <3>1. Len(recent') = n + 1 /\ recent' = r
      BY <1>3, <1>5, <2>6 DEF n
    <3>2. n + 1 - a \in 1..n /\ Len(recent') + 1 - (a + 1) = n + 1 - a
      BY <2>1, <3>1
    <3>3. HeldAt(s)' = HeldAt(s)
      BY <1>3, <2>3, <2>4, <3>1, <3>2 DEF n
    <3>4. a + 1 \in 1..Len(recent')
      BY <2>1, <3>1
    <3>5. QED
      BY <2>2, <3>3, <3>4 DEF a
  <2>7. QED
    BY <2>5, <2>6
<1>9. QED
  BY <1>6, <1>7, <1>8

\* After a Send, what is in flight is the new packet and older ones that were
\* in flight before and have not fallen behind.
LEMMA SendAddsOne ==
  ASSUME PathInv, NEW e \in Events, NEW down \in SUBSET Controls, Send(e, down),
         NEW p \in InFlightPackets'
  PROVE  \/ p = [seq |-> next, event |-> e]
         \/ p \in InFlightPackets /\ Age(p.seq) < MaxLag
<1> DEFINE packet == [seq |-> next, event |-> e]
<1>1. /\ stream \in Seq(Datagrams) /\ Len(stream) < MaxLag /\ up \in BOOLEAN
      /\ Len(stream) \in Nat /\ DOMAIN stream = 1..Len(stream)
  BY LenProperties DEF PathInv, TypeOK, WireTypeOK, Send, CanSend
<1>2. CASE ~up
  <2>1. grams' = {} /\ stream' = <<>>
    BY <1>2 DEF Send, PathInv, GateInv
  <2>2. FALSE
    BY <2>1, EmptySeq DEF InFlightPackets
  <2>3. QED
    BY <2>2
<1>3. CASE up
  <2>1. /\ grams' = {q \in grams : Age(q.seq) < MaxLag} \cup {packet}
        /\ stream' = Append(stream, packet)
    BY <1>3 DEF Send
  <2>2. CASE p \in grams'
    BY <2>1, <2>2 DEF InFlightPackets
  <2>3. ASSUME NEW i \in DOMAIN stream', p = stream'[i]
        PROVE  \/ p = packet
               \/ p \in InFlightPackets /\ Age(p.seq) < MaxLag
    <3> HIDE DEF packet
    <3>1. DOMAIN stream' = 1..(Len(stream) + 1) /\ stream'[Len(stream) + 1] = packet
          /\ \A j \in 1..Len(stream) : stream'[j] = stream[j]
      <4>1. packet \in Datagrams
        BY DEF PathInv, TypeOK, WireTypeOK, Datagrams, packet
      <4>2. QED
        BY <1>1, <2>1, <4>1, AppendProperties, LenProperties
    <3>2. CASE i = Len(stream) + 1
      BY <2>3, <3>1, <3>2
    <3>3. CASE i # Len(stream) + 1
      <4>1. i \in DOMAIN stream /\ p = stream[i] /\ i \in 1..Len(stream)
        BY <1>1, <2>3, <3>1, <3>3
      <4>2. Age(p.seq) = Len(stream) - i + 1
        BY <4>1 DEF PathInv, GateInv
      <4>3. Age(p.seq) < MaxLag
        BY <1>1, <4>1, <4>2, Space
      <4>4. QED
        BY <4>1, <4>3 DEF InFlightPackets
    <3>4. QED
      BY <3>2, <3>3
  <2>4. QED
    BY <2>2, <2>3 DEF InFlightPackets
<1>4. QED
  BY <1>1, <1>2, <1>3

LEMMA SendKeepsGhost ==
  ASSUME PathInv, GhostInv, NEW e \in Events, NEW down \in SUBSET Controls,
         e.on \subseteq down, Send(e, down), UNCHANGED inputVars
  PROVE  GhostInv'
<1> DEFINE packet == [seq |-> next, event |-> e]
<1>1. /\ next \in Seqs /\ high \in Seqs \cup {NoSeq} /\ next' = NextSeq
      /\ held' = held /\ high' = high /\ excuse' = excuse \cup down
  BY DEF PathInv, TypeOK, WireTypeOK, InputTypeOK, Send, inputVars, heldVars
<1>2. Age(next) = 0
  <2>1. next - next = 0
    BY <1>1, Space DEF Seqs
  <2>2. QED
    BY <2>1, Space DEF Age
<1>3. high # NoSeq => /\ high \in Seqs /\ Age(high) \in Nat /\ high # next
                      /\ Age(high)' = Age(high) + 1
  <2> SUFFICES ASSUME high # NoSeq
               PROVE  /\ high \in Seqs /\ Age(high) \in Nat /\ high # next
                      /\ Age(high)' = Age(high) + 1
    OBVIOUS
  <2>1. Age(high) \in 1..MaxBehind /\ high \in Seqs
    BY <1>1 DEF PathInv, GateInv
  <2>2. (NextSeq - high) % SeqSpace = Age(high) + 1
    BY <1>1, <2>1, NextAge, Space
  <2>3. Age(high)' = Age(high) + 1
    BY <1>1, <2>2 DEF Age
  <2>4. high # next
    BY <1>2, <2>1, Space
  <2>5. QED
    BY <2>1, <2>3, <2>4, Space
<1>4. ASSUME NEW p \in InFlightPackets', p = packet
      PROVE  Honest(p)' /\ p.seq = next /\ p.event = e
  <2>1. p.seq = next /\ p.event = e
    BY <1>4
  <2>2. Age(p.seq)' = 1
    BY <2>1, SendShiftsHistory DEF Age
  <2>3. HeldAt(p.seq)' = down
    <3>1. /\ HeldAt(p.seq)' = recent'[Len(recent') + 1 - 1]
          /\ Len(recent') \in Nat /\ recent'[Len(recent')] = down
      BY <2>2, SendShiftsHistory DEF HeldAt
    <3>2. Len(recent') + 1 - 1 = Len(recent')
      BY <3>1
    <3>3. QED
      BY <3>1, <3>2
  <2>4. 1 \in 1..Len(recent')
    BY SendShiftsHistory
  <2>5. high' # p.seq
    BY <1>1, <1>3, <2>1, NoSeqIsNone
  <2>6. QED
    BY <1>1, <2>1, <2>2, <2>3, <2>4, <2>5 DEF Honest
<1>5. ASSUME NEW p \in InFlightPackets, Age(p.seq) < MaxLag
      PROVE  Honest(p)' /\ p.seq # next
  <2>1. /\ Age(p.seq) \in 1..Len(recent)
        /\ p.event.on \subseteq HeldAt(p.seq)
        /\ high = NoSeq \/ Age(p.seq) <= Age(high) => HeldAt(p.seq) \subseteq excuse
        /\ p.event.kind = "snapshot" /\ high = p.seq => held \subseteq HeldAt(p.seq)
    BY DEF GhostInv, Honest
  <2>2. p.seq \in Seqs /\ Age(p.seq) \in Nat /\ Age(p.seq) >= 1
    BY InFlightIsYoung, Space
  <2>3. /\ Age(p.seq)' = Age(p.seq) + 1
        /\ Age(p.seq)' \in 1..Len(recent')
        /\ HeldAt(p.seq)' = HeldAt(p.seq)
    BY <1>5, <2>1, <2>2, SendShiftsHistory
  <2>4. p.seq # next
    BY <1>2, <2>2
  <2>5. high' # NoSeq /\ Age(p.seq)' <= Age(high)' => Age(p.seq) <= Age(high)
    BY <1>1, <1>3, <2>2, <2>3
  <2>6. high' = NoSeq \/ Age(p.seq)' <= Age(high)' => HeldAt(p.seq)' \subseteq excuse'
    BY <1>1, <2>1, <2>3, <2>5
  <2>7. p.event.kind = "snapshot" /\ high' = p.seq => held' \subseteq HeldAt(p.seq)'
    BY <1>1, <2>1, <2>3
  <2>8. QED
    BY <2>1, <2>3, <2>4, <2>6, <2>7 DEF Honest
<1>6. \A p \in InFlightPackets' : Honest(p)'
  BY <1>4, <1>5, SendAddsOne
<1>7. ASSUME NEW p \in InFlightPackets', NEW q \in InFlightPackets', p.seq = q.seq
      PROVE  p.event = q.event
  BY <1>4, <1>5, <1>7, SendAddsOne DEF GhostInv
<1>8. held' \subseteq excuse'
  BY <1>1 DEF GhostInv
<1>9. QED
  BY <1>6, <1>7, <1>8 DEF GhostInv

\* A packet in flight arrives, or is ignored, and nothing is added to the wire.
LEMMA ArriveKeepsGhost ==
  ASSUME PathInv, GhostInv, NEW p \in InFlightPackets, Arrive(p),
         InFlightPackets' \subseteq InFlightPackets
  PROVE  GhostInv'
<1>1. /\ p \in Datagrams /\ p.seq \in Seqs /\ p.event \in Events
      /\ Age(p.seq) \in 1..MaxLag
      /\ next \in Seqs /\ high \in Seqs \cup {NoSeq} /\ NoSeq \notin Seqs
  BY InFlightIsYoung, NoSeqIsNone DEF PathInv, TypeOK, WireTypeOK, InputTypeOK
<1>2. /\ next' = next /\ recent' = recent
      /\ excuse' = IF p.event.kind = "snapshot" /\ high' = p.seq
                     THEN HeldSince(p.seq) ELSE excuse
  BY DEF Arrive
<1>3. ASSUME NEW s PROVE Age(s)' = Age(s) /\ HeldAt(s)' = HeldAt(s)
  BY <1>2 DEF Age, HeldAt
<1>4. Len(recent) \in Nat /\ DOMAIN recent = 1..Len(recent)
  BY LenProperties DEF PathInv, TypeOK, WireTypeOK
<1>5. ASSUME NEW q \in InFlightPackets, Age(q.seq) <= Age(p.seq)
      PROVE  HeldAt(q.seq) \subseteq HeldSince(p.seq)
  <2> DEFINE i == Len(recent) + 1 - Age(q.seq)
  <2>1. Age(q.seq) \in 1..Len(recent) /\ Age(p.seq) \in Nat
    BY <1>1, Space DEF GhostInv, Honest
  <2>2. i \in DOMAIN recent /\ Len(recent) - i < Age(p.seq)
    BY <1>4, <1>5, <2>1
  <2>3. recent[i] \subseteq HeldSince(p.seq)
    BY <2>2 DEF HeldSince
  <2>4. QED
    BY <2>3 DEF HeldAt
<1>6. \/ held' = held /\ high' = high
      \/ held' = NextHeld(p.event) /\ high' = p.seq /\ Fresh(p.seq)
  BY DEF Arrive, HandlePacket, IgnorePacket, Throttle, DropStale, Accept,
         InjectControls, inputVars, heldVars
<1>7. p.event.kind = "snapshot" => NextHeld(p.event) \subseteq p.event.on
  <2>1. held \subseteq Controls
    BY DEF PathInv, TypeOK, InputTypeOK
  <2>2. p.event.kind = "snapshot" => p.event.off = Controls \ p.event.on
    BY <1>1, SnapshotSaysAll
  <2>3. QED
    BY <2>1, <2>2 DEF NextHeld
<1>8. /\ p.event.on \subseteq HeldAt(p.seq)
      /\ high = NoSeq \/ Age(p.seq) <= Age(high) => HeldAt(p.seq) \subseteq excuse
      /\ p.event.kind = "snapshot" /\ high = p.seq => held \subseteq HeldAt(p.seq)
      /\ held \subseteq excuse
  BY DEF GhostInv, Honest
<1>9. HeldAt(p.seq) \subseteq HeldSince(p.seq)
  BY <1>1, <1>5, Space
\* What is accepted was excused already: it is as new as the gate.
<1>10. high' = p.seq /\ Fresh(p.seq) => high = NoSeq \/ Age(p.seq) <= Age(high)
  <2> SUFFICES ASSUME Fresh(p.seq), high # NoSeq PROVE Age(p.seq) <= Age(high)
    OBVIOUS
  <2>1. CASE p.seq = high
    BY <1>1, <2>1, Space
  <2>2. CASE p.seq # high
    <3>1. Age(high) \in 1..MaxBehind /\ Age(p.seq) \in 1..MaxBehind /\ high \in Seqs
      BY <1>1, Space DEF PathInv, GateInv
    <3>2. Age(p.seq) < Age(high)
      BY <1>1, <2>2, <3>1, FreshIsYounger
    <3>3. QED
      BY <3>1, <3>2, Space
  <2>3. QED
    BY <2>1, <2>2
<1>11. held' \subseteq excuse'
  <2>1. CASE held' = held /\ high' = high
    BY <1>2, <1>8, <1>9, <2>1
  <2>2. CASE held' = NextHeld(p.event) /\ high' = p.seq /\ Fresh(p.seq)
    <3>1. CASE p.event.kind = "snapshot"
      BY <1>2, <1>7, <1>8, <1>9, <2>2, <3>1
    <3>2. CASE p.event.kind # "snapshot"
      BY <1>2, <1>8, <1>10, <2>2, <3>2 DEF NextHeld
    <3>3. QED
      BY <3>1, <3>2
  <2>3. QED
    BY <1>6, <2>1, <2>2
<1>12. ASSUME NEW q \in InFlightPackets
       PROVE  Honest(q)'
  <2>1. /\ Age(q.seq) \in 1..Len(recent) /\ Age(q.seq) \in Nat
        /\ q.event.on \subseteq HeldAt(q.seq)
        /\ high = NoSeq \/ Age(q.seq) <= Age(high) => HeldAt(q.seq) \subseteq excuse
        /\ q.event.kind = "snapshot" /\ high = q.seq => held \subseteq HeldAt(q.seq)
    BY <1>4 DEF GhostInv, Honest
  <2>2. high' = NoSeq \/ Age(q.seq) <= Age(high') => HeldAt(q.seq) \subseteq excuse'
    <3> SUFFICES ASSUME high' = NoSeq \/ Age(q.seq) <= Age(high')
                 PROVE  HeldAt(q.seq) \subseteq excuse'
      OBVIOUS
    <3>1. CASE p.event.kind = "snapshot" /\ high' = p.seq
      <4>1. Age(q.seq) <= Age(p.seq)
        BY <1>1, <3>1
      <4>2. QED
        BY <1>2, <1>5, <3>1, <4>1
    <3>2. CASE ~(p.event.kind = "snapshot" /\ high' = p.seq)
      <4>1. high = NoSeq \/ Age(q.seq) <= Age(high)
        <5>1. CASE high' = high
          BY <5>1
        <5>2. CASE high' = p.seq /\ Fresh(p.seq)
          <6>1. high' # NoSeq /\ Age(q.seq) <= Age(p.seq)
            BY <1>1, <5>2
          <6>2. CASE high # NoSeq
            <7>1. Age(p.seq) <= Age(high) /\ Age(high) \in 1..MaxBehind
              BY <1>10, <5>2, <6>2 DEF PathInv, GateInv
            <7>2. QED
              BY <1>1, <2>1, <6>1, <7>1, Space
          <6>3. QED
            BY <6>2
        <5>3. QED
          BY <1>6, <5>1, <5>2
      <4>2. QED
        BY <1>2, <2>1, <3>2, <4>1
    <3>3. QED
      BY <3>1, <3>2
  <2>3. q.event.kind = "snapshot" /\ high' = q.seq => held' \subseteq HeldAt(q.seq)
    <3>1. CASE held' = held /\ high' = high
      BY <2>1, <3>1
    <3>2. CASE held' = NextHeld(p.event) /\ high' = p.seq
      <4> SUFFICES ASSUME q.event.kind = "snapshot", high' = q.seq
                   PROVE  held' \subseteq HeldAt(q.seq)
        OBVIOUS
      <4>1. q.event = p.event
        BY <3>2 DEF GhostInv
      <4>2. QED
        BY <1>7, <2>1, <3>2, <4>1
    <3>3. QED
      BY <1>6, <3>1, <3>2
  <2>4. Age(q.seq)' = Age(q.seq) /\ HeldAt(q.seq)' = HeldAt(q.seq)
    BY <1>3
  <2>5. high' = NoSeq \/ Age(q.seq)' <= Age(high)' => HeldAt(q.seq)' \subseteq excuse'
    <3>1. Age(high)' = Age(high')
      BY <1>2 DEF Age
    <3>2. QED
      BY <2>2, <2>4, <3>1
  <2>6. QED
    BY <1>2, <2>1, <2>3, <2>4, <2>5 DEF Honest
<1>13. QED
  BY <1>11, <1>12 DEF GhostInv

\* Every variable of the path keeps its type, the sequence number among them.
THEOREM PathTypeCorrect == Spec => []TypeOK
<1>1. PathInv => TypeOK
  BY DEF PathInv
<1>2. QED
  BY <1>1, PathInvariant, PTL

\* With the real client and network in front of it, the processor keeps what it
\* promises Windows (input/mod.rs).
THEOREM PathIsSafe == Spec => []InputInv
<1>1. PathInv => InputInv
  BY DEF PathInv
<1>2. QED
  BY <1>1, PathInvariant, PTL

\* The virtual pad shows what the session holds (apply, input/mod.rs).
THEOREM PadFollowsSession == Spec => []PadAgrees
<1>1. InputInv => PadAgrees
  BY DEF InputInv
<1>2. QED
  BY <1>1, PathIsSafe, PTL

\* Nothing a session pressed stays down after it, though Drop trusts `released`.
THEOREM SessionLetsGo == Spec => []EndLetsGo
<1>1. InputInv => EndLetsGo
  BY DEF InputInv
<1>2. QED
  BY <1>1, PathIsSafe, PTL

\* The client and the network only choose packets: end to end, the host takes
\* steps of InputSpec.
THEOREM PathImplementsInput == Spec => InputSpec
<1>1. Init => InputInit
  BY DEF Init
<1>2. PathInv /\ [Next]_vars => [InputNext]_inputVars
  BY PathStep
<1>3. QED
  BY <1>1, <1>2, PathInvariant, PTL DEF Spec, InputSpec

\* is_fresh: for every size of the sequence space and every lag below half of
\* it, nothing sent before the newest packet accepted is accepted after it,
\* across reordering, the second copy and the wrap.
THEOREM GateNeverGoesBack == Spec => NoTimeTravel
<1>1. PathInv /\ [Next]_vars
        => [high # NoSeq /\ high' # high => Age(high') < Age(high)]_vars
  BY PathStep
<1>2. QED
  BY <1>1, PathInvariant, PTL DEF Spec, NoTimeTravel

\* Nothing but losing packets and letting go.
LEMMA QuietKeepsGhost ==
  ASSUME GhostInv, UNCHANGED <<next, recent, excuse, high>>, held' \subseteq held,
         InFlightPackets' \subseteq InFlightPackets
  PROVE  GhostInv'
<1>1. /\ next' = next /\ recent' = recent /\ excuse' = excuse /\ high' = high
  OBVIOUS
<1>2. ASSUME NEW s PROVE Age(s)' = Age(s) /\ HeldAt(s)' = HeldAt(s)
  BY <1>1 DEF Age, HeldAt
<1>3. Age(high)' = Age(high)
  BY <1>1 DEF Age
<1>4. ASSUME NEW p \in InFlightPackets PROVE Honest(p)'
  <2>1. Honest(p)
    BY DEF GhostInv
  <2>2. QED
    BY <1>1, <1>2, <1>3, <2>1 DEF Honest
<1>5. QED
  BY <1>1, <1>4 DEF GhostInv

LEMMA StepKeepsGhost == PathInv /\ GhostInv /\ [Next]_vars => GhostInv'
<1> SUFFICES ASSUME PathInv, GhostInv, [Next]_vars PROVE GhostInv'
  OBVIOUS
<1>1. CASE Client
  <2>1. UNCHANGED inputVars /\ held' = held /\ high' = high
    BY <1>1, ClientOnlySends DEF PathInv, inputVars, heldVars
  <2>2. CASE UNCHANGED <<wireVars, historyVars>>
    BY <2>1, <2>2, QuietKeepsGhost DEF wireVars, historyVars, InFlightPackets
  <2>3. ASSUME NEW e \in Events, NEW down \in SUBSET Controls,
               e.on \subseteq down, Send(e, down)
        PROVE  GhostInv'
    BY <2>1, <2>3, SendKeepsGhost
  <2>4. QED
    BY <1>1, <2>2, <2>3, ClientOnlySends DEF PathInv
<1>2. ASSUME NEW p \in grams, DatagramArrives(p) PROVE GhostInv'
  BY <1>2, ArriveKeepsGhost DEF DatagramArrives, InFlightPackets
<1>3. CASE StreamArrives
  <2>1. /\ stream # <<>> /\ stream' = Tail(stream) /\ grams' = grams
        /\ Arrive(Head(stream)) /\ stream \in Seq(Datagrams)
    BY <1>3 DEF StreamArrives, PathInv, TypeOK, WireTypeOK
  <2>2. /\ Len(stream) \in Nat /\ Len(stream) >= 1
        /\ DOMAIN stream = 1..Len(stream)
    BY <2>1, LenProperties, EmptySeq
  <2>3. /\ Head(stream) = stream[1]
        /\ DOMAIN Tail(stream) = 1..(Len(stream) - 1)
        /\ \A i \in 1..(Len(stream) - 1) : Tail(stream)[i] = stream[i + 1]
    <3>1. Tail(stream) \in Seq(Datagrams) /\ Len(Tail(stream)) = Len(stream) - 1
      BY <2>1, HeadTailProperties
    <3>2. QED
      BY <2>1, <3>1, HeadTailProperties, LenProperties
  <2>4. Head(stream) \in InFlightPackets
    BY <2>2, <2>3 DEF InFlightPackets
  <2>5. ASSUME NEW i \in DOMAIN stream'
        PROVE  stream'[i] \in InFlightPackets
    <3>1. i + 1 \in DOMAIN stream /\ stream'[i] = stream[i + 1]
      BY <2>1, <2>2, <2>3, <2>5
    <3>2. QED
      BY <3>1 DEF InFlightPackets
  <2>6. InFlightPackets' \subseteq InFlightPackets
    BY <2>1, <2>5 DEF InFlightPackets
  <2>7. QED
    BY <2>1, <2>4, <2>6, ArriveKeepsGhost
<1>4. ASSUME NEW p \in grams, DatagramLost(p) PROVE GhostInv'
  BY <1>4, QuietKeepsGhost
  DEF DatagramLost, inputVars, heldVars, historyVars, InFlightPackets
<1>5. CASE Disconnect
  <2>1. InFlightPackets' = {}
    BY <1>5, EmptySeq DEF Disconnect, InFlightPackets
  <2>2. QED
    BY <1>5, <2>1, QuietKeepsGhost DEF Disconnect, inputVars, heldVars, historyVars
<1>6. CASE Redial
  BY <1>6, QuietKeepsGhost
  DEF Redial, inputVars, heldVars, historyVars, InFlightPackets
<1>7. CASE Host
  <2>1. held' \subseteq held /\ high' = high
    BY <1>7 DEF Host, HostStep, Arm, Refill, Elapse, TickWatchdog, Shutdown, Drop,
                ReleaseAll, heldVars
  <2>2. QED
    BY <1>7, <2>1, QuietKeepsGhost DEF Host, wireVars, historyVars, InFlightPackets
<1>8. CASE UNCHANGED vars
  BY <1>8, QuietKeepsGhost
  DEF vars, inputVars, heldVars, wireVars, historyVars, InFlightPackets
<1>9. QED
  BY <1>1, <1>2, <1>3, <1>4, <1>5, <1>6, <1>7, <1>8 DEF Next, Wire

\* A lost or late packet cannot wedge a control, whatever the reordering, the
\* losses, the duplicates and the redials: what the host holds, the client has
\* held since the newest snapshot the host accepted (handle_packet).
THEOREM HostHoldsWhatWasHeld == Spec => []NoGhostKey
<1>1. Init => GhostInv
  BY EmptySeq DEF Init, InputInit, GhostInv, InFlightPackets
<1>2. PathInv /\ GhostInv /\ [Next]_vars => GhostInv'
  BY StepKeepsGhost
<1>3. GhostInv => NoGhostKey
  BY DEF GhostInv, NoGhostKey
<1>4. QED
  BY <1>1, <1>2, <1>3, PathInvariant, PTL DEF Spec
=============================================================================
