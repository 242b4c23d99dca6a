------------------------------- MODULE Repair -------------------------------
(***************************************************************************)
(* Video over datagrams, end to end: the sender fragments a frame, adds    *)
(* parity and remembers what it sent; datagrams are lost or overtake each  *)
(* other; the client rebuilds what it can, asks for the rest a bounded     *)
(* number of times, gives frames up, and hands the others to the decoder   *)
(* in order (transport.rs and session.rs of crates/host/src/media/wt;      *)
(* onVideoFragment of web/src/wtcore.ts and web/src/frameorder.ts).        *)
(* One connection and one pipeline: a frame's capture time grows with its  *)
(* number.  How a keyframe is asked for is in VideoPath.                   *)
(***************************************************************************)
EXTENDS Parity, Sequences, FiniteSetsExt

CONSTANTS
  LastFrame,       \* bound: the last frame number of a behaviour
  KeySizes,        \* bound: how many fragments a keyframe has
  DeltaSizes,      \* bound: how many fragments another frame has
  TwoRowMin,       \* TWO_ROW_MIN_FRAGMENTS
  ResendFrames,    \* RESEND_FRAMES
  ResendRate,      \* RATE_PER_SEC, which is the burst too
  MaxRounds,       \* NACK rounds of one assembly (4)
  GroupsPerRound,  \* groups asked for in a round (8)
  MaxAssemblies,   \* frames assembled at a time (24)
  SkipSpan,        \* WHOLE_FRAME_NACK_SPAN
  Horizon,         \* horizon(): how far ahead a frame may be
  HoldBudget,      \* repairBudgetMs in frames
  MaxHeld          \* MAX_HELD_FRAMES

ASSUME RepairBounds ==
  /\ {LastFrame, TwoRowMin, ResendFrames, ResendRate, MaxRounds, GroupsPerRound,
      MaxAssemblies, SkipSpan, Horizon, HoldBudget, MaxHeld}
     \cup KeySizes \cup DeltaSizes \subseteq Nat \ {0}
  /\ \E most \in KeySizes \cup DeltaSizes :
       \A cnt \in KeySizes \cup DeltaSizes : most >= cnt

(* The client's sets of frame numbers forget their oldest entry at 512      *)
(* (v4Done, delivered) and at 256 (wholeNacked): a behaviour is as long as  *)
(* all of them remember.                                                    *)
ASSUME NothingIsForgotten == LastFrame < 256

VARIABLES
  film,        \* the frames encoded so far: [key, cnt]; number = index - 1
  cache,       \* Shared::wt_resend: <<frame, idx>>
  air, wire,   \* datagrams on their way, keyframes on their way on a stream
  asks,        \* NACKs on the control stream: <<frame, idx>>, idx Every for all
  asm,         \* v4: the frames under assembly
  tomb,        \* v4Done
  given,       \* delivered: handed to the page
  skipped,     \* wholeNacked
  highest,     \* v4Highest
  order,       \* FrameOrderer: [next, pending, last, far]
  rounds,      \* history: NACK rounds spent on each frame
  decoded      \* history: what the orderer released

hostVars == <<film, cache>>
clientVars == <<asm, tomb, given, skipped, highest, order, rounds, decoded>>
vars == <<hostVars, air, wire, asks, clientVars>>

None == -1
Every == -1                       \* NACK_WHOLE_FRAME
Frames == 0..LastFrame
Sizes(key) == IF key THEN KeySizes ELSE DeltaSizes
MaxFragments == Max(KeySizes \cup DeltaSizes)
Sent == 0..(Len(film) - 1)
Cnt(f) == film[f + 1].cnt
Key(f) == film[f + 1].key
NoAssembly == <<>>
Assembling == {f \in Frames : asm[f] # NoAssembly}

TypeOK ==
  /\ film \in Seq([key: BOOLEAN, cnt: 1..MaxFragments]) /\ Len(film) <= LastFrame + 1
  /\ cache \subseteq Frames \X (0..(MaxFragments - 1))
  /\ air \subseteq Frames \X (0..2) \X (0..(MaxFragments - 1)) /\ wire \subseteq Frames
  /\ asks \subseteq Frames \X (-1..(MaxFragments - 1))
  /\ tomb \subseteq Frames /\ given \subseteq Frames /\ skipped \subseteq Frames
  /\ highest \in -1..LastFrame
  /\ order.pending \subseteq Frames /\ order.next \in -1..(LastFrame + 1)
  /\ order.last \in -1..LastFrame /\ order.far \in 0..Horizon

Init ==
  /\ film = <<>> /\ cache = {}
  /\ air = {} /\ wire = {} /\ asks = {}
  /\ asm = [f \in Frames |-> NoAssembly] /\ tomb = {} /\ given = {} /\ skipped = {}
  /\ highest = None
  /\ order = [next |-> None, pending |-> {}, last |-> None, far |-> 0]
  /\ rounds = [f \in Frames |-> 0] /\ decoded = <<>>

------------------------------------------------------------------------------
(* The sender.  A datagram the connection cannot queue ends the frame: what *)
(* follows is neither sent nor remembered, and there is no parity.          *)

Data(f, S) == {<<f, 0, i>> : i \in S}
ParityOf(f, key, cnt) ==
  {<<f, row, g>> : row \in IF TwoRows(key, cnt, TwoRowMin) THEN {1, 2} ELSE {1},
                   g \in 0..(GroupCount(cnt) - 1)}

Remembered(f, S) ==
  {e \in cache : f - e[1] <= ResendFrames} \cup {<<f, i>> : i \in S}

(* A keyframe travels on the stream; one the client asked for (copy) is     *)
(* sent as datagrams too.                                                   *)
Encode(key, cnt, copy, k) ==
  LET f == Len(film)
      byDatagram == ~key \/ copy
      queued == IF byDatagram THEN FirstSent(cnt, k) ELSE {}
      sent == Data(f, queued) \cup
              IF byDatagram /\ k = cnt THEN ParityOf(f, key, cnt) ELSE {}
  IN /\ f <= LastFrame /\ (copy => key)
     /\ film' = Append(film, [key |-> key, cnt |-> cnt])
     /\ cache' = IF byDatagram THEN Remembered(f, FirstSent(cnt, k + 1)) ELSE cache
     /\ air' = air \cup sent
     /\ wire' = IF key THEN wire \cup {f} ELSE wire
     /\ UNCHANGED <<asks, clientVars>>

(* Evicted from the queue, expired, or a write that failed: its number is   *)
(* used up, and nobody learns what it was.                                  *)
SkipFrame ==
  /\ Len(film) <= LastFrame
  /\ film' = Append(film, [key |-> FALSE, cnt |-> 1])
  /\ UNCHANGED <<cache, air, wire, asks, clientVars>>

(* WtClientMessage::Nack.  Every datagram sent again costs a token; the     *)
(* bucket refills with time, so that it may hold any number of them here.   *)
Wanted(a) == {e \in cache : e[1] = a[1] /\ a[2] \in {Every, e[2]}}

AnswerNack(a) ==
  /\ a \in asks /\ asks' = asks \ {a}
  /\ \E tokens \in 0..ResendRate : \E again \in SUBSET Wanted(a) :
       /\ Cardinality(again) = Min({tokens, Cardinality(Wanted(a))})
       /\ air' = air \cup {<<e[1], 0, e[2]>> : e \in again}
  /\ UNCHANGED <<film, cache, wire, clientVars>>

------------------------------------------------------------------------------
(* FrameOrderer.accept(f).  A result is the orderer's new state and what it *)
(* hands to the decoder.                                                    *)

Holding(o) == [order |-> o, ready |-> {}]
Forgotten(o) == [o EXCEPT !.next = None, !.pending = {}]
Plausible(m, anchor, reach) == m >= anchor /\ m - anchor <= Max({Horizon, reach})

Spent(o, newest) ==
  /\ o.pending # {}
  /\ Cardinality(o.pending) > MaxHeld \/ newest - Min(o.pending) >= HoldBudget

Replay_Never(o, f) == FALSE
Replay(o, f) == f <= o.last

Release(o, f) ==
  LET run == {m \in o.pending : m >= o.next /\ \A k \in o.next..m : k \in o.pending /\ ~Replay(o, k)}
      after == IF run = {} THEN o
               ELSE [o EXCEPT !.next = Max(run) + 1, !.pending = @ \ run, !.last = Max(run)]
  IN [order |-> IF Spent(after, f) THEN Forgotten(after) ELSE after, ready |-> run]

HoldUnanchored(o, f) ==
  IF Cardinality(o.pending \ {f}) < MaxHeld THEN [o EXCEPT !.pending = @ \cup {f}]
  ELSE IF f <= Min(o.pending) THEN o
  ELSE [o EXCEPT !.pending = (@ \ {Min(@)}) \cup {f}]

AcceptKey(o, f) ==
  LET early == {m \in o.pending : Plausible(m, f, MaxHeld)}
  IN IF Replay(o, f) THEN Holding(o)
     ELSE Release([o EXCEPT !.next = f, !.far = 0, !.pending = early \cup {f}], f)

AcceptDelta(o, f) ==
  CASE o.next = None -> Holding(IF Replay(o, f) THEN o ELSE HoldUnanchored(o, f))
    [] o.next # None /\ f < o.next -> Holding(o)
    [] o.next # None /\ f >= o.next /\ Spent(o, f) -> Holding(Forgotten(o))
    [] o.next # None /\ f >= o.next /\ ~Spent(o, f) /\ ~Plausible(f, o.next, 0) ->
         Holding(IF o.far < Horizon THEN [o EXCEPT !.far = @ + 1]
                 ELSE [Forgotten(o) EXCEPT !.far = 0])
    [] OTHER -> Release([o EXCEPT !.far = 0, !.pending = @ \cup {f}], f)

Accept(o, f) == IF Key(f) THEN AcceptKey(o, f) ELSE AcceptDelta(o, f)

Ascending(S) == [i \in 1..Cardinality(S) |-> CHOOSE m \in S : Cardinality({k \in S : k < m}) = i - 1]

(* onFrame, after firstDelivery: a frame reaches the page once.             *)
Duplicate_Tombstoned(f) == f \in tomb
Duplicate(f) == f \in given

Deliver(f) ==
  IF Duplicate(f) THEN UNCHANGED <<given, order, decoded>>
  ELSE LET result == Accept(order, f)
       IN /\ given' = given \cup {f} /\ order' = result.order
          /\ decoded' = decoded \o Ascending(result.ready)

------------------------------------------------------------------------------
(* onVideoFragment.  First what the number alone tells: frames of which     *)
(* nothing came are asked for whole, once.                                  *)

Unseen(f) ==
  IF highest = None \/ f - highest > SkipSpan THEN {}
  ELSE ((highest + 1)..(f - 1)) \ (Assembling \cup tomb \cup given \cup skipped)

(* A round asks one hole per group, another one each time.                  *)
NthOf(S, n) == CHOOSE i \in S : Cardinality({j \in S : j < i}) = n

Asked(f, round) ==
  LET count == GroupCount(Cnt(f))
      holes(g) == Holes(asm[f].parts, Members(Cnt(f), g))
      place(g) == (g + count - (round % count)) % count
      damaged == {g \in 0..(count - 1) : holes(g) # {}}
      chosen == {g \in damaged :
                  Cardinality({h \in damaged : place(h) < place(g)}) < GroupsPerRound}
  IN {<<f, NthOf(holes(g), (round + g) % Cardinality(holes(g)))>> : g \in chosen}

(* The scan of the assemblies: each is given up, asked for again, or left,  *)
(* by its age.                                                              *)
Buried_Nothing(S) == {}
Buried(S) == S

MayAsk_Unbounded(f) == TRUE
MayAsk(f) == asm[f].nacks < MaxRounds

Scan(gone, again) ==
  /\ \A f \in again : MayAsk(f)
  /\ rounds' = [f \in Frames |-> IF f \in again THEN rounds[f] + 1 ELSE rounds[f]]

AfterScan(gone, again) ==
  [f \in Frames |->
    IF f \in gone THEN NoAssembly
    ELSE IF f \in again THEN [asm[f] EXCEPT !.nacks = @ + 1] ELSE asm[f]]

Fresh(f) == [parts |-> [i \in Fragments(Cnt(f)) |-> {}], p1 |-> {}, p2 |-> {}, nacks |-> 0]

(* Too many assemblies: a delta goes before a keyframe, an old one first.   *)
Victims(a, f) ==
  LET open == {g \in Frames : a[g] # NoAssembly} \cup {f}
      deltas == {g \in open \ {f} : ~Key(g)}
  IN IF Cardinality(open) <= MaxAssemblies \/ a[f] # NoAssembly THEN {}
     ELSE IF deltas # {} THEN {Min(deltas)}
     ELSE IF ~Key(f) THEN {f} ELSE {Min(open \ {f})}

(* A fragment of f joins its assembly.                                      *)
Joined(st, row, i) ==
  CASE row = 0 -> [st EXCEPT !.parts[i] = {i}]
    [] row = 1 -> [st EXCEPT !.p1 = @ \cup {i}]
    [] row = 2 -> [st EXCEPT !.p2 = @ \cup {i}]

Repaired(st, f) == [st EXCEPT !.parts = TryRepair(@, Cnt(f), st.p1, st.p2)]

Assemble(f, row, i, scanned, buried) ==
  LET victims == Victims(scanned, f)
      st == Repaired(Joined(IF scanned[f] = NoAssembly THEN Fresh(f) ELSE scanned[f],
                            row, i), f)
      rest == [g \in Frames |-> IF g \in victims THEN NoAssembly ELSE scanned[g]]
  IN IF f \in victims
     THEN /\ asm' = rest /\ tomb' = buried \cup Buried(victims)
          /\ UNCHANGED <<given, order, decoded>>
     ELSE IF Whole(st.parts, Cnt(f))
     THEN /\ asm' = [rest EXCEPT ![f] = NoAssembly]
          /\ tomb' = buried \cup Buried(victims) \cup {f} /\ Deliver(f)
     ELSE /\ asm' = [rest EXCEPT ![f] = st] /\ tomb' = buried \cup Buried(victims)
          /\ UNCHANGED <<given, order, decoded>>

Fragment(f, row, i) ==
  /\ <<f, row, i>> \in air /\ air' = air \ {<<f, row, i>>}
  /\ highest' = Max({highest, f})
  /\ skipped' = skipped \cup Unseen(f)
  /\ IF f \in tomb
     THEN /\ asks' = asks \cup (Unseen(f) \X {Every})
          /\ UNCHANGED <<asm, tomb, given, order, rounds, decoded>>
     ELSE \E gone \in SUBSET Assembling : \E again \in SUBSET (Assembling \ gone) :
            /\ Scan(gone, again)
            /\ asks' = asks \cup (Unseen(f) \X {Every})
                       \cup UNION {Asked(g, asm[g].nacks + 1) : g \in again}
            /\ IF f \in gone
               THEN /\ asm' = AfterScan(gone, again) /\ tomb' = tomb \cup Buried(gone)
                    /\ UNCHANGED <<given, order, decoded>>
               ELSE Assemble(f, row, i, AfterScan(gone, again), tomb \cup Buried(gone))
  /\ UNCHANGED <<hostVars, wire>>

(* readOneFrame: a keyframe read from a stream.                             *)
StreamFrame(f) ==
  /\ f \in wire /\ wire' = wire \ {f}
  /\ Deliver(f)
  /\ IF Duplicate(f) THEN UNCHANGED <<asm, tomb>>
     ELSE asm' = [asm EXCEPT ![f] = NoAssembly] /\ tomb' = tomb \cup {f}
  /\ UNCHANGED <<hostVars, air, asks, skipped, highest, rounds>>

------------------------------------------------------------------------------
HostStep ==
  \/ \E key, copy \in BOOLEAN : \E cnt \in Sizes(key) : \E k \in 0..cnt :
       Encode(key, cnt, copy, k)
  \/ SkipFrame
  \/ \E a \in asks : AnswerNack(a)

ClientStep ==
  \/ \E d \in air : Fragment(d[1], d[2], d[3])
  \/ \E f \in wire : StreamFrame(f)

Next == HostStep \/ ClientStep

Spec == Init /\ [][Next]_vars

------------------------------------------------------------------------------
(* What the decoder is given is a chain: every delta follows the frame it   *)
(* was predicted from, and no frame comes twice or out of order, whatever   *)
(* was lost, repaired, given up or sent on two carriers ("HEVC has to be    *)
(* decoded in order", frameorder.ts).                                       *)
ChainUnbroken ==
  \A i \in 1..Len(decoded) :
    /\ i > 1 => decoded[i - 1] < decoded[i]
    /\ Key(decoded[i]) \/ (i > 1 /\ decoded[i] = decoded[i - 1] + 1)

(* Repair is a fallback, not a flood: a frame costs at most MaxRounds       *)
(* rounds of NACKs in its life, re-sends that arrive after it was given up  *)
(* included (wtcore.ts, "the unbounded loop that ran nacks to 7183").       *)
RoundsBounded == \A f \in Frames : rounds[f] <= MaxRounds

(* What is rebuilt is what was sent: a slot of a frame under assembly is    *)
(* empty or holds the fragment of its own place, never the XOR of two, and  *)
(* never one of another frame (wtcore.ts, tryRepair).                       *)
SlotsHoldTheirOwn ==
  \A f \in Assembling :
    /\ f \in Sent /\ DOMAIN asm[f].parts = Fragments(Cnt(f))
    /\ \A i \in Fragments(Cnt(f)) : asm[f].parts[i] \in {{}, {i}}

(* A keyframe read from the stream has reached the page, also when the      *)
(* client gave its datagram copy up ("exactly the frame we still need",     *)
(* wtcore.ts): only a frame the page already has is dropped there.          *)
StreamCopyCounts == [][\A f \in wire \ wire' : f \in given']_vars
=============================================================================
