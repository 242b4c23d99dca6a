----------------------------- MODULE VideoProofs -----------------------------
(***************************************************************************)
(* How pictures are sent, for all constants: the transport in the slot     *)
(* serves, whatever the rotation task is doing; no frame goes to an older  *)
(* channel once the newest is known; the rate stays in what the session    *)
(* negotiated and the pace in what a client can take; the tick after a cut *)
(* never raises the rate, nor do the next two after a harsh cut unless a   *)
(* gentler one follows it; and the cuts of one bad stretch do not pull the *)
(* remembered ceiling down with them.                                      *)
(***************************************************************************)
EXTENDS VideoPath, Rotation, RateControl, SequenceTheorems, FiniteSetTheorems, WellFoundedInduction,
        TLAPS

-----------------------------------------------------------------------------
(* Rotation *)

\* The inductive invariant: exactly the transport in the slot serves.
RotationInv ==
  /\ RotationTypeOK
  /\ \A x \in Transports : phase[x] = "serving" <=> x = slot

LEMMA RotationStarts == RotationInit => RotationInv
<1> SUFFICES ASSUME RotationInit PROVE RotationInv
  OBVIOUS
<1>1. 0 \in 0..(MaxTries - 1) /\ NoTransport \in Held
  BY RotationBounds DEF Held
<1>2. Asleep \in [at: {"asleep", "chosen", "binding"}, current: Held, tries: 0..(MaxTries - 1)]
  BY <1>1 DEF Asleep
<1>3. NoPlayer \in [on: BOOLEAN, wt: Held, pipe: {"none", "playing", "refused"}]
  BY <1>1 DEF NoPlayer
<1>4. PICK x \in Transports :
        /\ phase = [y \in Transports |-> IF y = x THEN "serving" ELSE "unbound"]
        /\ cert = [y \in Transports |-> "fresh"] /\ alive = [y \in Transports |-> TRUE]
        /\ slot = x /\ rotation = Asleep /\ player = NoPlayer
        /\ lingering = {} /\ leaked = {}
  BY DEF RotationInit
<1>5. RotationTypeOK
  BY <1>2, <1>3, <1>4 DEF RotationTypeOK, Held
<1>6. QED
  BY <1>4, <1>5 DEF RotationInv

LEMMA RotationStep == RotationInv /\ [RotationNext]_rotationVars => RotationInv'
<1> SUFFICES ASSUME RotationInv, [RotationNext]_rotationVars PROVE RotationInv'
  OBVIOUS
<1> DEFINE Turns == [at: {"asleep", "chosen", "binding"}, current: Held, tries: 0..(MaxTries - 1)]
           Players == [on: BOOLEAN, wt: Held, pipe: {"none", "playing", "refused"}]
<1>1. /\ phase \in [Transports -> {"unbound", "serving", "closed"}]
      /\ cert \in [Transports -> {"fresh", "due", "expired"}]
      /\ alive \in [Transports -> BOOLEAN]
      /\ slot \in Held /\ rotation \in Turns /\ player \in Players
      /\ lingering \subseteq Transports /\ leaked \subseteq Transports
      /\ \A x \in Transports : phase[x] = "serving" <=> x = slot
  BY DEF RotationInv, RotationTypeOK
<1>2. /\ 0 \in 0..(MaxTries - 1) /\ NoTransport \in Held /\ NoTransport \notin Transports
      /\ Transports \subseteq Held
  BY RotationBounds DEF Held
<1>3. Asleep \in Turns /\ NoPlayer \in Players
  BY <1>2 DEF Asleep, NoPlayer
<1>4. Wt \subseteq Transports
  BY <1>1 DEF Wt, Held
<1> HIDE DEF Turns, Players
<1> USE DEF RotationInv, RotationTypeOK, pipelineVars
<1>5. CASE Decide
  <2>1. rotation' \in Turns
    BY <1>1, <1>2, <1>5 DEF Decide, Turns
  <2>2. QED
    BY <1>1, <1>5, <2>1 DEF Decide, Turns, Players
<1>6. CASE Retire
  <2>1. rotation' \in Turns
    BY <1>1, <1>6 DEF Retire, Turns
  <2>2. phase' \in [Transports -> {"unbound", "serving", "closed"}]
    BY <1>1, <1>6 DEF Retire
  <2>3. \A x \in Transports : phase'[x] = "serving" <=> x = slot'
    BY <1>1, <1>2, <1>6 DEF Retire, Emptied
  <2>4. QED
    BY <1>1, <1>2, <1>6, <2>1, <2>2, <2>3 DEF Retire, Emptied, Turns, Players
<1>7. CASE Bind
  <2>1. PICK x \in Transports :
          /\ phase' = [phase EXCEPT ![x] = "serving"] /\ cert' = [cert EXCEPT ![x] = "fresh"]
          /\ alive' = [alive EXCEPT ![x] = TRUE] /\ slot' = x
    BY <1>7 DEF Bind
  <2>2. \A y \in Transports : phase[y] = "unbound"
    BY <1>7 DEF Bind, PortFree
  <2>3. \A y \in Transports : phase'[y] = "serving" <=> y = slot'
    BY <1>1, <2>1, <2>2
  <2>4. QED
    BY <1>1, <1>2, <1>3, <1>7, <2>1, <2>3 DEF Bind, Turns, Players
<1>8. CASE BindFails
  <2>1. rotation' \in Turns
    <3>1. CASE rotation.tries + 1 < MaxTries
      <4>1. rotation.tries + 1 \in 0..(MaxTries - 1)
        BY <1>1, <3>1, RotationBounds DEF Turns
      <4>2. rotation' = [rotation EXCEPT !.tries = rotation.tries + 1]
        BY <1>8, <3>1 DEF BindFails, AfterTry
      <4>3. QED
        BY <1>1, <4>1, <4>2 DEF Turns
    <3>2. CASE ~(rotation.tries + 1 < MaxTries)
      BY <1>3, <1>8, <3>2 DEF BindFails, AfterTry
    <3>3. QED
      BY <3>1, <3>2
  <2>2. QED
    BY <1>1, <1>8, <2>1 DEF BindFails, Turns, Players
<1>9. CASE Claim
  <2>1. player' \in Players
    BY <1>1, <1>9 DEF Claim, Players
  <2>2. QED
    BY <1>1, <1>9, <2>1 DEF Claim, Turns, Players
<1>10. CASE StartMedia
  <2>1. player' \in Players
    BY <1>1, <1>10 DEF StartMedia, Players
  <2>2. lingering' \subseteq Transports
    BY <1>1, <1>4, <1>10 DEF StartMedia, Stopped
  <2>3. QED
    BY <1>1, <1>10, <2>1, <2>2 DEF StartMedia, Turns, Players
<1>11. CASE Leave
  <2>1. lingering' \subseteq Transports /\ leaked' \subseteq Transports
    BY <1>1, <1>4, <1>11 DEF Leave, Stopped, Abandoned
  <2>2. QED
    BY <1>1, <1>3, <1>11, <2>1 DEF Leave, Turns, Players
<1>12. CASE PollerExits
  BY <1>1, <1>12 DEF PollerExits, Turns, Players
<1>13. CASE Release
  <2>1. PICK x \in Transports : phase[x] = "closed" /\ phase' = [phase EXCEPT ![x] = "unbound"]
    BY <1>13 DEF Release
  <2>2. \A y \in Transports : phase'[y] = "serving" <=> y = slot
    BY <1>1, <2>1
  <2>3. QED
    BY <1>1, <1>13, <2>1, <2>2 DEF Release, Turns, Players
<1>14. CASE CertAges
  <2>1. cert' \in [Transports -> {"fresh", "due", "expired"}]
    BY <1>1, <1>14 DEF CertAges
  <2>2. QED
    BY <1>1, <1>14, <2>1 DEF CertAges, Turns, Players
<1>15. CASE SenderDies
  <2>1. alive' \in [Transports -> BOOLEAN]
    BY <1>1, <1>15 DEF SenderDies
  <2>2. QED
    BY <1>1, <1>15, <2>1 DEF SenderDies, Turns, Players
<1>16. CASE UNCHANGED rotationVars
  BY <1>1, <1>16 DEF rotationVars, Turns, Players
<1>17. QED
  BY <1>5, <1>6, <1>7, <1>8, <1>9, <1>10, <1>11, <1>12, <1>13, <1>14, <1>15, <1>16
  DEF RotationNext

LEMMA RotationInvariant == RotationSpec => []RotationInv
<1>1. QED
  BY RotationStarts, RotationStep, PTL DEF RotationSpec

\* Whatever ages, dies, fails to bind or is never let go of, the task, the slot
\* and the handles stay what they are (spawn_wt_rotation, rotate_transport).
THEOREM RotationTypeCorrect == RotationSpec => []RotationTypeOK
<1>1. RotationInv => RotationTypeOK
  BY DEF RotationInv
<1>2. QED
  BY <1>1, RotationInvariant, PTL

\* "Nothing can dial or advertise a transport that is mid-retirement"
\* (rotate_transport), for any number of transports and tries.
THEOREM SlotIsInService == RotationSpec => []SlotServes
<1>1. RotationInv => SlotServes
  BY DEF RotationInv, RotationTypeOK, Held, SlotServes
<1>2. QED
  BY <1>1, RotationInvariant, PTL

-----------------------------------------------------------------------------
(* The frame queue *)

\* Of the parts of a set below each of its numbers, one includes no other.
LEMMA LeastNumber ==
  ASSUME NEW S, S \subseteq Nat, IsFiniteSet(S), S # {}
  PROVE  \E t \in S : \A u \in S : t <= u
<1> DEFINE Upto(t) == {u \in S : u <= t}
           Parts == {Upto(t) : t \in S}
           Less == StrictSubsetOrdering(S)
<1>1. IsWellFoundedOn(Less, SUBSET S)
  BY FS_StrictSubsetOrderingWellFounded, FS_FiniteSubsetsOfFinite
<1>2. Parts \subseteq SUBSET S /\ Parts # {}
  OBVIOUS
<1>3. \E x \in Parts : \A y \in Parts : <<y, x>> \notin Less
  <2> HIDE DEF Parts, Less
  <2>1. QED
    BY <1>1, <1>2, WFMin
<1>4. PICK t \in S : \A u \in S : <<Upto(u), Upto(t)>> \notin Less
  BY <1>3
<1>5. ASSUME NEW u \in S, ~(t <= u) PROVE FALSE
  <2>1. u < t /\ t \in Upto(t) /\ t \notin Upto(u)
    BY <1>5
  <2>2. \A v \in S : v <= u => v <= t
    BY <2>1
  <2>3. <<Upto(u), Upto(t)>> \in Less
    <3>1. Upto(u) \subseteq Upto(t) /\ Upto(u) # Upto(t)
      BY <2>1, <2>2
    <3>2. QED
      BY <3>1, Zenon DEF StrictSubsetOrdering
  <2>4. QED
    BY <1>4, <2>3
<1>6. QED
  BY <1>5

\* A full queue has a victim: its oldest delta, or its first frame.
LEMMA VictimInQueue ==
  ASSUME queue \in Seq(Frame), Len(queue) >= 1
  PROVE  Victim \in 1..Len(queue)
<1>1. Len(queue) \in Nat
  BY LenProperties
<1>2. CASE Deltas = {}
  BY <1>1, <1>2 DEF Victim
<1>3. CASE Deltas # {}
  <2>1. Deltas \subseteq Nat /\ Deltas \subseteq 1..Len(queue)
    BY DEF Deltas
  <2>2. IsFiniteSet(Deltas)
    <3>1. IsFiniteSet(1..Len(queue))
      BY <1>1, FS_Interval
    <3>2. QED
      BY <2>1, <3>1, FS_Subset
  <2>3. \E i \in Deltas : \A j \in Deltas : i <= j
    BY <1>3, <2>1, <2>2, LeastNumber
  <2>4. Victim \in Deltas
    BY <1>3, <2>3 DEF Victim
  <2>5. QED
    BY <2>1, <2>4
<1>4. QED
  BY <1>2, <1>3

\* send_frame: the newest frame always fits.
LEMMA PushedFits ==
  ASSUME queue \in Seq(Frame), Len(queue) <= MaxQueue, NEW f \in Frame, Pushed(f)
  PROVE  queue' \in Seq(Frame) /\ Len(queue') <= MaxQueue
<1>1. Len(queue) \in Nat /\ MaxQueue \in Nat /\ MaxQueue >= 1
  BY LenProperties, VideoBounds
<1>2. Room \in Seq(Frame) /\ Len(Room) < MaxQueue
  <2>1. CASE Len(queue) < MaxQueue
    BY <2>1 DEF Room
  <2>2. CASE ~(Len(queue) < MaxQueue)
    <3> DEFINE v == Victim
               n == Len(queue)
    <3>1. v \in 1..n /\ n = MaxQueue /\ n \in Nat
      BY <1>1, <2>2, VictimInQueue
    <3>2. \A i \in 1..n : queue[i] \in Frame
      BY ElementOfSeq
    <3> HIDE DEF v, n
    <3>3. \A i \in 1..(v - 1) : queue[i] \in Frame
      BY <3>1, <3>2
    <3>4. \A i \in (v + 1)..n : queue[i] \in Frame
      BY <3>1, <3>2
    <3>5. SubSeq(queue, 1, v - 1) \in Seq(Frame) /\ Len(SubSeq(queue, 1, v - 1)) = v - 1
      BY <3>1, <3>3, SubSeqProperties
    <3>6. SubSeq(queue, v + 1, n) \in Seq(Frame) /\ Len(SubSeq(queue, v + 1, n)) = n - v
      BY <3>1, <3>4, SubSeqProperties
    <3>7. Room = SubSeq(queue, 1, v - 1) \o SubSeq(queue, v + 1, n)
      BY <2>2 DEF Room, RemoveAt, v, n
    <3>8. Room \in Seq(Frame) /\ Len(Room) = (v - 1) + (n - v)
      BY <3>5, <3>6, <3>7, ConcatProperties
    <3>9. QED
      BY <3>1, <3>8
  <2>3. QED
    BY <2>1, <2>2
<1>3. Append(Room, f) \in Seq(Frame) /\ Len(Append(Room, f)) = Len(Room) + 1
  BY <1>2, AppendProperties
<1>4. Len(Room) \in Nat
  BY <1>2, LenProperties
<1>5. QED
  BY <1>1, <1>2, <1>3, <1>4 DEF Pushed

-----------------------------------------------------------------------------
(* The way of a frame *)

FlagsOK ==
  /\ up \in BOOLEAN /\ anchored \in BOOLEAN /\ mayAsk \in BOOLEAN /\ ask \in BOOLEAN
  /\ datagram \in BOOLEAN /\ gateOpen \in BOOLEAN /\ pending \in BOOLEAN
  /\ pumpOpen \in BOOLEAN /\ wanted \in BOOLEAN /\ landing \in BOOLEAN

ChannelsOK ==
  /\ newest \in {"none", "marked", "known"}
  /\ live \in Connection /\ sink \in Channel
  /\ events \in Seq({"Connected", "KeyframeRequest"}) /\ Len(events) <= MaxEvents
  /\ queue \in Seq(Frame) /\ Len(queue) <= MaxQueue
  /\ target \in Connection /\ stream \in Channel /\ hand \in Frame \cup {"none"}

\* The inductive invariant: once the client's newest channel is known, the sink
\* is that channel or was taken, and if it was taken the sender writes to it.
VideoInv ==
  /\ FlagsOK /\ ChannelsOK
  /\ newest = "known" => sink \in {"none", "newest"}
  /\ EmptySlotMeansNewest

LEMMA VideoStarts == Init => VideoInv
<1> SUFFICES ASSUME Init PROVE VideoInv
  OBVIOUS
<1>1. <<>> \in Seq(Frame) /\ <<>> \in Seq({"Connected", "KeyframeRequest"}) /\ Len(<<>>) = 0
  BY EmptySeq
<1>2. 0 <= MaxQueue /\ 0 <= MaxEvents
  BY VideoBounds
<1>3. queue \in Seq(Frame) /\ Len(queue) <= MaxQueue
      /\ events \in Seq({"Connected", "KeyframeRequest"}) /\ Len(events) <= MaxEvents
  BY <1>1, <1>2 DEF Init
<1>4. QED
  BY <1>3
  DEF Init, VideoInv, FlagsOK, ChannelsOK, EmptySlotMeansNewest, Connection, Channel

LEMMA ClientKeeps ==
  ASSUME VideoInv, ClientStep
  PROVE  VideoInv'
<1> USE DEF VideoInv, FlagsOK, ChannelsOK, EmptySlotMeansNewest, Connection, Channel, clientVars,
            pumpVars, senderVars
<1>1. CASE Connect
  <2>1. Append(events, "Connected") \in Seq({"Connected", "KeyframeRequest"})
        /\ Len(Append(events, "Connected")) = Len(events) + 1 /\ Len(events) \in Nat
    BY AppendProperties, LenProperties
  <2>2. Len(events) + 1 <= MaxEvents
    BY <1>1, <2>1, VideoBounds DEF Connect
  <2>3. QED
    BY <1>1, <2>1, <2>2 DEF Connect, Dead
<1>2. CASE ConnEnds
  <2>1. Dead(sink) \in {"none", "dead"} /\ Dead(stream) \in {"none", "dead"}
    BY DEF Dead
  <2>2. FlagsOK' /\ newest' = "none"
    BY <1>2 DEF ConnEnds
  <2>3. ChannelsOK'
    BY <1>2, <2>1 DEF ConnEnds
  <2>4. QED
    BY <2>2, <2>3
<1>3. CASE SwitchCarrier
  BY <1>3 DEF SwitchCarrier
<1>4. CASE RequestKeyframe
  <2>1. Old(sink) \in Channel /\ Old(stream) \in Channel
    BY DEF Old
  <2>2. FlagsOK' /\ newest' = "marked"
    BY <1>4 DEF RequestKeyframe
  <2>3. ChannelsOK'
    BY <1>4, <2>1 DEF RequestKeyframe
  <2>4. QED
    BY <2>2, <2>3
<1>5. CASE ClientTick
  BY <1>5 DEF ClientTick
<1>6. CASE LoseAnchor
  <2>1. FlagsOK'
    BY <1>6 DEF LoseAnchor
  <2>2. ChannelsOK'
    BY <1>6 DEF LoseAnchor
  <2>3. QED
    BY <1>6, <2>1, <2>2 DEF LoseAnchor
<1>7. CASE Land
  <2>1. FlagsOK'
    BY <1>7 DEF Land
  <2>2. ChannelsOK'
    BY <1>7 DEF Land
  <2>3. QED
    BY <1>7, <2>1, <2>2 DEF Land
<1>8. QED
  BY <1>1, <1>2, <1>3, <1>4, <1>5, <1>6, <1>7 DEF ClientStep

LEMMA HostKeeps ==
  ASSUME VideoInv, HostStep
  PROVE  VideoInv'
<1> DEFINE Event == {"Connected", "KeyframeRequest"}
<1>0. events \in Seq(Event) /\ Len(events) \in Nat /\ Len(events) <= MaxEvents
      /\ MaxEvents \in Nat
  BY LenProperties, VideoBounds DEF VideoInv, FlagsOK, ChannelsOK
<1> USE DEF VideoInv, FlagsOK, ChannelsOK, EmptySlotMeansNewest, Connection, Channel, clientVars,
            pumpVars, senderVars
<1>1. CASE Publish
  BY <1>1 DEF Publish
<1>2. CASE TearDown
  BY <1>2 DEF TearDown
<1>3. CASE InstallSink
  BY <1>3 DEF InstallSink, Installed
<1>4. CASE ReadAsk
  <2>1. Append(events, "KeyframeRequest") \in Seq(Event)
        /\ Len(Append(events, "KeyframeRequest")) = Len(events) + 1
    BY <1>0, AppendProperties
  <2>2. Len(events) + 1 <= MaxEvents
    BY <1>0, <1>4 DEF ReadAsk
  <2>3. events' \in Seq(Event) /\ Len(events') <= MaxEvents /\ gateOpen' \in BOOLEAN
    BY <1>0, <1>4, <2>1, <2>2 DEF ReadAsk
  <2>4. /\ UNCHANGED <<up, newest, anchored, mayAsk, live, sink, datagram, pending,
                       pumpOpen, wanted, queue, senderVars, landing>>
        /\ ask' = FALSE
    BY <1>4 DEF ReadAsk
  <2>5. FlagsOK'
    BY <2>3, <2>4
  <2>6. ChannelsOK'
    BY <2>3, <2>4
  <2>7. QED
    BY <2>3, <2>4, <2>5, <2>6
<1>5. CASE GateTick
  BY <1>5 DEF GateTick
<1>6. CASE PumpTurn
  <2>1. events' \in Seq(Event) /\ Len(events') <= MaxEvents
    <3>1. CASE events = <<>>
      BY <1>0, <1>6, <3>1 DEF PumpTurn
    <3>2. CASE events # <<>>
      <4>1. Tail(events) \in Seq(Event) /\ Len(Tail(events)) = Len(events) - 1
        BY <1>0, <3>2, HeadTailProperties
      <4>2. QED
        BY <1>0, <1>6, <3>2, <4>1 DEF PumpTurn
    <3>3. QED
      BY <3>1, <3>2
  <2>2. pending' \in BOOLEAN /\ pumpOpen' \in BOOLEAN /\ wanted' \in BOOLEAN
    BY <1>6 DEF PumpTurn
  <2>3. UNCHANGED <<clientVars, live, sink, datagram, gateOpen, queue, senderVars, landing>>
    BY <1>6 DEF PumpTurn
  <2>4. QED
    BY <2>1, <2>2, <2>3
<1>7. CASE PumpTick
  BY <1>7 DEF PumpTick
<1>8. CASE Encode
  <2>1. queue' \in Seq(Frame) /\ Len(queue') <= MaxQueue
    <3>1. Pushed(IF wanted THEN "key" ELSE "delta")
      BY <1>8 DEF Encode
    <3>2. (IF wanted THEN "key" ELSE "delta") \in Frame
      BY DEF Frame
    <3>3. QED
      BY <3>1, <3>2, PushedFits
  <2>2. /\ UNCHANGED <<clientVars, live, sink, datagram, gateOpen, events, pending,
                       pumpOpen, senderVars, landing>>
        /\ wanted' = FALSE
    BY <1>8 DEF Encode
  <2>3. FlagsOK'
    BY <2>1, <2>2
  <2>4. ChannelsOK'
    BY <2>1, <2>2
  <2>5. QED
    BY <2>1, <2>2, <2>3, <2>4
<1>9. QED
  BY <1>1, <1>2, <1>3, <1>4, <1>5, <1>6, <1>7, <1>8 DEF HostStep

LEMMA SenderKeeps ==
  ASSUME VideoInv, SenderStep
  PROVE  VideoInv'
<1> USE DEF VideoInv, FlagsOK, ChannelsOK, EmptySlotMeansNewest, Connection, Channel, clientVars,
            pumpVars, senderVars
<1>1. CASE FollowLive
  BY <1>1 DEF FollowLive
<1>2. ASSUME Pop
      PROVE  queue' \in Seq(Frame) /\ Len(queue') <= MaxQueue /\ Head(queue) \in Frame
  <2>1. queue \in Seq(Frame) /\ queue # <<>> /\ queue' = Tail(queue)
        /\ Len(queue) \in Nat /\ MaxQueue \in Nat /\ Len(queue) <= MaxQueue
    BY <1>2, LenProperties, VideoBounds DEF Pop
  <2>2. /\ Tail(queue) \in Seq(Frame) /\ Len(Tail(queue)) = Len(queue) - 1
        /\ Head(queue) \in Frame
    BY <2>1, HeadTailProperties
  <2>3. QED
    BY <2>1, <2>2
<1>3. CASE Expire
  BY <1>2, <1>3 DEF Expire
<1>4. CASE SendFrame
  <2> DEFINE f == Head(queue)
  <2>1. /\ queue' \in Seq(Frame) /\ Len(queue') <= MaxQueue /\ f \in Frame
        /\ SendCopy(f)
        /\ UNCHANGED <<up, newest, mayAsk, ask, live, datagram, gateOpen, pumpVars, target,
                       landing>>
    BY <1>2, <1>4 DEF SendFrame
  <2> HIDE DEF f
  <2>2. anchored' \in BOOLEAN
    BY <2>1 DEF SendCopy
  <2>3. \/ UNCHANGED <<stream, sink>>
        \/ sink # "none" /\ stream' = sink /\ sink' = "none"
    BY <1>4 DEF SendFrame, PickStream
  <2>4. hand' \in Frame \cup {"none"}
    <3>1. hand' = hand \/ hand' = IF stream' = "none" THEN "none" ELSE f
      BY <1>4 DEF SendFrame, f
    <3>2. QED
      BY <2>1, <3>1
  <2>5. QED
    BY <2>1, <2>2, <2>3, <2>4
<1>5. CASE WriteDone
  BY <1>5 DEF WriteDone, Read
<1>6. CASE WriteFails
  BY <1>6 DEF WriteFails
<1>7. QED
  BY <1>1, <1>3, <1>4, <1>5, <1>6 DEF SenderStep

LEMMA VideoInvariant == Spec => []VideoInv
<1>1. VideoInv /\ [Next]_vars => VideoInv'
  <2> SUFFICES ASSUME VideoInv, [Next]_vars PROVE VideoInv'
    OBVIOUS
  <2>1. CASE UNCHANGED vars
    BY <2>1 DEF vars, VideoInv, FlagsOK, ChannelsOK, EmptySlotMeansNewest, Connection, Channel,
                clientVars, pumpVars, senderVars
  <2>2. QED
    BY <2>1, ClientKeeps, HostKeeps, SenderKeeps DEF Next
<1>2. QED
  BY <1>1, VideoStarts, PTL DEF Spec

\* Whatever connects, asks and fails, the frame queue and the event channel keep
\* their bounds and every copy of a connection or channel its type.
THEOREM VideoTypeCorrect == Spec => []TypeOK
<1>1. VideoInv => TypeOK
  BY DEF VideoInv, FlagsOK, ChannelsOK, TypeOK
<1>2. QED
  BY <1>1, VideoInvariant, PTL

\* "An empty slot means the cached stream was the newest one installed"
\* (transport.rs): the sender never writes to an older channel than the one the
\* client last asked for, for any length of the queue.
THEOREM SenderKeepsToNewest == Spec => []EmptySlotMeansNewest
<1>1. VideoInv => EmptySlotMeansNewest
  BY DEF VideoInv
<1>2. QED
  BY <1>1, VideoInvariant, PTL

-----------------------------------------------------------------------------
(* The bitrate law *)

\* What the latest cut left of the cooldown: two ticks right after it, and
\* while it is itself the latest harsh one, four less its age.
CooldownIsOfCut(latest, harsh, ticks) ==
  /\ latest <= harsh
  /\ latest = 0 => ticks >= 2
  /\ latest = harsh /\ latest < 3 => ticks >= 4 - latest

\* The cooldown is that of the latest cut; since a cut no tick was clean.
RateInv ==
  /\ RateTypeOK
  /\ CooldownIsOfCut(cutAge, harshAge, cooldown)
  /\ episode => clean = 0

-----------------------------------------------------------------------------
(* What the laws compute *)

\* The shares the laws take of a rate.
LEMMA Shares ==
  \A k \in Nat :
    /\ (6 * k) \div 10 \in Int /\ (7 * k) \div 10 \in Int /\ (9 * k) \div 10 \in Int
    /\ (17 * k) \div 20 \in Int /\ k \div 2 \in Int
    /\ (3 * k) \div 4 \in Int /\ (3 * k) \div 4 <= k
    /\ k \div 20 \in Int /\ k \div 5 \in Int
    /\ (13 * k + 9) \div 10 \in Int /\ (13 * k + 9) \div 10 >= k
OBVIOUS

LEMMA PacedIsBelow ==
  ASSUME RateTypeOK, NEW k \in Int, NEW carrier \in BOOLEAN
  PROVE  Paced(k, carrier) \in Int /\ Paced(k, carrier) <= k
         /\ (k >= Floor => Paced(k, carrier) >= Floor)
<1>1. pace \in Int /\ Floor \in Int
  BY RateBounds DEF RateTypeOK
<1>2. QED
  BY <1>1 DEF Paced, Lower, Higher

\* What a cut leaves.
LEMMA CutIsSound ==
  ASSUME RateTypeOK, NEW goal \in Int, NEW ticks \in 2..5, Cut(goal, ticks)
  PROVE  /\ kbps' \in Floor..Ceiling /\ kbps' <= kbps
         /\ cooldown' \in 0..5 /\ clean' = 0 /\ cutAge' \in 0..3 /\ harshAge' \in 0..3 /\ episode' = TRUE
         /\ CooldownIsOfCut(cutAge', harshAge', cooldown')
<1>1. kbps \in Int /\ Floor \in Int /\ Ceiling \in Int /\ Floor <= kbps /\ kbps <= Ceiling
  BY RateBounds DEF RateTypeOK
<1>2. kbps' \in Int /\ Floor <= kbps' /\ kbps' <= kbps
  BY <1>1 DEF Cut, CutTo, Lower, Higher
<1>3. cooldown' = ticks /\ clean' = 0 /\ episode' = TRUE /\ cutAge' = 0
  BY DEF Cut
<1>4. harshAge' = 0 \/ harshAge' \in 1..3
  BY DEF Cut, Aged, Lower, RateTypeOK
<1>5. harshAge' = 0 => ticks >= 4
  BY DEF Cut, Aged, Lower, RateTypeOK
<1>6. CooldownIsOfCut(cutAge', harshAge', cooldown')
  BY <1>3, <1>4, <1>5 DEF CooldownIsOfCut
<1>7. QED
  BY <1>1, <1>2, <1>3, <1>4, <1>6

\* What a tick that cuts nothing does to the counters.
LEMMA CountersGoDown ==
  ASSUME RateTypeOK
  PROVE  /\ Cooled \in 0..5 /\ (cooldown > 0 => Cooled = cooldown - 1)
         /\ (cooldown = 0 => Cooled = 0)
         /\ Warmed \in 0..Warmup
  BY RateBounds DEF RateTypeOK, Cooled, Warmed, Higher

\* A tick that cuts nothing ages the cuts as it counts the cooldown down; when
\* it counts it out, the latest cuts are old enough for a raise.
OldEnough ==
  /\ cutAge >= 1 /\ harshAge >= 2
  /\ harshAge = cutAge => harshAge = 3

LEMMA CutsAge ==
  ASSUME RateInv
  PROVE  /\ Aged(cutAge) \in 0..3 /\ Aged(harshAge) \in 0..3
         /\ CooldownIsOfCut(Aged(cutAge), Aged(harshAge), Cooled)
         /\ Cooled = 0 => OldEnough
<1>1. /\ cutAge \in 0..3 /\ harshAge \in 0..3 /\ cooldown \in 0..5
      /\ CooldownIsOfCut(cutAge, harshAge, cooldown)
  BY DEF RateInv, RateTypeOK
<1>2. /\ Aged(cutAge) = (IF cutAge = 3 THEN 3 ELSE cutAge + 1)
      /\ Aged(harshAge) = (IF harshAge = 3 THEN 3 ELSE harshAge + 1)
  BY <1>1 DEF Aged, Lower
<1>3. Cooled = IF cooldown = 0 THEN 0 ELSE cooldown - 1
  BY <1>1 DEF Cooled, Higher
<1>4. Aged(cutAge) \in 1..3 /\ Aged(harshAge) \in 1..3
  BY <1>1, <1>2
<1>5. CooldownIsOfCut(Aged(cutAge), Aged(harshAge), Cooled)
  BY <1>1, <1>2, <1>3 DEF CooldownIsOfCut
<1>6. Cooled = 0 => OldEnough
  BY <1>1, <1>3 DEF CooldownIsOfCut, OldEnough
<1>7. QED
  BY <1>4, <1>5, <1>6

\* A cut that begins a stretch notes the rate; the later ones do not.
LEMMA MarkIsSound ==
  ASSUME RateInv, MarkLoss \/ MarkDelay
  PROVE  /\ soft' \in 0..Ceiling /\ fromDelay' \in BOOLEAN
         /\ episode /\ soft # 0 => soft' = soft
<1>1. kbps \in 0..Ceiling /\ soft \in 0..Ceiling /\ (episode => clean = 0)
  BY RateBounds DEF RateInv, RateTypeOK
<1>2. FirstObjection \in BOOLEAN /\ (episode /\ soft # 0 => ~FirstObjection)
  BY <1>1 DEF FirstObjection
<1>3. QED
  BY <1>1, <1>2 DEF MarkLoss, MarkDelay

\* What every tick must keep.
KeepsLaw ==
  /\ RateInv'
  /\ kbps' > kbps => OldEnough
  /\ episode /\ soft # 0 /\ soft' # 0 => soft' >= soft

-----------------------------------------------------------------------------
(* The branches of a tick *)

LEMMA CutsKeepLaw ==
  ASSUME RateInv, Beat, BacklogCut \/ \E severe \in BOOLEAN : TailCut(severe)
  PROVE  KeepsLaw
<1>0. /\ RateTypeOK /\ kbps \in Nat /\ beat' \in BOOLEAN /\ soft \in Int
      /\ Warmed \in 0..Warmup
  BY RateBounds, CountersGoDown DEF RateInv, RateTypeOK, Beat
<1>1. /\ (6 * kbps) \div 10 \in Int /\ (7 * kbps) \div 10 \in Int
  BY <1>0, Shares
<1>2. PICK goal \in Int, ticks \in 2..5 : Cut(goal, ticks)
  BY <1>1 DEF BacklogCut, TailCut
<1>3. /\ kbps' \in Floor..Ceiling /\ kbps' <= kbps
      /\ cooldown' \in 0..5 /\ clean' = 0 /\ cutAge' \in 0..3 /\ harshAge' \in 0..3 /\ episode' = TRUE
      /\ CooldownIsOfCut(cutAge', harshAge', cooldown')
  BY <1>0, <1>2, CutIsSound
<1>4. CASE BacklogCut
  <2>1. UNCHANGED <<warmup, lossy, soft, fromDelay, paceVars>>
    BY <1>4 DEF BacklogCut
  <2>2. RateInv'
    BY <1>0, <1>3, <2>1, RateBounds DEF RateInv, RateTypeOK, paceVars
  <2>3. QED
    BY <1>0, <1>3, <2>1, <2>2, RateBounds DEF KeepsLaw
<1>5. CASE \E severe \in BOOLEAN : TailCut(severe)
  <2>1. MarkDelay /\ warmup' = Warmed /\ UNCHANGED <<lossy, paceVars>>
    BY <1>5 DEF TailCut
  <2>2. /\ soft' \in 0..Ceiling /\ fromDelay' \in BOOLEAN
        /\ episode /\ soft # 0 => soft' = soft
    BY <2>1, MarkIsSound
  <2>3. RateInv'
    BY <1>0, <1>3, <2>1, <2>2, RateBounds DEF RateInv, RateTypeOK, paceVars
  <2>4. QED
    BY <1>0, <1>3, <2>2, <2>3, RateBounds DEF KeepsLaw
<1>6. QED
  BY <1>4, <1>5

LEMMA HoldsKeepLaw ==
  ASSUME RateInv, Beat, NoReport \/ TailHold
  PROVE  KeepsLaw
<1>1. /\ RateTypeOK /\ beat' \in BOOLEAN /\ kbps \in Int /\ soft \in Int
      /\ cooldown' = Cooled /\ warmup' = Warmed /\ cutAge' = Aged(cutAge) /\ harshAge' = Aged(harshAge)
      /\ UNCHANGED <<kbps, clean, lossy, soft, fromDelay, paceVars, episode>>
  BY RateBounds DEF RateInv, RateTypeOK, Beat, NoReport, TailHold, Rest
<1>2. /\ cooldown' \in 0..5 /\ warmup' \in 0..Warmup /\ cutAge' \in 0..3 /\ harshAge' \in 0..3
      /\ CooldownIsOfCut(cutAge', harshAge', cooldown')
  BY <1>1, CountersGoDown, CutsAge
<1>3. RateInv'
  BY <1>1, <1>2 DEF RateInv, RateTypeOK, paceVars
<1>4. QED
  BY <1>1, <1>3 DEF KeepsLaw

LEMMA LossCutsKeepLaw ==
  ASSUME RateInv, Beat, NEW carrier \in BOOLEAN, NEW loss \in Loss,
         LossCut(carrier) \/ OnsetCut(loss, carrier) \/ FillCut(loss, carrier)
  PROVE  KeepsLaw
<1>0. /\ RateTypeOK /\ kbps \in Nat /\ kbps \in Floor..Ceiling /\ beat' \in BOOLEAN /\ soft \in 0..Ceiling
      /\ Warmed \in 0..Warmup /\ Floor \in Int /\ Ceiling \in Int
  BY RateBounds, CountersGoDown DEF RateInv, RateTypeOK, Beat
<1>1. lossy' \in 0..2 /\ warmup' = Warmed /\ UNCHANGED paceVars
  BY <1>0 DEF LossCut, OnsetCut, FillCut, Streak, Lower, RateTypeOK
<1>2. PICK goal \in Int, ticks \in 2..5 : Cut(goal, ticks)
  <2>1. /\ (3 * kbps) \div 4 \in Int /\ (17 * kbps) \div 20 \in Int /\ kbps \div 2 \in Int
    BY <1>0, Shares
  <2>2. CASE LossCut(carrier)
    <3>1. PICK delivered \in Floor..Ceiling :
            Cut(Paced(Lower(kbps, Higher(Floor, Lower(kbps \div 2, delivered))), carrier), 5)
      BY <2>2 DEF LossCut
    <3>2. Lower(kbps, Higher(Floor, Lower(kbps \div 2, delivered))) \in Int
      BY <1>0, <2>1 DEF Lower, Higher
    <3>3. QED
      BY <1>0, <3>1, <3>2, PacedIsBelow
  <2>3. CASE OnsetCut(loss, carrier)
    BY <1>0, <2>1, <2>3, PacedIsBelow DEF OnsetCut
  <2>4. CASE FillCut(loss, carrier)
    BY <1>0, <2>1, <2>4, PacedIsBelow DEF FillCut
  <2>5. QED
    BY <2>2, <2>3, <2>4
<1>3. /\ kbps' \in Floor..Ceiling /\ kbps' <= kbps
      /\ cooldown' \in 0..5 /\ clean' = 0 /\ cutAge' \in 0..3 /\ harshAge' \in 0..3 /\ episode' = TRUE
      /\ CooldownIsOfCut(cutAge', harshAge', cooldown')
  BY <1>0, <1>2, CutIsSound
<1>4. /\ soft' \in 0..Ceiling /\ fromDelay' \in BOOLEAN
      /\ episode /\ soft # 0 => soft' = soft
  <2>1. CASE FillCut(loss, carrier)
    BY <1>0, <2>1 DEF FillCut, RateTypeOK
  <2>2. CASE LossCut(carrier) \/ OnsetCut(loss, carrier)
    BY <2>2, MarkIsSound DEF LossCut, OnsetCut
  <2>3. QED
    BY <2>1, <2>2
<1>5. RateInv'
  BY <1>0, <1>1, <1>3, <1>4, RateBounds DEF RateInv, RateTypeOK, paceVars
<1>6. QED
  BY <1>0, <1>3, <1>4, <1>5 DEF KeepsLaw

LEMMA CleanTickKeepsLaw ==
  ASSUME RateInv, Beat, NEW f \in Feedback, CleanTick(f)
  PROVE  KeepsLaw
<1>0. /\ RateTypeOK /\ kbps \in Nat /\ kbps \in Floor..Ceiling /\ beat' \in BOOLEAN /\ soft \in 0..Ceiling
      /\ Floor \in Nat /\ Ceiling \in Nat /\ f.carrier \in BOOLEAN
  BY RateBounds DEF RateInv, RateTypeOK, Beat, Feedback
<1>1. /\ cooldown' = Cooled /\ warmup' = Warmed /\ cutAge' = Aged(cutAge) /\ harshAge' = Aged(harshAge)
      /\ episode' = FALSE /\ UNCHANGED paceVars
      /\ clean' = Lower(clean + 1, ForgetDelay) /\ lossy' = Streak(f.loss)
      /\ fromDelay' = (fromDelay /\ ~Forgotten)
  BY DEF CleanTick
<1>2. /\ cooldown' \in 0..5 /\ warmup' \in 0..Warmup /\ cutAge' \in 0..3 /\ harshAge' \in 0..3
      /\ CooldownIsOfCut(cutAge', harshAge', cooldown') /\ (cooldown' = 0 => OldEnough)
  BY <1>0, <1>1, CountersGoDown, CutsAge
<1>3. clean' \in 0..ForgetDelay /\ lossy' \in 0..2 /\ fromDelay' \in BOOLEAN
  BY <1>0, <1>1, RateBounds DEF RateTypeOK, Lower, Streak, Forgotten
<1>4. soft' \in 0..Ceiling /\ (soft # 0 /\ soft' # 0 => soft' >= soft)
  <2>1. PICK relaxed \in Relaxed(f.settled) : soft' = IF Forgotten THEN 0 ELSE relaxed
    BY DEF CleanTick
  <2>2. relaxed = 0 \/ (relaxed \in {soft, soft + 1} /\ relaxed < Ceiling /\ soft # 0)
    BY <1>0 DEF Relaxed
  <2>3. soft' = 0 \/ soft' = relaxed
    BY <2>1
  <2>4. QED
    BY <1>0, <2>2, <2>3
<1>5. kbps' \in Floor..Ceiling /\ (kbps' > kbps => cooldown' = 0)
  <2> DEFINE cap == ProbeCap(f.carrier)
             k == IF Climbs(f.objection) /\ kbps < cap THEN Lower(Raised(f.lowRtt), cap) ELSE kbps
  <2>1. kbps' = Paced(k, f.carrier)
    BY DEF CleanTick
  <2>2. cap \in Int /\ cap <= Ceiling
    <3>1. (9 * soft') \div 10 \in Int
      BY <1>4, Shares
    <3>2. (IF soft' = 0 THEN Ceiling ELSE Lower(Higher((9 * soft') \div 10, Floor), Ceiling)) \in Int
      BY <1>0, <3>1 DEF Lower, Higher
    <3>3. (IF soft' = 0 THEN Ceiling ELSE Lower(Higher((9 * soft') \div 10, Floor), Ceiling)) <= Ceiling
      BY <1>0, <3>1 DEF Lower, Higher
    <3>4. pace \in Int
      BY <1>0, RateBounds DEF RateTypeOK
    <3>5. QED
      BY <1>0, <3>2, <3>3, <3>4 DEF ProbeCap, Lower, Higher
  <2>3. Raised(f.lowRtt) \in Int /\ Raised(f.lowRtt) >= kbps
    BY <1>0, Shares DEF Raised, Higher
  <2> HIDE DEF cap
  <2>4. k \in Int /\ k >= Floor /\ k <= Ceiling /\ (k > kbps => cooldown' = 0)
    BY <1>0, <2>2, <2>3 DEF Lower, Climbs
  <2> HIDE DEF k
  <2>5. kbps' \in Int /\ kbps' <= k /\ kbps' >= Floor
    BY <1>0, <2>1, <2>4, PacedIsBelow
  <2>6. QED
    BY <1>0, <2>4, <2>5
<1>6. RateInv'
  BY <1>0, <1>1, <1>2, <1>3, <1>4, <1>5 DEF RateInv, RateTypeOK, paceVars
<1>7. QED
  BY <1>0, <1>2, <1>4, <1>5, <1>6 DEF KeepsLaw

-----------------------------------------------------------------------------
(* The pace *)

\* What the reader of the telemetry makes of the pace stays between the
\* fallback's and what the client drains.
LEMMA PaceStaysInBounds ==
  ASSUME RateTypeOK, HeavyReport \/ MiddlingReport \/ LightReport \/ QuietReport
  PROVE  pace' \in MinPace..MaxPace /\ paceLossy' \in 0..2
<1>1. /\ MinPace \in Nat /\ MaxPace \in Nat /\ MinPace <= MaxPace
      /\ pace \in MinPace..MaxPace /\ paceLossy \in 0..2
  BY RateBounds DEF RateTypeOK
<1>2. PaceCap \in Nat /\ MinPace <= PaceCap /\ PaceCap <= MaxPace
  BY <1>1 DEF PaceCap
<1>3. Base \in Nat /\ MinPace <= Base /\ Base <= PaceCap
  BY <1>1, <1>2 DEF Base
<1>4. BackOff(Base) \in MinPace..MaxPace
  <2>1. (3 * Base) \div 4 \in Int /\ (3 * Base) \div 4 <= Base
    BY <1>3, Shares
  <2>2. QED
    BY <1>1, <1>2, <1>3, <2>1 DEF BackOff, Higher
<1>5. Creep(Base) \in MinPace..MaxPace
  <2>1. PaceStep \in Int /\ PaceStep >= 1
    <3>1. PaceCap \div 20 \in Int
      BY <1>2, Shares
    <3>2. QED
      BY <3>1 DEF PaceStep, Higher
  <2>2. QED
    BY <1>1, <1>2, <1>3, <2>1 DEF Creep, Lower
<1>6. Base \in MinPace..MaxPace
  BY <1>1, <1>2, <1>3
<1>7. QED
  BY <1>1, <1>4, <1>5, <1>6 DEF HeavyReport, MiddlingReport, LightReport, QuietReport, Lower

LEMMA ReportsKeepLaw ==
  ASSUME RateInv, NewClient \/ Report
  PROVE  KeepsLaw
<1>1. RateTypeOK /\ kbps \in Int /\ soft \in Int
  BY RateBounds DEF RateInv, RateTypeOK
<1>2. CASE NewClient
  BY <1>1, <1>2 DEF NewClient, RateInv, RateTypeOK, KeepsLaw, law, history
<1>3. CASE Report
  <2>1. /\ pace' \in MinPace..MaxPace /\ paceLossy' \in 0..2
    BY <1>1, <1>3, PaceStaysInBounds DEF Report
  <2>2. fresh' = FALSE /\ UNCHANGED <<law, worker, cutAge, harshAge, episode>> /\ beat' \in BOOLEAN
    BY <1>1, <1>3 DEF Report, HeavyReport, MiddlingReport, LightReport, QuietReport, Beat, RateTypeOK
  <2>3. /\ kbps' = kbps /\ soft' = soft /\ cooldown' = cooldown /\ warmup' = warmup
        /\ clean' = clean /\ lossy' = lossy /\ fromDelay' = fromDelay
        /\ worker' = worker /\ cutAge' = cutAge /\ harshAge' = harshAge /\ episode' = episode
    BY <2>2 DEF law
  <2>4. RateTypeOK'
    BY <1>1, <2>1, <2>2, <2>3 DEF RateTypeOK
  <2>5. RateInv'
    BY <2>3, <2>4 DEF RateInv
  <2>6. QED
    BY <1>1, <2>3, <2>5 DEF KeepsLaw
<1>4. QED
  BY <1>2, <1>3

-----------------------------------------------------------------------------
(* The results *)

LEMMA InitIsLawful == RateInit => RateInv
<1> SUFFICES ASSUME RateInit PROVE RateInv
  OBVIOUS
<1>1. /\ Warmup \in 0..Warmup /\ 0 \in 0..Warmup /\ 0 \in 0..ForgetDelay /\ 0 \in 0..Ceiling
      /\ MinPace \in MinPace..MaxPace
  BY RateBounds
<1>2. RateTypeOK
  <2>1. fromDelay \in BOOLEAN /\ worker \in BOOLEAN /\ fresh \in BOOLEAN
        /\ episode \in BOOLEAN /\ beat \in BOOLEAN
    BY DEF RateInit
  <2>2. /\ kbps \in Floor..Ceiling /\ cooldown \in 0..5 /\ warmup \in 0..Warmup
        /\ clean \in 0..ForgetDelay /\ lossy \in 0..2 /\ soft \in 0..Ceiling
        /\ pace \in MinPace..MaxPace /\ paceLossy \in 0..2
        /\ cutAge \in 0..3 /\ harshAge \in 0..3
    BY <1>1 DEF RateInit
  <2>3. QED
    BY <2>1, <2>2 DEF RateTypeOK
<1>3. CooldownIsOfCut(cutAge, harshAge, cooldown) /\ clean = 0
  BY DEF RateInit, CooldownIsOfCut
<1>4. QED
  BY <1>2, <1>3 DEF RateInv

LEMMA StepKeepsLaw == RateInv /\ [RateNext]_rateVars => KeepsLaw
<1> SUFFICES ASSUME RateInv, [RateNext]_rateVars PROVE KeepsLaw
  OBVIOUS
<1>1. CASE NewClient \/ Report
  BY <1>1, ReportsKeepLaw
<1>2. CASE Tick
  <2>1. Beat
    BY <1>2 DEF Tick
  <2>2. CASE BacklogCut \/ \E severe \in BOOLEAN : TailCut(severe)
    BY <2>1, <2>2, CutsKeepLaw
  <2>3. CASE NoReport \/ TailHold
    BY <2>1, <2>3, HoldsKeepLaw
  <2>4. CASE Judged
    BY <2>1, <2>4, LossCutsKeepLaw, CleanTickKeepsLaw DEF Judged, Loss
  <2>5. QED
    BY <1>2, <2>2, <2>3, <2>4 DEF Tick
<1>3. CASE UNCHANGED rateVars
  <2>1. kbps \in Int /\ soft \in Int
    BY RateBounds DEF RateInv, RateTypeOK
  <2>2. QED
    BY <1>3, <2>1 DEF rateVars, law, paceVars, history, RateInv, RateTypeOK, KeepsLaw
<1>4. QED
  BY <1>1, <1>2, <1>3 DEF RateNext

LEMMA LawAlways == RateSpec => []RateInv
<1>1. RateInit => RateInv
  BY InitIsLawful
<1>2. RateInv /\ [RateNext]_rateVars => RateInv'
  BY StepKeepsLaw DEF KeepsLaw
<1>3. QED
  BY <1>1, <1>2, PTL DEF RateSpec

\* The rate stays between the floor and the ceiling of the session, the pace
\* between the fallback's and the worker's, whatever is reported.
THEOREM RateTypeCorrect == RateSpec => []RateTypeOK
<1>1. RateInv => RateTypeOK
  BY DEF RateInv
<1>2. QED
  BY <1>1, LawAlways, PTL

\* The tick after a cut does not raise the rate, the two after a harsh one do
\* not whatever happens in them, and the third does not unless a gentler cut
\* in between replaced its cooldown ("fast cut, slow climb").
THEOREM NoEarlyClimb == RateSpec => NoClimbAfterCut
<1>1. RateInv /\ [RateNext]_rateVars => [kbps' > kbps => OldEnough]_rateVars
  BY StepKeepsLaw DEF KeepsLaw
<1>2. QED
  BY <1>1, LawAlways, PTL DEF RateSpec, NoClimbAfterCut, OldEnough

\* The cuts of one bad stretch do not lower the ceiling the first one noted
\* (first_objection_of_episode).
THEOREM CeilingDoesNotRatchet == RateSpec => NoRatchet
<1>1. RateInv /\ [RateNext]_rateVars => [episode /\ soft # 0 /\ soft' # 0 => soft' >= soft]_rateVars
  BY StepKeepsLaw DEF KeepsLaw
<1>2. QED
  BY <1>1, LawAlways, PTL DEF RateSpec, NoRatchet

=============================================================================
