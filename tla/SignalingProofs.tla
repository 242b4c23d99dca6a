--------------------------- MODULE SignalingProofs ---------------------------
(***************************************************************************)
(* Type correctness of the signaling links and safety of the session slot, *)
(* for every set of links, previews and admins and every value of the      *)
(* bounds.  SlotSteps sorts the steps of Signaling by what they do to the  *)
(* slot, the tickets and the readiness record; the invariants, and the     *)
(* refinement of PlayerSlot, then take five cases.                         *)
(***************************************************************************)
EXTENDS Signaling, TLAPS

-----------------------------------------------------------------------------
(* Type correctness *)

LEMMA TransitionType ==
  ASSUME SlotTypeOK, NEW next \in States, Transition(next)
  PROVE  SlotTypeOK'
  BY DEF SlotTypeOK, Transition, Settled, States

LEMMA InstallType ==
  ASSUME SlotTypeOK, NEW l \in Links, InstallPlayer(l)
  PROVE  SlotTypeOK'
  BY DEF SlotTypeOK, InstallPlayer, NewPlayer, States, Players

LEMMA MarkReadyType ==
  ASSUME SlotTypeOK, MarkReady
  PROVE  SlotTypeOK'
  BY DEF SlotTypeOK, MarkReady, WithPlayer, Players

LEMMA SentType ==
  ASSUME TypeOK, NEW l \in Links, NEW m \in {"Ready", "Failed"}
  PROVE  Sent(l, m) \in [Links -> Seq({"Ready", "Failed"})]
  BY DEF TypeOK, Sent

\* A move of one link's program counter keeps the typing of pc.
PcTypeOK ==
  /\ pc \in [Callers -> LinkPcs \cup AdminPcs]
  /\ \A l \in Links : pc[l] \in LinkPcs
  /\ \A a \in Admins : pc[a] \in AdminPcs

LEMMA LinkGoto ==
  ASSUME PcTypeOK, NEW l \in Links, NEW to \in LinkPcs,
         pc' = [pc EXCEPT ![l] = to]
  PROVE  PcTypeOK'
  BY AdminsAreNotLinks DEF PcTypeOK, Callers

LEMMA CallerGoto ==
  ASSUME PcTypeOK, NEW c \in Callers, NEW to \in LinkPcs \cup AdminPcs,
         c \in Links => to \in LinkPcs, c \in Admins => to \in AdminPcs,
         pc' = [pc EXCEPT ![c] = to]
  PROVE  PcTypeOK'
  BY AdminsAreNotLinks DEF PcTypeOK, Callers

LEMMA TypeInit == Init => TypeOK
  BY BoundsAreNat, AdminsAreNotLinks
  DEF Init, TypeOK, SlotInit, SlotTypeOK, States, Callers, LinkPcs, AdminPcs,
      PumpStates

USE DEF ForcePcs, ClaimPcs, ServePcs, ClosePcs

LEMMA TypeClaim ==
  ASSUME TypeOK, NEW l \in Links,
         \/ Connect(l) \/ ClaimCheck(l) \/ SettleCheck(l) \/ SettleWake(l) \/ Install(l)
  PROVE  TypeOK'
<1> USE DEF TypeOK, linkVars, pumpVars, envVars, sessionVars, slot
<1>0. PcTypeOK
  BY DEF PcTypeOK
<1>1. CASE Connect(l)
  <2>1. PcTypeOK'
    BY <1>0, <1>1, LinkGoto DEF Connect, Goto, LinkPcs
  <2> QED BY <1>1, <2>1 DEF Connect, SlotTypeOK, PcTypeOK
<1>2. CASE ClaimCheck(l)
  <2>1. PcTypeOK'
    BY <1>0, <1>2, LinkGoto DEF ClaimCheck, LinkPcs
  <2> QED BY <1>2, <2>1 DEF ClaimCheck, SlotTypeOK, PcTypeOK
<1>3. CASE SettleCheck(l)
  <2>1. PcTypeOK'
    BY <1>0, <1>3, LinkGoto DEF SettleCheck, LinkPcs
  <2>2. rounds' \in [Links -> 0..MaxRounds] /\ settle' \subseteq Links
    <3>1. CASE rounds' = rounds /\ settle' = settle
      BY <3>1 DEF SlotTypeOK
    <3>2. CASE /\ rounds[l] < MaxRounds
               /\ rounds' = [rounds EXCEPT ![l] = @ + 1]
               /\ settle' = settle \cup {l}
      <4>1. rounds[l] + 1 \in 0..MaxRounds
        BY <3>2, BoundsAreNat
      <4> QED BY <3>2, <4>1 DEF SlotTypeOK
    <3> QED BY <1>3, <3>1, <3>2 DEF SettleCheck
  <2> QED BY <1>3, <2>1, <2>2 DEF SettleCheck, SlotTypeOK, PcTypeOK
<1>4. CASE SettleWake(l)
  <2>1. PcTypeOK'
    BY <1>0, <1>4, LinkGoto DEF SettleWake, Goto, LinkPcs
  <2> QED BY <1>4, <2>1 DEF SettleWake, SlotTypeOK, PcTypeOK
<1>5. CASE Install(l)
  <2>1. PcTypeOK'
    BY <1>0, <1>5, LinkGoto DEF Install, Goto, LinkPcs
  <2>2. SlotTypeOK'
    BY <1>5, InstallType DEF Install
  <2>3. myTicket' \in [Links -> Nat]
    BY <1>5 DEF Install, SlotTypeOK
  <2> QED BY <1>5, <2>1, <2>2, <2>3 DEF Install, PcTypeOK
<1> QED BY <1>1, <1>2, <1>3, <1>4, <1>5

LEMMA TypeForce ==
  ASSUME TypeOK, NEW c \in Callers, ForceStep(c)
  PROVE  TypeOK'
<1> USE DEF TypeOK, linkVars, pumpVars, envVars, sessionVars, slot
<1>0. PcTypeOK
  BY DEF PcTypeOK
<1>r. Returned(c) \in LinkPcs \cup AdminPcs
      /\ (c \in Links => Returned(c) \in LinkPcs)
      /\ (c \in Admins => Returned(c) \in AdminPcs)
  BY AdminsAreNotLinks DEF Returned, Callers, LinkPcs, AdminPcs
<1>1. CASE ForceBye(c)
  <2>1. PcTypeOK'
    BY <1>0, <1>1, CallerGoto DEF ForceBye, Goto, LinkPcs, AdminPcs
  <2> QED BY <1>1, <2>1 DEF ForceBye, SlotTypeOK, PcTypeOK, Players
<1>2. CASE ForceProbe(c)
  <2>1. PcTypeOK'
    <3>1. pc' = pc \/ pc' = [pc EXCEPT ![c] = "fdStop"]
          \/ pc' = [pc EXCEPT ![c] = Returned(c)]
      BY <1>2 DEF ForceProbe
    <3>2. "fdStop" \in LinkPcs /\ "fdStop" \in AdminPcs
      BY DEF LinkPcs, AdminPcs
    <3>3. CASE pc' = pc
      BY <1>0, <3>3 DEF PcTypeOK
    <3>4. CASE pc' = [pc EXCEPT ![c] = "fdStop"]
      BY <1>0, <3>4, <3>2, CallerGoto
    <3>5. CASE pc' = [pc EXCEPT ![c] = Returned(c)]
      BY <1>0, <3>5, <1>r, CallerGoto
    <3> QED BY <3>1, <3>3, <3>4, <3>5
  <2>2. probe' \in [Callers -> 1..4]
    <3>1. Len(ProbeOrder) = 4
      BY DEF ProbeOrder
    <3>2. CASE probe' = [probe EXCEPT ![c] = 1]
      BY <3>2
    <3>3. CASE ~LastProbe(c) /\ probe' = [probe EXCEPT ![c] = @ + 1]
      <4>1. probe[c] # 4
        BY <3>1, <3>3 DEF LastProbe
      <4>2. probe[c] \in 1..4
        OBVIOUS
      <4>3. probe[c] + 1 \in 1..4
        BY <4>1, <4>2
      <4> QED BY <3>3, <4>3
    <3> QED BY <1>2, <3>2, <3>3 DEF ForceProbe
  <2> QED BY <1>2, <2>1, <2>2 DEF ForceProbe, SlotTypeOK, PcTypeOK
<1>3. CASE ForceStop(c)
  <2>1. PcTypeOK'
    BY <1>0, <1>3, <1>r, CallerGoto DEF ForceStop, Goto
  <2>2. SlotTypeOK'
    BY <1>3, TransitionType DEF ForceStop, States
  <2> QED BY <1>3, <2>1, <2>2 DEF ForceStop, PcTypeOK
<1> QED BY <1>1, <1>2, <1>3 DEF ForceStep

LEMMA TypeServe ==
  ASSUME TypeOK, NEW l \in Links,
         \/ SetController(l) \/ Wire(l) \/ Receive(l) \/ ReceiveClosed(l)
         \/ Hello(l) \/ CaptureUnavailable(l) \/ Build(l) \/ Negotiate(l)
         \/ BuildFailed(l)
  PROVE  TypeOK'
<1> USE DEF TypeOK, linkVars, pumpVars, envVars, sessionVars, slot
<1>0. PcTypeOK
  BY DEF PcTypeOK
<1>1. CASE SetController(l)
  <2>1. PcTypeOK'
    BY <1>0, <1>1, LinkGoto DEF SetController, Goto, LinkPcs
  <2>2. SlotTypeOK'
    BY <1>1 DEF SetController, WithPlayer, SlotTypeOK, Players
  <2> QED BY <1>1, <2>1, <2>2 DEF SetController, PcTypeOK
<1>2. CASE Wire(l)
  <2>1. PcTypeOK'
    BY <1>0, <1>2, LinkGoto DEF Wire, Goto, LinkPcs
  <2> QED BY <1>2, <2>1 DEF Wire, SlotTypeOK, PcTypeOK, PumpStates
<1>3. CASE Receive(l)
  <2>1. PICK next \in {"hello", "capture", "endCheck"} :
             pc' = [pc EXCEPT ![l] = next]
    BY <1>3 DEF Receive
  <2>2. PcTypeOK'
    BY <1>0, <2>1, LinkGoto DEF LinkPcs
  <2> QED BY <1>3, <2>2 DEF Receive, SlotTypeOK, PcTypeOK
<1>4. CASE ReceiveClosed(l)
  <2>1. PcTypeOK'
    BY <1>0, <1>4, LinkGoto DEF ReceiveClosed, Goto, LinkPcs
  <2> QED BY <1>4, <2>1 DEF ReceiveClosed, SlotTypeOK, PcTypeOK
<1>5. CASE Hello(l)
  <2>1. PcTypeOK'
    BY <1>0, <1>5, LinkGoto DEF Hello, Goto, LinkPcs
  <2>2. SlotTypeOK'
    BY <1>5 DEF Hello, WithPlayer, SlotTypeOK, Players
  <2> QED BY <1>5, <2>1, <2>2 DEF Hello, PcTypeOK
<1>6. CASE CaptureUnavailable(l)
  <2>1. PcTypeOK'
    BY <1>0, <1>6, LinkGoto DEF CaptureUnavailable, Goto, LinkPcs
  <2>2. SlotTypeOK'
    BY <1>6, TransitionType DEF CaptureUnavailable, States
  <2> QED BY <1>6, <2>1, <2>2 DEF CaptureUnavailable, PcTypeOK
<1>7. CASE Build(l)
  <2>1. PICK next \in {"endCheck", "negotiate", "buildFailed"} :
             pc' = [pc EXCEPT ![l] = next]
    BY <1>7 DEF Build
  <2>2. PcTypeOK'
    BY <1>0, <2>1, LinkGoto DEF LinkPcs
  <2>3. player' \in Players \cup {NoPlayer}
    <3>1. CASE player = NoPlayer
      BY <1>7, <3>1 DEF Build, SlotTypeOK
    <3>2. CASE player # NoPlayer
      <4>1. PICK built \in {l, player.pipeline} :
                 player' = [player EXCEPT !.config = l, !.sink = l,
                                          !.readyPending = FALSE,
                                          !.pipeline = built]
        BY <1>7, <3>2 DEF Build
      <4> QED BY <3>2, <4>1 DEF SlotTypeOK, Players
    <3> QED BY <3>1, <3>2
  <2>4. media' \in [Links -> Seq({"Ready", "Failed"})]
    BY <1>7, SentType DEF Build
  <2> QED BY <1>7, <2>2, <2>3, <2>4 DEF Build, SlotTypeOK, PcTypeOK
<1>8. CASE Negotiate(l)
  <2>1. PcTypeOK'
    BY <1>0, <1>8, LinkGoto DEF Negotiate, Goto, LinkPcs
  <2>2. SlotTypeOK'
    BY <1>8, TransitionType DEF Negotiate, States
  <2> QED BY <1>8, <2>1, <2>2 DEF Negotiate, PcTypeOK
<1>9. CASE BuildFailed(l)
  <2>1. PcTypeOK'
    BY <1>0, <1>9, LinkGoto DEF BuildFailed, Goto, LinkPcs
  <2>2. SlotTypeOK'
    BY <1>9, TransitionType DEF BuildFailed, States
  <2> QED BY <1>9, <2>1, <2>2 DEF BuildFailed, PcTypeOK
<1> QED BY <1>1, <1>2, <1>3, <1>4, <1>5, <1>6, <1>7, <1>8, <1>9

LEMMA TypeClose ==
  ASSUME TypeOK, NEW l \in Links, EndCheck(l) \/ EndStop(l) \/ Close(l)
  PROVE  TypeOK'
<1> USE DEF TypeOK, linkVars, pumpVars, envVars, sessionVars, slot
<1>0. PcTypeOK
  BY DEF PcTypeOK
<1>1. CASE EndCheck(l)
  <2>1. PcTypeOK'
    BY <1>0, <1>1, LinkGoto DEF EndCheck, Goto, LinkPcs
  <2> QED BY <1>1, <2>1 DEF EndCheck, SlotTypeOK, PcTypeOK
<1>2. CASE EndStop(l)
  <2>1. PcTypeOK'
    BY <1>0, <1>2, LinkGoto DEF EndStop, Goto, LinkPcs
  <2>2. SlotTypeOK'
    BY <1>2, TransitionType DEF EndStop, States
  <2> QED BY <1>2, <2>1, <2>2 DEF EndStop, PcTypeOK
<1>3. CASE Close(l)
  <2>1. PcTypeOK'
    BY <1>0, <1>3, LinkGoto DEF Close, Goto, LinkPcs
  <2>2. pump' \in [Links -> PumpStates]
    BY <1>3 DEF Close, PumpStates
  <2>3. media' \in [Links -> Seq({"Ready", "Failed"})]
    BY <1>3 DEF Close
  <2> QED BY <1>3, <2>1, <2>2, <2>3 DEF Close, SlotTypeOK, PcTypeOK
<1> QED BY <1>1, <1>2, <1>3

LEMMA TypePump ==
  ASSUME TypeOK, NEW l \in Links, PumpStep(l) \/ PumpBreaks(l)
  PROVE  TypeOK'
<1> USE DEF TypeOK, linkVars, pumpVars, envVars, sessionVars, slot
<1>1. CASE PumpReady(l)
  <2>1. media' \in [Links -> Seq({"Ready", "Failed"})]
    BY <1>1 DEF PumpReady
  <2>2. pump' \in [Links -> PumpStates]
    BY <1>1 DEF PumpReady, PumpStates
  <2> QED BY <1>1, <2>1, <2>2 DEF PumpReady, SlotTypeOK
<1>2. CASE PumpPlaying(l)
  <2>1. SlotTypeOK'
    BY <1>2, TransitionType DEF PumpPlaying, States
  <2>2. pump' \in [Links -> PumpStates]
    BY <1>2 DEF PumpPlaying, PumpStates
  <2> QED BY <1>2, <2>1, <2>2 DEF PumpPlaying
<1>3. CASE PumpMarkReady(l)
  <2>1. SlotTypeOK'
    BY <1>3, MarkReadyType DEF PumpMarkReady
  <2>2. pump' \in [Links -> PumpStates]
    BY <1>3 DEF PumpMarkReady, PumpStates
  <2>3. media' \in [Links -> Seq({"Ready", "Failed"})]
    <3>1. media' = media \/ media' = [media EXCEPT ![l] = <<>>]
      BY <1>3 DEF PumpMarkReady
    <3>2. <<>> \in Seq({"Ready", "Failed"})
      OBVIOUS
    <3>3. media \in [Links -> Seq({"Ready", "Failed"})]
      OBVIOUS
    <3> HIDE DEF TypeOK
    <3> QED BY <3>1, <3>2, <3>3
  <2>4. ready' \in Seq(Nat)
    BY <1>3 DEF PumpMarkReady, SlotTypeOK
  <2> QED BY <1>3, <2>1, <2>2, <2>3, <2>4 DEF PumpMarkReady
<1>4. CASE PumpFailed(l)
  <2>1. SlotTypeOK'
    BY <1>4, TransitionType DEF PumpFailed, States
  <2>2. media' \in [Links -> Seq({"Ready", "Failed"})]
    BY <1>4 DEF PumpFailed
  <2> QED BY <1>4, <2>1, <2>2 DEF PumpFailed
<1>5. CASE PumpBreaks(l)
  BY <1>5 DEF PumpBreaks, SlotTypeOK, PumpStates
<1> QED BY <1>1, <1>2, <1>3, <1>4, <1>5 DEF PumpStep

LEMMA TypeEnv ==
  ASSUME TypeOK,
         \/ WtConnected \/ HttpStop
         \/ \E l \in Links : Dial(l) \/ Leave(l)
         \/ \E m \in {"Ready", "Failed"} : IceState(m)
         \/ \E a \in Admins : AdminCall(a)
  PROVE  TypeOK'
<1> USE DEF TypeOK, linkVars, pumpVars, envVars, sessionVars, slot
<1>1. CASE WtConnected
  <2>1. SlotTypeOK'
    BY <1>1 DEF WtConnected, WithPlayer, SlotTypeOK, Players
  <2>2. media' \in [Links -> Seq({"Ready", "Failed"})]
    <3>1. player # NoPlayer /\ player.sink # NoLink => player.sink \in Links
      BY DEF SlotTypeOK, Players
    <3> QED BY <1>1, <3>1, SentType DEF WtConnected
  <2>3. wtEvents' \in Seq(Links)
    BY <1>1 DEF WtConnected
  <2> QED BY <1>1, <2>1, <2>2, <2>3 DEF WtConnected
<1>2. CASE HttpStop
  <2>1. SlotTypeOK'
    BY <1>2, TransitionType DEF HttpStop, States
  <2> QED BY <1>2, <2>1 DEF HttpStop
<1>3. ASSUME NEW l \in Links, Dial(l)
      PROVE  TypeOK'
  <2>1. dials[l] + 1 \in 0..MaxDials
    <3>1. dials[l] \in 0..MaxDials /\ dials[l] < MaxDials
      BY <1>3 DEF Dial
    <3> QED BY <3>1, BoundsAreNat
  <2>2. dials' \in [Links -> 0..MaxDials]
    BY <1>3, <2>1 DEF Dial
  <2>3. wtEvents' \in Seq(Links)
    BY <1>3 DEF Dial
  <2> QED BY <1>3, <2>2, <2>3 DEF Dial, SlotTypeOK
<1>4. ASSUME NEW l \in Links, Leave(l)
      PROVE  TypeOK'
  BY <1>4 DEF Leave, SlotTypeOK
<1>5. ASSUME NEW m \in {"Ready", "Failed"}, IceState(m)
      PROVE  TypeOK'
  <2>1. player.pipeline \in Links
    BY <1>5, AnswerersAreLinks DEF IceState
  <2>2. media' \in [Links -> Seq({"Ready", "Failed"})]
    BY <1>5, <2>1, SentType DEF IceState
  <2> QED BY <1>5, <2>2 DEF IceState, SlotTypeOK
<1>6. ASSUME NEW a \in Admins, AdminCall(a)
      PROVE  TypeOK'
  <2>1. PcTypeOK
    BY DEF PcTypeOK
  <2>2. PcTypeOK'
    BY <1>6, <2>1, CallerGoto, AdminsAreNotLinks
    DEF AdminCall, Goto, Callers, LinkPcs, AdminPcs
  <2> QED BY <1>6, <2>2 DEF AdminCall, SlotTypeOK, PcTypeOK
<1> QED BY <1>1, <1>2, <1>3, <1>4, <1>5, <1>6

LEMMA TypeStep == TypeOK /\ [Next]_vars => TypeOK'
<1> SUFFICES ASSUME TypeOK, [Next]_vars PROVE TypeOK'
  OBVIOUS
<1>1. ASSUME NEW l \in Links, LinkStep(l) PROVE TypeOK'
  BY <1>1, TypeClaim, TypeForce, TypeServe, TypeClose DEF LinkStep, Callers
<1>2. ASSUME NEW l \in Links, PumpStep(l) PROVE TypeOK'
  BY <1>2, TypePump
<1>3. ASSUME NEW l \in Links, ClientStep(l) PROVE TypeOK'
  BY <1>3, TypeClaim, TypeServe, TypePump, TypeEnv DEF ClientStep
<1>4. ASSUME NEW a \in Admins, AdminCall(a) \/ ForceStep(a) PROVE TypeOK'
  BY <1>4, TypeForce, TypeEnv DEF Callers
<1>5. CASE WtConnected \/ HttpStop \/ \E m \in {"Ready", "Failed"} : IceState(m)
  BY <1>5, TypeEnv
<1>6. CASE UNCHANGED vars
  BY <1>6 DEF vars, sessionVars, linkVars, pumpVars, envVars, TypeOK, SlotTypeOK
<1> QED BY <1>1, <1>2, <1>3, <1>4, <1>5, <1>6 DEF Next

\* Every variable keeps its type in every reachable state of the links, the
\* pumps, the admins and the slot, whatever the number of links.
THEOREM TypeCorrect == Spec => []TypeOK
  BY TypeInit, TypeStep, PTL DEF Spec

-----------------------------------------------------------------------------
(* The slot *)

\* A step that leaves the session, its owner, its arming and the tickets alone.
KeepsSession ==
  /\ UNCHANGED <<state, ticket, myTicket, ready>>
  /\ player = NoPlayer => player' = NoPlayer
  /\ player # NoPlayer =>
       /\ player' # NoPlayer
       /\ player'.link = player.link
       /\ player'.armed = player.armed
       /\ player'.mediaReady = player.mediaReady

\* A step that asks for a state transition.
MovesState(next) == Transition(next) /\ UNCHANGED <<myTicket, ready>>

\* A claim's last lock region.
TakesSlot(l) ==
  /\ pc[l] = "install"
  /\ InstallPlayer(l)
  /\ myTicket' = [myTicket EXCEPT ![l] = ticket + 1]
  /\ UNCHANGED ready

\* A pump's mark_ready.
MarksReady ==
  /\ MarkReady
  /\ ready' = IF ReadyIsNews THEN Append(ready, ticket) ELSE ready
  /\ UNCHANGED myTicket

SlotStep ==
  \/ KeepsSession
  \/ \E next \in {"Negotiating", "Playing", "Stopping"} : MovesState(next)
  \/ \E l \in Links : TakesSlot(l)
  \/ MarksReady

LEMMA UnchangedKeeps ==
  ASSUME UNCHANGED <<state, player, ticket, myTicket, ready>>
  PROVE  KeepsSession
  BY DEF KeepsSession

\* with_player closures that touch none of link, armed and mediaReady.
LEMMA UpdateKeeps ==
  ASSUME TypeOK, player # NoPlayer,
         NEW p \in Players, player' = p, p.link = player.link,
         p.armed = player.armed, p.mediaReady = player.mediaReady,
         UNCHANGED <<state, ticket, myTicket, ready>>
  PROVE  KeepsSession
  BY NoPlayerIsNone DEF KeepsSession

\* mark_ready keeps the player's link, and arms it unless it is a preview.
LEMMA MarkReadyKeeps ==
  ASSUME TypeOK, MarkReady
  PROVE  /\ UNCHANGED <<state, ticket>>
         /\ player = NoPlayer <=> player' = NoPlayer
         /\ player # NoPlayer =>
              /\ player'.link = player.link
              /\ player'.mediaReady
              /\ IF player.mediaReady THEN player'.armed = player.armed
                 ELSE player'.armed <=> player.armed \/ player.link \notin PreviewLinks
<1>1. UNCHANGED <<state, ticket>>
  BY DEF MarkReady, WithPlayer
<1>2. CASE player = NoPlayer
  BY <1>2 DEF MarkReady, WithPlayer
<1>3. CASE player # NoPlayer
  <2>1. player \in Players
    BY <1>3 DEF TypeOK, SlotTypeOK
  <2>2. CASE player.mediaReady
    BY <1>1, <1>3, <2>1, <2>2 DEF MarkReady, WithPlayer
  <2>3. CASE ~player.mediaReady
    <3> DEFINE arm == player.armed \/ player.link \notin PreviewLinks
    <3>1. player' = [player EXCEPT !.mediaReady = TRUE, !.armed = arm]
      BY <1>3, <2>3 DEF MarkReady, WithPlayer
    <3>2. arm \in BOOLEAN
      BY <2>1 DEF Players
    <3> HIDE DEF arm
    <3>3. /\ player' \in Players
          /\ player'.link = player.link
          /\ player'.mediaReady
          /\ player'.armed = arm
      BY <2>1, <3>1, <3>2 DEF Players
    <3> QED BY <1>1, <1>3, <2>3, <3>3, NoPlayerIsNone DEF arm
  <2> QED BY <2>2, <2>3
<1> QED BY <1>1, <1>2, <1>3

LEMMA SlotSteps ==
  ASSUME TypeOK, [Next]_vars
  PROVE  SlotStep
<1> USE DEF sessionVars, slot, linkVars, pumpVars, envVars
<1>p. player # NoPlayer => player \in Players
  BY DEF TypeOK, SlotTypeOK
<1>1. ASSUME NEW l \in Links, LinkStep(l)
      PROVE  SlotStep
  <2>1. CASE ClaimCheck(l) \/ SettleCheck(l) \/ SettleWake(l) \/ Wire(l)
             \/ ReceiveClosed(l) \/ EndCheck(l) \/ Close(l)
    BY <2>1, UnchangedKeeps
    DEF SlotStep, ClaimCheck, SettleCheck, SettleWake, Wire, ReceiveClosed,
        EndCheck, Close
  <2>2. CASE ForceStep(l)
    BY <2>2, UnchangedKeeps
    DEF SlotStep, ForceStep, ForceBye, ForceProbe, ForceStop, MovesState
  <2>3. CASE Install(l)
    BY <2>3 DEF SlotStep, Install, Goto, TakesSlot
  <2>4. CASE SetController(l)
    <3>1. CASE player = NoPlayer
      BY <2>4, <3>1, UnchangedKeeps DEF SlotStep, SetController, WithPlayer
    <3>2. CASE player # NoPlayer
      BY <2>4, <3>2, <1>p, UpdateKeeps DEF SlotStep, SetController, WithPlayer, Players
    <3> QED BY <3>1, <3>2
  <2>5. CASE Hello(l)
    <3>1. CASE player = NoPlayer
      BY <2>5, <3>1, UnchangedKeeps DEF SlotStep, Hello, WithPlayer
    <3>2. CASE player # NoPlayer
      BY <2>5, <3>2, <1>p, UpdateKeeps DEF SlotStep, Hello, WithPlayer, Players
    <3> QED BY <3>1, <3>2
  <2>6. CASE Build(l)
    <3>1. CASE player = NoPlayer
      BY <2>6, <3>1, UnchangedKeeps DEF SlotStep, Build
    <3>2. CASE player # NoPlayer
      <4>1. PICK built \in {l, player.pipeline} :
                 player' = [player EXCEPT !.config = l, !.sink = l,
                                          !.readyPending = FALSE,
                                          !.pipeline = built]
        BY <2>6, <3>2 DEF Build
      <4>2. /\ player' \in Players
            /\ player'.link = player.link
            /\ player'.armed = player.armed
            /\ player'.mediaReady = player.mediaReady
        BY <3>2, <4>1, <1>p DEF Players
      <4>3. UNCHANGED <<state, ticket, myTicket, ready>>
        BY <2>6 DEF Build
      <4> QED BY <3>2, <4>2, <4>3, UpdateKeeps DEF SlotStep
    <3> QED BY <3>1, <3>2
  <2>7. CASE CaptureUnavailable(l) \/ Negotiate(l) \/ BuildFailed(l) \/ EndStop(l)
    BY <2>7
    DEF SlotStep, CaptureUnavailable, Negotiate, BuildFailed, EndStop, MovesState
  <2> QED BY <1>1, <2>1, <2>2, <2>3, <2>4, <2>5, <2>6, <2>7 DEF LinkStep
<1>2. ASSUME NEW l \in Links, PumpStep(l)
      PROVE  SlotStep
  <2>1. CASE PumpReady(l)
    BY <2>1, UnchangedKeeps DEF SlotStep, PumpReady
  <2>2. CASE PumpPlaying(l) \/ PumpFailed(l)
    BY <2>2 DEF SlotStep, PumpPlaying, PumpFailed, MovesState
  <2>3. CASE PumpMarkReady(l)
    BY <2>3 DEF SlotStep, PumpMarkReady, MarksReady
  <2> QED BY <1>2, <2>1, <2>2, <2>3 DEF PumpStep
<1>3. ASSUME NEW l \in Links, ClientStep(l)
      PROVE  SlotStep
  <2>1. UNCHANGED <<state, player, ticket, myTicket, ready>>
    <3>1. CASE Connect(l) \/ PumpBreaks(l)
      BY <3>1 DEF Connect, PumpBreaks
    <3>2. CASE Receive(l)
      BY <3>2 DEF Receive
    <3>3. CASE Dial(l)
      BY <3>3 DEF Dial
    <3>4. CASE Leave(l)
      BY <3>4 DEF Leave
    <3> QED BY <1>3, <3>1, <3>2, <3>3, <3>4 DEF ClientStep
  <2> QED BY <2>1, UnchangedKeeps DEF SlotStep
<1>4. ASSUME NEW a \in Admins, AdminCall(a) \/ ForceStep(a)
      PROVE  SlotStep
  BY <1>4, UnchangedKeeps
  DEF SlotStep, AdminCall, ForceStep, ForceBye, ForceProbe, ForceStop, MovesState
<1>5. CASE WtConnected
  <2>1. CASE player = NoPlayer
    BY <1>5, <2>1, UnchangedKeeps DEF SlotStep, WtConnected, WithPlayer
  <2>2. CASE player # NoPlayer
    <3>1. player' = player \/ player' = [player EXCEPT !.readyPending = TRUE]
      BY <1>5, <2>2 DEF WtConnected, WithPlayer
    <3>2. /\ player' \in Players
          /\ player'.link = player.link
          /\ player'.armed = player.armed
          /\ player'.mediaReady = player.mediaReady
      BY <2>2, <3>1, <1>p DEF Players
    <3>3. UNCHANGED <<state, ticket, myTicket, ready>>
      BY <1>5 DEF WtConnected, WithPlayer
    <3> QED BY <2>2, <3>2, <3>3, UpdateKeeps DEF SlotStep
  <2> QED BY <2>1, <2>2
<1>6. CASE HttpStop
  BY <1>6 DEF SlotStep, HttpStop, MovesState
<1>7. CASE \E m \in {"Ready", "Failed"} : IceState(m)
  BY <1>7, UnchangedKeeps DEF SlotStep, IceState
<1>8. CASE UNCHANGED vars
  BY <1>8, UnchangedKeeps DEF SlotStep, vars
<1> QED BY <1>1, <1>2, <1>3, <1>4, <1>5, <1>6, <1>7, <1>8 DEF Next

-----------------------------------------------------------------------------
(* The inductive invariant *)

\* A link that has not installed yet has no ticket.
FreshClaims ==
  \A l \in Links : pc[l] \in {"new", "refused"} \cup ClaimPcs => myTicket[l] = 0

\* The tickets, without the program counters.
TicketOrder ==
  /\ \A l \in Links : myTicket[l] <= ticket
  /\ \A l, m \in Links : myTicket[l] = myTicket[m] /\ myTicket[l] # 0 => l = m
  /\ player # NoPlayer => ticket # 0 /\ myTicket[player.link] = ticket

LEMMA IInvInit == Init => IInv
<1> SUFFICES ASSUME Init PROVE IInv
  OBVIOUS
<1>1. TypeOK
  BY TypeInit
<1>2. SlotConsistent /\ state # "Reconnecting" /\ PreviewNeverArmed
  BY DEF Init, SlotInit, SlotConsistent, PreviewNeverArmed
<1>3. TicketsExact
  BY DEF Init, SlotInit, TicketsExact
<1>4. ReadyExact
  BY DEF Init, SlotInit, ReadyExact, ReadyOncePerSession
<1> QED BY <1>1, <1>2, <1>3, <1>4 DEF IInv

LEMMA StepSlotConsistent ==
  ASSUME TypeOK, SlotConsistent, state # "Reconnecting", SlotStep
  PROVE  SlotConsistent' /\ state' # "Reconnecting"
<1>1. CASE KeepsSession
  BY <1>1 DEF KeepsSession, SlotConsistent
<1>2. ASSUME NEW next \in {"Negotiating", "Playing", "Stopping"}, MovesState(next)
      PROVE  SlotConsistent' /\ state' # "Reconnecting"
  BY <1>2 DEF MovesState, Transition, CanTransitionTo, Edges, Settled, SlotConsistent
<1>3. ASSUME NEW l \in Links, TakesSlot(l)
      PROVE  SlotConsistent' /\ state' # "Reconnecting"
  <2>1. player' \in Players
    BY <1>3 DEF TakesSlot, InstallPlayer, NewPlayer, Players
  <2> QED BY <1>3, <2>1, NoPlayerIsNone DEF TakesSlot, InstallPlayer, SlotConsistent
<1>4. CASE MarksReady
  <2>1. player = NoPlayer <=> player' = NoPlayer
    BY <1>4, MarkReadyKeeps DEF MarksReady
  <2> QED BY <1>4, <2>1 DEF MarksReady, MarkReady, WithPlayer, SlotConsistent
<1> QED BY <1>1, <1>2, <1>3, <1>4 DEF SlotStep

LEMMA StepTicketOrder ==
  ASSUME TypeOK, TicketOrder, SlotStep
  PROVE  TicketOrder'
<1>t. ticket \in Nat /\ myTicket \in [Links -> Nat]
  BY DEF TypeOK, SlotTypeOK
<1>p. player # NoPlayer => player.link \in Links
  BY DEF TypeOK, SlotTypeOK, Players
<1>1. CASE KeepsSession
  BY <1>1 DEF KeepsSession, TicketOrder
<1>2. ASSUME NEW next \in {"Negotiating", "Playing", "Stopping"}, MovesState(next)
      PROVE  TicketOrder'
  BY <1>2 DEF MovesState, Transition, TicketOrder
<1>3. ASSUME NEW l \in Links, TakesSlot(l)
      PROVE  TicketOrder'
  <2>1. /\ ticket' = ticket + 1
        /\ myTicket' = [myTicket EXCEPT ![l] = ticket + 1]
        /\ player'.link = l
    BY <1>3 DEF TakesSlot, InstallPlayer, NewPlayer
  <2>2. \A m \in Links : myTicket'[m] <= ticket'
    BY <1>t, <2>1 DEF TicketOrder
  <2>3. \A m, n \in Links : myTicket'[m] = myTicket'[n] /\ myTicket'[m] # 0 => m = n
    BY <1>t, <2>1 DEF TicketOrder
  <2>4. ticket' # 0 /\ myTicket'[player'.link] = ticket'
    BY <1>t, <2>1
  <2> QED BY <2>2, <2>3, <2>4 DEF TicketOrder
<1>4. CASE MarksReady
  BY <1>4, MarkReadyKeeps DEF MarksReady, TicketOrder
<1> QED BY <1>1, <1>2, <1>3, <1>4 DEF SlotStep

LEMMA StepReady ==
  ASSUME TypeOK, ReadyExact, SlotStep
  PROVE  ReadyExact'
<1>t. ticket \in Nat /\ ready \in Seq(Nat)
  BY DEF TypeOK, SlotTypeOK
<1>1. CASE KeepsSession
  BY <1>1 DEF KeepsSession, ReadyExact, ReadyOncePerSession
<1>2. ASSUME NEW next \in {"Negotiating", "Playing", "Stopping"}, MovesState(next)
      PROVE  ReadyExact'
  BY <1>2 DEF MovesState, Transition, ReadyExact, ReadyOncePerSession
<1>3. ASSUME NEW l \in Links, TakesSlot(l)
      PROVE  ReadyExact'
  <2>1. ticket' = ticket + 1 /\ ready' = ready
    BY <1>3 DEF TakesSlot, InstallPlayer
  <2>2. \A i \in 1..Len(ready) : ready[i] \in Nat /\ ready[i] <= ticket
    BY <1>t DEF ReadyExact
  <2>3. \A i \in 1..Len(ready) : ready[i] <= ticket + 1 /\ ready[i] # ticket + 1
    BY <1>t, <2>2
  <2> QED BY <2>1, <2>3 DEF ReadyExact, ReadyOncePerSession
<1>4. CASE MarksReady /\ ~ReadyIsNews
  <2>1. ready' = ready /\ ticket' = ticket
    BY <1>4, MarkReadyKeeps DEF MarksReady
  <2>2. player' = NoPlayer \/ player'.mediaReady
    BY <1>4, MarkReadyKeeps DEF MarksReady
  <2> QED BY <2>1, <2>2 DEF ReadyExact, ReadyOncePerSession
<1>5. CASE MarksReady /\ ReadyIsNews
  <2>1. ready' = Append(ready, ticket) /\ ticket' = ticket
    BY <1>5, MarkReadyKeeps DEF MarksReady
  <2>2. player' = NoPlayer \/ player'.mediaReady
    BY <1>5, MarkReadyKeeps DEF MarksReady
  <2>3. \A i \in 1..Len(ready) : ready[i] \in Nat /\ ready[i] < ticket
    <3>1. \A i \in 1..Len(ready) : ready[i] \in Nat
      BY <1>t
    <3>2. \A i \in 1..Len(ready) : ready[i] <= ticket /\ ready[i] # ticket
      BY <1>5 DEF ReadyExact, ReadyIsNews
    <3> QED BY <1>t, <3>1, <3>2
  <2>4. /\ Len(ready') = Len(ready) + 1
        /\ Len(ready) \in Nat
        /\ ready'[Len(ready) + 1] = ticket
        /\ \A i \in 1..Len(ready) : ready'[i] = ready[i]
    BY <1>t, <2>1
  <2>5. \A i \in 1..Len(ready') : i = Len(ready) + 1 \/ i \in 1..Len(ready)
    BY <2>4
  <2>6. \A i \in 1..Len(ready') : ready'[i] <= ticket'
    BY <1>t, <2>1, <2>3, <2>4, <2>5
  <2>7. ReadyOncePerSession'
    <3> SUFFICES ASSUME NEW i \in 1..Len(ready'), NEW j \in 1..Len(ready'), i < j
                 PROVE  ready'[i] < ready'[j]
      BY DEF ReadyOncePerSession
    <3>1. i \in 1..Len(ready)
      BY <2>4, <2>5
    <3>2. CASE j = Len(ready) + 1
      BY <3>1, <3>2, <2>3, <2>4
    <3>3. CASE j \in 1..Len(ready)
      BY <3>1, <3>3, <2>4 DEF ReadyExact, ReadyOncePerSession
    <3> QED BY <2>5, <3>2, <3>3
  <2> QED BY <2>2, <2>6, <2>7 DEF ReadyExact
<1> QED BY <1>1, <1>2, <1>3, <1>4, <1>5 DEF SlotStep

LEMMA StepPreview ==
  ASSUME TypeOK, PreviewNeverArmed, SlotStep
  PROVE  PreviewNeverArmed'
<1>1. CASE KeepsSession
  BY <1>1 DEF KeepsSession, PreviewNeverArmed
<1>2. ASSUME NEW next \in {"Negotiating", "Playing", "Stopping"}, MovesState(next)
      PROVE  PreviewNeverArmed'
  BY <1>2 DEF MovesState, Transition, PreviewNeverArmed
<1>3. ASSUME NEW l \in Links, TakesSlot(l)
      PROVE  PreviewNeverArmed'
  BY <1>3 DEF TakesSlot, InstallPlayer, NewPlayer, PreviewNeverArmed
<1>4. CASE MarksReady
  BY <1>4, MarkReadyKeeps DEF MarksReady, PreviewNeverArmed
<1> QED BY <1>1, <1>2, <1>3, <1>4 DEF SlotStep

\* Only a link that is already claiming moves on to a claiming step, and
\* Install alone issues a ticket.
Claiming == {"new", "refused"} \cup ClaimPcs

LEMMA StepFresh ==
  ASSUME TypeOK, FreshClaims, [Next]_vars
  PROVE  FreshClaims'
<1> USE DEF linkVars, ClaimPcs, ForcePcs
<1>t. pc \in [Callers -> LinkPcs \cup AdminPcs] /\ myTicket \in [Links -> Nat]
  BY DEF TypeOK
\* Enough: the tickets stay and nobody enters the claiming steps from outside.
<1>f. ASSUME myTicket' = myTicket,
             \A l \in Links : pc'[l] = pc[l] \/ pc'[l] \notin Claiming \/ pc[l] \in Claiming
      PROVE  FreshClaims'
  BY <1>f DEF FreshClaims, Claiming
<1>g. ASSUME NEW c \in Callers, NEW to, pc' = [pc EXCEPT ![c] = to],
             myTicket' = myTicket, to \notin Claiming \/ pc[c] \in Claiming
      PROVE  FreshClaims'
  BY <1>f, <1>g, <1>t DEF Callers
<1>1. ASSUME NEW l \in Links, LinkStep(l)
      PROVE  FreshClaims'
  <2> l \in Callers
    BY DEF Callers
  <2>1. CASE ClaimCheck(l)
    <3>1. PICK to \in {"install", "refused", "fdBye"} : pc' = [pc EXCEPT ![l] = to]
      BY <2>1 DEF ClaimCheck
    <3>2. myTicket' = myTicket /\ pc[l] \in Claiming
      BY <2>1 DEF ClaimCheck, Claiming
    <3> QED BY <3>1, <3>2, <1>g
  <2>2. CASE ForceStep(l)
    <3>1. myTicket' = myTicket /\ pc[l] \in Claiming
      BY <2>2 DEF ForceStep, ForceBye, ForceProbe, ForceStop, Goto, Claiming
    <3>2. pc' = pc \/ \E to \in {"fdProbe", "fdStop", Returned(l)} :
                           pc' = [pc EXCEPT ![l] = to]
      BY <2>2 DEF ForceStep, ForceBye, ForceProbe, ForceStop, Goto
    <3> QED BY <3>1, <3>2, <1>f, <1>g
  <2>3. CASE SettleCheck(l)
    <3>1. PICK to \in {"install", "refused", "wait"} : pc' = [pc EXCEPT ![l] = to]
      BY <2>3 DEF SettleCheck
    <3>2. myTicket' = myTicket /\ pc[l] \in Claiming
      BY <2>3 DEF SettleCheck, Claiming
    <3> QED BY <3>1, <3>2, <1>g
  <2>4. CASE SettleWake(l)
    BY <2>4, <1>g DEF SettleWake, Goto, Claiming
  <2>5. CASE Install(l)
    <3>1. pc' = [pc EXCEPT ![l] = "setController"]
          /\ myTicket' = [myTicket EXCEPT ![l] = ticket + 1]
      BY <2>5 DEF Install, Goto
    <3>2. "setController" \notin Claiming
      BY DEF Claiming
    <3>3. \A m \in Links : m # l => pc'[m] = pc[m] /\ myTicket'[m] = myTicket[m]
      BY <3>1, <1>t DEF Callers
    <3>4. pc'[l] = "setController"
      BY <3>1, <1>t DEF Callers
    <3> QED BY <3>2, <3>3, <3>4 DEF FreshClaims, Claiming
  <2>6. CASE SetController(l) \/ Wire(l) \/ ReceiveClosed(l) \/ Hello(l)
             \/ CaptureUnavailable(l) \/ Negotiate(l) \/ BuildFailed(l)
             \/ EndCheck(l) \/ EndStop(l) \/ Close(l)
    <3>1. PICK to \in {"wire", "serve", "endCheck", "endStop", "drain", "closed"} :
               pc' = [pc EXCEPT ![l] = to]
      BY <2>6 DEF SetController, Wire, ReceiveClosed, Hello, CaptureUnavailable,
                  Negotiate, BuildFailed, EndCheck, EndStop, Close, Goto
    <3>2. myTicket' = myTicket
      BY <2>6 DEF SetController, Wire, ReceiveClosed, Hello, CaptureUnavailable,
                  Negotiate, BuildFailed, EndCheck, EndStop, Close
    <3>3. to \notin Claiming
      BY DEF Claiming
    <3> QED BY <3>1, <3>2, <3>3, <1>g
  <2>7. CASE Build(l)
    <3>1. PICK to \in {"endCheck", "negotiate", "buildFailed"} :
               pc' = [pc EXCEPT ![l] = to]
      BY <2>7 DEF Build
    <3>2. myTicket' = myTicket /\ to \notin Claiming
      BY <2>7 DEF Build, Claiming
    <3> QED BY <3>1, <3>2, <1>g
  <2> QED BY <1>1, <2>1, <2>2, <2>3, <2>4, <2>5, <2>6, <2>7 DEF LinkStep
<1>2. ASSUME NEW l \in Links, PumpStep(l)
      PROVE  FreshClaims'
  BY <1>2, <1>f DEF PumpStep, PumpReady, PumpPlaying, PumpMarkReady, PumpFailed
<1>3. ASSUME NEW l \in Links, ClientStep(l)
      PROVE  FreshClaims'
  <2> l \in Callers
    BY DEF Callers
  <2>1. CASE Connect(l)
    BY <2>1, <1>g DEF Connect, Goto, Claiming
  <2>2. CASE Receive(l)
    <3>1. PICK to \in {"hello", "capture", "endCheck"} : pc' = [pc EXCEPT ![l] = to]
      BY <2>2 DEF Receive
    <3>2. myTicket' = myTicket /\ to \notin Claiming
      BY <2>2 DEF Receive, Claiming
    <3> QED BY <3>1, <3>2, <1>g
  <2>3. CASE PumpBreaks(l) \/ Dial(l) \/ Leave(l)
    BY <2>3, <1>f DEF PumpBreaks, Dial, Leave
  <2> QED BY <1>3, <2>1, <2>2, <2>3 DEF ClientStep
<1>4. ASSUME NEW a \in Admins, AdminCall(a) \/ ForceStep(a)
      PROVE  FreshClaims'
  <2>1. myTicket' = myTicket
    BY <1>4 DEF AdminCall, ForceStep, ForceBye, ForceProbe, ForceStop
  <2>2. pc' = pc \/ \E to \in {"fdBye", "fdProbe", "fdStop", Returned(a)} :
                         pc' = [pc EXCEPT ![a] = to]
    BY <1>4 DEF AdminCall, ForceStep, ForceBye, ForceProbe, ForceStop, Goto
  <2>3. \A l \in Links : pc'[l] = pc[l]
    BY <2>2, <1>t, AdminsAreNotLinks DEF Callers
  <2> QED BY <2>1, <2>3, <1>f
<1>5. CASE WtConnected \/ HttpStop \/ \E m \in {"Ready", "Failed"} : IceState(m)
  BY <1>5, <1>f DEF WtConnected, HttpStop, IceState
<1>6. CASE UNCHANGED vars
  BY <1>6, <1>f DEF vars
<1> QED BY <1>1, <1>2, <1>3, <1>4, <1>5, <1>6 DEF Next

LEMMA IInvStep == IInv /\ [Next]_vars => IInv'
<1> SUFFICES ASSUME IInv, [Next]_vars PROVE IInv'
  OBVIOUS
<1>1. TypeOK /\ TypeOK'
  BY TypeStep DEF IInv
<1>2. SlotStep
  BY <1>1, SlotSteps
<1>3. SlotConsistent' /\ state' # "Reconnecting"
  BY <1>1, <1>2, StepSlotConsistent DEF IInv
<1>4. TicketOrder'
  BY <1>1, <1>2, StepTicketOrder DEF IInv, TicketsExact, TicketOrder
<1>5. FreshClaims'
  BY <1>1, StepFresh DEF IInv, TicketsExact, FreshClaims
<1>6. ReadyExact'
  BY <1>1, <1>2, StepReady DEF IInv
<1>7. PreviewNeverArmed'
  BY <1>1, <1>2, StepPreview DEF IInv
<1> QED BY <1>1, <1>3, <1>4, <1>5, <1>6, <1>7
        DEF IInv, TicketsExact, TicketOrder, FreshClaims

LEMMA InvariantHolds == Spec => []IInv
  BY IInvInit, IInvStep, PTL DEF Spec

-----------------------------------------------------------------------------
(* The theorems *)

\* However the links, the pumps and the admins interleave, the slot holds a
\* player exactly when the state machine is out of IDLE.
THEOREM SlotStaysConsistent == Spec => []SlotConsistent
<1>1. IInv => SlotConsistent
  BY DEF IInv
<1> QED BY <1>1, InvariantHolds, PTL

\* Among any number of links, owns() holds exactly for the one whose session is
\* in the slot.
THEOREM OwnershipIsExact == Spec => []OwnerIsHolder
<1>1. IInv => OwnerIsHolder
  <2> SUFFICES ASSUME IInv, NEW l \in Links
               PROVE  Owns(l) <=> player # NoPlayer /\ player.link = l
    BY DEF OwnerIsHolder
  <2>1. player # NoPlayer => player.link \in Links
    BY DEF IInv, TypeOK, SlotTypeOK, Players
  <2> QED BY <2>1 DEF IInv, TicketsExact, Owns
<1> QED BY <1>1, InvariantHolds, PTL

\* session_ready is released at most once for each session.
THEOREM ReadyIsAnnouncedOnce == Spec => []ReadyOncePerSession
<1>1. IInv => ReadyOncePerSession
  BY DEF IInv, ReadyExact
<1> QED BY <1>1, InvariantHolds, PTL

\* No interleaving of stale Ready signals arms a preview.
THEOREM PreviewsStayUnarmed == Spec => []PreviewNeverArmed
<1>1. IInv => PreviewNeverArmed
  BY DEF IInv
<1> QED BY <1>1, InvariantHolds, PTL

-----------------------------------------------------------------------------
(* The slot implements PlayerSlot *)

\* The refinement mapping of Slot, named.
Holder == IF player = NoPlayer THEN NoLink ELSE player.link
Armed == player # NoPlayer /\ player.armed
Retired == {l \in Links : myTicket[l] # 0}

LEMMA RefinesInit == Init => Slot!Init
  BY DEF Init, SlotInit, Slot!Init

LEMMA RefinesStep ==
  ASSUME IInv, [Next]_vars
  PROVE  [Slot!Next]_(Slot!vars)
<1>i. IInv'
  BY IInvStep
<1>s. SlotStep
  BY SlotSteps DEF IInv
<1>t. /\ ticket \in Nat /\ myTicket \in [Links -> Nat]
      /\ player # NoPlayer => player \in Players
  BY DEF IInv, TypeOK, SlotTypeOK
<1>k. ASSUME UNCHANGED <<state, Holder, Armed, Retired>>
      PROVE  UNCHANGED Slot!vars
  BY <1>k DEF Slot!vars, Holder, Armed, Retired
<1>1. CASE KeepsSession
  <2>1. UNCHANGED <<state, Holder, Armed, Retired>>
    BY <1>1 DEF KeepsSession, Holder, Armed, Retired
  <2> QED BY <2>1, <1>k
<1>2. CASE MovesState("Stopping")
  <2>1. CASE ~CanTransitionTo("Stopping")
    <3>1. UNCHANGED <<state, Holder, Armed, Retired>>
      BY <1>2, <2>1 DEF MovesState, Transition, Holder, Armed, Retired
    <3> QED BY <3>1, <1>k
  <2>2. CASE CanTransitionTo("Stopping")
    <3>1. player # NoPlayer
      BY <2>2 DEF CanTransitionTo, Edges, IInv, SlotConsistent
    <3>2. player' = NoPlayer /\ state' = "Idle" /\ myTicket' = myTicket
      BY <1>2, <2>2 DEF MovesState, Transition, Settled
    <3>3. player.link # NoLink
      BY <3>1, <1>t, NoLinkIsNoLink DEF Players
    <3> QED BY <3>1, <3>2, <3>3 DEF Slot!Next, Slot!Release
  <2> QED BY <2>1, <2>2
<1>3. ASSUME NEW next \in {"Negotiating", "Playing"}, MovesState(next)
      PROVE  [Slot!Next]_(Slot!vars)
  <2>1. UNCHANGED <<player, myTicket>>
    BY <1>3 DEF MovesState, Transition
  <2>2. \/ state' = state
        \/ state = "Paired" /\ state' = "Negotiating"
        \/ state = "Negotiating" /\ state' = "Playing"
    BY <1>3 DEF MovesState, Transition, CanTransitionTo, Edges, Settled, IInv
  <2>3. CASE state' = state
    <3>1. UNCHANGED <<state, Holder, Armed, Retired>>
      BY <2>1, <2>3 DEF Holder, Armed, Retired
    <3> QED BY <3>1, <1>k
  <2>4. CASE state' # state
    BY <2>1, <2>2, <2>4 DEF Slot!Next, Slot!Advance
  <2> QED BY <2>3, <2>4
<1>4. ASSUME NEW l \in Links, TakesSlot(l)
      PROVE  [Slot!Next]_(Slot!vars)
  <2>1. /\ player' = NewPlayer(l) /\ state' = "Paired"
        /\ myTicket' = [myTicket EXCEPT ![l] = ticket + 1]
    BY <1>4 DEF TakesSlot, InstallPlayer
  <2>2. /\ player' # NoPlayer /\ player'.link = l /\ player'.armed = FALSE
    <3>1. player' \in Players
      BY <2>1 DEF NewPlayer, Players
    <3> QED BY <2>1, <3>1, NoPlayerIsNone DEF NewPlayer
  <2>3. myTicket[l] = 0
    BY <1>4 DEF TakesSlot, IInv, TicketsExact, ClaimPcs
  <2>4. Retired' = Retired \cup {l}
    BY <1>t, <2>1 DEF Retired
  <2>5. Slot!Take(l)
    BY <2>1, <2>2, <2>3, <2>4 DEF Slot!Take, Retired
  <2> QED BY <2>5 DEF Slot!Next
<1>5. CASE MarksReady
  <2>1. UNCHANGED <<state, Holder, Retired>>
    BY <1>5, MarkReadyKeeps DEF MarksReady, Holder, Retired, IInv
  <2>2. CASE Armed' = Armed
    BY <2>1, <2>2, <1>k
  <2>3. CASE Armed' # Armed
    <3>1. player # NoPlayer /\ player' # NoPlayer
      BY <1>5, <2>3, MarkReadyKeeps DEF MarksReady, Armed, IInv
    <3>2. player.armed \in BOOLEAN /\ player.link \in Links
      BY <3>1, <1>t DEF Players
    <3>3. player'.armed \in BOOLEAN
      BY <3>1, <1>i DEF IInv, TypeOK, SlotTypeOK, Players
    <3>4. ~player.armed /\ player'.armed /\ player.link \notin PreviewLinks
      BY <1>5, <2>3, <3>1, <3>2, <3>3, MarkReadyKeeps DEF MarksReady, Armed, IInv
    <3>5. Slot!Arm
      BY <2>1, <3>1, <3>2, <3>4 DEF Slot!Arm, Holder, Retired
    <3> QED BY <3>5 DEF Slot!Next
  <2> QED BY <2>2, <2>3
<1> QED BY <1>s, <1>1, <1>2, <1>3, <1>4, <1>5 DEF SlotStep

\* The session slot, under every interleaving of links, pumps and admins,
\* implements PlayerSlot: a session is never resumed by a link that lost it,
\* its phase only advances, and its input is armed once, for no preview.
THEOREM SlotImplementsPlayerSlot == Spec => SlotKeepsItsPromise
<1>1. IInv /\ [Next]_vars => [Slot!Next]_(Slot!vars)
  BY RefinesStep
<1> QED BY <1>1, RefinesInit, InvariantHolds, PTL
        DEF Spec, SlotKeepsItsPromise, Slot!Spec
=============================================================================
