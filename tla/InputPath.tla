------------------------------ MODULE InputPath ------------------------------
(***************************************************************************)
(* Input from end to end: the web player's InputManager                    *)
(* (web/src/input/manager.ts), its packet encoder, the two copies of each  *)
(* packet that wtcore.ts sends (an unreliable datagram and a reliable      *)
(* stream), and the host's InputSession.                                   *)
(***************************************************************************)
EXTENDS InputSession, Sequences, FiniteSets

CONSTANTS
  MaxLag,     \* bound: packets on the stream, and how old a datagram gets
  MaxBehind,  \* bound: how far the host falls behind the client
  MaxTaps,    \* bound: presses that a timer releases
  Paced       \* bound: TRUE if the client keeps within the host's packet rate

ASSUME LagIsNat     == MaxLag \in Nat
ASSUME BehindIsHalf == MaxBehind \in Nat /\ MaxBehind <= (SeqSpace - 1) \div 2
ASSUME LagIsBehind  == MaxLag <= MaxBehind
ASSUME TapsAreNat   == MaxTaps \in Nat
ASSUME PacedIsBoolean == Paced \in BOOLEAN

VARIABLES
  captured,   \* InputManager::captured: fullscreen
  cHeld,      \* InputManager::held and mouseButtons
  cPad,       \* InputManager::gamepad
  lastPad,    \* lastGamepadKey
  taps,       \* controls whose release timer is running
  tapped,     \* such presses made
  next,       \* InputEncoder::seq
  up,         \* the WebTransport connection is open
  grams,      \* datagrams in flight
  stream,     \* the input stream
  recent,     \* history: cHeld after each of the last MaxLag packets
  excuse      \* history: controls held at some time since the last snapshot
              \* the host accepted

managerVars == <<captured, cHeld, cPad, lastPad, taps, tapped>>
wireVars    == <<next, up, grams, stream>>
historyVars == <<recent, excuse>>
vars == <<inputVars, managerVars, wireVars, historyVars>>

Datagrams == [seq : Seqs, event : Events]

ManagerTypeOK ==
  /\ captured \in BOOLEAN
  /\ cHeld \subseteq Controls
  /\ {cPad, lastPad} \subseteq Pads \cup {NoPad}
  /\ taps \subseteq Controls
  /\ tapped \in 0..MaxTaps

WireTypeOK ==
  /\ next \in Seqs
  /\ up \in BOOLEAN
  /\ grams \subseteq Datagrams
  /\ stream \in Seq(Datagrams) /\ Len(stream) <= MaxLag
  /\ recent \in Seq(SUBSET Controls) /\ Len(recent) <= MaxLag
  /\ excuse \subseteq Controls

TypeOK == InputTypeOK /\ ManagerTypeOK /\ WireTypeOK

Init ==
  /\ InputInit
  /\ captured = FALSE /\ cHeld = {} /\ cPad = NoPad /\ lastPad = NoPad
  /\ taps = {} /\ tapped = 0
  /\ next = 0 /\ up = TRUE /\ grams = {} /\ stream = <<>>
  /\ recent = <<>> /\ excuse = {}

\* How many packets ago `seq` was sent; 1 for the newest.
Age(seq) == (next - seq) % SeqSpace

-----------------------------------------------------------------------------
(* InputEncoder and sendInput *)

InFlight == Cardinality(grams) + Len(stream)

\* Bounds on the client, none of them the code's.
CanSend ==
  /\ Len(stream) < MaxLag
  /\ high # NoSeq => Age(high) < MaxBehind
  /\ Paced => tokens > InFlight + 1

\* Mutant: the sequence number does not wrap.
NextSeq_WithoutWrap == next + 1

NextSeq == (next + 1) % SeqSpace

\* Encode an event and send it as a datagram and on the stream.  `down` is
\* what the client holds after it.  A datagram delayed by more than MaxLag
\* packets is gone.
Send(event, down) ==
  LET packet == [seq |-> next, event |-> event] IN
  /\ CanSend
  /\ next' = NextSeq
  /\ IF up THEN /\ grams'  = {p \in grams : Age(p.seq) < MaxLag} \cup {packet}
                /\ stream' = Append(stream, packet)
           ELSE UNCHANGED <<grams, stream>>
  /\ recent' = LET r == Append(recent, down) IN IF Len(r) > MaxLag THEN Tail(r) ELSE r
  /\ excuse' = excuse \cup down
  /\ UNCHANGED up

-----------------------------------------------------------------------------
(* InputManager *)

\* onFsChange, into fullscreen.
Capture ==
  /\ ~captured
  /\ captured' = TRUE
  /\ UNCHANGED <<inputVars, cHeld, cPad, lastPad, taps, tapped, wireVars, historyVars>>

\* releaseAll: everything is let go of and one empty snapshot says so.
LetGoOfAll ==
  /\ cHeld' = {} /\ cPad' = NoPad /\ lastPad' = NoPad
  /\ Send(Snapshot({}, NoPad), {})

\* onFsChange, out of fullscreen; and blur or a hidden tab, in any mode.
Leave ==
  /\ captured
  /\ captured' = FALSE
  /\ LetGoOfAll
  /\ UNCHANGED <<inputVars, taps, tapped>>

Blur ==
  /\ LetGoOfAll
  /\ UNCHANGED <<inputVars, captured, taps, tapped>>

SendKey(k, down) ==
  /\ cHeld' = IF down THEN cHeld \cup {k} ELSE cHeld \ {k}
  /\ Send(Key(k, down), cHeld')

\* onKey.
PhysicalKey(k, down) ==
  /\ captured
  /\ SendKey(k, down)
  /\ UNCHANGED <<inputVars, captured, cPad, lastPad, taps, tapped>>

SendButton(b, down) ==
  /\ cHeld' = IF down THEN cHeld \cup {b} ELSE cHeld \ {b}
  /\ Send(Mouse(cHeld' \cap Buttons), cHeld')

\* onMouseButton.
SetButton(b, down) ==
  /\ captured
  /\ SendButton(b, down)
  /\ UNCHANGED <<inputVars, captured, cPad, lastPad, taps, tapped>>

\* An on-screen key (tapKey) in any mode, and a secondary click (onContextMenu)
\* while captured.  A timer releases either, whatever happened meanwhile.
StartTap(c) ==
  /\ tapped < MaxTaps /\ c \notin taps
  /\ tapped' = tapped + 1
  /\ taps' = taps \cup {c}

Tap(k) ==
  /\ StartTap(k)
  /\ SendKey(k, TRUE)
  /\ UNCHANGED <<inputVars, captured, cPad, lastPad>>

ContextMenu(b) ==
  /\ captured
  /\ StartTap(b)
  /\ SendButton(b, TRUE)
  /\ UNCHANGED <<inputVars, captured, cPad, lastPad>>

TapEnd(c) ==
  /\ c \in taps
  /\ taps' = taps \ {c}
  /\ IF c \in Keys THEN SendKey(c, FALSE) ELSE SendButton(c, FALSE)
  /\ UNCHANGED <<inputVars, captured, cPad, lastPad, tapped>>

\* onMouseMove and onWheel.  The pointer lock is taken with the capture and
\* given up with it.
MouseMove(event) ==
  /\ captured
  /\ Send(event, cHeld)
  /\ UNCHANGED <<inputVars, managerVars>>

\* pollGamepad: `g` is what the browser reports.
PollGamepad(g) ==
  /\ cPad' = g
  /\ IF g # NoPad /\ g # lastPad
       THEN lastPad' = g /\ Send(Gamepad(g), cHeld)
       ELSE g # cPad /\ UNCHANGED <<lastPad, wireVars, historyVars>>
  /\ UNCHANGED <<inputVars, captured, cHeld, taps, tapped>>

\* Mutant: nothing is sent while nothing is held.
SendSnapshot_OnlyWhileHolding ==
  /\ (captured /\ cHeld # {}) \/ cPad # NoPad
  /\ Send(Snapshot(IF captured THEN cHeld ELSE {}, cPad), cHeld)
  /\ UNCHANGED <<inputVars, managerVars>>

\* sendSnapshot, at 40 Hz.
SendSnapshot ==
  /\ captured \/ cPad # NoPad
  /\ Send(Snapshot(IF captured THEN cHeld ELSE {}, cPad), cHeld)
  /\ UNCHANGED <<inputVars, managerVars>>

-----------------------------------------------------------------------------
(* The connection, and the host's readers *)

\* What the client has held since it sent this packet.
HeldSince(seq) ==
  UNION {recent[i] : i \in {j \in DOMAIN recent : Len(recent) - j < Age(seq)}}

\* A reader hands a packet to whichever session is current.
Arrive(p) ==
  /\ \/ HandlePacket(p.seq, p.event)
     \/ IgnorePacket
  /\ excuse' = IF p.event.kind = "snapshot" /\ high' = p.seq
                 THEN HeldSince(p.seq) ELSE excuse
  /\ UNCHANGED <<managerVars, next, up, recent>>

DatagramArrives(p) ==
  /\ p \in grams
  /\ grams' = grams \ {p}
  /\ Arrive(p)
  /\ UNCHANGED stream

StreamArrives ==
  /\ stream # <<>>
  /\ stream' = Tail(stream)
  /\ Arrive(Head(stream))
  /\ UNCHANGED grams

DatagramLost(p) ==
  /\ p \in grams
  /\ grams' = grams \ {p}
  /\ UNCHANGED <<inputVars, managerVars, next, up, stream, historyVars>>

Disconnect ==
  /\ up
  /\ up' = FALSE /\ grams' = {} /\ stream' = <<>>
  /\ UNCHANGED <<inputVars, managerVars, next, historyVars>>

\* Mutant: the new connection numbers its packets from the start.
Redial_RestartsSequence ==
  /\ ~up
  /\ up' = TRUE /\ next' = 0
  /\ UNCHANGED <<inputVars, managerVars, grams, stream, historyVars>>

\* The client redials; its encoder carries on.
Redial ==
  /\ ~up
  /\ up' = TRUE
  /\ UNCHANGED <<inputVars, managerVars, next, grams, stream, historyVars>>

Host == HostStep /\ UNCHANGED <<managerVars, wireVars, historyVars>>

Client ==
  \/ Capture \/ Leave \/ Blur \/ SendSnapshot
  \/ \E k \in Keys, down \in BOOLEAN : PhysicalKey(k, down)
  \/ \E k \in Keys : Tap(k)
  \/ \E b \in Buttons, down \in BOOLEAN : SetButton(b, down)
  \/ \E b \in Buttons : ContextMenu(b)
  \/ \E c \in Controls : TapEnd(c)
  \/ \E event \in {Move, Jump} : MouseMove(event)
  \/ \E g \in Pads \cup {NoPad} : PollGamepad(g)

Wire ==
  \/ \E p \in grams : DatagramArrives(p) \/ DatagramLost(p)
  \/ StreamArrives \/ Disconnect \/ Redial

Next == Client \/ Wire \/ Host

Spec == Init /\ [][Next]_vars

\* The inductive invariant of the gate's proof: what is in flight, and the newest
\* packet accepted, are within half the sequence space of the next one.
GateInv ==
  /\ next \in Seqs
  /\ high # NoSeq => Age(high) \in 1..MaxBehind
  /\ \A p \in grams : Age(p.seq) \in 1..MaxLag
  /\ \A i \in DOMAIN stream : Age(stream[i].seq) = Len(stream) - i + 1
  /\ ~up => grams = {} /\ stream = <<>>

InFlightPackets == grams \cup {stream[i] : i \in DOMAIN stream}

\* What the client held after sending this packet.
HeldAt(seq) == recent[Len(recent) + 1 - Age(seq)]

\* The rest of the inductive invariant: a packet in flight says no more than the
\* client held, and if the gate would accept it, that is excused already.  A
\* second copy of the newest accepted snapshot says what the host holds.
Honest(p) ==
  /\ Age(p.seq) \in 1..Len(recent)
  /\ p.event.on \subseteq HeldAt(p.seq)
  /\ high = NoSeq \/ Age(p.seq) <= Age(high) => HeldAt(p.seq) \subseteq excuse
  /\ p.event.kind = "snapshot" /\ high = p.seq => held \subseteq HeldAt(p.seq)

GhostInv ==
  /\ held \subseteq excuse
  /\ \A p \in InFlightPackets : Honest(p)
  /\ \A p, q \in InFlightPackets : p.seq = q.seq => p.event = q.event

\* A snapshot that reaches the host before anything newer does.
SnapshotLands ==
  \E p \in grams : p.event.kind = "snapshot" /\ Fresh(p.seq) /\ DatagramArrives(p)

\* The app ticks the watchdog, time passes, browser timers fire, the network does
\* not lose or delay every snapshot, and outages end or are for good.
Fairness ==
  /\ WF_vars(TickWatchdog /\ UNCHANGED <<managerVars, wireVars, historyVars>>)
  /\ WF_vars((Elapse \/ Refill) /\ UNCHANGED <<managerVars, wireVars, historyVars>>)
  /\ SF_vars(SendSnapshot)
  /\ \A c \in Controls : SF_vars(TapEnd(c))
  /\ WF_vars(StreamArrives)
  /\ SF_vars(SnapshotLands)
  /\ <>[]up \/ <>[]~up

FairSpec == Spec /\ Fairness

-----------------------------------------------------------------------------
\* The host's gate never goes back: once a packet has been accepted, nothing
\* the client sent before it is, through reordering, the second copy and the
\* wrap of the sequence number.
NoTimeTravel ==
  [][high # NoSeq /\ high' # high => Age(high') < Age(high)]_vars

\* A lost or late packet cannot wedge a control: whatever the host holds, the
\* client held at some time since the newest snapshot the host accepted.
NoGhostKey == held \subseteq excuse

\* A control that is down in Windows but not on the client comes up, by a
\* snapshot, by its own release, or by the watchdog, and so does a gamepad that
\* was unplugged or let go of.
ControlsComeUp ==
  /\ \A c \in Controls : c \in os /\ c \notin cHeld ~> c \notin os \/ c \in cHeld
  /\ padOut # NoPad /\ cPad = NoPad ~> padOut = NoPad \/ cPad # NoPad

=============================================================================
