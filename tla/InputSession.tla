---------------------------- MODULE InputSession ----------------------------
(***************************************************************************)
(* The host's input processor for one player (crates/host/src/input/mod.rs *)
(* and input/state.rs): admission, sequence gate, folding of events into   *)
(* the held state, injection of the difference into Windows, watchdog and  *)
(* release.  Every operation runs under the session lock, hence one step.  *)
(* The packets that arrive are arbitrary here; module InputPath sends them *)
(* from a client over its two channels.                                    *)
(***************************************************************************)
EXTENDS Integers

CONSTANTS
  Keys,       \* physical key codes
  Buttons,    \* mouse button bits
  Pads,       \* gamepad states
  NoPad,      \* no gamepad: Option::None, and a neutral virtual pad
  SeqSpace,   \* sequence numbers are taken modulo this; 2^32 on the wire
  NoSeq,      \* nothing accepted yet: Option::None
  Burst       \* the token bucket's capacity

Controls == Keys \cup Buttons
Seqs == 0..(SeqSpace - 1)

\* A decoded event.  `on` are the controls it says are down, `off` those it
\* says are up.  A jump is a move beyond max_mouse_delta.
Event(kind, on, off, p) == [kind |-> kind, on |-> on, off |-> off, pad |-> p]

Move        == Event("move", {}, {}, NoPad)
Jump        == Event("jump", {}, {}, NoPad)
Key(k, d)   == IF d THEN Event("key", {k}, {}, NoPad) ELSE Event("key", {}, {k}, NoPad)
Mouse(down) == Event("buttons", down, Buttons \ down, NoPad)
Gamepad(g)  == Event("gamepad", {}, {}, g)
Snapshot(down, g) == Event("snapshot", down, Controls \ down, g)

Events == {Move, Jump} \cup {Key(k, d) : k \in Keys, d \in BOOLEAN}
            \cup {Mouse(down) : down \in SUBSET Buttons}
            \cup {Gamepad(g) : g \in Pads}
            \cup {Snapshot(down, g) : down \in SUBSET Controls, g \in Pads \cup {NoPad}}

ASSUME SeqSpaceIsEven == SeqSpace \in Nat \ {0} /\ SeqSpace % 2 = 0
ASSUME NoSeqIsNone    == NoSeq \notin Seqs
ASSUME NoPadIsNone    == NoPad \notin Pads
ASSUME BurstIsNat     == Burst \in Nat

VARIABLES
  alive,      \* the InputSession exists
  armed,      \* PlayerSession::input_armed
  held,       \* InputState: held_keys and mouse_buttons
  pad,        \* InputState::gamepad
  high,       \* high_water
  released,   \* nothing to do for the watchdog and for Drop
  quiet,      \* watchdog_ms have passed since the last packet
  tokens,     \* whole tokens in the bucket
  os,         \* the controls Windows was last told are down
  device,     \* the virtual pad: not tried, tried and failed, plugged in
  padOut      \* what the virtual pad shows

heldVars   == <<held, pad>>
outVars    == <<os, device, padOut>>
inputVars  == <<alive, armed, heldVars, high, released, quiet, tokens, outVars>>

InputTypeOK ==
  /\ alive \in BOOLEAN
  /\ armed \in BOOLEAN
  /\ held \subseteq Controls
  /\ pad \in Pads \cup {NoPad}
  /\ high \in Seqs \cup {NoSeq}
  /\ released \in BOOLEAN
  /\ quiet \in BOOLEAN
  /\ tokens \in 0..Burst
  /\ os \subseteq Controls
  /\ device \in {"none", "failed", "plugged"}
  /\ padOut \in Pads \cup {NoPad}

InputInit ==
  /\ alive = TRUE /\ armed = FALSE
  /\ held = {} /\ pad = NoPad
  /\ high = NoSeq
  /\ released = TRUE /\ quiet = FALSE
  /\ tokens = Burst
  /\ os = {} /\ device = "none" /\ padOut = NoPad

-----------------------------------------------------------------------------
\* Mutant: sequence numbers are compared without wrapping.
Fresh_WithoutWrap(seq) == high # NoSeq => seq >= high

\* is_fresh: a jump of less than half the space is newer.  u32::MAX is
\* SeqSpace - 1 and the division truncates; an equal number counts as newer.
Fresh(seq) ==
  high # NoSeq => (seq - high) % SeqSpace < (SeqSpace - 1) \div 2

\* Mutant: a snapshot only presses.
NextHeld_PressesOnly(e) == held \cup e.on

\* The held controls after an event (apply_event, reconcile_snapshot).
NextHeld(e) == (held \ e.off) \cup e.on

NextPad(e) == IF e.kind \in {"gamepad", "snapshot"} THEN e.pad ELSE pad

\* What the client reports goes to Windows as the difference to what was held.
InjectControls(next) ==
  /\ os' = (os \ (held \ next)) \cup (next \ held)
  /\ held' = next

\* Mutant: only Gamepad events reach the virtual pad.
InjectPad_IgnoresSnapshots(e) ==
  /\ pad' = NextPad(e)
  /\ IF e.kind = "gamepad"
       THEN /\ device' \in IF device = "none" THEN {"failed", "plugged"} ELSE {device}
            /\ padOut' = IF device' = "plugged" THEN NextPad(e) ELSE padOut
       ELSE UNCHANGED <<device, padOut>>

\* A pad state is injected by a Gamepad event, or by a snapshot that changes
\* it.  The first one plugs the virtual pad in; if that fails it is not tried
\* again.
InjectPad(e) ==
  /\ pad' = NextPad(e)
  /\ IF e.kind = "gamepad" \/ NextPad(e) # pad
       THEN /\ device' \in IF device = "none" /\ NextPad(e) # NoPad
                             THEN {"failed", "plugged"} ELSE {device}
            /\ padOut' = IF device' = "plugged" THEN NextPad(e) ELSE padOut
       ELSE UNCHANGED <<device, padOut>>

\* Throttled: the packet counts as a heartbeat and nothing else.
Throttle ==
  /\ tokens = 0
  /\ UNCHANGED <<tokens, high, heldVars, outVars>>

\* Older than the newest accepted.
DropStale(seq) ==
  /\ tokens > 0
  /\ ~Fresh(seq)
  /\ tokens' = tokens - 1
  /\ UNCHANGED <<high, heldVars, outVars>>

\* An implausible move advances the gate and is dropped.
Accept(seq, e) ==
  /\ tokens > 0
  /\ Fresh(seq)
  /\ tokens' = tokens - 1
  /\ high' = seq
  /\ InjectControls(NextHeld(e))
  /\ InjectPad(e)

\* Mutant: a packet does not wake the watchdog again.
HandlePacket_StaysReleased(seq, e) ==
  /\ alive /\ armed
  /\ quiet' = FALSE
  /\ Throttle \/ DropStale(seq) \/ Accept(seq, e)
  /\ UNCHANGED <<alive, armed, released>>

\* handle_packet, for a well-formed packet of an armed session.
HandlePacket(seq, e) ==
  /\ alive /\ armed
  /\ quiet' = FALSE
  /\ released' = FALSE
  /\ Throttle \/ DropStale(seq) \/ Accept(seq, e)
  /\ UNCHANGED <<alive, armed>>

\* Before the media path is up packets are dropped; without a session too.
IgnorePacket == (~alive \/ ~armed) /\ UNCHANGED inputVars

\* mark_ready.
Arm ==
  /\ alive /\ ~armed
  /\ armed' = TRUE
  /\ UNCHANGED <<alive, heldVars, high, released, quiet, tokens, outVars>>

\* Time passes: the bucket refills; watchdog_ms go by without a packet.
Refill ==
  /\ alive /\ tokens < Burst
  /\ tokens' = tokens + 1
  /\ UNCHANGED <<alive, armed, heldVars, high, released, quiet, outVars>>

Elapse ==
  /\ alive /\ armed /\ ~quiet
  /\ quiet' = TRUE
  /\ UNCHANGED <<alive, armed, heldVars, high, released, tokens, outVars>>

\* release_all: state, then every backend.
ReleaseAll ==
  /\ os' = os \ held
  /\ held' = {} /\ pad' = NoPad
  /\ padOut' = NoPad
  /\ released' = TRUE

\* Mutant: the heartbeat is not watched.
TickWatchdog_Asleep == FALSE /\ UNCHANGED inputVars

\* tick_watchdog.
TickWatchdog ==
  /\ alive /\ ~released /\ quiet
  /\ ReleaseAll
  /\ UNCHANGED <<alive, armed, high, quiet, tokens, device>>

\* The session stops (PlayerSession::shutdown), or is overwritten by the next
\* claim, when only Drop runs.  The virtual pad is unplugged either way.
Shutdown ==
  /\ alive
  /\ alive' = FALSE
  /\ ReleaseAll
  /\ device' = "none"
  /\ UNCHANGED <<armed, high, quiet, tokens>>

Drop ==
  /\ alive
  /\ alive' = FALSE
  /\ IF released THEN UNCHANGED <<heldVars, os, released>> /\ padOut' = NoPad
                 ELSE ReleaseAll
  /\ device' = "none"
  /\ UNCHANGED <<armed, high, quiet, tokens>>

HostStep == Arm \/ Refill \/ Elapse \/ TickWatchdog \/ Shutdown \/ Drop

InputNext == (\E seq \in Seqs, e \in Events : HandlePacket(seq, e)) \/ HostStep
InputSpec == InputInit /\ [][InputNext]_inputVars

-----------------------------------------------------------------------------
\* Windows is told of every control exactly what the session believes: no key
\* is down that the session would not release, none is up that it thinks down.
OsAgrees == os = held

\* So is the virtual pad, while there is one.
PadAgrees == device = "plugged" => padOut = pad

\* `released` is what both the watchdog and Drop trust: when it is set there is
\* nothing left to let go of.
ReleasedIsEmpty == released => held = {} /\ pad = NoPad

\* Whatever ended the session, nothing it pressed stays down in Windows.
EndLetsGo == ~alive => os = {} /\ padOut = NoPad

\* The inductive invariant of the proofs.
InputInv == InputTypeOK /\ OsAgrees /\ PadAgrees /\ ReleasedIsEmpty /\ EndLetsGo
=============================================================================
