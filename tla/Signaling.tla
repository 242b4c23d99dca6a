------------------------------ MODULE Signaling ------------------------------
(***************************************************************************)
(* The signaling links (crates/host/src/http/signal.rs: drive and          *)
(* handle_message) around the one session slot, with the other callers of  *)
(* SessionManager: the host's admins (dashboard, tray, hotkey), the HTTP   *)
(* stop request and the WebTransport event pump of app.rs.                 *)
(*                                                                         *)
(* A step is one lock region or one await of one task.  A link runs three  *)
(* tasks: the inbound loop (pc), the outbound pump (pump) and its two      *)
(* byte pumps, which never change the slot and are left out.               *)
(***************************************************************************)
EXTENDS SessionManager, Sequences

CONSTANTS
  Admins,      \* callers of force_disconnect other than claim
  Answering,   \* links whose client answers the host's WebRTC offer
  MaxRounds,   \* bound: 250 ms waits before the 5 s settlement deadline
  MaxDials,    \* bound: WebTransport connections per client
  MaxMedia     \* bound: ICE events queued on one media channel

ASSUME BoundsAreNat  == MaxRounds \in Nat /\ MaxDials \in Nat /\ MaxMedia \in Nat
ASSUME AnswerersAreLinks == Answering \subseteq Links
ASSUME AdminsAreNotLinks == Admins \cap Links = {}

Callers == Links \cup Admins

\* The order in which force_disconnect probes the state.
ProbeOrder == <<"Playing", "Negotiating", "Paired", "Reconnecting">>

VARIABLES
  pc,        \* where each link's task, and each admin's call, stands
  probe,     \* the next entry of ProbeOrder a force_disconnect reads
  rounds,    \* settlement waits a claim has made
  myTicket,  \* the SessionTicket claim returned, 0 before
  pump,      \* the outbound pump of each link
  media,     \* the MediaSignal channel of each link
  ready,     \* the ticket that was current at each SessionReady sent
  dials,     \* WebTransport connections each client has made
  wtEvents,  \* Connected events the app's event pump has yet to read
  gone       \* links whose inbound channel is drained and closed

linkVars == <<pc, probe, rounds, myTicket>>
pumpVars == <<pump, media, ready>>
envVars  == <<dials, wtEvents, gone>>
vars == <<sessionVars, linkVars, pumpVars, envVars>>

ForcePcs   == {"fdBye", "fdProbe", "fdStop"}
ClaimPcs   == {"check", "settle", "wait", "install"} \cup ForcePcs
ServePcs   == {"setController", "wire", "serve", "hello", "capture",
               "negotiate", "buildFailed"}
ClosePcs   == {"endCheck", "endStop", "drain"}
LinkPcs    == {"new", "refused", "closed"} \cup ClaimPcs \cup ServePcs \cup ClosePcs
AdminPcs   == {"new", "done"} \cup ForcePcs
PumpStates == {"off", "idle", "toPlaying", "markReady"}

TypeOK ==
  /\ SlotTypeOK
  /\ pc \in [Callers -> LinkPcs \cup AdminPcs]
  /\ \A l \in Links : pc[l] \in LinkPcs
  /\ \A a \in Admins : pc[a] \in AdminPcs
  /\ probe \in [Callers -> 1..4]
  /\ rounds \in [Links -> 0..MaxRounds]
  /\ myTicket \in [Links -> Nat]
  /\ pump \in [Links -> PumpStates]
  /\ media \in [Links -> Seq({"Ready", "Failed"})]
  /\ ready \in Seq(Nat)
  /\ dials \in [Links -> 0..MaxDials]
  /\ wtEvents \in Seq(Links)
  /\ gone \subseteq Links

Init ==
  /\ SlotInit
  /\ pc = [c \in Callers |-> "new"]
  /\ probe = [c \in Callers |-> 1]
  /\ rounds = [l \in Links |-> 0]
  /\ myTicket = [l \in Links |-> 0]
  /\ pump = [l \in Links |-> "off"]
  /\ media = [l \in Links |-> <<>>]
  /\ ready = <<>>
  /\ dials = [l \in Links |-> 0]
  /\ wtEvents = <<>>
  /\ gone = {}

Goto(c, from, to) == pc[c] = from /\ pc' = [pc EXCEPT ![c] = to]

\* SessionManager::owns.
Owns(l) == myTicket[l] = ticket /\ player # NoPlayer

\* What a send on a link's MediaSignal channel leaves; nothing once the
\* receiving pump is gone.
Sent(l, m) ==
  IF pump[l] = "off" THEN media ELSE [media EXCEPT ![l] = Append(@, m)]

-----------------------------------------------------------------------------
(* SessionManager::claim *)

\* The client connects, answers the device challenge and the claim begins.
Connect(l) ==
  /\ Goto(l, "new", "check")
  /\ UNCHANGED <<sessionVars, probe, rounds, myTicket, pumpVars, envVars>>

\* First lock region: is the slot taken?
ClaimCheck(l) ==
  /\ pc[l] = "check"
  /\ pc' = [pc EXCEPT ![l] = IF ~Busy THEN "install"
                             ELSE IF l \in PreviewLinks THEN "refused"
                             ELSE "fdBye"]
  /\ UNCHANGED <<sessionVars, probe, rounds, myTicket, pumpVars, envVars>>

\* The settlement loop: free, past the deadline, or wait once more.
SettleCheck(l) ==
  /\ pc[l] = "settle"
  /\ \/ /\ ~Busy
        /\ pc' = [pc EXCEPT ![l] = "install"]
        /\ UNCHANGED <<rounds, settle>>
     \/ /\ Busy
        /\ rounds[l] = MaxRounds
        /\ pc' = [pc EXCEPT ![l] = "refused"]
        /\ UNCHANGED <<rounds, settle>>
     \/ /\ Busy
        /\ rounds[l] < MaxRounds
        /\ pc' = [pc EXCEPT ![l] = "wait"]
        /\ rounds' = [rounds EXCEPT ![l] = @ + 1]
        /\ settle' = settle \cup {l}
  /\ UNCHANGED <<slot, probe, myTicket, pumpVars, envVars>>

\* Mutant: a claim waits for the notification alone.
SettleWake_WithoutTimeout(l) ==
  /\ l \notin settle
  /\ Goto(l, "wait", "settle")
  /\ UNCHANGED <<sessionVars, probe, rounds, myTicket, pumpVars, envVars>>

\* Notified, or 250 ms went by.
SettleWake(l) ==
  /\ Goto(l, "wait", "settle")
  /\ settle' = settle \ {l}
  /\ UNCHANGED <<slot, probe, rounds, myTicket, pumpVars, envVars>>

\* Mutant: the ticket is read before it is bumped.
Install_StaleTicket(l) ==
  /\ Goto(l, "install", "setController")
  /\ InstallPlayer(l)
  /\ myTicket' = [myTicket EXCEPT ![l] = ticket]
  /\ UNCHANGED <<probe, rounds, pumpVars, envVars>>

Install(l) ==
  /\ Goto(l, "install", "setController")
  /\ InstallPlayer(l)
  /\ myTicket' = [myTicket EXCEPT ![l] = ticket + 1]
  /\ UNCHANGED <<probe, rounds, pumpVars, envVars>>

-----------------------------------------------------------------------------
(* SessionManager::force_disconnect, called by claim and by the admins *)

AdminCall(a) ==
  /\ Goto(a, "new", "fdBye")
  /\ UNCHANGED <<sessionVars, probe, rounds, myTicket, pumpVars, envVars>>

Returned(c) == IF c \in Links THEN "settle" ELSE "done"

ForceBye(c) ==
  /\ Goto(c, "fdBye", "fdProbe")
  /\ UNCHANGED <<sessionVars, probe, rounds, myTicket, pumpVars, envVars>>

\* Mutant: the probe loop runs one entry past its array.
LastProbe_OffByOne(c) == probe[c] > Len(ProbeOrder)

LastProbe(c) == probe[c] = Len(ProbeOrder)

\* One turn of the probe loop: its own lock region.
ForceProbe(c) ==
  /\ pc[c] = "fdProbe"
  /\ \/ /\ state = ProbeOrder[probe[c]]
        /\ pc' = [pc EXCEPT ![c] = "fdStop"]
        /\ probe' = [probe EXCEPT ![c] = 1]
     \/ /\ state # ProbeOrder[probe[c]]
        /\ ~LastProbe(c)
        /\ probe' = [probe EXCEPT ![c] = @ + 1]
        /\ UNCHANGED pc
     \/ /\ state # ProbeOrder[probe[c]]
        /\ LastProbe(c)
        /\ pc' = [pc EXCEPT ![c] = Returned(c)]
        /\ probe' = [probe EXCEPT ![c] = 1]
  /\ UNCHANGED <<sessionVars, rounds, myTicket, pumpVars, envVars>>

ForceStop(c) ==
  /\ Goto(c, "fdStop", Returned(c))
  /\ Transition("Stopping")
  /\ UNCHANGED <<probe, rounds, myTicket, pumpVars, envVars>>

-----------------------------------------------------------------------------
(* drive: after the claim, and its inbound loop *)

SetController(l) ==
  /\ Goto(l, "setController", "wire")
  /\ WithPlayer([player EXCEPT !.controller = l])
  /\ UNCHANGED <<probe, rounds, myTicket, pumpVars, envVars>>

\* The input and control sinks are wired and the pumps spawned.
Wire(l) ==
  /\ Goto(l, "wire", "serve")
  /\ pump' = [pump EXCEPT ![l] = "idle"]
  /\ UNCHANGED <<sessionVars, probe, rounds, myTicket, media, ready, envVars>>

\* A message arrives: a displaced link ends here, else it is dispatched.
\* "endCheck" at once: Bye, a wrong protocol version, or no common codec.
\* Ping, telemetry, ICE and redial requests leave the slot alone.
Receive(l) ==
  /\ pc[l] = "serve"
  /\ l \notin gone
  /\ pc' \in {[pc EXCEPT ![l] = next] :
                next \in IF Owns(l) THEN {"hello", "capture", "endCheck"}
                         ELSE {"endCheck"}}
  /\ UNCHANGED <<sessionVars, probe, rounds, myTicket, pumpVars, envVars>>

ReceiveClosed(l) ==
  /\ l \in gone
  /\ Goto(l, "serve", "endCheck")
  /\ UNCHANGED <<sessionVars, probe, rounds, myTicket, pumpVars, envVars>>

\* ClientHello: the requested mode is stored with the current player.
Hello(l) ==
  /\ Goto(l, "hello", "serve")
  /\ WithPlayer([player EXCEPT !.config = l])
  /\ UNCHANGED <<probe, rounds, myTicket, pumpVars, envVars>>

\* ClientCapabilities: the awaited capture check failed.
CaptureUnavailable(l) ==
  /\ Goto(l, "capture", "endCheck")
  /\ Transition("Stopping")
  /\ UNCHANGED <<probe, rounds, myTicket, pumpVars, envVars>>

\* ClientCapabilities: config and sink are set, a pending Ready is delivered
\* and the pipeline is built, all inside with_player.
Build(l) ==
  /\ pc[l] = "capture"
  /\ \/ /\ player = NoPlayer
        /\ pc' = [pc EXCEPT ![l] = "endCheck"]
        /\ UNCHANGED <<player, media>>
     \/ /\ player # NoPlayer
        /\ \E ok \in BOOLEAN, built \in {l, player.pipeline} :
             /\ ok => built = l
             /\ pc' = [pc EXCEPT ![l] = IF ok THEN "negotiate" ELSE "buildFailed"]
             /\ player' = [player EXCEPT !.config = l, !.sink = l,
                                         !.readyPending = FALSE,
                                         !.pipeline = built]
        /\ media' = IF player.readyPending THEN Sent(l, "Ready") ELSE media
  /\ UNCHANGED <<state, ticket, settle, probe, rounds, myTicket, pump, ready,
                 envVars>>

Negotiate(l) ==
  /\ Goto(l, "negotiate", "serve")
  /\ Transition("Negotiating")
  /\ UNCHANGED <<probe, rounds, myTicket, pumpVars, envVars>>

BuildFailed(l) ==
  /\ Goto(l, "buildFailed", "endCheck")
  /\ Transition("Stopping")
  /\ UNCHANGED <<probe, rounds, myTicket, pumpVars, envVars>>

-----------------------------------------------------------------------------
(* SessionManager::end_link and the end of drive *)

\* First lock region of end_link: the ticket test; the lock is then dropped.
EndCheck(l) ==
  /\ Goto(l, "endCheck", IF myTicket[l] = ticket THEN "endStop" ELSE "drain")
  /\ UNCHANGED <<sessionVars, probe, rounds, myTicket, pumpVars, envVars>>

\* Mutant: a link whose socket is already closed leaves its session behind.
EndStop_Forgets(l) ==
  /\ Goto(l, "endStop", "drain")
  /\ IF l \in gone THEN UNCHANGED sessionVars ELSE Transition("Stopping")
  /\ UNCHANGED <<probe, rounds, myTicket, pumpVars, envVars>>

EndStop(l) ==
  /\ Goto(l, "endStop", "drain")
  /\ Transition("Stopping")
  /\ UNCHANGED <<probe, rounds, myTicket, pumpVars, envVars>>

\* Mutant: the pump is not aborted.
Close_LeavesPump(l) ==
  /\ Goto(l, "drain", "closed")
  /\ UNCHANGED <<sessionVars, probe, rounds, myTicket, pumpVars, envVars>>

\* 150 ms later the pumps are aborted: an idle one ends now, one that is
\* handling a signal when it next awaits.
Close(l) ==
  /\ Goto(l, "drain", "closed")
  /\ pump' = [pump EXCEPT ![l] = IF @ = "idle" THEN "off" ELSE @]
  /\ media' = IF pump[l] \in {"idle", "off"} THEN [media EXCEPT ![l] = <<>>] ELSE media
  /\ UNCHANGED <<sessionVars, probe, rounds, myTicket, ready, envVars>>

-----------------------------------------------------------------------------
(* The outbound pump *)

\* A Ready: the state is read first, in a lock region of its own.
PumpReady(l) ==
  /\ pump[l] = "idle"
  /\ media[l] # <<>> /\ Head(media[l]) = "Ready"
  /\ media' = [media EXCEPT ![l] = Tail(@)]
  /\ pump' = [pump EXCEPT ![l] =
                IF state \in {"Paired", "Negotiating", "Reconnecting"}
                THEN "toPlaying" ELSE "markReady"]
  /\ UNCHANGED <<sessionVars, linkVars, ready, envVars>>

PumpPlaying(l) ==
  /\ pump[l] = "toPlaying"
  /\ Transition("Playing")
  /\ pump' = [pump EXCEPT ![l] = "markReady"]
  /\ UNCHANGED <<linkVars, media, ready, envVars>>

\* mark_ready on whichever player is current; SessionReady to this link.
PumpMarkReady(l) ==
  /\ pump[l] = "markReady"
  /\ MarkReady
  /\ ready' = IF ReadyIsNews THEN Append(ready, ticket) ELSE ready
  /\ IF pc[l] = "closed"
       THEN /\ pump'  = [pump EXCEPT ![l] = "off"]
            /\ media' = [media EXCEPT ![l] = <<>>]
       ELSE /\ pump'  = [pump EXCEPT ![l] = "idle"]
            /\ UNCHANGED media
  /\ UNCHANGED <<linkVars, envVars>>

\* A Failed stops the session that is current, then goes to the client.
PumpFailed(l) ==
  /\ pump[l] = "idle"
  /\ media[l] # <<>> /\ Head(media[l]) = "Failed"
  /\ media' = [media EXCEPT ![l] = Tail(@)]
  /\ Transition("Stopping")
  /\ UNCHANGED <<linkVars, pump, ready, envVars>>

\* A send to a broken socket ends the pump.
PumpBreaks(l) ==
  /\ pump[l] = "idle"
  /\ pump' = [pump EXCEPT ![l] = "off"]
  /\ media' = [media EXCEPT ![l] = <<>>]
  /\ UNCHANGED <<sessionVars, linkVars, ready, envVars>>

-----------------------------------------------------------------------------
(* The rest of the program, and the clients *)

\* app.rs: a WebTransport client authenticated.  The event names no session,
\* so the current player is told its media path is up.
WtConnected ==
  /\ wtEvents # <<>>
  /\ wtEvents' = Tail(wtEvents)
  /\ WithPlayer(IF player.sink = NoLink THEN [player EXCEPT !.readyPending = TRUE]
                                      ELSE player)
  /\ media' = IF player # NoPlayer /\ player.sink # NoLink
                THEN Sent(player.sink, "Ready") ELSE media
  /\ UNCHANGED <<linkVars, pump, ready, dials, gone>>

\* session_stop and logout: any paired browser may call them.
HttpStop ==
  /\ Transition("Stopping")
  /\ UNCHANGED <<linkVars, pumpVars, envVars>>

\* The client dials the video path it was advertised and is let in; its token
\* stays good when the link is displaced or closes.
Dial(l) ==
  /\ myTicket[l] # 0 /\ pc[l] \notin {"setController", "wire"}
  /\ dials[l] < MaxDials
  /\ dials' = [dials EXCEPT ![l] = @ + 1]
  /\ wtEvents' = Append(wtEvents, l)
  /\ UNCHANGED <<sessionVars, linkVars, pumpVars, gone>>

\* The pipeline's webrtcbin reports its ICE state to the sink it was built with.
IceState(m) ==
  /\ player # NoPlayer
  /\ player.pipeline \in Answering
  /\ Len(media[player.pipeline]) < MaxMedia
  /\ media' = Sent(player.pipeline, m)
  /\ UNCHANGED <<sessionVars, linkVars, pump, ready, envVars>>

Leave(l) ==
  /\ pc[l] # "new" /\ l \notin gone
  /\ gone' = gone \cup {l}
  /\ UNCHANGED <<sessionVars, linkVars, pumpVars, dials, wtEvents>>

-----------------------------------------------------------------------------
ForceStep(c) == ForceBye(c) \/ ForceProbe(c) \/ ForceStop(c)

\* What the link's task does on its own, given its channel's state.
LinkStep(l) ==
  \/ ClaimCheck(l) \/ ForceStep(l) \/ SettleCheck(l) \/ SettleWake(l) \/ Install(l)
  \/ SetController(l) \/ Wire(l) \/ ReceiveClosed(l) \/ Hello(l)
  \/ CaptureUnavailable(l) \/ Build(l) \/ Negotiate(l) \/ BuildFailed(l)
  \/ EndCheck(l) \/ EndStop(l) \/ Close(l)

PumpStep(l) ==
  PumpReady(l) \/ PumpPlaying(l) \/ PumpMarkReady(l) \/ PumpFailed(l)

ClientStep(l) ==
  Connect(l) \/ Receive(l) \/ PumpBreaks(l) \/ Dial(l) \/ Leave(l)

Next ==
  \/ \E l \in Links : LinkStep(l) \/ PumpStep(l) \/ ClientStep(l)
  \/ \E a \in Admins : AdminCall(a) \/ ForceStep(a)
  \/ WtConnected
  \/ HttpStop
  \/ \E m \in {"Ready", "Failed"} : IceState(m)

\* Tokio polls every runnable task; clients owe the host nothing.
Fairness ==
  /\ \A l \in Links : WF_vars(LinkStep(l)) /\ WF_vars(PumpStep(l))
  /\ \A a \in Admins : WF_vars(ForceStep(a))
  /\ WF_vars(WtConnected)

Spec == Init /\ [][Next]_vars
FairSpec == Spec /\ Fairness

-----------------------------------------------------------------------------
(* What holds *)

\* The slot never rests half torn down: there is a player exactly when the
\* state says so, between any two lock regions of any tasks.
SlotConsistent ==
  /\ player = NoPlayer <=> state = "Idle"
  /\ state # "Stopping"

\* Ticket ownership is exact: the only link for which owns() holds is the one
\* whose session is in the slot, so no two links can both pass the ownership
\* test (review section 11).
OwnerIsHolder ==
  \A l \in Links : Owns(l) <=> player # NoPlayer /\ player.link = l

\* mark_ready releases session_ready once per session, however many Ready
\* signals the WebTransport path and ICE raise and whichever pump reads them.
ReadyOncePerSession ==
  \A i, j \in 1..Len(ready) : i < j => ready[i] < ready[j]

\* A preview is never armed, not even by a Ready that was raised for the real
\* player it replaced or that replaced it.
PreviewNeverArmed ==
  player # NoPlayer /\ player.link \in PreviewLinks => ~player.armed

\* Why tickets decide ownership: each one is issued to one link, the slot's
\* player holds the newest, and a link has none before it installs.
TicketsExact ==
  /\ \A l \in Links : myTicket[l] <= ticket
  /\ \A l, m \in Links : myTicket[l] = myTicket[m] /\ myTicket[l] # 0 => l = m
  /\ player # NoPlayer => ticket # 0 /\ myTicket[player.link] = ticket
  /\ \A l \in Links : pc[l] \in {"new", "refused"} \cup ClaimPcs => myTicket[l] = 0

\* Why readiness is announced once: no SessionReady was sent for a session
\* whose player is not ready yet.
ReadyExact ==
  /\ ReadyOncePerSession
  /\ \A i \in 1..Len(ready) : ready[i] <= ticket
  /\ player # NoPlayer /\ ~player.mediaReady
       => \A i \in 1..Len(ready) : ready[i] # ticket

\* The inductive invariant of the proofs.  RECONNECTING is never entered.
IInv ==
  /\ TypeOK
  /\ SlotConsistent
  /\ state # "Reconnecting"
  /\ TicketsExact
  /\ ReadyExact
  /\ PreviewNeverArmed

\* The slot implements PlayerSlot.
Slot == INSTANCE PlayerSlot WITH
  holder  <- IF player = NoPlayer THEN NoLink ELSE player.link,
  phase   <- state,
  armed   <- player # NoPlayer /\ player.armed,
  retired <- {l \in Links : myTicket[l] # 0}

SlotKeepsItsPromise == Slot!Spec

\* Every claim is answered: installed, or refused after at most MaxRounds waits.
ClaimAnswered ==
  \A l \in Links : pc[l] = "check" ~> pc[l] \in {"refused", "setController"}

\* A client that disappears does not keep the host: its link winds down with
\* its pump, whatever the client was doing, and leaves the slot.
GoneWindsDown ==
  \A l \in Links :
    l \in gone ~> pc[l] \in {"refused", "closed"} /\ pump[l] = "off" /\ ~Owns(l)

=============================================================================
