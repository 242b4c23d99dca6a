------------------------------ MODULE VideoPath ------------------------------
(***************************************************************************)
(* The way of a keyframe: a client without a picture asks, two throttles   *)
(* stand between the request and the encoder, the frame queue evicts, the  *)
(* sender follows the live connection and picks a carrier, and the frame   *)
(* arrives on a channel the client may have stopped reading                *)
(* (crates/host/src/media/wt/transport.rs, session.rs, the keyframe part   *)
(* of the event pump in app.rs, and requestKeyframe of web/src/wtcore.ts). *)
(* The slot and the handshake are in WtSession: here one client dials      *)
(* again and again.  Connections and channels have no names, only ages:    *)
(* everything that belongs to an earlier connection is "dead".             *)
(***************************************************************************)
EXTENDS Naturals, Sequences, SequencesExt

CONSTANTS
  MaxQueue,    \* cap of the FrameQueue
  MaxEvents    \* bound: unread events when something happens (the channel has none)

ASSUME VideoBounds == MaxQueue \in Nat \ {0} /\ MaxEvents \in Nat \ {0}

VARIABLES
  up,            \* the client's connection is open
  newest,        \* its newest video channel: "none", "marked" (the marker travels), "known"
  anchored,      \* it decodes: a keyframe arrived, and no hole since
  mayAsk, ask,   \* its own throttle; a request on its way
  live,          \* Shared::live_connection
  sink,          \* Shared::video_sink
  datagram,      \* Shared::datagram_video
  gateOpen,      \* a second has passed since last_keyreq_log
  events,        \* the endpoint's event channel
  pending,       \* the pump: keyframe_pending
  pumpOpen,      \* KEYFRAME_MIN_INTERVAL has passed since last_keyframe
  wanted,        \* the encoder was told to make its next frame a keyframe
  queue,         \* FrameQueue
  target,        \* the sender: its copy of live,
  stream,        \* its stream,
  hand,          \* the frame it writes
  landing        \* a keyframe travels on a channel the client reads

clientVars == <<up, newest, anchored, mayAsk, ask>>
pumpVars == <<events, pending, pumpOpen, wanted>>
senderVars == <<target, stream, hand>>
vars == <<clientVars, live, sink, datagram, gateOpen, pumpVars, queue,
          senderVars, landing>>

Frame == {"key", "delta"}
Connection == {"none", "current", "dead"}
Channel == {"none", "newest", "older", "dead"}

TypeOK ==
  /\ up \in BOOLEAN /\ newest \in {"none", "marked", "known"}
  /\ anchored \in BOOLEAN /\ mayAsk \in BOOLEAN /\ ask \in BOOLEAN
  /\ live \in Connection /\ sink \in Channel
  /\ datagram \in BOOLEAN /\ gateOpen \in BOOLEAN
  /\ events \in Seq({"Connected", "KeyframeRequest"}) /\ Len(events) <= MaxEvents
  /\ pending \in BOOLEAN /\ pumpOpen \in BOOLEAN /\ wanted \in BOOLEAN
  /\ queue \in Seq(Frame) /\ Len(queue) <= MaxQueue
  /\ target \in Connection /\ stream \in Channel /\ hand \in Frame \cup {"none"}
  /\ landing \in BOOLEAN

Init ==
  /\ up = FALSE /\ newest = "none" /\ anchored = FALSE /\ mayAsk = TRUE /\ ask = FALSE
  /\ live = "none" /\ sink = "none" /\ datagram = FALSE /\ gateOpen = TRUE
  /\ events = <<>> /\ pending = FALSE /\ pumpOpen = TRUE /\ wanted = FALSE
  /\ queue = <<>> /\ target = "none" /\ stream = "none" /\ hand = "none"
  /\ landing = FALSE

------------------------------------------------------------------------------
(* Connections.  A client that dials again closes its old connection; the   *)
(* channels on it and what they carried are gone, the host's sink is not.   *)

Dead(c) == IF c = "none" THEN "none" ELSE "dead"
Old(ch) == CASE ch = "newest" -> "older" [] ch = "older" -> "dead" [] OTHER -> ch

Connect ==
  /\ ~up /\ Len(events) < MaxEvents
  /\ up' = TRUE /\ newest' = "none" /\ anchored' = FALSE /\ mayAsk' = TRUE /\ ask' = FALSE
  /\ datagram' = FALSE /\ events' = Append(events, "Connected")
  /\ live' = Dead(live) /\ target' = Dead(target)
  /\ sink' = Dead(sink) /\ stream' = Dead(stream) /\ landing' = FALSE
  /\ UNCHANGED <<gateOpen, pending, pumpOpen, wanted, queue, hand>>

Publish ==
  /\ up /\ live # "current" /\ live' = "current"
  /\ UNCHANGED <<clientVars, sink, datagram, gateOpen, pumpVars, queue,
                 senderVars, landing>>

ConnEnds ==
  /\ up /\ up' = FALSE
  /\ newest' = "none" /\ anchored' = FALSE /\ mayAsk' = TRUE /\ ask' = FALSE
  /\ sink' = Dead(sink) /\ stream' = Dead(stream) /\ landing' = FALSE
  /\ UNCHANGED <<live, datagram, gateOpen, pumpVars, queue,
                 target, hand>>

TearDown ==
  /\ ~up /\ live = "current" /\ live' = "none"
  /\ UNCHANGED <<clientVars, sink, datagram, gateOpen, pumpVars, queue,
                 senderVars, landing>>

(* EnableDatagramVideo, DisableDatagramVideo.                               *)
SwitchCarrier ==
  /\ up /\ datagram' = ~datagram
  /\ UNCHANGED <<clientVars, live, sink, gateOpen, pumpVars, queue,
                 senderVars, landing>>

------------------------------------------------------------------------------
(* The client.  A request opens a channel of its own first (openSpare-      *)
(* Channel); its marker and the request travel separately.  The client      *)
(* reads the channel before it too and cancels what is older: one spare     *)
(* stands for MAX_SPARE_CHANNELS.                                           *)

RequestKeyframe ==
  /\ up /\ ~anchored /\ mayAsk
  /\ mayAsk' = FALSE /\ ask' = TRUE
  /\ newest' = "marked" /\ sink' = Old(sink) /\ stream' = Old(stream)
  /\ UNCHANGED <<up, anchored, live, datagram, gateOpen, pumpVars, queue,
                 target, hand, landing>>

(* A window is a second: what the client sent in the last one has arrived,  *)
(* and a write has ended (KEY_STREAM_TIMEOUT is half of it).                *)
ClientTick ==
  /\ ~mayAsk /\ ~ask /\ newest # "marked" /\ hand = "none" /\ mayAsk' = TRUE
  /\ UNCHANGED <<up, newest, anchored, ask, live, sink, datagram, gateOpen,
                 pumpVars, queue, senderVars, landing>>

(* A hole the repairs did not fill: the orderer drops its anchor.           *)
LoseAnchor ==
  /\ up /\ anchored /\ anchored' = FALSE
  /\ UNCHANGED <<up, newest, mayAsk, ask, live, sink, datagram, gateOpen, pumpVars,
                 queue, senderVars, landing>>

------------------------------------------------------------------------------
(* The host's readers of the connection.                                    *)

Installed_KeepsFirst == IF sink = "none" THEN "newest" ELSE sink
Installed == "newest"

InstallSink ==
  /\ newest = "marked" /\ newest' = "known"
  /\ sink' = Installed
  /\ UNCHANGED <<up, anchored, mayAsk, ask, live, datagram, gateOpen, pumpVars, queue,
                 senderVars, landing>>

(* request_keyframe: at most once a second; a request inside the second is  *)
(* forgotten.                                                               *)
ReadAsk ==
  /\ ask /\ ask' = FALSE /\ Len(events) < MaxEvents
  /\ IF gateOpen
     THEN /\ gateOpen' = FALSE
          /\ events' = Append(events, "KeyframeRequest")
     ELSE UNCHANGED <<gateOpen, events>>
  /\ UNCHANGED <<up, newest, anchored, mayAsk, live, sink, datagram, pending, pumpOpen, wanted,
                 queue, senderVars, landing>>

GateTick ==
  /\ ~gateOpen /\ gateOpen' = TRUE
  /\ UNCHANGED <<clientVars, live, sink, datagram, pumpVars, queue,
                 senderVars, landing>>

------------------------------------------------------------------------------
(* One turn of the event pump: an event if there is one, then the request   *)
(* it remembers, if the window has opened.                                  *)

Asked_InsideWindowOnly(e) == e = "KeyframeRequest" /\ pumpOpen
Asked(e) == pending \/ e = "KeyframeRequest"

PumpTurn ==
  LET e == IF events = <<>> THEN "nothing" ELSE Head(events)
      asked == Asked(e)
      open == pumpOpen /\ e # "Connected"
  IN /\ events # <<>> \/ (pending /\ pumpOpen)
     /\ events' = IF events = <<>> THEN events ELSE Tail(events)
     /\ pending' = (asked /\ ~open) /\ pumpOpen' = (open /\ ~asked)
     /\ wanted' = (wanted \/ e = "Connected" \/ (asked /\ open))
     /\ UNCHANGED <<clientVars, live, sink, datagram, gateOpen, queue,
                    senderVars, landing>>

PumpTick ==
  /\ ~pumpOpen /\ pumpOpen' = TRUE
  /\ UNCHANGED <<clientVars, live, sink, datagram, gateOpen, events, pending,
                 wanted, queue, senderVars, landing>>

------------------------------------------------------------------------------
(* The encoder and the queue.  A full queue gives up its oldest delta, or   *)
(* its oldest frame when it holds keyframes only.                           *)

Deltas == {i \in 1..Len(queue) : queue[i] = "delta"}
Victim == IF Deltas = {} THEN 1 ELSE CHOOSE i \in Deltas : \A j \in Deltas : i <= j
Room == IF Len(queue) < MaxQueue THEN queue ELSE RemoveAt(queue, Victim)

(* send_frame: the newest frame is always admitted.                         *)
Pushed(frame) == queue' = Append(Room, frame)

Encode ==
  /\ Pushed(IF wanted THEN "key" ELSE "delta")
  /\ wanted' = FALSE
  /\ UNCHANGED <<clientVars, live, sink, datagram, gateOpen, events, pending,
                 pumpOpen, senderVars, landing>>

------------------------------------------------------------------------------
(* The sender: one task, one frame at a time.                               *)

FollowLive ==
  /\ hand = "none" /\ target # live
  /\ target' = live /\ stream' = "none"
  /\ UNCHANGED <<clientVars, live, sink, datagram, gateOpen, pumpVars, queue, hand,
                 landing>>

Pop == hand = "none" /\ target # "none" /\ queue # <<>> /\ queue' = Tail(queue)

(* DELTA_FRESHNESS, KEY_FRESHNESS.                                          *)
Expire ==
  /\ Pop
  /\ UNCHANGED <<clientVars, live, sink, datagram, gateOpen, pumpVars,
                 senderVars, landing>>

(* A keyframe somebody asked for goes out as datagrams too if it is small   *)
(* enough (key_by_datagram): they may all arrive.                           *)
SendCopy(f) ==
  \/ UNCHANGED anchored
  \/ f = "key" /\ datagram /\ up /\ target = "current" /\ anchored' = TRUE

(* A keyframe prefers the channel installed last, a delta keeps its stream. *)
WantsFresh_Never(f) == stream = "none"
WantsFresh(f) == f = "key" \/ stream = "none"

PickStream(f) ==
  IF WantsFresh(f) /\ sink # "none"
  THEN stream' = sink /\ sink' = "none"
  ELSE UNCHANGED <<stream, sink>>

SendFrame ==
  LET f == Head(queue)
  IN /\ Pop /\ SendCopy(f)
     /\ IF datagram /\ f = "delta"
        THEN UNCHANGED <<stream, sink, hand>>
        ELSE PickStream(f) /\ hand' = IF stream' = "none" THEN "none" ELSE f
     /\ UNCHANGED <<up, newest, mayAsk, ask, live, datagram, gateOpen, pumpVars, target,
                    landing>>

(* write_all returned: the frame travels, or is in a void if the client no  *)
(* longer reads that channel.                                               *)
Read == stream \in {"newest", "older"}

WriteDone ==
  /\ hand # "none" /\ hand' = "none"
  /\ landing' = (landing \/ (hand = "key" /\ Read))
  /\ UNCHANGED <<clientVars, live, sink, datagram, gateOpen, pumpVars, queue, target, stream>>

(* The write failed, or timed out and the stream was reset.                 *)
WriteFails ==
  /\ hand # "none" /\ hand' = "none" /\ stream' = "none"
  /\ UNCHANGED <<clientVars, live, sink, datagram, gateOpen, pumpVars, queue, target,
                 landing>>

Land ==
  /\ landing /\ landing' = FALSE /\ anchored' = TRUE
  /\ UNCHANGED <<up, newest, mayAsk, ask, live, sink, datagram, gateOpen, pumpVars,
                 queue, senderVars>>

------------------------------------------------------------------------------
ClientStep ==
  Connect \/ ConnEnds \/ SwitchCarrier \/ RequestKeyframe \/ ClientTick \/ LoseAnchor \/ Land

HostStep ==
  \/ Publish \/ TearDown \/ InstallSink \/ ReadAsk \/ GateTick
  \/ PumpTurn \/ PumpTick \/ Encode

SenderStep == FollowLive \/ Expire \/ SendFrame \/ WriteDone \/ WriteFails

Next == ClientStep \/ HostStep \/ SenderStep

(* tokio runs the host's tasks, time passes and the client keeps asking.    *)
Fairness ==
  /\ WF_vars(Publish) /\ WF_vars(ReadAsk) /\ WF_vars(GateTick) /\ WF_vars(InstallSink)
  /\ WF_vars(PumpTurn) /\ WF_vars(PumpTick) /\ WF_vars(Encode)
  /\ WF_vars(FollowLive) /\ WF_vars(SendFrame \/ Expire) /\ WF_vars(WriteDone \/ WriteFails)
  /\ WF_vars(RequestKeyframe) /\ SF_vars(ClientTick) /\ WF_vars(Land)

(* The network heals: from some time on keyframes are fresh when they are   *)
(* popped, and a channel somebody reads takes what is written to it.        *)
Heals ==
  /\ <>[][~(Expire /\ Head(queue) = "key")]_vars
  /\ <>[][~(WriteFails /\ Read)]_vars

Spec == Init /\ [][Next]_vars
FairSpec == Spec /\ Fairness /\ Heals

------------------------------------------------------------------------------
(* "An empty slot means the cached stream was the newest one installed"     *)
(* (transport.rs, the sender's choice of a stream): no frame goes to an     *)
(* older channel once the newest is known.                                  *)
EmptySlotMeansNewest ==
  newest = "known" /\ sink = "none" /\ stream # "none" => stream \in {"newest", "dead"}

(* A client without a picture gets one, or its connection ends: stale       *)
(* channels, two throttles and the queue never add up to a black glass.     *)
PictureReturns == (up /\ ~anchored) ~> (anchored \/ ~up)

(* "A throttled request is remembered and served when the window opens"     *)
(* (app.rs): what the first throttle let through becomes a keyframe.        *)
AcceptedAskServed ==
  (pending \/ Contains(events, "KeyframeRequest")) ~> wanted
==============================================================================
