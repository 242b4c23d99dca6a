# InPhase: TLA+ models and proofs

InPhase streams a Windows desktop to one browser at a time. The host
(`crates/host`, Rust, tokio) captures and encodes the screen, serves the web
player, authenticates paired devices and injects their input; the player
(`web/src`, TypeScript) receives video over WebTransport, decodes it and sends
input back. This directory holds TLA+ modules that model the host's concurrent
logic and the parts of the player it works with, the TLC configurations that
check them on small instances, and proofs that hold for every instance.

Contents: [inventory](#inventory) · [modules](#modules) · [the models](#the-models) ·
[the runs](#the-runs) · [bounds](#bounds) · [fairness](#fairness) ·
[proofs](#proofs) · [disagreements](#where-the-code-and-its-documentation-disagree) ·
[limits](#what-is-not-modelled)

## Inventory

Paths are under `src/crates/host/src/` unless they say otherwise.

| Component | State it keeps | Operations | Interacts with |
| --- | --- | --- | --- |
| Session slot, `session/mod.rs` | `Inner {state, player, ticket}` under one mutex, the `settle` Notify | `claim`, `end_link`, `owns`, `with_player`, `transition`, `force_disconnect`, `set_controller`, `mark_ready` | every link, the admins, the HTTP API, the WebTransport event pump |
| Signaling links, `http/signal.rs` | one task per browser WebSocket, its outbound pump, the `MediaSignal` channel, the session's configuration | `drive`, `handle_message`, the pump's `Ready` / `Failed` handling, the choice of codec, mode and rate | slot, media session, pairing and ACL for the device challenge |
| Media session and pipeline, `media/mod.rs`, `media/pipeline.rs` | the signal sink, a pending Ready, the pipeline, its threads | `configure`, `start`, `stop`, abandoning a build, statistics poller, bus watch | owned by the player in the slot; threads outlive it |
| WebTransport server, `media/wt/` | one-time tokens, the `active` slot, `live_connection`, `control_out`, frame queue, re-send cache, pace | token issue / consume, incoming session, displacement, teardown, frame push / pop, fragments and parity, NACK answers, keyframe requests | signaling advertises it, the app's event pump reads its events |
| Transport rotation, `app.rs`, `media/wt/mod.rs` | the transport in the slot, its certificate's age, the UDP port | choose, retire, bind with retries | players, pipelines that hold handles |
| Bitrate controller, `media/bitrate.rs` | target, remembered ceiling, cooldown, streaks | one step per second on loss, delay, backlog | telemetry, encoder |
| Pairing, `pairing/mod.rs` | PIN, failures, browser sessions, their controller bindings, persisted | `try_pair`, `mint_session`, `bind_controller`, revocations, pruning | HTTP API, signaling |
| Identity, `identity/` | controller ACL (persisted), invitations, the host's key | add, touch, revoke; create / approve / consume | HTTP API, signaling |
| Input session, `input/` | held keys and buttons, gamepad, sequence high-water mark, token bucket, watchdog | `handle_packet`, `reconcile_snapshot`, `tick_watchdog`, `release_all`, drop | readers of the WebTransport session, Windows backends |
| Start and files, `main.rs`, `config.rs`, `tls.rs`, `identity/mod.rs` | configuration, identity, local CA, leaf certificate, instance lock | load, create, rewrite, renew, setup commands | disk, browsers that pinned a key or a CA |
| Names, `http/mod.rs`, `endpoint.rs` | the list of names that are the host's | the three gates in front of the routes, refresh | address changes, browsers |
| Port mapping, `portmap.rs` | two leases, nonces, renewal time | map, renew, release | router |
| Health, `health.rs`, `stats/mod.rs` | one collector of numbers, the verdict announced last | poll, tick, symptoms | threads of present and past pipelines |
| Cover cache, `gameart.rs` | images, misses, names in flight | background batches | the page that lists games |
| Player, receiving, `src/web/src/wtcore.ts`, `frameorder.ts` | assemblies, tombstones, order of frames | fragments, parity repair, NACK rounds, release in order, keyframe requests | host |
| Player, input, `src/web/src/input/` | held keys and buttons, gamepad, capture, packet number | DOM event handlers, gamepad poll, 40 Hz snapshot, blur, encoder | sends each packet twice through `wtcore.ts` |

Input backends, the doctor, the tray, game scanners, audio, decoding, pacing in
the player and the vendored QUIC stack complete the list; `PROJECT.json` names
each with the reason it is not modelled, or how far it is.

*What is hard, and what correctness means there.* Many tasks share the slot, and
`claim`, `end_link` and `force_disconnect` are sequences of lock regions with
gaps: exactly one link may own the slot, `session_ready` is announced once, a
preview is never armed, a vanished client gives the slot up. A new WebTransport
connection installs itself in four lock regions while an older one tears down in
four: cleanup may clear only what is its own, and no described configuration may
fall in between. Input packets arrive late, twice and out of order, and every
control pressed must come up. Video fragments are lost, rebuilt and sent again,
and the decoder must still get an unbroken chain. Keyframe requests pass two
throttles and must not be lost. Feedback laws must neither oscillate nor stick.
Requests that pair, sign in and revoke interleave call by call over memory and
two files. A host crashes between two writes and must not make itself a new
identity. `PROJECT.json` lists forty such hazards, each at its line.

## Modules

| Module | Extends | What it is | Proofs in |
| --- | --- | --- | --- |
| `SessionManager`, `Signaling` | | the slot; the links and every other caller | `SignalingProofs` |
| `PlayerSlot` | | what a slot promises; `Signaling` and `WtSession` implement it | `SignalingProofs`, `WtProofs` |
| `InputSession`, `InputPath` | | the host's input processor for any packets; browser, both carriers and host end to end | `InputProofs` |
| `WtSession` | | tokens, handshake, displacement, teardown | `WtProofs` |
| `VideoPath` | | the way of a keyframe | `VideoProofs` |
| `Rotation` | | the transport in service and the task that replaces it | `VideoProofs` |
| `Parity`, `Repair` | | fragments and parity rows; loss, repair, NACKs, order | `RepairProofs` |
| `RateControl` | | the bitrate law and the injection pace | `VideoProofs` |
| `Pairing`, `Trust` | | the pairing manager; the requests that use it, ACL and invitations | `TrustProofs` |
| `PortMap`, `StreamHealth`, `Startup`, `CoverArt`, `Negotiation`, `InputWire`, `HostNames` | | seven parts of the host that share no state | `ServiceProofs`; `InputWire` in `WireProofs` |
| `HostServices` | the seven | one initial choice picks the part that runs | `ServiceProofs` |
| `MCServices` | `HostServices` | the packets and the broken bytes TLC puts on the input's carriers | |

A mutated form of a definition (`Install_StaleTicket`, `Retained_Nothing`, ...)
stands before the definition it mutates; no specification uses it. Each property
a run checks is broken by one of them, which shows that it can fail.

## The models

**`SessionManager`** is the slot itself: `state`, `player`, `ticket` are the
fields of `Inner`, `settle` the set of claims waiting on the Notify. Its
operators are the bodies of one lock region each: `Transition` (with `Edges` the
table of `can_transition_to` and `Settled` the collapse of STOPPING into IDLE),
`InstallPlayer` (the last region of `claim`), `WithPlayer`, `MarkReady`. A player
is a record; the fields that hold a channel, an id or a config in the code hold
the link that supplied it, which is what the properties tell apart.

**`Signaling`** adds the tasks. A step is one lock region or one await of one task:

| Code | Model |
| --- | --- |
| `drive` up to the claim | `Connect` |
| `claim`: busy test, settlement loop, installation | `ClaimCheck`, `SettleCheck` / `SettleWake`, `Install` |
| `force_disconnect` (from `claim`, tray, dashboard, hotkey) | `ForceBye`, `ForceProbe` once per entry of its array, `ForceStop`; `AdminCall` |
| after the claim | `SetController`, `Wire` |
| inbound loop and its ownership test | `Receive`, `ReceiveClosed` |
| `handle_message` | `Hello`; `CaptureUnavailable`, `Build`, `Negotiate`, `BuildFailed` |
| `end_link` and the end of `drive` | `EndCheck`, `EndStop`, `Close` |
| outbound pump | `PumpReady`, `PumpPlaying`, `PumpMarkReady`, `PumpFailed`, `PumpBreaks` |
| `session_stop`, `logout` | `HttpStop` |
| event pump of `app.rs`, `Connected` | `WtConnected` |
| client | `Leave`, `Dial`, `IceState` (for clients that answer the offer) |

`pc` is the program point of a link's task or of an admin's call, `pump` that of
the outbound pump, `media` the `MediaSignal` channel; `ready` records the ticket
current at each `session_ready` sent (history). `Receive` chooses any of the
messages that change the slot.

**`PlayerSlot`** is what the slot promises: a holder, a phase, an armed flag and
the set of links whose turn has come; a link takes the slot at most once, phases
advance along the table, input is armed only for a real player, and release
clears everything at once. `Slot` in `Signaling` is the refinement mapping; `Promise`
in `WtProofs` is the one for the endpoint's `active`, where there are no previews. It
reads how far the holder's own task is: a session that took the slot is paired, one
whose `Connected` event is out is armed, one that has its control line is negotiating,
and one that is published is playing. `live_connection` and `control_out` are not in
it: they follow `active` later and in regions of their own.

**`InputSession`** is the host's input processor. Keys and mouse buttons are one
set `Controls`: an event is the set of controls it says are down, the set it says
are up, and a pad state, so that key events, button masks and snapshots fold in
the same way (`NextHeld`). `os`, `padOut`, `cursor` are what Windows was last
told, which the properties compare with the state. `HandlePacket` is the whole of
`handle_packet`: `Throttle`, `DropStale` or `Accept`, in the code's order.
`InputSpec` lets any packet arrive at any time. **`InputPath`** puts the real
sender in front of it: `InputManager`'s handlers, the encoder's number, and
`Send`, which puts every packet on the datagram path (a set: lost, late and
reordered) and on the input stream (a sequence). A connection may drop and be
redialled. `recent` and `excuse` are history variables of `NoGhostKey`: what the
client held after each recent packet, and what it held at some time since the
newest snapshot the host accepted.

**`WtSession`** follows every connection's handler through `handle_incoming`:
`Dial`, `Admit` (where the token is consumed), `TakeSlot`, `Announce`,
`InstallControl` / `SendConfig`, `Publish`, `Serving`; then `CleanupCheck`,
`ClearLive`, `ClearControl`. `DropTake` and `DropClose` are the two halves of
the admin's cut (`drop_client`), `DescribeConfig` is a session's new
configuration, `PumpEvent` the event pump. `taker` remembers who took the slot
last, `released` who may have given it up (history).

**`VideoPath`** is one client that dials again and again. Connections and channels
have no names, only ages: `sink` and `stream` are "newest", an older one, "dead"
or "none". `RequestKeyframe`, `ReadAsk` and `GateTick` are the request and the first
throttle, `PumpTurn` / `PumpTick` the second, `Encode` with `Room` and `Victim`
the frame queue, `FollowLive`, `SendFrame`, `WriteDone`, `WriteFails` the sender.

**`Rotation`** is `spawn_wt_rotation` in three steps (`Decide`, `Retire`, `Bind` /
`BindFails`) beside a player (`Claim`, `StartMedia`, `Leave`) whose pipelines hold
handles on the transport. A transport keeps the UDP port until its last handle is
dropped (`Release`); `leaked` is what an abandoned pipeline holds for good.

**`Parity`** is pure: fragment `i` of a frame is the set `{i}`, XOR is the symmetric
difference, a parity row the XOR of its members, `TryRepair` the client's pass over
the groups. **`Repair`** puts it on the wire: `Encode` (a keyframe on a stream, the
others as datagrams, a queue that fills in the middle of a frame), `AnswerNack`
with its token bucket, `Fragment` (the whole of `onVideoFragment`: skipped frames
asked for whole, the scan of the assemblies with its give-ups and NACK rounds,
eviction, joining, repair, delivery) and `StreamFrame`. `Accept` is
`FrameOrderer.accept`. `rounds` and `decoded` are history variables. A scan may
give up or ask again for any frame, because both depend on ages that are not told
apart.

**`RateControl`** is the second-by-second law and the datagram pace. Measurements
are abstracted to the thresholds the branches compare them with. Its actions are
the branches of `step` in order: `BacklogCut`, `NoReport`, `TailHold`, `TailCut`,
`LossCut`, `OnsetCut`, `FillCut`, `CleanTick`; `HeavyReport` ... `QuietReport` move
the pace. `cutAge`, `harshAge` (ticks since the last cut, and since the last harsh
one) and `episode` are history variables.

**`Pairing`** is the manager: one action is one call, the write of `sessions.json`
included. What has a lifetime may end whenever the code looks. **`Trust`** is the
requests over it, call by call: `task[r]` is how far request `r` is. The ACL is
changed under its lock (`Change`) and saved after it (`Save`), so that is two steps; a
sign-in is `Check`, `Enrol`, the second `LookUp`, `BindKnown` and `Touch`, and a logout
forgets the key only if the browser names it. `HostRestart` reads both files back.

**`PortMap`** is `portmap::run`, a tick being the 30 s between two looks at the
switch; the router forgets leases and restarts, refuses a mapping of either port, and
its answer may be lost on the way (`NoUdp`, `NoTcp`). **`StreamHealth`** is the collector
that threads of present and past pipelines write (`Look`, `LastLook`, `LeakedLook`;
`Readings` tells a source that repeats frames from one that moves, as `capture_fps` and
`encoded_fps` do),
the rules (`Stalled`, `Silent`, `NoDecode`, audio) and the watchdog that announces
what is new. **`Startup`** is the process from one start to the next: every file is
written in place and may be left torn (`IdentityWriteCut`, `LeafCut`, `RenewCut`);
devices pin the identity and trust the CA. The two listeners load the leaf each for
itself: `Reload` reaches the IPv4 one, and the `[::]` one keeps the leaf of its start. **`CoverArt`** is the background batches
and the set of names in flight. **`Negotiation`** is one link's messages in any
order, with the arithmetic of the encoder policy on kbps, widths and rates, and a link
it displaced in the middle of a message, which then acts on its successor's session
(`Late`; `crossed` remembers that it did). The operator's default size is any.
**`InputWire`** is the packet layout digit by digit and the two framings, with reads
that cut the bytes anywhere. A stream is finished (`Fin`) or lost (`Lost`); at the end
of a finished one an unterminated line stays in the buffer, so that each further read
returns it again (`LastLine`), and `again` collects what the host takes from it. What
is written is a packet of `Packets` or bytes of `Garbled`, which hold none. **`HostNames`** is the three gates in front of the
routes and the list of names that is refreshed at most every `Refresh` ticks.

**`HostServices`** runs one of these seven in each behaviour, so that their states
add up and do not multiply; since they share no state, nothing is lost by it.

## The runs

| Run | Instance | Checks | Shows |
| --- | --- | --- | --- |
| `signaling_safety` | one player link, one preview, one WebTransport dial | `OwnerIsHolder`, `PreviewNeverArmed`, `SlotKeepsItsPromise` | every interleaving of a player's and a preview's lock regions; the slot implements `PlayerSlot` |
| `signaling_force` | the same with an admin and a link that answers ICE | `ReadyOncePerSession` | forced disconnects and repeated readiness in between |
| `signaling_live` | two player links, fair | `ClaimAnswered`, `GoneWindsDown` | claims are answered; a vanished client's link winds down with its pump |
| `input_safety` | one key, numbers modulo 8 | `NoGhostKey`, `NoTimeTravel` | loss, reordering, second copies, outages, wrap-around, rate limit and watchdog together |
| `input_live` | one button, one pad state, fair | `EndLetsGo`, `ControlsComeUp` | late and failed pad backends; every way a session ends; a lost release is made up for |
| `wt_session` | two connections, two tokens, one cut | `TokenLetsInOne`, `NewestKeepsSlot`, `ConfigNotMissed`, `DeadFreesSlot` | installation and teardown region by region |
| `video_path` | queue of two, one event | `EmptySlotMeansNewest`, `PictureReturns`, `AcceptedAskServed` | a client without a picture gets one once the network heals |
| `rate_control` | five rate units, three pace units | `NoClimbAfterCut`, `NoRatchet`, `RateReturns` | every order of loss, delay, backlog and silence |
| `trust` | two requests, devices and tokens, one session | `BindingsFollow`, `CookieIsBound`, `InviteOnce`, `LockoutHolds` | pairing, sign-in and revocation call by call, with expiry, pruning and restarts |
| `rotation` | two transports on one port | `SlotServes`, `VideoComesBack`, `IdleHostRenews` | what is advertised serves; a dead sender heals |
| `repair` | three frames of one or two fragments | `ChainUnbroken`, `RoundsBounded`, `StreamCopyCounts` | loss, overtaking, repair and re-sends |
| `services` | `MCServices`: seven parts, see the cfg | ten properties, listed below | each part alone |

What the properties of `services` say: `RemoteReaches` (the page's port stays
mapped, the video's comes back), `NoFalseStall` and `StallIsSaid` (a stall is said
of the stream that stalled, and is said), `TrustStays` (a host that serves does so
by the identity and, on both listeners, under the CA its devices were given),
`HostFollowsAddress` (over IPv4 the certificate follows the address, cut writes
included; a cut that leaves a new list beside an old certificate is made up for when
that one nears its expiry), `FetchesDoNotStack`, `OfferFits` (the offer is decodable;
unless its size is an operator's default outside `clamp_mode`'s bounds its rates are in
order and the controller's floor is defined), `AskIsKept` (the first offer has the size,
frame rate, cap and target that were asked for, a preview's the largest tile that fits),
`HeardIsWritten` (the host hears each packet written once and in order, whatever the
reads cut; what it hears again at a stream's end is the unterminated rest) and `NamesFollow`
(the host answers to the name of the address it has, and to no lost one). The
comment above each property in its module states it in full.

## Bounds

| Bound | In the code | In the runs | Why it is enough |
| --- | --- | --- | --- |
| `MaxRounds` of `Signaling` | 20 waits of 250 ms | at most 1 | one wait separates "woken" from "timed out"; a further one repeats the same state |
| `MaxDials`, `MaxMedia` | none | at most 1 | one stale event is what a displaced client can leave behind |
| links | any | 2 | a claim acts on the slot's one player; the proofs cover any number |
| `SeqSpace` | 2^32 | 8 | the number wraps within a run |
| `MaxLag`, `MaxBehind` | none | 2 or 1, 3 | lag 2 is the least that swaps two packets; `MaxBehind` may not exceed half the space, which is what `is_fresh` itself relies on (`BehindIsHalf`) |
| `Burst`, `MaxTaps`, `Paced` | token bucket; timers; none | 2; 1; the liveness run | `Paced` keeps the client within the host's packet rate: one that floods the host keeps the heartbeat alive with packets that are all dropped |
| connections, tokens, `MaxDrops`, `MaxEpoch`, `MaxEvents` | any | 2, 2, 1, 1, 1 | a predecessor and a successor, one cut, one new configuration between any two regions |
| `MaxQueue`, `MaxEvents` of `VideoPath` | 8 frames; unbounded | 2, 1 | the queue fills and evicts; at the bound on events their writers wait |
| `Floor`..`Ceiling`, `MinPace`..`MaxPace`, `Warmup`, `ForgetLoss`, `ForgetDelay` | kbps, packets per second, seconds | 1..5, 2..4, 1, 3, 4 | shares are taken in integers, as in the code; every threshold is crossed |
| `MaxSessions`, `MaxKeys`, `MaxAttempts`, `LockoutAfter` | 256, 4, 5, 10 by default | 1, 2, 1, 1 | pruning and the lockout happen at once; eviction of a key needs more devices than keys and is in the proofs only |
| `MaxTries`, transports | 40, any | 3, 2 | "not the last try" and "the last" |
| `LastFrame`, sizes, `MaxRounds`, `MaxAssemblies`, `MaxHeld`, `Horizon`, ... of `Repair` | see the module | 2, {1} and {2}, 1, 1, 2, 2 | every branch but two happens: at three frames nothing is beyond the horizon, and frames of two fragments have no two repairable holes; the proofs cover both |
| `Refresh`, leases, ages | 30 s, lifetimes, seconds | 1 to 3 ticks | before, at and after the limit |
| `Base`, `MaxFrame`, `LineCap`, `MaxWrites` of `InputWire` | 256, 2048, 8192, none | 8, 60, 40, 2 | a frame and a line that are too long are reached; numbers keep their digits |
| `MaxAgain` of `InputWire` | none: a last line is read again for ever | 2 | "heard again" and "heard twice" |
| default size; links that act late in `Negotiation` | any; any | 320x180; one at a time | the one size whose floor is not defined; each late message makes the same kinds of change |
| `Packets`, `Garbled` of `InputWire` | any | 7 and 3 | a packet of each kind with its fields at their ends, with and without keys and gamepad; another version, a cut packet, no bytes; the proofs cover every set |

The client's sets of frame numbers forget their oldest entry at 512 (`v4Done`,
`delivered`) and 256 (`wholeNacked`); `Repair` assumes (`NothingIsForgotten`) that a
behaviour has fewer frames than that. Frame numbers do not wrap in it.

## Fairness

*Signaling*: weak fairness of each link's own steps, of each pump, of a running
`force_disconnect` and of the event pump: tokio polls every task that can run, and
each of these steps, once enabled, stays enabled until taken or is overtaken by a
step of the same task. Nothing is assumed of clients or admins. `SettleWake` is part
of a link's steps because of the 250 ms timeout in `claim`, not because of the
notification, which is sent only by a transition requested as Idle
(`session/mod.rs:359`); every caller requests Stopping, so it never comes.

*Input path*: time passes and the app ticks the watchdog every 50 ms (weak); the
client's timers fire (strong, because blur, capture and the bounds disable them now
and then); the stream delivers while it is open; the network does not lose or
overtake every snapshot (strong fairness of `SnapshotLands`); and outages end or are
for good. The last two are assumptions about the network: without them every
snapshot can be lost for ever while other packets keep the watchdog asleep.

*WebTransport session*: handlers, event pump and the second half of a cut are polled.
*Video path*: the host's tasks run, time passes and the client keeps asking; `Heals`
says that from some time on keyframes do not expire in the queue and a channel
somebody reads takes what is written to it. *Rate*: the clock ticks and the client
reports; from some time on the route is clean and the client the same. *Rotation*:
the task, threads and drops of handles run; a player without a picture leaves, and so
does the link of a refused pipeline; another player need not. *Services*: the port
task's waits all have timeouts; each thread and the watchdog wake periodically; the
renewal task is a tokio interval. Liveness properties that need the environment to
settle say so in their premises.

## Proofs

TLAPS checks these for every value of the constants that meets the named assumptions
of their modules. A theorem marked with a property states one that a run checks.

| Module | Theorem | States |
| --- | --- | --- |
| `SignalingProofs` | `TypeCorrect`, `SlotStaysConsistent` | types; a player exactly when the state is not Idle |
| | `OwnershipIsExact`, `ReadyIsAnnouncedOnce`, `PreviewsStayUnarmed` | `OwnerIsHolder`, `ReadyOncePerSession`, `PreviewNeverArmed` |
| | `SlotImplementsPlayerSlot` | `SlotKeepsItsPromise`, the refinement |
| `InputProofs` | `AnyPacketsAreSafe`, `PathImplementsInput` | the processor keeps `InputInv` for any packets; the path implements the processor |
| | `PathTypeCorrect`, `PathIsSafe`, `PadFollowsSession` | types, `InputInv`, `PadAgrees` end to end |
| | `SessionLetsGo`, `GateNeverGoesBack`, `HostHoldsWhatWasHeld` | `EndLetsGo`, `NoTimeTravel`, `NoGhostKey` |
| `WtProofs` | `WtTypeCorrect` | types |
| | `OneConnectionPerToken`, `NewestSessionKeepsSlot`, `NoConfigIsMissed` | `TokenLetsInOne`, `NewestKeepsSlot`, `ConfigNotMissed` |
| | `EndpointImplementsPlayerSlot` | `active`, read with how far its holder's task is, keeps the promise of `PlayerSlot`: no displaced or cut session comes back, none goes back; nothing about `live_connection` and `control_out` |
| `TrustProofs` | `TrustTypeCorrect`, `NewcomerIsKept` | types; `NewcomerStays`: the step that issues a session does not evict it (later calls may end it) |
| | `KeysFollowSessions`, `CookieStaysBound`, `InvitationIsOneShot`, `LockoutIsKept` | `BindingsFollow`, `CookieIsBound`, `InviteOnce`, `LockoutHolds` |
| `VideoProofs` | `RateTypeCorrect` | rate within floor and ceiling, pace within its limits |
| | `NoEarlyClimb`, `CeilingDoesNotRatchet` | `NoClimbAfterCut`, `NoRatchet` |
| | `RotationTypeCorrect`, `VideoTypeCorrect` | types |
| | `SlotIsInService`, `SenderKeepsToNewest` | `SlotServes`, `EmptySlotMeansNewest` |
| `RepairProofs` | `RepairTypeCorrect` | types; a NACK names a fragment there can be |
| | `RepairIsExact`, `OneHolePerGroupIsRepaired` | local repair never corrupts a frame; one hole per group costs no round trip |
| | `FramesAreTheirOwn` | `SlotsHoldTheirOwn`: a frame is put together from its own fragments, re-sends and rebuilds included |
| | `RepairIsBounded`, `DecoderGetsAChain`, `StreamIsHeard` | `RoundsBounded`, `ChainUnbroken`, `StreamCopyCounts` |
| `WireProofs` | `PacketsReadBack` | every packet of every kind decodes from its bytes, field by field |
| | `OtherVersionsAreRefused`, `CutShortIsRefused` | a packet of another version, or cut at any byte, does not decode |
| | `InputWireTypeCorrect`, `HostHearsWhatIsWritten` | types; `HeardIsWritten` |
| `ServiceProofs` | `ServicesStayApart` | each of the seven services keeps to its own specification beside the others |
| | `PortMapTypeCorrect` | types; a wait to renew is shorter than the longest lease, a wait after a failed pass no longer than the pause |
| | `NamesAreCurrent`, `CoversAreFetchedOnce`, `NoStallOfOthers`, `RestartsKeepTrust`, `OffersFit`, `AskIsServed`, `InputIsHeard` | `NamesFollow`, `FetchesDoNotStack`, `NoFalseStall`, `TrustStays`, `OfferFits`, `AskIsKept`, `HeardIsWritten` |

**Signaling.** `IInv` strengthens `SlotConsistent`, which is not inductive: `MarkReady`
and the pump need to know which states occur, so RECONNECTING is never entered.
Ownership needs `TicketsExact`: a ticket is issued once, the player holds the newest,
and a link has none before it installs. Readiness needs `ReadyExact`: no announcement
of a later ticket exists, and none of the current one while the player is not ready.
`SlotSteps` sorts all steps into five kinds by what they do to the slot; invariants
and refinement then take five cases instead of one per action.

**Input.** `InputInv` is inductive for arbitrary packets: `EndLetsGo` needs
`ReleasedIsEmpty` for `Drop`, and that needs `OsAgrees`. `NoTimeTravel` rests on
`GateInv`: everything in flight, and the newest packet accepted, is at most half the
space old. Lemmas on quotient and remainder turn `is_fresh` into a comparison of ages.
`NoGhostKey` needs what is in flight as well (`GhostInv`): a packet says no more than
the client held when it sent it; if the gate would still accept it, that is excused
already; two packets of one number are copies; and a second copy of the newest accepted
snapshot says what the host holds.

**WebTransport.** `TokensSpent`: the token of whoever was admitted is no longer in the
set, and two admitted connections have two tokens. `NewestKeepsSlot` and
`ConfigNotMissed` are inductive together with what is known of each program point
(`TasksTyped`): only the holder of the slot can be past the test of its cleanup. The
refinement adds `HolderServes`: whoever holds the slot stands between taking it and its
teardown, so its program point gives the phase, and whoever has not come to `TakeSlot`
never held it. `PlayerSlot`'s `retired` is then everyone the slot has had, the holder
included. The refinement is about `active` alone: after `DropTake` the other two fields
still name the session that was cut, and its late clears may strip a successor of what
it installed; nothing here says otherwise.

**Trust.** `PairingInv`: memory and `sessions.json` agree after every call, so a restart
changes nothing, and both are sound (no keys for sessions that ended, sizes at the
caps). `TrustInv` adds which steps of a request can hold which token and code
(`Admission`): a code leaves the table when a request consumes it, so that no two hold
one. `CookieIsBound` is inductive only with the exception it states: `MaxKeys` newer
keys push an old one out.

**Rate.** `RateInv` bounds the cooldown from below by the age of the last cut
(`CooldownIsOfCut`): two ticks right after it, and four less its age while it is itself
the last harsh one; no more can be said, because every cut overwrites it. Since a cut no tick was clean; the climb
needs a cooldown of zero, and the ceiling is remembered anew only outside an episode.

**Video and rotation.** `RotationInv`: exactly the transport in the slot serves, which
is stronger than the property and is what `Retire` (empty the slot, then shut down)
and `Bind` keep. `VideoInv`: once the newest channel is known, the sink is that
channel or was taken, and if it was taken the sender writes to it.

**Repair.** `SentInv`: what is under way was encoded. `FragmentsInv` and `SlotsInv`: it
is a fragment of its frame, and each slot of an assembly is empty or its own; the step
that rebuilds is `RepairIsExact`. `RoundsInv`: the count in an assembly is what the
frame has cost, and a frame that is neither assembled nor buried has cost nothing; a
late re-send cannot start the count anew because what was given up is buried.
`ChainInv`: the orderer knows what was decoded last, and if it waits for a delta it
waits for that frame's successor (`Ordered`). `Continues` says what a call of `Accept`
may release: nothing, or a run of consecutive numbers beyond the last, which starts
at a keyframe or at that successor. The decoder's sequence then grows by such a run
(`ChainGrows`). `LeastNumber` gives minima of finite sets by well-founded induction on
inclusion. For the types, a NACK's fragments exist because the holes of a group can be
counted off (`NthIs`): the map from a hole to the number of smaller ones is an injection
into a set of the same size. `FarStays` bounds what the orderer counts before it starts
over. `RepairBounds` assumes that the frames' sizes have a largest one, as numbers of 16
bits do.

**Wire.** Two lemmas on bytes come first: a number of one, two, four or eight digits reads
back, and so do a frame's length and the end of a line, because no byte of a packet is
`NL`. `PacketsReadBack` puts the fields of each kind together. `HeardIsWritten` is not
inductive, since it is silent about what is still under way. `WireInv` adds where the
host stands: it has heard the packets among the first `k` messages (`Told`), and what it
holds and what is in flight are the chunks of the later messages, one behind the other
(`Laid`, `Follows`). While the client has not finished, nothing is missing at their end
(`Whole`); afterwards the last chunk may be cut anywhere, and `CutShortIsRefused` keeps a
cut packet from being heard. `AgainInv` is about the rest of a finished stream: it is
part of one message, so that all that is heard from it, however often, is that
message's packet or nothing. The assumption `WrittenFits` says that packets have fields
in their ranges and fit into 64 KiB, which the two bytes of a frame's length need.

**Services.** A step of one service is none of the others (`ServicesTakeTurns`), so each
invariant is proved in its own specification. `NamesInv`: what changed before the list
was made is in it. `BatchesInv`: the games of a batch are in flight and in no other, and
those not asked for are still missing. `HealthInv`: past a session's first second no
thread of an earlier one is left, and the collector is still exactly when the session's own thread
saw it still. `StartupInv`: which file may be torn while the process is where. `OfferInv`: what
is known of the configuration between two messages. `PortInv`: a task that sleeps has ticks left,
and some lease is the longest (`PortMapBounds`; the field has 32 bits).

*Model-checked only.* The liveness properties (`ClaimAnswered`, `GoneWindsDown`,
`ControlsComeUp`, `DeadFreesSlot`, `PictureReturns`, `AcceptedAskServed`, `RateReturns`,
`VideoComesBack`, `IdleHostRenews`, `RemoteReaches`, `StallIsSaid`,
`HostFollowsAddress`): fairness is out of the prover's reach. Every other property of a
run is a theorem.
Not checked by a run but proved: `NewcomerStays` and `SlotsHoldTheirOwn`.

## Where the code and its documentation disagree

Observations made while translating. The models follow the code; no property here
states the sentence quoted, so none of these is checked by a run.

*Slot and links.* `docs/architecture/overview.md:41` says that displaced sessions must
not tear down their successors. `end_link` compares the ticket in one lock region and
stops the session in the next, `force_disconnect` probes once per entry of its array,
and `drive` tests ownership before it acts (`http/signal.rs:400`): a successor that
installs itself in such a gap is stopped, or reconfigured, by its predecessor.
`session/mod.rs:109–110` says a preview displaces nobody; one that found the slot free
replaces the player that took it meanwhile. A `Connected` event names no session and
arms whichever player is current. `PlayerSlot` leaves room for these: it says what may
happen to the slot, and not at whose request a session ends.

*Input.* `wtcore.ts:285–287` says that the host's gate drops the second copy of a packet.
The gate counts an equal number as fresh, so a relative motion that arrives on both
carriers moves the cursor twice; the properties about held controls are not affected.

*What a session asks for.* A second `ClientCapabilities` forgets the cap that the first
hello asked for, and capabilities without a hello bypass the limits of a preview
(`http/signal.rs:697–698`, `843–844`). `AskIsKept` is about the
first offer after a hello. "A preview must not launch a game" (`signal.rs:698`) holds of
what a preview asks; but a displaced link that passed its ownership test
(`signal.rs:403`) reads and writes its successor's configuration (`803`): a preview may
then settle on what the player asked for, and the player on a tile. The properties
except what such a link crossed. An operator's default size is used unclamped when
capabilities precede any hello (`803–815`), and `Config::validate` does not look at it:
320x180 at 30 fps makes a ceiling of 330 kbps, at which `min_bitrate.clamp(500, ceiling)`
panics (`media/pipeline.rs:583`): the statistics thread ends, and the bitrate no
longer adapts. `OfferFits` excepts that size, by `Sized`, and the run reaches it.

*Input over the control stream.* `session.rs:247–249` closes the connection at the end of
the control stream "so the session task's cleanup runs now". A stream that is finished
inside a line never comes to that: `read_line` returns the rest without clearing its
buffer (`session.rs:744–748`), the loop at `237` asks again, and an Input message that
lacks only its newline is heard over and over; relative motion then goes on. Nothing in the
loop itself ends it. After a redial (`Redial`) the model follows the new connection and
no longer what the old reader repeats.

*Rotation.* `app.rs:513–515` says that the successor binds before the slot changes; the
slot is emptied first, and the 40 bind attempts compete with the old transport for its
port. The task keeps a handle of its own (`app.rs:530`, `583–587`), the handle of an
abandoned pipeline is never dropped (`media/pipeline.rs:414`), and a leak of this kind
leaves the host without video until it restarts; `VideoComesBack` is stated for a host
without one.

*Health.* Bus watches are said to end when the bus is dropped (`media/pipeline.rs:907`),
but each thread holds a reference to it and polls on. An audio failure stays reported across a reset, and a
poller of an earlier pipeline may write after it, for one second (`HealthInv`).

*Start and files.* The local CA, the identity's rewrite to version 2, the ACL,
`sessions.json` and the configuration are written in place. A crash inside the first
write of the CA or inside that rewrite leaves a file that every later start rejects:
the host stays down, but it does not replace what its devices trust (`TrustStays`).
A leaf whose files do not belong together counts as current until its name or date
changes. The renewal reloads the IPv4 listener only (`http/mod.rs:637–665`): the resolver
of the `[::]` listener keeps the leaf of its start (`601–629`), so that without an ACME
certificate IPv6 visitors meet the old name, and in the end an expired leaf. `--trust-ca` takes no instance lock.

*Covers.* `gameart.rs:15–16` promises a week between queries, the code uses a day for a
miss; a torn image counts as cached for good.

*Video.* `media/wt/transport.rs:4–8` says that re-sends go through the sender's task;
`session.rs` sends them from the control reader. `transport.rs:169` says that no
keyframe is evicted in favour of a delta; a queue of keyframes alone is. The claim at
`transport.rs:1339–1343` about bursts does not hold for a frame whose last group is
short; `OneHolePerGroupIsRepaired` is stated per group. `session.rs:304–308` names
11000 packets per second, the constant is 18000. The comment before
`live_connection.send` (`session.rs:597`) says that writes never race: a session that
is displaced before it publishes overwrites its successor's entry, and the second half
of a cut may close the connection that followed. `NewestKeepsSlot` is about the slot,
which none of these touches.

*Rate.* Early returns of `step` skip the last clamp of the pace, a tail that is not
known counts as short, and a second cut clears `ceiling_from_delay`
(`media/bitrate.rs:83–85`). A delay cut "holds longer (4 ticks)" (`bitrate.rs:154`), but
a gentler cut overwrites the cooldown with its own two (`269–277`), so that the third
tick after the harsh cut may climb; `NoClimbAfterCut` says when. The budget for re-sends is computed in `u32` and overflows
after about four hours.

*Port mapping.* The nonce kept for renewing the video's mapping is that of the page's
lease (`portmap.rs:141`), against the rule at `portmap.rs:222–224`, and only the page's
lease times the renewal: the video's mapping may lapse before it is asked for again,
which is why `RemoteReaches` promises that it comes back and not that it stays. One lost
answer for the page's port costs a pause of 15 minutes (`portmap.rs:175`), which a lease
need not outlive: the property is for a router that from some time on answers, whatever
was lost before.

*Pairing.* A failed write of `sessions.json` is logged and forgotten, and the ACL is
saved after its lock is released, so that the older of two copies may be written last
(`identity/acl.rs:97`). A device that gets a fifth key loses its binding to the
oldest, and revoking that key no longer ends its cookie; `CookieIsBound` says so.

## What is not modelled

- *Data*: codecs, frames' contents, cryptography, strings. QUIC's congestion law and
  the vendored stack are an environment that loses, delays and reorders.
- *Real time*: deadlines are counts of waits or ticks, or may pass whenever the code
  looks. The 150 ms for which a closing link drains its pump are one step.
- *Before a claim*: Origin checks and cookies (`Connect` is a client that passed them;
  the device challenge is in `Trust`). The WebRTC control channel, which the shipped
  player does not open.
- *Input path*: packets that do not decode, touch, modifier bits, pointer and keyboard
  lock, the fallback to the control stream, and what a displaced WebTransport client
  still sends on its input stream (`session.rs:198`).
- *Player*: audio, decoding, pacing and the page itself. Frame numbers do not wrap.
- *Host*: GStreamer elements, Windows calls and input backends, ACME, the doctor, the
  tray, the firewall, game scanners, installers, the configuration editor.

`PROJECT.json` gives the reason for each component, and for each hazard that no
property covers.
