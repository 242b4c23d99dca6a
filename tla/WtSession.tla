------------------------------ MODULE WtSession ------------------------------
(***************************************************************************)
(* The sessions of one WebTransport endpoint: dial tokens, the handshake   *)
(* task of every connection, the single video slot, displacement, the      *)
(* admin's cut and teardown (crates/host/src/media/wt/session.rs,          *)
(* tokens.rs, and the handle in transport.rs).  A step is one lock region  *)
(* or one await of one task: handle_incoming takes the slot, announces     *)
(* itself, installs its control writer and publishes its connection in     *)
(* four separate regions, and tears down in four more.  A connection       *)
(* stands for the session id the code hands out.                           *)
(***************************************************************************)
EXTENDS Naturals, Sequences, FiniteSets

CONSTANTS
  Conns,          \* QUIC connections, each dialled at most once
  NoConn,         \* None in active, live_connection, control_out
  MaxTokens,      \* bound: dial tokens the signaling layer mints (128 random bits: the n-th is n)
  MaxLiveTokens,  \* MAX_LIVE_TOKENS
  MaxEpoch,       \* bound: described video configs
  MaxEvents,      \* bound: unread events when a client sends input (the channel has none)
  MaxDrops        \* bound: admin cuts

ASSUME NoConnIsNoConn == NoConn \notin Conns
ASSUME WtBoundsAreNat ==
  /\ MaxLiveTokens \in Nat \ {0} /\ MaxTokens \in Nat
  /\ MaxEpoch \in Nat /\ MaxEvents \in Nat /\ MaxDrops \in Nat

VARIABLES
  tokens,      \* TokenStore: unconsumed, unexpired tokens
  minted,      \* tokens handed out so far
  pc,          \* where each connection's handle_incoming task stands
  token,       \* the token a connection presented, 0 for none
  open,        \* connections not closed by either side
  old,         \* the connection a task displaced and has yet to close
  active,      \* Shared::active
  live,        \* Shared::live_connection, what the frame sender follows
  controlOut,  \* whose control writer push_control reaches
  config,      \* newest described epoch in Shared::video_config, 0 for none
  told,        \* newest described epoch written to each client
  events,      \* the endpoint's event channel
  dropPc,      \* drop_client: "idle", or "close" after it took the slot
  drops,       \* cuts so far
  taker,       \* history: the last task that took the slot
  released     \* history: connections whose hold on the slot ended on purpose

sessionVars == <<active, live, controlOut, old, open, pc>>
historyVars == <<taker, released>>
vars == <<tokens, minted, token, sessionVars, config, told,
          events, dropPc, drops, historyVars>>

MaybeConn == Conns \cup {NoConn}
Handshake == {"auth", "take"}
Installing == {"announce", "control", "config", "publish"}
Cleaning == {"clearLive", "clearControl"}
Event == [kind: {"Connected", "Disconnected", "Input"}, from: Conns]

TypeOK ==
  /\ tokens \subseteq 1..MaxTokens /\ Cardinality(tokens) <= MaxLiveTokens /\ minted \in 0..MaxTokens
  /\ pc \in [Conns -> {"idle", "done", "serve"} \cup Handshake \cup Installing \cup Cleaning]
  /\ token \in [Conns -> 0..MaxTokens]
  /\ open \subseteq Conns
  /\ old \in [Conns -> MaybeConn]
  /\ active \in MaybeConn /\ live \in MaybeConn /\ controlOut \in MaybeConn
  /\ config \in 0..MaxEpoch
  /\ told \in [Conns -> 0..MaxEpoch]
  /\ events \in Seq(Event)
  /\ dropPc \in {"idle", "close"} /\ drops \in 0..MaxDrops
  /\ taker \in MaybeConn /\ released \subseteq Conns

Init ==
  /\ tokens = {} /\ minted = 0
  /\ pc = [c \in Conns |-> "idle"]
  /\ token = [c \in Conns |-> 0]
  /\ open = {} /\ old = [c \in Conns |-> NoConn]
  /\ active = NoConn /\ live = NoConn /\ controlOut = NoConn
  /\ config = 0 /\ told = [c \in Conns |-> 0]
  /\ events = <<>>
  /\ dropPc = "idle" /\ drops = 0
  /\ taker = NoConn /\ released = {}

Goto(c, label) == pc' = [pc EXCEPT ![c] = label]
Emit(kind, c) == events' = Append(events, [kind |-> kind, from |-> c])
Serving(c) == pc[c] \in {"publish", "serve"} /\ c \in open

------------------------------------------------------------------------------
(* TokenStore.  All tokens get the same lifetime, so the order of issue is  *)
(* the order of expiry; an expired entry is dropped by the next issue and   *)
(* refused by consume, which is as good as gone.                            *)

Oldest == CHOOSE t \in tokens : \A u \in tokens : t <= u
Kept == IF Cardinality(tokens) >= MaxLiveTokens THEN tokens \ {Oldest} ELSE tokens

Issue ==
  /\ minted < MaxTokens
  /\ minted' = minted + 1
  /\ tokens' = Kept \cup {minted + 1}
  /\ UNCHANGED <<token, sessionVars, config, told, events,
                 dropPc, drops, historyVars>>

Expire ==
  /\ tokens # {}
  /\ tokens' = tokens \ {Oldest}
  /\ UNCHANGED <<minted, token, sessionVars, config, told, events,
                 dropPc, drops, historyVars>>

Consumable(t) == t \in tokens
Consume_KeepsToken(t) == tokens' = tokens
Consume(t) == tokens' = tokens \ {t}

------------------------------------------------------------------------------
(* handle_incoming, up to the token: nothing of the endpoint is touched.    *)

Dial(c, t) ==
  /\ pc[c] = "idle" /\ t \in 1..minted
  /\ Goto(c, "auth") /\ token' = [token EXCEPT ![c] = t] /\ open' = open \cup {c}
  /\ UNCHANGED <<tokens, minted, active, live, controlOut, old, config,
                 told, events, dropPc, drops, historyVars>>

(* A deadline, a first message that is not Auth, or a token that is gone.   *)
Refuse(c) ==
  /\ pc[c] = "auth"
  /\ Goto(c, "done") /\ open' = open \ {c}
  /\ UNCHANGED <<tokens, minted, token, active, live, controlOut, old, config,
                 told, events, dropPc, drops, historyVars>>

Admit(c) ==
  /\ pc[c] = "auth" /\ Consumable(token[c])
  /\ Consume(token[c]) /\ Goto(c, "take")
  /\ UNCHANGED <<minted, token, active, live, controlOut, old, open, config,
                 told, events, dropPc, drops, historyVars>>

------------------------------------------------------------------------------
(* The slot and what a session installs in it, one region per step.         *)

Displaced == IF active = NoConn THEN NoConn ELSE live

TakeSlot(c) ==
  /\ pc[c] = "take"
  /\ old' = [old EXCEPT ![c] = Displaced]
  /\ active' = c /\ taker' = c /\ Goto(c, "announce")
  /\ released' = released \cup ({active} \ {NoConn})
  /\ UNCHANGED <<tokens, minted, token, live, controlOut, open, config,
                 told, events, dropPc, drops>>

Announce(c) ==
  /\ pc[c] = "announce"
  /\ open' = open \ {old[c]}
  /\ Emit("Connected", c) /\ Goto(c, "control")
  /\ UNCHANGED <<tokens, minted, token, active, live, controlOut, old, config,
                 told, dropPc, drops, historyVars>>

InstallControl(c) ==
  /\ pc[c] = "control"
  /\ controlOut' = c /\ Goto(c, "config")
  /\ UNCHANGED <<tokens, minted, token, active, live, old, open, config,
                 told, events, dropPc, drops, historyVars>>

(* The config is read and sent under its lock; then the readers start.      *)
SendConfig(c) ==
  /\ pc[c] = "config"
  /\ told' = [told EXCEPT ![c] = IF config = 0 THEN @ ELSE config] /\ Goto(c, "publish")
  /\ UNCHANGED <<tokens, minted, token, active, live, controlOut, old, open, config,
                 events, dropPc, drops, historyVars>>
Publish(c) ==
  /\ pc[c] = "publish"
  /\ live' = c /\ Goto(c, "serve")
  /\ UNCHANGED <<tokens, minted, token, active, controlOut, old, open, config,
                 told, events, dropPc, drops, historyVars>>

------------------------------------------------------------------------------
(* The media session: once the encoder's caps are known the described config *)
(* is stored and pushed to whoever the control slot names, both under the   *)
(* config's lock.  The undescribed config stored before it is left out.     *)

Pushed_ToLive == live
Pushed == controlOut

DescribeConfig ==
  /\ config < MaxEpoch
  /\ config' = config + 1
  /\ told' = [c \in Conns |-> IF c = Pushed THEN config + 1 ELSE told[c]]
  /\ UNCHANGED <<tokens, minted, token, sessionVars, events, dropPc,
                 drops, historyVars>>

------------------------------------------------------------------------------
(* What a connected client does.  Its readers run from SendConfig on and    *)
(* stop when the connection is closed.  The input stream is forwarded as it *)
(* comes, a datagram only for the holder of the slot.                       *)

InputDatagram(c) ==
  /\ pc[c] = "serve" /\ c \in open /\ active = c /\ Len(events) < MaxEvents
  /\ Emit("Input", c)
  /\ UNCHANGED <<tokens, minted, token, sessionVars, config, told, dropPc, drops, historyVars>>

InputStream(c) ==
  /\ Serving(c) /\ Len(events) < MaxEvents
  /\ Emit("Input", c)
  /\ UNCHANGED <<tokens, minted, token, sessionVars, config, told, dropPc, drops, historyVars>>

(* The client goes, its control stream ends, or the idle timeout strikes.   *)
ConnEnds(c) ==
  /\ c \in open
  /\ open' = open \ {c}
  /\ UNCHANGED <<tokens, minted, token, active, live, controlOut, old, pc, config,
                 told, events, dropPc, drops, historyVars>>

------------------------------------------------------------------------------
(* Teardown of a closed connection.                                         *)

StillOurs_Always(c) == TRUE
StillOurs_ByLive(c) == active = c /\ live = c
StillOurs(c) == active = c

CleanupCheck(c) ==
  /\ pc[c] = "serve" /\ c \notin open
  /\ IF StillOurs(c)
     THEN /\ active' = NoConn /\ released' = released \cup {c}
          /\ Goto(c, "clearLive")
     ELSE Goto(c, "done") /\ UNCHANGED <<active, released>>
  /\ UNCHANGED <<tokens, minted, token, live, controlOut, old, open, config,
                 told, events, dropPc, drops, taker>>

ClearLive(c) ==
  /\ pc[c] = "clearLive"
  /\ live' = NoConn /\ Goto(c, "clearControl")
  /\ UNCHANGED <<tokens, minted, token, active, controlOut, old, open, config,
                 told, events, dropPc, drops, historyVars>>

(* No task reads both the control slot and the event channel.               *)
ClearControl(c) ==
  /\ pc[c] = "clearControl"
  /\ controlOut' = NoConn
  /\ Emit("Disconnected", c) /\ Goto(c, "done")
  /\ UNCHANGED <<tokens, minted, token, active, live, old, open, config, told, dropPc, drops, historyVars>>

------------------------------------------------------------------------------
(* drop_client, called when an admin ends the session or revokes a device.  *)

DropTake ==
  /\ dropPc = "idle" /\ drops < MaxDrops
  /\ released' = released \cup ({active} \ {NoConn})
  /\ active' = NoConn /\ dropPc' = "close" /\ drops' = drops + 1
  /\ UNCHANGED <<tokens, minted, token, live, controlOut, old, open, pc, config,
                 told, events, taker>>

DropClose ==
  /\ dropPc = "close"
  /\ open' = open \ {live} /\ dropPc' = "idle"
  /\ UNCHANGED <<tokens, minted, token, active, live, controlOut, old, pc, config,
                 told, events, drops, historyVars>>

(* The host's event pump; input events go to the player's InputSession.     *)
PumpEvent ==
  /\ events # <<>>
  /\ events' = Tail(events)
  /\ UNCHANGED <<tokens, minted, token, sessionVars, config, told,
                 dropPc, drops, historyVars>>

------------------------------------------------------------------------------
HandlerStep(c) ==
  \/ Admit(c) \/ Refuse(c) \/ TakeSlot(c) \/ Announce(c)
  \/ InstallControl(c) \/ SendConfig(c) \/ Publish(c)
  \/ CleanupCheck(c) \/ ClearLive(c) \/ ClearControl(c)

ClientStep(c) ==
  \/ \E t \in 1..MaxTokens : Dial(c, t)
  \/ InputDatagram(c) \/ InputStream(c) \/ ConnEnds(c)

HostStep ==
  \/ Issue \/ Expire \/ DescribeConfig \/ DropTake \/ DropClose \/ PumpEvent

Next == HostStep \/ \E c \in Conns : HandlerStep(c) \/ ClientStep(c)

(* tokio runs every task that can run; DropClose follows DropTake in one    *)
(* function; clients and admins owe nothing.                                *)
Fairness ==
  /\ \A c \in Conns : WF_vars(HandlerStep(c))
  /\ WF_vars(PumpEvent) /\ WF_vars(DropClose)

Spec == Init /\ [][Next]_vars
FairSpec == Spec /\ Fairness

------------------------------------------------------------------------------
LetIn(c) == pc[c] \in Installing \cup {"serve"}

(* A token lets one connection in, whatever dials race with it (tokens.rs   *)
(* consume: "valid only if present, unexpired, and unused").                *)
TokenLetsInOne ==
  \A c, d \in Conns :
    c # d /\ LetIn(c) /\ LetIn(d) => token[c] # token[d]

(* The newest session keeps the slot until it goes itself, an admin cuts it *)
(* or a newer one displaces it: no teardown of a displaced session, however *)
(* late, takes it away (session.rs, "Only tear down the shared state if     *)
(* this session still owns the slot").                                      *)
NewestKeepsSlot ==
  taker # NoConn => active = taker \/ (active = NoConn /\ taker \in released)

(* Whoever push_control reaches has been told of every described config:    *)
(* installing the writer before reading the stored config leaves no gap for *)
(* a description to be lost in (session.rs and                              *)
(* update_video_config_description).                                        *)
ConfigNotMissed ==
  controlOut # NoConn /\ pc[controlOut] \in {"publish", "serve"} => told[controlOut] = config

(* A dead connection does not hold the video slot: "a zombie" is reaped     *)
(* once its close is seen.                                                  *)
DeadFreesSlot == \A c \in Conns : (active = c /\ c \notin open) ~> active # c
==============================================================================
