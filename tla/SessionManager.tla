--------------------------- MODULE SessionManager ---------------------------
(***************************************************************************)
(* The host's session slot (crates/host/src/session/mod.rs): the state     *)
(* machine, the one PlayerSession, the ticket of its signaling link and    *)
(* the Notify that claims wait on.  Every operation here is one region of  *)
(* the `inner` lock, hence one atomic step; operations of the code that    *)
(* take the lock several times (claim, end_link, force_disconnect) are     *)
(* sequences of steps in module Signaling, which extends this one.         *)
(***************************************************************************)
EXTENDS Naturals

CONSTANTS
  Links,          \* signaling links (one browser WebSocket each)
  PreviewLinks,   \* the links opened with ?preview=1
  NoLink,         \* "no link wired here"
  NoPlayer        \* the empty slot: Option::None

States == {"Idle", "Paired", "Negotiating", "Playing", "Reconnecting", "Stopping"}

\* A PlayerSession.  `link` is the link whose out channel is to_client;
\* controller, config and sink name the link that supplied the controller id,
\* the session config and the media signal sink, pipeline the link whose sink
\* the running pipeline reports to.
Players == [link         : Links,
            controller   : Links \cup {NoLink},
            config       : Links \cup {NoLink},
            sink         : Links \cup {NoLink},
            readyPending : BOOLEAN,
            pipeline     : Links \cup {NoLink},
            armed        : BOOLEAN,
            mediaReady   : BOOLEAN]

ASSUME PreviewsAreLinks == PreviewLinks \subseteq Links
ASSUME NoLinkIsNoLink   == NoLink \notin Links
ASSUME NoPlayerIsNone   == NoPlayer \notin Players

VARIABLES
  state,    \* Inner::state
  player,   \* Inner::player
  ticket,   \* Inner::ticket
  settle    \* the claims waiting on the `settle` Notify

slot == <<state, player, ticket>>
sessionVars == <<state, player, ticket, settle>>

SlotTypeOK ==
  /\ state \in States
  /\ player \in Players \cup {NoPlayer}
  /\ ticket \in Nat
  /\ settle \subseteq Links

SlotInit ==
  /\ state = "Idle"
  /\ player = NoPlayer
  /\ ticket = 0
  /\ settle = {}

-----------------------------------------------------------------------------
Edges == {<<"Idle", "Paired">>,
          <<"Paired", "Negotiating">>,       <<"Paired", "Stopping">>,
          <<"Negotiating", "Playing">>,      <<"Negotiating", "Stopping">>,
          <<"Playing", "Reconnecting">>,     <<"Playing", "Stopping">>,
          <<"Reconnecting", "Playing">>,     <<"Reconnecting", "Stopping">>,
          <<"Stopping", "Idle">>}

CanTransitionTo(next) == <<state, next>> \in Edges

\* Mutant: STOPPING is left for somebody else to settle.
Settled_RestsInStopping(next) == next

\* STOPPING tears the player down and settles at IDLE in the same lock region.
Settled(next) == IF next = "Stopping" THEN "Idle" ELSE next

\* Mutant: the player outlives its session.
Transition_KeepsPlayer(next) ==
  /\ state' = IF CanTransitionTo(next) THEN Settled(next) ELSE state
  /\ UNCHANGED <<player, ticket, settle>>

\* SessionManager::transition.  Waiters are woken only when the requested
\* state itself is Idle, not when Stopping settles there.
Transition(next) ==
  /\ IF CanTransitionTo(next)
       THEN /\ state'  = Settled(next)
            /\ player' = IF next = "Stopping" THEN NoPlayer ELSE player
            /\ settle' = IF next = "Idle" THEN {} ELSE settle
       ELSE UNCHANGED <<state, player, settle>>
  /\ UNCHANGED ticket

NewPlayer(l) == [link |-> l, controller |-> NoLink, config |-> NoLink,
                 sink |-> NoLink, readyPending |-> FALSE, pipeline |-> NoLink,
                 armed |-> FALSE, mediaReady |-> FALSE]

\* Mutant: the newcomer inherits the armed input of the player it replaces.
InstallPlayer_KeepsArmed(l) ==
  /\ player' = [NewPlayer(l) EXCEPT !.armed = player # NoPlayer /\ player.armed]
  /\ state'  = "Paired"
  /\ ticket' = ticket + 1
  /\ UNCHANGED settle

\* The last lock region of claim: the new PlayerSession goes in, whatever the
\* slot holds by now, and the link's ticket is issued.
InstallPlayer(l) ==
  /\ player' = NewPlayer(l)
  /\ state'  = "Paired"
  /\ ticket' = ticket + 1
  /\ UNCHANGED settle

\* The busy test at the head of claim, and of its settlement loop.
Busy == player # NoPlayer \/ state # "Idle"

\* with_player(|p| ...): whichever player is in the slot, if any, becomes p.
WithPlayer(p) ==
  /\ player' = IF player = NoPlayer THEN NoPlayer ELSE p
  /\ UNCHANGED <<state, ticket, settle>>

\* Mutant: mark_ready forgets that it has already said so.
ReadyIsNews_EveryTime == player # NoPlayer

\* mark_ready: TRUE exactly once per player; only a real player is armed.
ReadyIsNews == player # NoPlayer /\ ~player.mediaReady

\* Mutant: a preview is armed like a player.
MarkReady_ArmsPreviews ==
  WithPlayer([player EXCEPT !.mediaReady = TRUE, !.armed = TRUE])

MarkReady ==
  WithPlayer(IF player.mediaReady THEN player
             ELSE [player EXCEPT !.mediaReady = TRUE,
                                 !.armed = @ \/ player.link \notin PreviewLinks])
=============================================================================
