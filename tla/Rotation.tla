------------------------------ MODULE Rotation -------------------------------
(***************************************************************************)
(* The transport in service and the task that replaces it: its certificate *)
(* ages and its frame sender may die (spawn_wt_rotation in crates/host/src/*)
(* app.rs, rotate_transport and WtSlot in media/wt/mod.rs, shutdown in     *)
(* media/wt/transport.rs).  One UDP port serves all: a transport that was  *)
(* shut down keeps it until its last handle is dropped.  Handles are held  *)
(* by the slot, by the task itself, by the player that claimed it, and by  *)
(* the encoder tap, audio probe and statistics thread of every media       *)
(* pipeline the player built (crates/host/src/media/pipeline.rs).          *)
(***************************************************************************)
EXTENDS Naturals

CONSTANTS
  Transports,
  NoTransport,
  MaxTries      \* attempts of one rotation

ASSUME RotationBounds == MaxTries \in Nat \ {0} /\ NoTransport \notin Transports

VARIABLES
  phase,     \* of each transport: "unbound", "serving", "closed" (it has the port)
  cert,      \* "fresh", "due" (WT_CERT_ROTATE_WHEN_LEFT), "expired"
  alive,     \* its frame sender runs
  slot,      \* WtSlot
  rotation,  \* the task: where it is, its copy of the slot, attempts made
  player,    \* there is one; the transport its media session holds; its pipeline
  lingering, \* transports a stopped pipeline's statistics thread still holds
  leaked     \* transports of the pipelines that are never freed

rotationVars == <<phase, cert, alive, slot, rotation, player, lingering, leaked>>
pipelineVars == <<lingering, leaked>>

Held == Transports \cup {NoTransport}
Asleep == [at |-> "asleep", current |-> NoTransport, tries |-> 0]
NoPlayer == [on |-> FALSE, wt |-> NoTransport, pipe |-> "none"]

RotationTypeOK ==
  /\ phase \in [Transports -> {"unbound", "serving", "closed"}]
  /\ cert \in [Transports -> {"fresh", "due", "expired"}]
  /\ alive \in [Transports -> BOOLEAN]
  /\ slot \in Held
  /\ rotation \in [at: {"asleep", "chosen", "binding"}, current: Held,
                   tries: 0..(MaxTries - 1)]
  /\ player \in [on: BOOLEAN, wt: Held, pipe: {"none", "playing", "refused"}]
  /\ lingering \subseteq Transports /\ leaked \subseteq Transports

(* Boot: the first transport is bound before anything else runs.            *)
RotationInit ==
  \E x \in Transports :
    /\ phase = [y \in Transports |-> IF y = x THEN "serving" ELSE "unbound"]
    /\ cert = [y \in Transports |-> "fresh"] /\ alive = [y \in Transports |-> TRUE]
    /\ slot = x /\ rotation = Asleep /\ player = NoPlayer
    /\ lingering = {} /\ leaked = {}

------------------------------------------------------------------------------
(* The task, from its poll to the new transport.                            *)

Due_OnAge == slot # NoTransport => cert[slot] # "fresh"
Due_OnDeath == slot # NoTransport => ~alive[slot]
Due == slot # NoTransport => cert[slot] # "fresh" \/ ~alive[slot]

(* "Never swap the transport out from under a live player", unless its      *)
(* sender is dead.                                                          *)
Disturbs == slot # NoTransport /\ player.on /\ alive[slot]

Decide ==
  /\ rotation.at = "asleep" /\ Due /\ ~Disturbs
  /\ rotation' = [at |-> "chosen", current |-> slot, tries |-> 0]
  /\ UNCHANGED <<phase, cert, alive, slot, player, pipelineVars>>

Emptied_Later == slot
Emptied == NoTransport

Retire ==
  /\ rotation.at = "chosen" /\ rotation' = [rotation EXCEPT !.at = "binding"]
  /\ phase' = [x \in Transports |-> IF x = slot THEN "closed" ELSE phase[x]]
  /\ slot' = Emptied
  /\ UNCHANGED <<cert, alive, player, pipelineVars>>

PortFree == \A x \in Transports : phase[x] = "unbound"

Bind ==
  /\ rotation.at = "binding" /\ PortFree
  /\ \E x \in Transports :
       /\ phase' = [phase EXCEPT ![x] = "serving"] /\ cert' = [cert EXCEPT ![x] = "fresh"]
       /\ alive' = [alive EXCEPT ![x] = TRUE] /\ slot' = x
  /\ rotation' = Asleep
  /\ UNCHANGED <<player, pipelineVars>>

AfterTry(n) == IF n < MaxTries THEN [rotation EXCEPT !.tries = n] ELSE Asleep

BindFails ==
  /\ rotation.at = "binding" /\ ~PortFree
  /\ rotation' = AfterTry(rotation.tries + 1)
  /\ UNCHANGED <<phase, cert, alive, slot, player, pipelineVars>>

------------------------------------------------------------------------------
(* The session.  A player keeps the transport it claimed, whatever becomes  *)
(* of the slot, and every pipeline it builds takes handles of its own.      *)

Claim ==
  /\ ~player.on /\ player' = [on |-> TRUE, wt |-> slot, pipe |-> "none"]
  /\ UNCHANGED <<phase, cert, alive, slot, rotation, pipelineVars>>

Wt == IF player.wt = NoTransport THEN {} ELSE {player.wt}

(* A pipeline that played is taken to NULL; its statistics thread looks     *)
(* once more, up to a second later, before it lets go.  One that refused to *)
(* play is abandoned: neither stopped nor freed, so its thread never ends.  *)
Stopped == lingering' = IF player.pipe = "playing" THEN lingering \cup Wt ELSE lingering

Abandoned == leaked' = IF player.pipe = "refused" THEN leaked \cup Wt ELSE leaked

(* ClientCapabilities builds a pipeline and starts it under one lock; asked *)
(* again, the new pipeline replaces the old one.  After a refusal the link  *)
(* only ends the session.                                                   *)
StartMedia ==
  /\ player.on /\ player.pipe # "refused"
  /\ \E result \in {"playing", "refused"} : player' = [player EXCEPT !.pipe = result]
  /\ Stopped
  /\ UNCHANGED <<phase, cert, alive, slot, rotation, leaked>>

Leave ==
  /\ player.on /\ player' = NoPlayer
  /\ Stopped /\ Abandoned
  /\ UNCHANGED <<phase, cert, alive, slot, rotation>>

PollerExits ==
  /\ \E x \in lingering : lingering' = lingering \ {x}
  /\ UNCHANGED <<phase, cert, alive, slot, rotation, player, leaked>>

LetGo(x) ==
  /\ x # slot /\ x # rotation.current /\ x # player.wt
  /\ x \notin lingering \cup leaked

Release ==
  /\ \E x \in Transports :
       phase[x] = "closed" /\ LetGo(x) /\ phase' = [phase EXCEPT ![x] = "unbound"]
  /\ UNCHANGED <<cert, alive, slot, rotation, player, pipelineVars>>

CertAges ==
  /\ \E x \in Transports :
       /\ phase[x] = "serving" /\ cert[x] # "expired"
       /\ cert' = [cert EXCEPT ![x] = IF @ = "fresh" THEN "due" ELSE "expired"]
  /\ UNCHANGED <<phase, alive, slot, rotation, player, pipelineVars>>

SenderDies ==
  /\ \E x \in Transports :
       phase[x] = "serving" /\ alive[x] /\ alive' = [alive EXCEPT ![x] = FALSE]
  /\ UNCHANGED <<phase, cert, slot, rotation, player, pipelineVars>>

RotationNext ==
  \/ Decide \/ Retire \/ Bind \/ BindFails
  \/ Claim \/ StartMedia \/ Leave \/ PollerExits \/ Release
  \/ CertAges \/ SenderDies

RotationSpec == RotationInit /\ [][RotationNext]_rotationVars

(* A player that watches a black glass leaves in the end.                   *)
LeaveBlack == Leave /\ (player.wt # slot \/ slot = NoTransport)

(* The link of a refused pipeline ends the session.                         *)
LeaveRefused == Leave /\ player.pipe = "refused"

(* The task, the threads and the last drop of a handle run; a player need   *)
(* not leave.                                                               *)
RotationFairness ==
  /\ WF_rotationVars(Decide) /\ WF_rotationVars(Retire)
  /\ WF_rotationVars(Bind \/ BindFails)
  /\ WF_rotationVars(PollerExits) /\ WF_rotationVars(Release)
  /\ WF_rotationVars(LeaveBlack) /\ WF_rotationVars(LeaveRefused)

RotationFairSpec == RotationSpec /\ RotationFairness

Fresh == slot # NoTransport /\ cert[slot] = "fresh"

------------------------------------------------------------------------------
(* "Nothing can dial or advertise a transport that is mid-retirement"       *)
(* (rotate_transport): the slot's transport serves.                         *)
SlotServes == slot # NoTransport => phase[slot] = "serving"

(* A dead sender or a failed rotation does not need a restart of the host   *)
(* (spawn_wt_rotation): a transport that sends comes back, unless a start   *)
(* was ever refused (the pipeline it leaked may keep the port).             *)
VideoComesBack ==
  [](leaked = {}) =>
    ((slot = NoTransport \/ ~alive[slot]) ~> (slot # NoTransport /\ alive[slot]))

(* A browser refuses a certificate past its date, so a transport whose      *)
(* certificate aged must be replaced while nobody plays (wt/mod.rs,         *)
(* WT_CERT_ROTATE_WHEN_LEFT): an idle host has a fresh one again and again. *)
IdleHostRenews == [](leaked = {}) /\ <>[]~player.on => []<>Fresh
==============================================================================
