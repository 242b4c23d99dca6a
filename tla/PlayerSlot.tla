------------------------------ MODULE PlayerSlot ------------------------------
(***************************************************************************)
(* What the session slot promises its users, whatever the signaling links, *)
(* their pumps and the admins do: one holder at a time; a link holds the   *)
(* slot at most once, so a session that has ended never comes back; within *)
(* one session the phase only moves forward; input is armed at most once   *)
(* per session, never for a preview, and a new session starts unarmed.     *)
(***************************************************************************)
CONSTANTS Links, PreviewLinks, NoLink

VARIABLES
  holder,   \* the link whose session is in the slot, or NoLink
  phase,    \* how far that session has come
  armed,    \* whether its input is injected
  retired   \* the links that hold or have held the slot

vars == <<holder, phase, armed, retired>>

Phases == {"Idle", "Paired", "Negotiating", "Playing"}

TypeOK ==
  /\ holder \in Links \cup {NoLink}
  /\ phase \in Phases
  /\ armed \in BOOLEAN
  /\ retired \subseteq Links

Init ==
  /\ holder = NoLink
  /\ phase = "Idle"
  /\ armed = FALSE
  /\ retired = {}

\* A newcomer takes the slot, free or not: the newest player wins.
Take(l) ==
  /\ l \notin retired
  /\ holder' = l
  /\ phase' = "Paired"
  /\ armed' = FALSE
  /\ retired' = retired \cup {l}

Advance ==
  /\ \/ phase = "Paired" /\ phase' = "Negotiating"
     \/ phase = "Negotiating" /\ phase' = "Playing"
  /\ UNCHANGED <<holder, armed, retired>>

Arm ==
  /\ holder \in Links \ PreviewLinks
  /\ ~armed
  /\ armed' = TRUE
  /\ UNCHANGED <<holder, phase, retired>>

Release ==
  /\ holder # NoLink
  /\ holder' = NoLink
  /\ phase' = "Idle"
  /\ armed' = FALSE
  /\ UNCHANGED retired

Next == (\E l \in Links : Take(l)) \/ Advance \/ Arm \/ Release

Spec == Init /\ [][Next]_vars
=============================================================================
