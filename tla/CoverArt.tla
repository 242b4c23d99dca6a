------------------------------ MODULE CoverArt -------------------------------
(***************************************************************************)
(* The covers of the game library (crates/host/src/gameart.rs): each       *)
(* answer of GET /api/v1/library starts one background batch for the games *)
(* that have no cover; batches fetch one game after the other and share a  *)
(* set of the names that are in flight.                                    *)
(***************************************************************************)
CONSTANT Games

VARIABLES
  cover,     \* <slug>.jpg: "none", "torn" after a write that was cut, "whole"
  miss,      \* <slug>.miss: "none", "fresh" for a day (MISS_TTL), then "stale"
  inFlight,  \* ArtCache.in_flight
  batches    \* the warm passes: the game in hand, how far it is, the rest

artVars == <<cover, miss, inFlight, batches>>

Batch == [now: Games, at: {"next", "asking", "answered"}, rest: SUBSET Games]

CoverArtTypeOK ==
  /\ cover \in [Games -> {"none", "torn", "whole"}]
  /\ miss \in [Games -> {"none", "fresh", "stale"}]
  /\ inFlight \subseteq Games /\ batches \subseteq Batch

CoverArtInit ==
  /\ cover = [g \in Games |-> "none"] /\ miss = [g \in Games |-> "none"]
  /\ inFlight = {} /\ batches = {}

(* cached: whatever the file holds.                                         *)
Cached(g) == cover[g] # "none"
MissedRecently(g) == miss[g] = "fresh"

(* The filter of warm, under the lock of in_flight.                         *)
Todo_Stacks(wants) == {g \in wants : ~Cached(g) /\ ~MissedRecently(g)}
Todo(wants) == {g \in wants : ~Cached(g) /\ ~MissedRecently(g) /\ g \notin inFlight}

(* The order within a batch is the library's.                               *)
NextOf(todo) == {[now |-> g, at |-> "next", rest |-> todo \ {g}] : g \in todo}

(* A page asks for the library; the installed games change at will.         *)
Warm ==
  /\ \E wants \in SUBSET Games :
       /\ Todo(wants) # {} /\ inFlight' = inFlight \cup Todo(wants)
       /\ \E b \in NextOf(Todo(wants)) : batches' = batches \cup {b}
  /\ UNCHANGED <<cover, miss>>

Moves(b, at) == batches' = (batches \ {b}) \cup {[b EXCEPT !.at = at]}

(* fetch_one: the store's search, then the picture.                         *)
Ask(b) ==
  /\ b.at = "next" /\ Moves(b, "asking")
  /\ UNCHANGED <<cover, miss, inFlight>>

GetsCover(b) ==
  /\ b.at = "asking" /\ Moves(b, "answered")
  /\ cover' = [cover EXCEPT ![b.now] = "whole"] /\ miss' = [miss EXCEPT ![b.now] = "none"]
  /\ UNCHANGED inFlight

(* No match, no picture, or one that could not be written.  The marker may  *)
(* fail to be written as well.                                              *)
GetsNone(b) ==
  /\ b.at = "asking" /\ Moves(b, "answered")
  /\ cover' \in {cover, [cover EXCEPT ![b.now] = "torn"]}
  /\ miss' \in {miss, [miss EXCEPT ![b.now] = "fresh"]}
  /\ UNCHANGED inFlight

(* The name leaves the set; 350 ms later comes the next.                    *)
Lands(b) ==
  /\ b.at = "answered" /\ inFlight' = inFlight \ {b.now}
  /\ IF b.rest = {} THEN batches' = batches \ {b}
     ELSE \E c \in NextOf(b.rest) : batches' = (batches \ {b}) \cup {c}
  /\ UNCHANGED <<cover, miss>>

(* The process dies, perhaps in the middle of writing covers.               *)
Restart ==
  /\ inFlight' = {} /\ batches' = {}
  /\ \E torn \in SUBSET {b.now : b \in {c \in batches : c.at = "asking"}} :
       cover' = [g \in Games |-> IF g \in torn THEN "torn" ELSE cover[g]]
  /\ UNCHANGED miss

DayPasses ==
  /\ miss' = [g \in Games |-> IF miss[g] = "fresh" THEN "stale" ELSE miss[g]]
  /\ UNCHANGED <<cover, inFlight, batches>>

CoverArtNext ==
  \/ Warm \/ Restart \/ DayPasses
  \/ \E b \in batches : Ask(b) \/ GetsCover(b) \/ GetsNone(b) \/ Lands(b)

CoverArtSpec == CoverArtInit /\ [][CoverArtNext]_artVars

------------------------------------------------------------------------------
(* "Repeated /api/v1/library calls do not stack fetches" (in_flight): when  *)
(* a batch comes to ask the store for a game, however long after its own    *)
(* look at the cache, no other batch has fetched it or missed it today.     *)
FetchesDoNotStack ==
  [][\A b \in batches : Ask(b) => ~Cached(b.now) /\ ~MissedRecently(b.now)]_artVars
==============================================================================
