---------------------------- MODULE StreamHealth -----------------------------
(***************************************************************************)
(* What the host says about its own stream: the numbers that the media     *)
(* pipelines' threads write (crates/host/src/media/pipeline.rs) into one   *)
(* collector (stats/mod.rs), the rules that turn them into a verdict       *)
(* (health.rs) and the watchdog that logs each new verdict (app.rs).       *)
(* Threads of pipelines that are gone still write.                         *)
(***************************************************************************)
EXTENDS Integers

CONSTANTS
  StartupGrace,     \* seconds (STARTUP_GRACE_SECS)
  TelemetrySilence, \* seconds (TELEMETRY_SILENCE_SECS)
  Reports,          \* what clients report: no decoder, no picture, a picture
  Faults            \* how audio elements fail

ASSUME HealthBounds ==
  /\ StartupGrace \in Nat \ {0} /\ TelemetrySilence \in Nat /\ StartupGrace <= TelemetrySilence
  /\ Reports \subseteq {"dark", "blind", "shown"} /\ Faults \subseteq {"degraded", "failed"}

VARIABLES
  pipe,      \* the player's pipeline
  delivers,  \* its encoder puts out frames, the source's or repeated ones
  poller,    \* its statistics thread: frames since its last look, what it saw
             \* then, has it looked this second
  others,    \* threads of earlier pipelines: stopped ones, abandoned ones
  stats,     \* StatsCollector
  said       \* the symptoms the watchdog logged last

healthVars == <<pipe, delivers, poller, others, stats, said>>

Never == -1
Ages(limit) == Never..(limit + 1)

HealthTypeOK ==
  /\ pipe \in {"none", "playing", "refused"} /\ delivers \in BOOLEAN
  /\ poller \in [fed: BOOLEAN, saw: {"nothing yet", "still", "moving"}, looked: BOOLEAN]
  /\ others \in [lingering: BOOLEAN, leaked: BOOLEAN]
  /\ stats \in [host: {"still", "repeated", "moving"}, audio: {"sound", "degraded", "failed"},
                age: Ages(TelemetrySilence), clientAge: Ages(TelemetrySilence),
                client: {"none", "dark", "blind", "shown"}]

NewPoller == [fed |-> FALSE, saw |-> "nothing yet", looked |-> TRUE]

(* reset_session                                                            *)
Cleared ==
  [host |-> "still", audio |-> "sound", age |-> Never, clientAge |-> Never, client |-> "none"]

HealthInit ==
  /\ pipe = "none" /\ delivers = FALSE /\ poller = NewPoller
  /\ others = [lingering |-> FALSE, leaked |-> FALSE] /\ stats = Cleared /\ said = {}

------------------------------------------------------------------------------
(* The session.                                                             *)

(* A failed branch stays failed (set_audio_health).  "sound" stands for     *)
(* Healthy and Disabled, of which nothing is said.                          *)
AudioHealth(h) == IF stats.audio = "failed" THEN "failed" ELSE h

(* build_audio_branch: an element that is missing breaks the branch; so     *)
(* does, in build, the want of a transport.                                 *)
BranchOutcomes == {"sound", "failed"}

(* With audio off in the configuration nothing is said of it.               *)
AudioBranch == {stats.audio} \cup {AudioHealth(h) : h \in BranchOutcomes}

(* ClientCapabilities: build and start under one lock.  The clock of the    *)
(* session starts before the pipeline is asked to play.                     *)
StartPipeline ==
  /\ pipe # "refused" /\ pipe' \in {"playing", "refused"}
  /\ \E h \in AudioBranch : stats' = [stats EXCEPT !.audio = h, !.age = 0]
  /\ delivers' = FALSE /\ poller' = NewPoller
  /\ others' = [others EXCEPT !.lingering = @ \/ pipe = "playing"]
  /\ UNCHANGED said

(* The pipeline before it, if any, plays on until the session ends.         *)
BuildFails ==
  /\ pipe # "refused"
  /\ \E h \in AudioBranch : stats' = [stats EXCEPT !.audio = h]
  /\ UNCHANGED <<pipe, delivers, poller, others, said>>

StopSession ==
  /\ pipe' = "none" /\ delivers' = FALSE /\ poller' = NewPoller /\ stats' = Cleared
  /\ others' = [lingering |-> others.lingering \/ pipe = "playing",
                leaked |-> others.leaked \/ pipe = "refused"]
  /\ UNCHANGED said

CaptureChanges ==
  /\ pipe = "playing" /\ delivers' = ~delivers
  /\ UNCHANGED <<pipe, poller, others, stats, said>>

EncodeFrame ==
  /\ pipe = "playing" /\ delivers /\ poller' = [poller EXCEPT !.fed = TRUE]
  /\ UNCHANGED <<pipe, delivers, others, stats, said>>

------------------------------------------------------------------------------
(* The writers of the collector.                                            *)

(* capture_fps and encoded_fps: none; the encoder repeats the last frame of *)
(* a desktop that does not change (videorate); both.                        *)
Readings == IF poller.fed THEN {"repeated", "moving"} ELSE {"still"}

(* An encoder that delivers does so many times a second.                    *)
FramesCame == delivers => poller.fed

Look ==
  /\ pipe # "none" /\ FramesCame
  /\ poller' = [fed |-> FALSE, saw |-> IF poller.fed THEN "moving" ELSE "still", looked |-> TRUE]
  /\ \E h \in Readings : stats' = [stats EXCEPT !.host = h]
  /\ UNCHANGED <<pipe, delivers, others, said>>

(* A stopped pipeline's thread writes once more before it sees that its     *)
(* pipeline is gone (pipeline_gone); an abandoned pipeline's never ends.    *)
LastLook ==
  /\ others.lingering /\ others' = [others EXCEPT !.lingering = FALSE]
  /\ \E h \in {"still", "repeated", "moving"} : stats' = [stats EXCEPT !.host = h]
  /\ UNCHANGED <<pipe, delivers, poller, said>>

LeakedLook ==
  /\ others.leaked /\ stats' = [stats EXCEPT !.host = "still"]
  /\ UNCHANGED <<pipe, delivers, poller, others, said>>

(* A bus thread outlives its pipeline: an error may come in at any time.    *)
BusError ==
  /\ \E h \in Faults : stats' = [stats EXCEPT !.audio = AudioHealth(h)]
  /\ UNCHANGED <<pipe, delivers, poller, others, said>>

(* ingest_client: nothing ties the message to a session.                    *)
Telemetry ==
  /\ \E c \in Reports :
       stats' = [stats EXCEPT !.client = c, !.clientAge = 0]
  /\ UNCHANGED <<pipe, delivers, poller, others, said>>

Older(age, limit) == IF age \in {Never, limit + 1} THEN age ELSE age + 1

Second ==
  /\ ~others.lingering /\ (pipe = "none" \/ poller.looked)
  /\ stats' = [stats EXCEPT !.age = Older(@, TelemetrySilence),
                            !.clientAge = Older(@, TelemetrySilence)]
  /\ poller' = [poller EXCEPT !.looked = FALSE]
  /\ UNCHANGED <<pipe, delivers, others, said>>

------------------------------------------------------------------------------
(* The verdict (assess), one rule a line, and the watchdog.                 *)

Active == stats.age # Never

Settled_AtOnce == stats.age > 0
Settled == stats.age > StartupGrace

Stalled == Active /\ Settled /\ stats.host = "still"
NeverReported == Active /\ stats.clientAge = Never /\ stats.age > TelemetrySilence
Silent == Active /\ stats.clientAge > TelemetrySilence
Heard == Active /\ stats.clientAge \in 0..TelemetrySilence
NoDecode == Heard /\ stats.client = "dark" /\ stats.host = "moving" /\ Settled

Rules ==
  [stalled |-> Stalled, neverReported |-> NeverReported, silent |-> Silent,
   notPresenting |-> Heard /\ stats.client = "blind", noDecode |-> NoDecode,
   audioFailed |-> stats.audio = "failed", audioDegraded |-> stats.audio = "degraded"]

Symptoms == {s \in DOMAIN Rules : Rules[s]}

(* A verdict is logged when it differs from the last one logged.            *)
IsNews_WhenHealthTurns == (Symptoms = {}) # (said = {})
IsNews == Symptoms # said

Watchdog ==
  /\ said' = IF IsNews THEN Symptoms ELSE said
  /\ UNCHANGED <<pipe, delivers, poller, others, stats>>

HealthNext ==
  \/ StartPipeline \/ BuildFails \/ StopSession \/ CaptureChanges \/ EncodeFrame
  \/ Look \/ LastLook \/ LeakedLook \/ BusError \/ Telemetry \/ Second \/ Watchdog

HealthSpec == HealthInit /\ [][HealthNext]_healthVars

(* Each thread wakes every second, the watchdog every five.                 *)
HealthFairness ==
  /\ WF_healthVars(EncodeFrame) /\ WF_healthVars(Look) /\ WF_healthVars(LastLook)
  /\ WF_healthVars(Second) /\ WF_healthVars(Watchdog)

HealthFairSpec == HealthSpec /\ HealthFairness

------------------------------------------------------------------------------
(* "The capture source is producing no frames" (health.rs) is not said of a *)
(* stream that moves, although threads of earlier sessions write into the   *)
(* same numbers: what the session's own thread saw last agrees.  A pipeline *)
(* that was abandoned spoils this for good.                                 *)
NoFalseStall ==
  [][~others.leaked /\ "stalled" \in said' \ said => poller.saw = "still"]_healthVars

(* "This says it at the moment it becomes true" (app.rs): a capture that    *)
(* stopped for good is reported, whatever else is wrong already.            *)
StallIsSaid ==
  (<>[](pipe = "playing" /\ ~delivers) /\ <>[][~StartPipeline]_healthVars)
    => <>[]("stalled" \in said)
==============================================================================
