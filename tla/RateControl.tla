----------------------------- MODULE RateControl -----------------------------
(***************************************************************************)
(* The two laws that decide how much video the host sends: the bitrate     *)
(* controller, stepped once a second by the statistics thread              *)
(* (crates/host/src/media/bitrate.rs, pipeline.rs), and the datagram pace, *)
(* moved by the reader of the client's telemetry (session.rs).  They run   *)
(* in different threads and meet in Shared::pace_pps, which caps the       *)
(* encoder while video rides datagrams.  Rates are in coarse units, with   *)
(* one pace unit carrying one rate unit (WT_PACE_TO_CEILING).              *)
(***************************************************************************)
EXTENDS Integers

CONSTANTS
  Floor, Ceiling,          \* of the negotiated session
  MinPace, MaxPace,        \* WT_PACE_PPS, WORKER_PACE_PPS
  Warmup,                  \* ticks without a loss cut
  ForgetLoss, ForgetDelay  \* clean ticks after which a remembered ceiling is dropped (30, 45)

ASSUME RateBounds ==
  /\ Floor \in Nat \ {0} /\ Ceiling \in Nat /\ Floor <= Ceiling
  /\ MinPace \in Nat \ {0} /\ MaxPace \in Nat /\ MinPace <= MaxPace
  /\ Warmup \in Nat /\ ForgetLoss \in Nat /\ ForgetDelay \in Nat
  /\ 3 <= ForgetLoss /\ ForgetLoss <= ForgetDelay

VARIABLES
  kbps,        \* the encoder's target
  cooldown,    \* ticks before an increase
  warmup,      \* ticks before a loss cut
  clean,       \* clean_streak, as far as anything asks
  lossy,       \* lossy_streak, as far as anything asks
  soft,        \* soft_ceiling, 0 for None
  fromDelay,   \* ceiling_from_delay
  worker,      \* the client drains datagrams in a worker
  fresh,       \* pace_fresh: no telemetry of this connection yet
  pace,        \* Shared::pace_pps
  paceLossy,   \* Shared::pace_lossy_windows
  cutAge,      \* history: ticks since the latest cut, up to three
  harshAge,    \* history: ticks since the latest harsh cut, up to three
  episode,     \* history: a cut, and no clean tick since
  beat         \* history: flips with every tick and report, so that one that changes nothing is a step

law == <<kbps, cooldown, warmup, clean, lossy, soft, fromDelay>>
paceVars == <<worker, fresh, pace, paceLossy>>
history == <<cutAge, harshAge, episode, beat>>
rateVars == <<law, paceVars, history>>

Lower(a, b) == IF a < b THEN a ELSE b
Higher(a, b) == IF a < b THEN b ELSE a
Beat == beat' = ~beat

RateTypeOK ==
  /\ kbps \in Floor..Ceiling
  /\ cooldown \in 0..5 /\ warmup \in 0..Warmup
  /\ clean \in 0..ForgetDelay /\ lossy \in 0..2
  /\ soft \in 0..Ceiling /\ fromDelay \in BOOLEAN
  /\ worker \in BOOLEAN /\ fresh \in BOOLEAN
  /\ pace \in MinPace..MaxPace /\ paceLossy \in 0..2
  /\ cutAge \in 0..3 /\ harshAge \in 0..3 /\ episode \in BOOLEAN /\ beat \in BOOLEAN

RateInit ==
  /\ kbps \in Floor..Ceiling
  /\ cooldown = 0 /\ warmup = Warmup /\ clean = 0 /\ lossy = 0
  /\ soft = 0 /\ fromDelay = FALSE
  /\ worker \in BOOLEAN /\ fresh = TRUE /\ pace = MinPace /\ paceLossy = 0
  /\ cutAge = 3 /\ harshAge = 3 /\ episode = FALSE /\ beat = FALSE

------------------------------------------------------------------------------
(* The pace.  PaceCap is max_pace, the client's own ceiling.                *)

PaceCap == IF worker THEN MaxPace ELSE MinPace
PaceStep == Higher(PaceCap \div 20, 1)
Base == IF fresh \/ pace > PaceCap THEN PaceCap ELSE pace

Creep(p) == Lower(p + PaceStep, PaceCap)
BackOff(p) == Higher((3 * p) \div 4, MinPace)

NewClient ==
  /\ worker' \in BOOLEAN /\ fresh' = TRUE
  /\ UNCHANGED <<law, pace, paceLossy, history>>

(* One telemetry line.  The loss it implies is heavy (from 9 %), light (to  *)
(* 1 %), in between, or not measured for lack of traffic.                   *)
HeavyReport ==
  /\ fresh' = FALSE
  /\ IF paceLossy + 1 >= 2 /\ Base > MinPace
     THEN pace' = BackOff(Base) /\ paceLossy' = 0
     ELSE pace' = Base /\ paceLossy' = Lower(paceLossy + 1, 2)
  /\ UNCHANGED <<law, worker, cutAge, harshAge, episode>>

MiddlingReport ==
  /\ fresh' = FALSE /\ pace' = Base
  /\ UNCHANGED <<law, worker, paceLossy, cutAge, harshAge, episode>>

LightReport ==
  /\ fresh' = FALSE /\ pace' = Creep(Base) /\ paceLossy' = 0
  /\ UNCHANGED <<law, worker, cutAge, harshAge, episode>>

QuietReport ==
  /\ fresh' = FALSE /\ pace' = Creep(Base)
  /\ UNCHANGED <<law, worker, paceLossy, cutAge, harshAge, episode>>

------------------------------------------------------------------------------
(* The controller.  A tick is one of the branches of step.                  *)

Cooled == Higher(cooldown - 1, 0)
Warmed == Higher(warmup - 1, 0)
CutTo(target) == kbps' = Lower(Higher(target, Floor), kbps)

Aged(age) == Lower(age + 1, 3)

(* A cut overwrites the cooldown, a longer one of an earlier cut included.  *)
Cut(target, ticks) ==
  /\ CutTo(target) /\ cooldown' = ticks /\ clean' = 0
  /\ cutAge' = 0 /\ harshAge' = (IF ticks >= 4 THEN 0 ELSE Aged(harshAge))
  /\ episode' = TRUE

Rest ==
  /\ cutAge' = Aged(cutAge) /\ harshAge' = Aged(harshAge) /\ UNCHANGED episode

FirstObjection_Always == TRUE
FirstObjection == soft = 0 \/ clean > 0

MarkLoss ==
  /\ soft' = IF FirstObjection THEN kbps ELSE soft
  /\ fromDelay' = FALSE

MarkDelay ==
  /\ soft' = IF FirstObjection THEN kbps ELSE soft
  /\ fromDelay' = FirstObjection

(* The send queue holds more than 250 ms.                                   *)
BacklogCut ==
  /\ Cut((6 * kbps) \div 10, 4)
  /\ UNCHANGED <<warmup, lossy, soft, fromDelay, paceVars>>

(* No fresh telemetry: hold, don't guess.                                   *)
NoReport ==
  /\ cooldown' = Cooled /\ warmup' = Warmed
  /\ UNCHANGED <<kbps, clean, lossy, soft, fromDelay, paceVars>> /\ Rest

(* The client's p95 age is above 120 ms, or above 250 (severe).             *)
TailHold ==
  /\ Cooled > 0
  /\ cooldown' = Cooled /\ warmup' = Warmed
  /\ UNCHANGED <<kbps, clean, lossy, soft, fromDelay, paceVars>> /\ Rest

TailCut(severe) ==
  /\ Cooled = 0
  /\ MarkDelay /\ warmup' = Warmed
  /\ IF severe THEN Cut((6 * kbps) \div 10, 4) ELSE Cut((7 * kbps) \div 10, 2)
  /\ UNCHANGED <<lossy, paceVars>>

------------------------------------------------------------------------------
(* A tick whose tail is below 120 ms or unknown.  Loss is above 10 %,       *)
(* above 3 %, or low; the route fails when the decoder makes less than 0.7  *)
(* of the target rate; carrier: video rides datagrams.                      *)

Loss == {"severe", "onset", "low"}
Streak(loss) == IF loss = "severe" THEN Lower(lossy + 1, 2) ELSE 0

Paced(k, carrier) == IF carrier THEN Lower(k, Higher(pace, Floor)) ELSE k

(* After two severe seconds at least half, towards what was delivered.      *)
LossCut(carrier) ==
  /\ Warmed = 0 /\ Streak("severe") >= 2 /\ lossy' = Streak("severe")
  /\ MarkLoss /\ warmup' = Warmed
  /\ \E delivered \in Floor..Ceiling :
       Cut(Paced(Lower(kbps, Higher(Floor, Lower(kbps \div 2, delivered))), carrier), 5)
  /\ UNCHANGED paceVars

OnsetCut(loss, carrier) ==
  /\ Warmed = 0 /\ loss \in {"severe", "onset"} /\ lossy' = Streak(loss) /\ lossy' < 2
  /\ MarkLoss /\ warmup' = Warmed
  /\ Cut(Paced((3 * kbps) \div 4, carrier), 3)
  /\ UNCHANGED paceVars

FillCut(loss, carrier) ==
  /\ Warmed = 0 /\ lossy' = Streak(loss) /\ warmup' = Warmed
  /\ Cut(Paced((17 * kbps) \div 20, carrier), 2)
  /\ UNCHANGED <<soft, fromDelay, paceVars>>

(* A clean-ish tick.  The remembered ceiling creeps up by a few percent     *)
(* (one unit or nothing), a delay's only while the tail is at most 50 ms    *)
(* or unknown, and is dropped after a long clean stretch.                   *)
Relaxed(settled) ==
  IF soft = 0 THEN {0}
  ELSE {IF s >= Ceiling THEN 0 ELSE s :
          s \in {soft} \cup (IF fromDelay /\ ~settled THEN {} ELSE {soft + 1})}

Forgotten_Never == FALSE
Forgotten == soft # 0 /\ clean' >= (IF fromDelay THEN ForgetDelay ELSE ForgetLoss)

ProbeCap(carrier) ==
  LET cap == IF soft' = 0 THEN Ceiling ELSE Lower(Higher((9 * soft') \div 10, Floor), Ceiling)
  IN IF carrier THEN Lower(cap, Higher(pace, Floor)) ELSE cap

(* x1.3 on a LAN, a fifth on a longer route; coarse units round up.         *)
Raised(lowRtt) ==
  IF lowRtt /\ clean' >= 2 THEN (13 * kbps + 9) \div 10
  ELSE IF clean' >= 3 THEN kbps + Higher(kbps \div 5, 1)
  ELSE kbps

(* What speaks against a raise: measured loss from 2 %, a queue from 25 ms, *)
(* a tail above 100 ms or unknown, a client that does not decode (unless    *)
(* almost nothing is sent).  Modelled loss does not.                        *)
Objection == {"none", "loss", "queue", "tail", "picture"}
Climbs_InCooldown(objection) == objection = "none"
Climbs(objection) == cooldown' = 0 /\ objection = "none"

(* What a tick that cuts nothing reads of its Feedback.                     *)
Feedback ==
  [loss : Loss, objection : Objection, settled : BOOLEAN, lowRtt : BOOLEAN, carrier : BOOLEAN]

CleanTick(f) ==
  /\ lossy' = Streak(f.loss)
  /\ cooldown' = Cooled /\ warmup' = Warmed
  /\ clean' = Lower(clean + 1, ForgetDelay)
  /\ \E relaxed \in Relaxed(f.settled) : soft' = IF Forgotten THEN 0 ELSE relaxed
  /\ fromDelay' = (fromDelay /\ ~Forgotten)
  /\ LET cap == ProbeCap(f.carrier)
     IN kbps' = Paced(IF Climbs(f.objection) /\ kbps < cap
                      THEN Lower(Raised(f.lowRtt), cap) ELSE kbps, f.carrier)
  /\ cutAge' = Aged(cutAge) /\ harshAge' = Aged(harshAge) /\ episode' = FALSE
  /\ UNCHANGED paceVars

(* A failing route is cut on loss, a filling queue on its own, nothing else *)
(* is.                                                                      *)
Judged ==
  \/ \E carrier \in BOOLEAN :
       \/ LossCut(carrier)
       \/ \E loss \in Loss : OnsetCut(loss, carrier) \/ FillCut(loss, carrier)
  \/ \E f \in Feedback : CleanTick(f)

(* The path stays clean and the client decodes.                             *)
CalmTick ==
  /\ Beat
  /\ \E f \in Feedback : f.loss = "low" /\ f.objection = "none" /\ CleanTick(f)

------------------------------------------------------------------------------
Tick ==
  /\ Beat
  /\ \/ BacklogCut \/ NoReport \/ TailHold \/ Judged
     \/ \E severe \in BOOLEAN : TailCut(severe)
Report == Beat /\ (HeavyReport \/ MiddlingReport \/ LightReport \/ QuietReport)
RateNext == NewClient \/ Report \/ Tick

RateSpec == RateInit /\ [][RateNext]_rateVars

(* The clock ticks and the client reports.  From some time on the route is  *)
(* clean, the same client is there, and its loss is light or too little to  *)
(* measure.                                                                 *)
CalmReport == Beat /\ (LightReport \/ QuietReport)
RateFairSpec ==
  /\ RateSpec /\ <>[][CalmTick \/ CalmReport]_rateVars
  /\ WF_rateVars(CalmTick) /\ WF_rateVars(CalmReport)

------------------------------------------------------------------------------
(* The rate comes back: once the route stays clean, no remembered ceiling,  *)
(* cooldown or backed-off pace keeps the encoder below what the session and *)
(* the client's pace allow (bitrate.rs: "so a genuinely improved path can   *)
(* recover the full ceiling").                                              *)
RateReturns == <>[](kbps >= Lower(Ceiling, Higher(PaceCap, Floor)))

(* "Fast cut, slow climb": after any cut the next tick does not raise the   *)
(* rate.  After a harsh one (a stalled queue, a severe tail, two severe     *)
(* seconds of loss) neither of the next two does, whatever happens in them, *)
(* and the third does not unless a gentler cut came in between: its shorter *)
(* cooldown replaces the harsh one's, so that the three ticks of            *)
(* "holds longer (4 ticks)" (bitrate.rs:154) are then only two.             *)
NoClimbAfterCut ==
  [][kbps' > kbps =>
       /\ cutAge >= 1 /\ harshAge >= 2
       /\ harshAge = cutAge => harshAge = 3]_rateVars

(* Cuts inside one bad stretch do not ratchet the remembered ceiling down   *)
(* with the rate they produced (bitrate.rs, first_objection_of_episode).    *)
NoRatchet == [][episode /\ soft # 0 /\ soft' # 0 => soft' >= soft]_rateVars
==============================================================================
