----------------------------- MODULE Negotiation ------------------------------
(***************************************************************************)
(* What a link's messages make of its session's configuration              *)
(* (crates/host/src/http/signal.rs, media/encoder_policy.rs): the hello     *)
(* leaves a provisional one, the capabilities settle codec and bounds, and *)
(* the same record goes to the client, the encoder and the bitrate         *)
(* controller.  A link may send either message at any time and again.  A   *)
(* link that was displaced while it handled a message acts on its          *)
(* successor's session (owns at 403 precedes the handler's own accesses);  *)
(* how the two interleave is Signaling's.  Bitrates are in kbps.           *)
(***************************************************************************)
EXTENDS Integers

CONSTANTS
  Widths, Heights, Rates,  \* what clients ask for
  Caps,                    \* the bitrate caps they ask for, if any
  DefaultWidth, DefaultHeight, DefaultRate   \* of the host's configuration

(* Config::validate looks at the rate alone; the size is the operator's.    *)
ASSUME AskedFor ==
  /\ Widths \subseteq Nat /\ Heights \subseteq Nat /\ Rates \subseteq Nat /\ Caps \subseteq Nat
  /\ DefaultWidth \in Nat /\ DefaultHeight \in Nat /\ DefaultRate \in {30, 60, 120}

Codecs == {"H264", "H265"}
Optional(S) == {{}} \cup {{x} : x \in S}

Mode == [w : Nat, h : Nat, fps : Nat, cap : SUBSET Nat, target : {"desktop", "game"}]
Said == [listed : SUBSET Codecs, hinted : BOOLEAN, decodes : SUBSET Codecs]

VARIABLES
  link,     \* whose session it is: "none", "player", "preview"
  config,   \* PlayerSession.config, none or one
  asked,    \* history: the mode of a hello that no capabilities followed yet
  offer,    \* history: the session_config just sent, with what it answers
  starts,   \* history: the kinds of link whose own ask started a game
  stray,    \* a link that lost the session is still handling a message
  crossed   \* history: config is not of this link's messages

offerVars == <<link, config, asked, offer, starts, stray, crossed>>

Even(n) == n - (n % 2)
Within(n, low, high) == IF n < low THEN low ELSE IF n > high THEN high ELSE n
AtMost(n, m) == IF n < m THEN n ELSE m
AtLeast(n, m) == IF n < m THEN m ELSE n

(* preview_mode.  The scale is the smaller of 960/w and 540/h, without the  *)
(* rounding of the floating point.                                          *)
PreviewMode(m) ==
  LET narrow == 960 * m.h <= 540 * m.w
      large == m.w > 960 \/ m.h > 540
  IN [m EXCEPT
       !.w = IF ~large THEN m.w ELSE IF narrow THEN 960 ELSE Even((m.w * 540) \div m.h),
       !.h = IF ~large THEN m.h ELSE IF narrow THEN Even((m.h * 960) \div m.w) ELSE 540,
       !.fps = AtMost(m.fps, 30),
       !.cap = {AtMost(c, 2500) : c \in IF m.cap = {} THEN {2500} ELSE m.cap},
       !.target = "desktop"]

ClampMode(m) ==
  [m EXCEPT !.w = Even(Within(m.w, 640, 3840)), !.h = Even(Within(m.h, 360, 2160)),
            !.fps = Within(m.fps, 15, 240)]

(* bitrate_kbps: a table for 1080 and 1440 lines, else base * pixel rate    *)
(* over that of 1080p60, in exact arithmetic.                               *)
Listed(m) == m.h \in {1080, 1440}

TableStart(codec, m) ==
  IF codec = "H264"
  THEN IF m.h = 1080 THEN (IF m.fps <= 60 THEN 20000 ELSE 30000)
                     ELSE (IF m.fps <= 60 THEN 30000 ELSE 50000)
  ELSE IF m.h = 1080 THEN (IF m.fps <= 60 THEN 14000 ELSE 22000)
                     ELSE (IF m.fps <= 60 THEN 22000 ELSE 35000)

TableMax(codec, m) ==
  IF codec = "H264"
  THEN IF m.h = 1080 THEN (IF m.fps <= 60 THEN 35000 ELSE 50000)
                     ELSE (IF m.fps <= 60 THEN 50000 ELSE 85000)
  ELSE IF m.h = 1080 THEN (IF m.fps <= 60 THEN 25000 ELSE 35000)
                     ELSE (IF m.fps <= 60 THEN 35000 ELSE 60000)

PixelRate(m) == m.w * m.h * m.fps
Times(q, n, d) == (q \div d) * n + ((q % d) * n) \div d
Scaled(codec, m) ==
  IF codec = "H264" THEN Times(PixelRate(m), 5, 31104) ELSE Times(PixelRate(m), 7, 62208)

PolicyStart(codec, m) ==
  IF Listed(m) THEN TableStart(codec, m) ELSE AtLeast(Scaled(codec, m), 4000)
PolicyMax(codec, m) == IF Listed(m) THEN TableMax(codec, m) ELSE (Scaled(codec, m) * 17) \div 10

(* build_config: m.cap overrides the policy's maximum.                      *)
MaxRate(codec, m) ==
  IF m.cap = {} THEN PolicyMax(codec, m) ELSE CHOOSE n \in {Within(c, 2000, 120000) : c \in m.cap} : TRUE

BuildConfig(codec, m, backend) ==
  [codec |-> codec, w |-> m.w, h |-> m.h, fps |-> m.fps, target |-> m.target, backend |-> backend,
   max |-> MaxRate(codec, m), min |-> 600,
   start |-> AtMost(AtMost(PolicyStart(codec, m), MaxRate(codec, m)), 6000)]

ProvisionalConfig(m) == BuildConfig("H265", ClampMode(m), "pending")
DefaultConfig(codec) ==
  BuildConfig(codec, [w |-> DefaultWidth, h |-> DefaultHeight, fps |-> DefaultRate,
                      cap |-> {}, target |-> "desktop"], "hardware")

(* The codec: what the browser lists and, if it gave hints, can decode.     *)
Usable_WhenListed(said) == said.listed
Usable(said) == {c \in said.listed : said.hinted => c \in said.decodes}
Chosen(said) == IF "H265" \in Usable(said) THEN "H265" ELSE "H264"

(* The asked cap survives in a provisional configuration only.              *)
AskedCap_Lost(base) == {}
AskedCap(base) == IF base.backend = "pending" THEN {base.max} ELSE {}

SettledConfig(codec, base) ==
  BuildConfig(codec, [w |-> base.w, h |-> base.h, fps |-> base.fps, cap |-> AskedCap(base),
                      target |-> base.target], "hardware")

ChooseConfig(said) ==
  LET codec == Chosen(said)
  IN SettledConfig(codec, IF config = {} THEN DefaultConfig(codec) ELSE CHOOSE c \in config : TRUE)

(* The bounds the bitrate controller is made with.                          *)
CeilingOf(c) == AtLeast(c.max, c.start)
ClampIsDefined(c) == 500 <= CeilingOf(c)

------------------------------------------------------------------------------
NegotiationInit == link = "none" /\ config = {} /\ asked = {} /\ offer = {} /\ starts = {}
                   /\ stray = FALSE /\ crossed = FALSE

(* A session that ends under its link, or that a claim replaces, may leave  *)
(* that link in the middle of a message.                                    *)
MayStray == stray' = stray \/ (link # "none" /\ stray' = TRUE)

(* A claim puts a new PlayerSession in the slot, an older link's or not.    *)
Claim ==
  /\ link' \in {"player", "preview"} /\ config' = {} /\ asked' = {} /\ offer' = {}
  /\ crossed' = FALSE /\ MayStray /\ UNCHANGED starts

Ends == link' = "none" /\ config' = {} /\ asked' = {} /\ offer' = {} /\ crossed' = FALSE

LinkEnds == link # "none" /\ Ends /\ MayStray /\ UNCHANGED starts

Admitted(m) == IF link = "preview" THEN PreviewMode(m) ELSE m

Hello(m) ==
  /\ link # "none"
  /\ config' = {ProvisionalConfig(Admitted(m))} /\ asked' = {m} /\ offer' = {}
  /\ crossed' = FALSE /\ UNCHANGED <<link, starts, stray>>

NoCommonCodec(said) ==
  link # "none" /\ Usable(said) = {} /\ Ends /\ UNCHANGED <<starts, stray>>

(* A library game is started before anything can fail.                      *)
StartsGame(said) ==
  starts' = IF ChooseConfig(said).target = "game" /\ ~crossed THEN starts \cup {link} ELSE starts

Capabilities(said) ==
  /\ link # "none" /\ Usable(said) # {} /\ StartsGame(said)
  /\ config' = {ChooseConfig(said)} /\ asked' = {} /\ UNCHANGED <<link, stray, crossed>>
  /\ offer' = {[said |-> said, ask |-> asked, config |-> ChooseConfig(said)]}

(* The capture check or the pipeline fails, or the pipeline panics.         *)
StartFails(said) ==
  link # "none" /\ Usable(said) # {} /\ StartsGame(said) /\ Ends /\ UNCHANGED stray

Modes ==
  [w : Widths, h : Heights, fps : Rates, cap : Optional(Caps), target : {"desktop", "game"}]

(* What a link that lost the session may have settled from: what its own    *)
(* messages left, once settled or not, nothing, or its successor's.         *)
Foreign ==
  {ProvisionalConfig(m) : m \in Modes} \cup {ProvisionalConfig(PreviewMode(m)) : m \in Modes}
Bases(codec) ==
  config \cup {DefaultConfig(codec)} \cup Foreign \cup {SettledConfig(codec, c) : c \in Foreign}

(* The message of such a link reaches the successor's session: its hello    *)
(* replaces the mode, its capabilities the configuration (session_config    *)
(* goes to its own client), and a failure ends the session.                 *)
Late ==
  /\ stray /\ link # "none" /\ stray' = FALSE /\ UNCHANGED starts
  /\ \/ /\ \/ \E c \in Foreign : config' = {c}
           \/ \E codec \in Codecs : \E c \in Bases(codec) : config' = {SettledConfig(codec, c)}
        /\ asked' = {} /\ offer' = {} /\ crossed' = TRUE /\ UNCHANGED link
     \/ Ends

NegotiationNext ==
  \/ Claim \/ LinkEnds \/ Late
  \/ \E m \in Modes : Hello(m)
  \/ \E said \in Said : Capabilities(said) \/ NoCommonCodec(said) \/ StartFails(said)

NegotiationSpec == NegotiationInit /\ [][NegotiationNext]_offerVars

------------------------------------------------------------------------------
NegotiationTypeOK ==
  /\ link \in {"none", "player", "preview"} /\ asked \subseteq Mode
  /\ starts \subseteq {"player", "preview"} /\ stray \in BOOLEAN /\ crossed \in BOOLEAN

(* What the client is offered it can receive and, as far as it said, decode.*)
(* If the size is one clamp_mode lets through, whatever was asked for and   *)
(* whichever message came first, the rates are in order, the start is       *)
(* modest, and the controller's floor                                       *)
(* (session.min_bitrate_kbps.clamp(500, ceiling)) does not panic.  The one  *)
(* size it does not let through is an operator's default, used unclamped    *)
(* when capabilities precede any hello: 320x180 at 30 fps makes that clamp  *)
(* panic.                                                                   *)
Sized(c) == 640 <= c.w /\ c.w <= 3840 /\ 360 <= c.h /\ c.h <= 2160

OfferFits ==
  \A o \in offer :
    /\ o.config.codec \in o.said.listed
    /\ o.said.hinted => o.config.codec \in o.said.decodes
    /\ Sized(o.config) =>
         /\ o.config.min <= o.config.start /\ o.config.start <= o.config.max
         /\ o.config.start <= 6000 /\ ClampIsDefined(o.config)
    /\ ~Sized(o.config) => o.config.w = DefaultWidth /\ o.config.h = DefaultHeight

(* The first offer after a hello serves what the hello asked for, unless a  *)
(* displaced link's message came in between: the size, the rate and the cap *)
(* as near as the host goes, the target, and for a preview a tile of the    *)
(* desktop as large as 960x540 allows, at 30 fps and 2500 kbps at most.  No *)
(* ask of a preview starts a game ("a preview must not launch a game",      *)
(* signal.rs:698); a preview whose configuration a displaced link replaced, *)
(* or that reads its successor's, may start one.                            *)
SizeKept(c, m) == c.w = Even(Within(m.w, 640, 3840)) /\ c.h = Even(Within(m.h, 360, 2160))

PlayerServed(c, m) ==
  /\ SizeKept(c, m) /\ c.fps = Within(m.fps, 15, 240) /\ c.target = m.target
  /\ \A k \in m.cap : c.max = Within(k, 2000, 120000)

PreviewServed(c, m) ==
  /\ c.w <= 960 /\ c.h <= 540
  /\ IF m.w <= 960 /\ m.h <= 540 THEN SizeKept(c, m) ELSE c.w >= 958 \/ c.h >= 538
  /\ c.fps = Within(AtMost(m.fps, 30), 15, 240) /\ c.target = "desktop"
  /\ c.max <= 2500 /\ \A k \in m.cap : c.max = Within(AtMost(k, 2500), 2000, 120000)

AskIsKept ==
  /\ \A o \in offer : \A m \in o.ask :
       IF link = "preview" THEN PreviewServed(o.config, m) ELSE PlayerServed(o.config, m)
  /\ "preview" \notin starts
==============================================================================
