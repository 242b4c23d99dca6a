------------------------------- MODULE WtProofs -------------------------------
(***************************************************************************)
(* The safety of the WebTransport sessions, for every set of connections   *)
(* and every bound: a dial token lets one connection in, no teardown takes *)
(* the slot from a newer session, and whoever is reached by a pushed       *)
(* config has been told of every one before it.                            *)
(***************************************************************************)
EXTENDS WtSession, FiniteSetTheorems, WellFoundedInduction, TLAPS

Labels == {"idle", "done", "serve"} \cup Handshake \cup Installing \cup Cleaning

\* What the three properties need to know of the types.
TokensTyped ==
  /\ minted \in 0..MaxTokens /\ tokens \subseteq 1..minted
  /\ Cardinality(tokens) <= MaxLiveTokens
  /\ token \in [Conns -> 0..minted]

TasksTyped ==
  /\ pc \in [Conns -> Labels] /\ open \subseteq Conns
  /\ active \in MaybeConn /\ live \in MaybeConn /\ controlOut \in MaybeConn
  /\ old \in [Conns -> MaybeConn]
  /\ taker \in MaybeConn /\ released \subseteq Conns

ConfigTyped == config \in 0..MaxEpoch /\ told \in [Conns -> 0..config]

RestTyped ==
  /\ events \in Seq(Event) /\ dropPc \in {"idle", "close"} /\ drops \in 0..MaxDrops

\* A token is gone from the store once a connection was admitted with it,
\* and no other connection was: also while that one waits for the slot, and
\* while it tears itself down.
Admitted(c) == pc[c] \in {"take", "serve"} \cup Installing \cup Cleaning

TokensSpent ==
  /\ \A c \in Conns : Admitted(c) => token[c] \notin tokens
  /\ \A c, d \in Conns : c # d /\ Admitted(c) /\ Admitted(d) => token[c] # token[d]

WtInv ==
  /\ TokensTyped /\ TasksTyped /\ ConfigTyped /\ RestTyped
  /\ TokensSpent /\ NewestKeepsSlot /\ ConfigNotMissed

LEMMA WtInit == Init => WtInv
<1> SUFFICES ASSUME Init PROVE WtInv
  OBVIOUS
<1>1. TokensTyped
  BY WtBoundsAreNat, FS_EmptySet DEF Init, TokensTyped
<1>2. TasksTyped /\ ConfigTyped /\ RestTyped
  BY WtBoundsAreNat DEF Init, TasksTyped, ConfigTyped, RestTyped, Labels, MaybeConn
<1>3. TokensSpent
  BY DEF Init, TokensSpent, Admitted, Installing, Cleaning
<1>4. NewestKeepsSlot /\ ConfigNotMissed
  BY DEF Init, NewestKeepsSlot, ConfigNotMissed
<1>5. QED
  BY <1>1, <1>2, <1>3, <1>4 DEF WtInv

-----------------------------------------------------------------------------
(* Tokens *)

\* What is left after the oldest made room, or expired, is part of the
\* store, and one smaller if the store was full.
LEMMA TokensAreFinite ==
  ASSUME TokensTyped
  PROVE  IsFiniteSet(tokens)
<1>1. IsFiniteSet(1..minted)
  BY FS_Interval DEF TokensTyped
<1>2. QED
  BY <1>1, FS_Subset DEF TokensTyped

\* A finite set of numbers has a least one: of its parts {u \in S : u <= t},
\* one includes no other.
LEMMA LeastNumber ==
  ASSUME NEW S, S \subseteq Nat, IsFiniteSet(S), S # {}
  PROVE  \E t \in S : \A u \in S : t <= u
<1> DEFINE Upto(t) == {u \in S : u <= t}
           Parts == {Upto(t) : t \in S}
           Less == StrictSubsetOrdering(S)
<1>1. IsWellFoundedOn(Less, SUBSET S)
  BY FS_StrictSubsetOrderingWellFounded, FS_FiniteSubsetsOfFinite
<1>2. Parts \subseteq SUBSET S /\ Parts # {}
  OBVIOUS
<1>3. \E x \in Parts : \A y \in Parts : <<y, x>> \notin Less
  <2> HIDE DEF Parts, Less
  <2>1. QED
    BY <1>1, <1>2, WFMin
<1>4. PICK t \in S : \A u \in S : <<Upto(u), Upto(t)>> \notin Less
  BY <1>3
<1>5. ASSUME NEW u \in S, ~(t <= u) PROVE FALSE
  <2>1. u < t /\ t \in Upto(t) /\ t \notin Upto(u)
    BY <1>5
  <2>2. \A v \in S : v <= u => v <= t
    BY <2>1
  <2>3. <<Upto(u), Upto(t)>> \in Less
    <3>1. Upto(u) \subseteq Upto(t) /\ Upto(u) # Upto(t)
      BY <2>1, <2>2
    <3>2. QED
      BY <3>1, Zenon DEF StrictSubsetOrdering
  <2>4. QED
    BY <1>4, <2>3
<1>6. QED
  BY <1>5

LEMMA OldestIsAToken ==
  ASSUME TokensTyped, tokens # {}
  PROVE  Oldest \in tokens
<1>1. tokens \subseteq Nat
  BY DEF TokensTyped
<1>2. \E t \in tokens : \A u \in tokens : t <= u
  BY <1>1, TokensAreFinite, LeastNumber
<1>3. QED
  BY <1>2 DEF Oldest

LEMMA IssueKeepsTokens ==
  ASSUME TokensTyped, Issue
  PROVE  TokensTyped' /\ tokens' \subseteq tokens \cup {minted + 1}
<1>1. IsFiniteSet(tokens) /\ Cardinality(tokens) \in Nat
  BY TokensAreFinite, FS_CardinalityType
<1>2. /\ IsFiniteSet(Kept) /\ Kept \subseteq tokens
      /\ Cardinality(Kept) \in Nat /\ Cardinality(Kept) < MaxLiveTokens
  <2>1. CASE Cardinality(tokens) >= MaxLiveTokens
    <3>1. tokens # {}
      BY <2>1, WtBoundsAreNat, FS_EmptySet
    <3>2. Oldest \in tokens
      BY <3>1, OldestIsAToken
    <3>3. /\ IsFiniteSet(tokens \ {Oldest})
          /\ Cardinality(tokens \ {Oldest}) = Cardinality(tokens) - 1
      BY <1>1, <3>2, FS_RemoveElement
    <3>4. Cardinality(tokens) = MaxLiveTokens
      BY <1>1, <2>1, WtBoundsAreNat DEF TokensTyped
    <3>5. QED
      BY <1>1, <2>1, <3>3, <3>4, WtBoundsAreNat DEF Kept
  <2>2. CASE ~(Cardinality(tokens) >= MaxLiveTokens)
    BY <1>1, <2>2, WtBoundsAreNat DEF Kept
  <2>3. QED
    BY <2>1, <2>2
<1>3. Cardinality(Kept \cup {minted + 1}) <= MaxLiveTokens
  BY <1>2, FS_AddElement, WtBoundsAreNat
<1>4. minted' \in 0..MaxTokens /\ tokens' \subseteq 1..minted'
  BY <1>2, WtBoundsAreNat DEF Issue, TokensTyped
<1>5. token' \in [Conns -> 0..minted']
  BY WtBoundsAreNat DEF Issue, TokensTyped
<1>6. tokens' = Kept \cup {minted + 1}
  BY DEF Issue
<1>7. Cardinality(tokens)' = Cardinality(Kept \cup {minted + 1})
  BY <1>6
<1>8. QED
  BY <1>2, <1>3, <1>4, <1>5, <1>6, <1>7 DEF TokensTyped

\* Removing a token keeps the store within its bound.
LEMMA FewerTokens ==
  ASSUME TokensTyped, NEW t, tokens' = tokens \ {t}, UNCHANGED minted,
         token' \in [Conns -> 0..minted]
  PROVE  TokensTyped'
<1>1. IsFiniteSet(tokens) /\ IsFiniteSet(tokens \ {t})
  BY TokensAreFinite, FS_RemoveElement
<1>2. Cardinality(tokens) \in Nat /\ Cardinality(tokens \ {t}) \in Nat
  BY <1>1, FS_CardinalityType
<1>3. Cardinality(tokens \ {t}) <= Cardinality(tokens)
  BY <1>1, <1>2, FS_RemoveElement
<1>4. Cardinality(tokens)' = Cardinality(tokens \ {t})
  OBVIOUS
<1>5. Cardinality(tokens)' <= MaxLiveTokens
  BY <1>2, <1>3, <1>4, WtBoundsAreNat DEF TokensTyped
<1>6. QED
  BY <1>5 DEF TokensTyped

\* A step that admits nobody and leaves the store alone disturbs neither.
LEMMA OthersKeepTokens ==
  ASSUME WtInv, UNCHANGED <<tokens, minted, token>>,
         \A c \in Conns : Admitted(c)' => Admitted(c)
  PROVE  TokensTyped' /\ TokensSpent'
<1>1. TokensTyped'
  BY DEF WtInv, TokensTyped
<1>2. TokensSpent'
  BY DEF WtInv, TokensSpent
<1>3. QED
  BY <1>1, <1>2

LEMMA NextKeepsTokens ==
  ASSUME WtInv, Next
  PROVE  TokensTyped' /\ TokensSpent'
<1>1. TokensTyped /\ TokensSpent /\ TasksTyped
  BY DEF WtInv
<1>2. CASE Issue
  <2>1. TokensTyped' /\ tokens' \subseteq tokens \cup {minted + 1}
    BY <1>1, <1>2, IssueKeepsTokens
  <2>2. UNCHANGED <<token, pc>>
    BY <1>2 DEF Issue, sessionVars
  <2>3. \A c \in Conns : token[c] # minted + 1
    BY <1>1 DEF TokensTyped
  <2>4. TokensSpent'
    BY <1>1, <2>1, <2>2, <2>3 DEF TokensSpent, Admitted
  <2>5. QED
    BY <2>1, <2>4
<1>3. CASE Expire
  <2>1. tokens' = tokens \ {Oldest} /\ UNCHANGED <<minted, token, pc>>
    BY <1>3 DEF Expire, sessionVars
  <2>2. TokensTyped'
    BY <1>1, <2>1, FewerTokens DEF TokensTyped
  <2>3. TokensSpent'
    BY <1>1, <2>1 DEF TokensSpent, Admitted
  <2>4. QED
    BY <2>2, <2>3
<1>4. ASSUME NEW c \in Conns, NEW t \in 1..MaxTokens, Dial(c, t)
      PROVE  TokensTyped' /\ TokensSpent'
  <2>1. /\ UNCHANGED <<tokens, minted>> /\ t \in 1..minted
        /\ token' = [token EXCEPT ![c] = t] /\ pc' = [pc EXCEPT ![c] = "auth"]
    BY <1>4 DEF Dial, Goto
  <2>2. TokensTyped'
    BY <1>1, <2>1 DEF TokensTyped
  <2>3. \A d \in Conns : Admitted(d)' => d # c /\ Admitted(d) /\ token'[d] = token[d]
    BY <1>1, <2>1 DEF TokensTyped, TasksTyped, Admitted, Installing, Cleaning
  <2>4. TokensSpent'
    BY <1>1, <2>1, <2>3 DEF TokensSpent
  <2>5. QED
    BY <2>2, <2>4
<1>5. ASSUME NEW c \in Conns, Admit(c)
      PROVE  TokensTyped' /\ TokensSpent'
  <2>1. /\ token[c] \in tokens /\ tokens' = tokens \ {token[c]}
        /\ UNCHANGED <<minted, token>> /\ pc' = [pc EXCEPT ![c] = "take"]
    BY <1>5 DEF Admit, Consumable, Consume, Goto
  <2>2. TokensTyped'
    BY <1>1, <2>1, FewerTokens DEF TokensTyped
  <2>3. \A d \in Conns : Admitted(d)' => d = c \/ Admitted(d)
    BY <1>1, <2>1 DEF TasksTyped, Admitted
  <2>4. TokensSpent'
    BY <1>1, <2>1, <2>3 DEF TokensSpent
  <2>5. QED
    BY <2>2, <2>4
<1>6. ASSUME NEW c \in Conns,
             \/ Refuse(c) \/ TakeSlot(c) \/ Announce(c) \/ InstallControl(c) \/ SendConfig(c)
             \/ Publish(c) \/ CleanupCheck(c) \/ ClearLive(c) \/ ClearControl(c)
      PROVE  TokensTyped' /\ TokensSpent'
  <2>1. UNCHANGED <<tokens, minted, token>>
    BY <1>6 DEF Refuse, TakeSlot, Announce, InstallControl, SendConfig, Publish, CleanupCheck,
                ClearLive, ClearControl
  <2>2. \A d \in Conns : Admitted(d)' => Admitted(d)
    BY <1>1, <1>6 DEF Refuse, TakeSlot, Announce, InstallControl, SendConfig, Publish,
                      CleanupCheck, ClearLive, ClearControl, Goto, TasksTyped, Admitted,
                      Installing, Cleaning
  <2>3. QED
    BY <2>1, <2>2, OthersKeepTokens
<1>7. ASSUME NEW c \in Conns, InputDatagram(c) \/ InputStream(c) \/ ConnEnds(c)
      PROVE  TokensTyped' /\ TokensSpent'
  <2>1. UNCHANGED <<tokens, minted, token, pc>>
    BY <1>7 DEF InputDatagram, InputStream, ConnEnds, sessionVars
  <2>2. QED
    BY <2>1, OthersKeepTokens DEF Admitted
<1>8. CASE DescribeConfig \/ DropTake \/ DropClose \/ PumpEvent
  <2>1. UNCHANGED <<tokens, minted, token, pc>>
    BY <1>8 DEF DescribeConfig, DropTake, DropClose, PumpEvent, sessionVars
  <2>2. QED
    BY <2>1, OthersKeepTokens DEF Admitted
<1>9. QED
  BY <1>2, <1>3, <1>4, <1>5, <1>6, <1>7, <1>8 DEF Next, HostStep, HandlerStep, ClientStep

-----------------------------------------------------------------------------
(* The slot *)

LEMMA NextKeepsTasks ==
  ASSUME WtInv, Next
  PROVE  TasksTyped'
<1>1. TasksTyped
  BY DEF WtInv
<1>2. CASE HostStep
  BY <1>1, <1>2 DEF HostStep, Issue, Expire, DescribeConfig, DropTake, DropClose, PumpEvent,
                    sessionVars, historyVars, TasksTyped, MaybeConn
<1>3. ASSUME NEW c \in Conns, HandlerStep(c)
      PROVE  TasksTyped'
  <2>1. CASE Admit(c) \/ Refuse(c)
    BY <1>1, <2>1 DEF Admit, Refuse, Goto, historyVars, TasksTyped, Labels, Handshake
  <2>2. CASE TakeSlot(c)
    BY <1>1, <2>2 DEF TakeSlot, Displaced, Goto, TasksTyped, Labels, Installing, MaybeConn
  <2>3. CASE Announce(c) \/ InstallControl(c)
    BY <1>1, <2>3 DEF Announce, InstallControl, Goto, historyVars, TasksTyped, Labels,
                      Installing, MaybeConn
  <2>4. CASE SendConfig(c) \/ Publish(c)
    BY <1>1, <2>4 DEF SendConfig, Publish, Goto, historyVars, TasksTyped, Labels,
                      Installing, MaybeConn
  <2>5. CASE CleanupCheck(c)
    BY <1>1, <2>5 DEF CleanupCheck, StillOurs, Goto, TasksTyped, Labels, Cleaning, MaybeConn
  <2>6. CASE ClearLive(c) \/ ClearControl(c)
    BY <1>1, <2>6 DEF ClearLive, ClearControl, Goto, historyVars, TasksTyped, Labels,
                      Cleaning, MaybeConn
  <2>7. QED
    BY <1>3, <2>1, <2>2, <2>3, <2>4, <2>5, <2>6 DEF HandlerStep
<1>4. ASSUME NEW c \in Conns, ClientStep(c)
      PROVE  TasksTyped'
  <2>1. ASSUME NEW t \in 1..MaxTokens, Dial(c, t)
        PROVE  TasksTyped'
    BY <1>1, <2>1 DEF Dial, Goto, historyVars, TasksTyped, Labels, Handshake
  <2>2. CASE InputDatagram(c) \/ InputStream(c) \/ ConnEnds(c)
    BY <1>1, <2>2 DEF InputDatagram, InputStream, ConnEnds, sessionVars, historyVars, TasksTyped
  <2>3. QED
    BY <1>4, <2>1, <2>2 DEF ClientStep
<1>5. QED
  BY <1>2, <1>3, <1>4 DEF Next

LEMMA NextKeepsRest ==
  ASSUME WtInv, Next
  PROVE  RestTyped'
<1> USE DEF WtInv, RestTyped
<1>1. ASSUME NEW c \in Conns, NEW kind \in {"Connected", "Disconnected", "Input"}, Emit(kind, c)
      PROVE  events' \in Seq(Event)
  <2>1. [kind |-> kind, from |-> c] \in Event
    BY DEF Event
  <2>2. QED
    BY <1>1, <2>1 DEF Emit
<1>2. CASE HostStep
  <2>1. CASE PumpEvent
    BY <2>1 DEF PumpEvent
  <2>2. CASE DropTake
    BY <2>2, WtBoundsAreNat DEF DropTake
  <2>3. CASE Issue \/ Expire \/ DescribeConfig \/ DropClose
    BY <2>3 DEF Issue, Expire, DescribeConfig, DropClose
  <2>4. QED
    BY <1>2, <2>1, <2>2, <2>3 DEF HostStep
<1>3. ASSUME NEW c \in Conns, HandlerStep(c)
      PROVE  RestTyped'
  BY <1>1, <1>3 DEF HandlerStep, Admit, Refuse, TakeSlot, Announce, InstallControl, SendConfig,
                    Publish, CleanupCheck, ClearLive, ClearControl
<1>4. ASSUME NEW c \in Conns, ClientStep(c)
      PROVE  RestTyped'
  BY <1>1, <1>4 DEF ClientStep, Dial, InputDatagram, InputStream, ConnEnds
<1>5. QED
  BY <1>2, <1>3, <1>4 DEF Next

\* Four regions move the slot.  Only a new session takes it from another.
LEMMA NextKeepsSlot ==
  ASSUME WtInv, Next
  PROVE  NewestKeepsSlot'
<1>1. NewestKeepsSlot /\ TasksTyped
  BY DEF WtInv
<1>2. ASSUME NEW c \in Conns, TakeSlot(c)
      PROVE  NewestKeepsSlot'
  BY <1>2 DEF TakeSlot, NewestKeepsSlot
<1>3. ASSUME NEW c \in Conns, CleanupCheck(c)
      PROVE  NewestKeepsSlot'
  <2>1. CASE active = c
    BY <1>1, <1>3, <2>1 DEF CleanupCheck, StillOurs, NewestKeepsSlot, TasksTyped, MaybeConn
  <2>2. CASE active # c
    BY <1>1, <1>3, <2>2 DEF CleanupCheck, StillOurs, NewestKeepsSlot
  <2>3. QED
    BY <2>1, <2>2
<1>4. CASE DropTake
  BY <1>1, <1>4 DEF DropTake, NewestKeepsSlot, TasksTyped, MaybeConn
<1>5. ASSUME UNCHANGED <<active, taker, released>>
      PROVE  NewestKeepsSlot'
  BY <1>1, <1>5 DEF NewestKeepsSlot
<1>6. CASE Issue \/ Expire \/ DescribeConfig \/ DropClose \/ PumpEvent
  BY <1>5, <1>6 DEF Issue, Expire, DescribeConfig, DropClose, PumpEvent, sessionVars, historyVars
<1>7. ASSUME NEW c \in Conns,
             \/ Admit(c) \/ Refuse(c) \/ Announce(c) \/ InstallControl(c) \/ SendConfig(c)
             \/ Publish(c) \/ ClearLive(c) \/ ClearControl(c)
      PROVE  NewestKeepsSlot'
  BY <1>5, <1>7 DEF Admit, Refuse, Announce, InstallControl, SendConfig, Publish, ClearLive,
                    ClearControl, historyVars
<1>8. ASSUME NEW c \in Conns, ClientStep(c)
      PROVE  NewestKeepsSlot'
  BY <1>5, <1>8 DEF ClientStep, Dial, InputDatagram, InputStream, ConnEnds, sessionVars, historyVars
<1>9. QED
  BY <1>2, <1>3, <1>4, <1>6, <1>7, <1>8 DEF Next, HostStep, HandlerStep

-----------------------------------------------------------------------------
(* The described config *)

LEMMA NextKeepsConfig ==
  ASSUME WtInv, Next
  PROVE  ConfigTyped' /\ ConfigNotMissed'
<1>1. ConfigTyped /\ ConfigNotMissed /\ TasksTyped
  BY DEF WtInv
<1>2. CASE DescribeConfig
  <2>1. /\ config' = config + 1 /\ config' \in 0..MaxEpoch /\ UNCHANGED <<controlOut, pc>>
        /\ told' = [d \in Conns |-> IF d = controlOut THEN config + 1 ELSE told[d]]
    BY <1>1, <1>2, WtBoundsAreNat DEF DescribeConfig, Pushed, sessionVars, ConfigTyped
  <2>2. ConfigTyped'
    BY <1>1, <2>1, WtBoundsAreNat DEF ConfigTyped
  <2>3. ConfigNotMissed'
    BY <1>1, <2>1 DEF ConfigNotMissed, TasksTyped, MaybeConn
  <2>4. QED
    BY <2>2, <2>3
<1>3. ASSUME NEW c \in Conns, SendConfig(c)
      PROVE  ConfigTyped' /\ ConfigNotMissed'
  <2>1. told'[c] = config /\ \A d \in Conns : d # c => told'[d] = told[d] /\ pc'[d] = pc[d]
    BY <1>1, <1>3 DEF SendConfig, Goto, ConfigTyped, TasksTyped
  <2>2. UNCHANGED <<config, controlOut>> /\ told' \in [Conns -> 0..config]
    BY <1>1, <1>3, WtBoundsAreNat DEF SendConfig, ConfigTyped
  <2>3. ConfigNotMissed'
    BY <1>1, <2>1, <2>2 DEF ConfigNotMissed, TasksTyped, MaybeConn
  <2>4. QED
    BY <1>1, <2>2, <2>3 DEF ConfigTyped
<1>4. ASSUME NEW c \in Conns, InstallControl(c)
      PROVE  ConfigTyped' /\ ConfigNotMissed'
  BY <1>1, <1>4 DEF InstallControl, Goto, ConfigTyped, ConfigNotMissed, TasksTyped
<1>5. ASSUME NEW c \in Conns, Publish(c)
      PROVE  ConfigTyped' /\ ConfigNotMissed'
  BY <1>1, <1>5 DEF Publish, Goto, ConfigTyped, ConfigNotMissed, TasksTyped
\* The other steps leave the config alone and bring nobody to a serving label.
<1>6. ASSUME UNCHANGED <<config, told>>, controlOut' \in {controlOut, NoConn},
             \A d \in Conns : pc'[d] \in {"publish", "serve"} => pc'[d] = pc[d]
      PROVE  ConfigTyped' /\ ConfigNotMissed'
  BY <1>1, <1>6 DEF ConfigTyped, ConfigNotMissed, TasksTyped, MaybeConn
<1>7. CASE Issue \/ Expire \/ DropTake \/ DropClose \/ PumpEvent
  BY <1>6, <1>7 DEF Issue, Expire, DropTake, DropClose, PumpEvent, sessionVars
<1>8. ASSUME NEW c \in Conns,
             \/ Admit(c) \/ Refuse(c) \/ TakeSlot(c) \/ Announce(c)
             \/ CleanupCheck(c) \/ ClearLive(c) \/ ClearControl(c)
      PROVE  ConfigTyped' /\ ConfigNotMissed'
  <2>1. UNCHANGED <<config, told>> /\ controlOut' \in {controlOut, NoConn}
    BY <1>8 DEF Admit, Refuse, TakeSlot, Announce, CleanupCheck, ClearLive, ClearControl
  <2>2. \A d \in Conns : pc'[d] \in {"publish", "serve"} => pc'[d] = pc[d]
    BY <1>1, <1>8 DEF Admit, Refuse, TakeSlot, Announce, CleanupCheck, ClearLive, ClearControl,
                      Goto, TasksTyped
  <2>3. QED
    BY <1>6, <2>1, <2>2
<1>9. ASSUME NEW c \in Conns, ClientStep(c)
      PROVE  ConfigTyped' /\ ConfigNotMissed'
  <2>1. UNCHANGED <<config, told, controlOut>>
    BY <1>9 DEF ClientStep, Dial, InputDatagram, InputStream, ConnEnds, sessionVars
  <2>2. \A d \in Conns : pc'[d] \in {"publish", "serve"} => pc'[d] = pc[d]
    BY <1>1, <1>9 DEF ClientStep, Dial, InputDatagram, InputStream, ConnEnds, sessionVars,
                      Goto, TasksTyped
  <2>3. QED
    BY <1>6, <2>1, <2>2
<1>10. QED
  BY <1>2, <1>3, <1>4, <1>5, <1>7, <1>8, <1>9 DEF Next, HostStep, HandlerStep

-----------------------------------------------------------------------------
(* The results *)

LEMMA WtNext == WtInv /\ [Next]_vars => WtInv'
<1> SUFFICES ASSUME WtInv, [Next]_vars PROVE WtInv'
  OBVIOUS
<1>1. CASE Next
  BY <1>1, NextKeepsTokens, NextKeepsTasks, NextKeepsRest, NextKeepsSlot, NextKeepsConfig DEF WtInv
<1>2. CASE UNCHANGED vars
  <2>1. TokensTyped' /\ TasksTyped' /\ ConfigTyped' /\ RestTyped'
    BY <1>2 DEF vars, sessionVars, historyVars, WtInv, TokensTyped, TasksTyped, ConfigTyped, RestTyped
  <2>2. TokensSpent' /\ NewestKeepsSlot' /\ ConfigNotMissed'
    BY <1>2 DEF vars, sessionVars, historyVars, WtInv, TokensSpent, Admitted, NewestKeepsSlot,
                ConfigNotMissed
  <2>3. QED
    BY <2>1, <2>2 DEF WtInv
<1>3. QED
  BY <1>1, <1>2

LEMMA WtIsSafe == Spec => []WtInv
  BY WtInit, WtNext, PTL DEF Spec

\* Every variable of the WebTransport sessions keeps its type, the bound on
\* live tokens (TokenStore::issue) included.
THEOREM WtTypeCorrect == Spec => []TypeOK
<1>1. WtInv => TypeOK
  BY WtBoundsAreNat DEF WtInv, TokensTyped, TasksTyped, ConfigTyped, RestTyped, TypeOK, Labels
<1>2. QED
  BY <1>1, WtIsSafe, PTL

\* A token lets one connection in (TokenStore::consume), for any number of
\* connections that dial with it and any order of their handshakes.
THEOREM OneConnectionPerToken == Spec => []TokenLetsInOne
<1>1. WtInv => TokenLetsInOne
  BY DEF WtInv, TokensSpent, Admitted, TokenLetsInOne, LetIn
<1>2. QED
  BY <1>1, WtIsSafe, PTL

\* The newest session keeps the slot until it ends, is cut or is displaced
\* (the ownership test in the teardown of session.rs).
THEOREM NewestSessionKeepsSlot == Spec => []NewestKeepsSlot
<1>1. WtInv => NewestKeepsSlot
  BY DEF WtInv
<1>2. QED
  BY <1>1, WtIsSafe, PTL

\* Whoever a pushed config reaches has been told of every one before it
\* (the writer is installed before the stored config is read).
THEOREM NoConfigIsMissed == Spec => []ConfigNotMissed
<1>1. WtInv => ConfigNotMissed
  BY DEF WtInv
<1>2. QED
  BY <1>1, WtIsSafe, PTL

-----------------------------------------------------------------------------
(* What the endpoint's slot promises is what the session slot promises       *)
(* (PlayerSlot): one holder, that takes it once and only moves forward.  A   *)
(* session is armed when it was announced to the event pump, playing when    *)
(* the frame sender may follow it.                                           *)

SlotHolders == released \cup ({active} \ {NoConn})

SlotPhase ==
  IF active = NoConn THEN "Idle"
  ELSE IF pc[active] \in {"announce", "control"} THEN "Paired"
  ELSE IF pc[active] = "serve" THEN "Playing" ELSE "Negotiating"

SlotArmed == active # NoConn /\ pc[active] # "announce"

Promise == INSTANCE PlayerSlot WITH
  Links <- Conns, PreviewLinks <- {}, NoLink <- NoConn,
  holder <- active, phase <- SlotPhase, armed <- SlotArmed, retired <- SlotHolders

\* The holder is past the region where it took the slot and not yet in its
\* teardown; whoever has not come to that region never held it.
HolderServes ==
  /\ active # NoConn => pc[active] \in Installing \cup {"serve"}
  /\ \A c \in Conns : pc[c] \in {"idle"} \cup Handshake => c \notin SlotHolders

LEMMA HolderStarts == Init => HolderServes
  BY DEF Init, HolderServes, SlotHolders, Handshake

\* A step of a session that is not the holder's way through the slot's regions,
\* and a step of anybody else.
LEMMA HolderKept == WtInv /\ HolderServes /\ [Next]_vars => HolderServes'
<1> SUFFICES ASSUME WtInv, HolderServes, [Next]_vars PROVE HolderServes'
  OBVIOUS
<1>1. /\ TasksTyped /\ HolderServes
      /\ active # NoConn => active \in Conns /\ pc[active] \in Installing \cup {"serve"}
  BY DEF WtInv, TasksTyped, MaybeConn, HolderServes
<1>2. ASSUME UNCHANGED <<active, released, pc>>
      PROVE  HolderServes'
  BY <1>1, <1>2 DEF HolderServes, SlotHolders
<1>3. CASE Issue \/ Expire \/ DescribeConfig \/ DropClose \/ PumpEvent
  BY <1>2, <1>3 DEF Issue, Expire, DescribeConfig, DropClose, PumpEvent, sessionVars, historyVars
<1>4. CASE DropTake
  BY <1>1, <1>4 DEF DropTake, HolderServes, SlotHolders
<1>5. ASSUME NEW c \in Conns, Admit(c) \/ Refuse(c)
      PROVE  HolderServes'
  <2>1. /\ active' = active /\ released' = released /\ pc[c] = "auth"
        /\ \E label \in {"take", "done"} : pc' = [pc EXCEPT ![c] = label]
    BY <1>5 DEF Admit, Refuse, Goto, historyVars
  <2>2. active # c
    BY <1>1, <2>1, NoConnIsNoConn DEF Installing
  <2>3. QED
    BY <1>1, <2>1, <2>2 DEF HolderServes, SlotHolders, TasksTyped, Handshake
<1>6. ASSUME NEW c \in Conns, TakeSlot(c)
      PROVE  HolderServes'
  BY <1>1, <1>6 DEF TakeSlot, Goto, HolderServes, SlotHolders, TasksTyped, Handshake, Installing
<1>7. ASSUME NEW c \in Conns,
             \/ Announce(c) \/ InstallControl(c) \/ SendConfig(c) \/ Publish(c)
             \/ ClearLive(c) \/ ClearControl(c)
      PROVE  HolderServes'
  <2>1. active' = active /\ released' = released
    BY <1>7 DEF Announce, InstallControl, SendConfig, Publish, ClearLive, ClearControl, historyVars
  <2>2. \/ /\ pc[c] \in Installing
           /\ \E label \in Installing \cup {"serve"} : pc' = [pc EXCEPT ![c] = label]
        \/ /\ pc[c] \in Cleaning
           /\ \E label \in Cleaning \cup {"done"} : pc' = [pc EXCEPT ![c] = label]
    BY <1>7 DEF Announce, InstallControl, SendConfig, Publish, ClearLive, ClearControl, Goto,
                Installing, Cleaning
  <2>3. QED
    BY <1>1, <2>1, <2>2 DEF HolderServes, SlotHolders, TasksTyped, Handshake, Installing, Cleaning
<1>8. ASSUME NEW c \in Conns, CleanupCheck(c)
      PROVE  HolderServes'
  <2>1. CASE active = c
    BY <1>1, <1>8, <2>1 DEF CleanupCheck, StillOurs, Goto, HolderServes, SlotHolders, TasksTyped,
                            Handshake
  <2>2. CASE active # c
    BY <1>1, <1>8, <2>2 DEF CleanupCheck, StillOurs, Goto, HolderServes, SlotHolders, TasksTyped,
                            Handshake
  <2>3. QED
    BY <2>1, <2>2
<1>9. ASSUME NEW c \in Conns, NEW t, Dial(c, t)
      PROVE  HolderServes'
  <2>1. /\ active' = active /\ released' = released /\ pc[c] = "idle"
        /\ pc' = [pc EXCEPT ![c] = "auth"]
    BY <1>9 DEF Dial, Goto, historyVars
  <2>2. active # c
    BY <1>1, <2>1, NoConnIsNoConn DEF Installing
  <2>3. QED
    BY <1>1, <2>1, <2>2 DEF HolderServes, SlotHolders, TasksTyped, Handshake
<1>10. ASSUME NEW c \in Conns, InputDatagram(c) \/ InputStream(c) \/ ConnEnds(c)
       PROVE  HolderServes'
  BY <1>2, <1>10 DEF InputDatagram, InputStream, ConnEnds, sessionVars, historyVars
<1>11. CASE UNCHANGED vars
  BY <1>2, <1>11 DEF vars, sessionVars, historyVars
<1>12. QED
  BY <1>3, <1>4, <1>5, <1>6, <1>7, <1>8, <1>9, <1>10, <1>11
  DEF Next, HostStep, HandlerStep, ClientStep

\* A step of the slot's holder through its regions, seen from PlayerSlot.
LEMMA HolderMoves ==
  ASSUME WtInv, HolderServes, NEW c \in Conns, active = c, active' = active, released' = released,
         NEW from, NEW to, pc[c] = from, pc' = [pc EXCEPT ![c] = to],
         <<from, to>> \in {<<"announce", "control">>, <<"control", "config">>,
                           <<"config", "publish">>, <<"publish", "serve">>}
  PROVE  Promise!Arm \/ Promise!Advance \/ UNCHANGED Promise!vars
<1>1. /\ active # NoConn /\ SlotHolders' = SlotHolders /\ pc'[c] = to
  BY NoConnIsNoConn DEF WtInv, TasksTyped, SlotHolders
<1>2. CASE from = "announce"
  <2>1. SlotArmed' /\ ~SlotArmed /\ SlotPhase' = SlotPhase
    BY <1>1, <1>2 DEF SlotArmed, SlotPhase
  <2>2. Promise!Arm
    BY <1>1, <2>1 DEF Promise!Arm
  <2>3. QED
    BY <2>2
<1>3. CASE from \in {"control", "publish"}
  <2>1. SlotArmed' = SlotArmed
    BY <1>1, <1>3 DEF SlotArmed
  <2>2. \/ SlotPhase = "Paired" /\ SlotPhase' = "Negotiating"
        \/ SlotPhase = "Negotiating" /\ SlotPhase' = "Playing"
    BY <1>1, <1>3 DEF SlotPhase
  <2>3. Promise!Advance
    BY <1>1, <2>1, <2>2 DEF Promise!Advance
  <2>4. QED
    BY <2>3
<1>4. CASE from = "config"
  <2>1. SlotArmed' = SlotArmed /\ SlotPhase' = SlotPhase
    BY <1>1, <1>4 DEF SlotArmed, SlotPhase
  <2>2. QED
    BY <1>1, <2>1 DEF Promise!vars
<1>5. QED
  BY <1>2, <1>3, <1>4

\* What leaves the holder where it is leaves the slot as it is.
LEMMA SlotUntouched ==
  ASSUME active' = active, released' = released, active # NoConn => pc'[active] = pc[active]
  PROVE  UNCHANGED Promise!vars
<1>1. SlotHolders' = SlotHolders /\ SlotPhase' = SlotPhase /\ SlotArmed' = SlotArmed
  BY DEF SlotHolders, SlotPhase, SlotArmed
<1>2. QED
  BY <1>1 DEF Promise!vars

LEMMA SlotFreed ==
  ASSUME active # NoConn, active' = NoConn, released' = released \cup {active}
  PROVE  Promise!Release
<1>1. SlotHolders' = SlotHolders /\ SlotPhase' = "Idle" /\ SlotArmed' = FALSE
  BY DEF SlotHolders, SlotPhase, SlotArmed
<1>2. QED
  BY <1>1 DEF Promise!Release

LEMMA SlotTaken ==
  ASSUME WtInv, HolderServes, NEW c \in Conns, TakeSlot(c)
  PROVE  Promise!Take(c)
<1>1. /\ pc[c] = "take" /\ active' = c /\ pc' = [pc EXCEPT ![c] = "announce"]
      /\ released' = released \cup ({active} \ {NoConn}) /\ c # NoConn
      /\ pc'[c] = "announce"
  BY NoConnIsNoConn DEF WtInv, TasksTyped, TakeSlot, Goto
<1>2. c \notin SlotHolders /\ SlotHolders' = SlotHolders \cup {c}
  BY <1>1 DEF HolderServes, SlotHolders, Handshake
<1>3. SlotPhase' = "Paired" /\ SlotArmed' = FALSE
  BY <1>1 DEF SlotPhase, SlotArmed
<1>4. QED
  BY <1>1, <1>2, <1>3 DEF Promise!Take

LEMMA SlotSteps == WtInv /\ HolderServes /\ [Next]_vars => [Promise!Next]_(Promise!vars)
<1> SUFFICES ASSUME WtInv, HolderServes, [Next]_vars PROVE [Promise!Next]_(Promise!vars)
  OBVIOUS
<1>1. /\ TasksTyped
      /\ active # NoConn => active \in Conns /\ pc[active] \in Installing \cup {"serve"}
  BY DEF WtInv, TasksTyped, MaybeConn, HolderServes
<1>2. ASSUME UNCHANGED <<active, released, pc>>
      PROVE  UNCHANGED Promise!vars
  BY <1>2, SlotUntouched
<1>3. CASE Issue \/ Expire \/ DescribeConfig \/ DropClose \/ PumpEvent
  BY <1>2, <1>3 DEF Issue, Expire, DescribeConfig, DropClose, PumpEvent, sessionVars, historyVars
<1>4. CASE DropTake
  <2>1. CASE active = NoConn
    BY <1>4, <2>1, SlotUntouched DEF DropTake
  <2>2. CASE active # NoConn
    BY <1>4, <2>2, SlotFreed DEF DropTake, Promise!Next
  <2>3. QED
    BY <2>1, <2>2
<1>5. ASSUME NEW c \in Conns, Admit(c) \/ Refuse(c) \/ ClearLive(c) \/ ClearControl(c)
      PROVE  UNCHANGED Promise!vars
  <2>1. /\ active' = active /\ released' = released /\ pc[c] \in {"auth"} \cup Cleaning
        /\ \E label : pc' = [pc EXCEPT ![c] = label]
    BY <1>5 DEF Admit, Refuse, ClearLive, ClearControl, Goto, historyVars, Cleaning
  <2>2. active # NoConn => pc'[active] = pc[active]
    BY <1>1, <2>1 DEF TasksTyped, Installing, Cleaning
  <2>3. QED
    BY <2>1, <2>2, SlotUntouched
<1>6. ASSUME NEW c \in Conns, TakeSlot(c)
      PROVE  Promise!Next
  BY <1>6, SlotTaken DEF Promise!Next
<1>7. ASSUME NEW c \in Conns, Announce(c) \/ InstallControl(c) \/ SendConfig(c) \/ Publish(c)
      PROVE  [Promise!Next]_(Promise!vars)
  <2>1. /\ active' = active /\ released' = released
        /\ \E from, to : /\ pc[c] = from /\ pc' = [pc EXCEPT ![c] = to]
                         /\ <<from, to>> \in {<<"announce", "control">>, <<"control", "config">>,
                                              <<"config", "publish">>, <<"publish", "serve">>}
    BY <1>7 DEF Announce, InstallControl, SendConfig, Publish, Goto, historyVars
  <2>2. CASE active = c
    BY <2>1, <2>2, HolderMoves DEF Promise!Next
  <2>3. CASE active # c
    <3>1. active # NoConn => pc'[active] = pc[active]
      BY <1>1, <2>1, <2>3 DEF TasksTyped
    <3>2. QED
      BY <2>1, <3>1, SlotUntouched
  <2>4. QED
    BY <2>2, <2>3
<1>8. ASSUME NEW c \in Conns, CleanupCheck(c)
      PROVE  [Promise!Next]_(Promise!vars)
  <2>1. CASE active = c
    <3>1. active # NoConn /\ active' = NoConn /\ released' = released \cup {active}
      BY <1>8, <2>1, NoConnIsNoConn DEF CleanupCheck, StillOurs
    <3>2. QED
      BY <3>1, SlotFreed DEF Promise!Next
  <2>2. CASE active # c
    <3>1. active' = active /\ released' = released /\ pc' = [pc EXCEPT ![c] = "done"]
      BY <1>8, <2>2 DEF CleanupCheck, StillOurs, Goto
    <3>2. active # NoConn => pc'[active] = pc[active]
      BY <1>1, <2>2, <3>1 DEF TasksTyped
    <3>3. QED
      BY <3>1, <3>2, SlotUntouched
  <2>3. QED
    BY <2>1, <2>2
<1>9. ASSUME NEW c \in Conns, NEW t, Dial(c, t)
      PROVE  UNCHANGED Promise!vars
  <2>1. /\ active' = active /\ released' = released /\ pc[c] = "idle"
        /\ pc' = [pc EXCEPT ![c] = "auth"]
    BY <1>9 DEF Dial, Goto, historyVars
  <2>2. active # NoConn => pc'[active] = pc[active]
    BY <1>1, <2>1 DEF TasksTyped, Installing
  <2>3. QED
    BY <2>1, <2>2, SlotUntouched
<1>10. ASSUME NEW c \in Conns, InputDatagram(c) \/ InputStream(c) \/ ConnEnds(c)
       PROVE  UNCHANGED Promise!vars
  BY <1>2, <1>10 DEF InputDatagram, InputStream, ConnEnds, sessionVars, historyVars
<1>11. CASE UNCHANGED vars
  BY <1>2, <1>11 DEF vars, sessionVars, historyVars
<1>12. QED
  BY <1>3, <1>4, <1>5, <1>6, <1>7, <1>8, <1>9, <1>10, <1>11
  DEF Next, HostStep, HandlerStep, ClientStep

\* Shared::active, read together with how far its holder's own task has come,
\* keeps the promise of PlayerSlot for any number of connections and cuts: a
\* session takes the slot at most once, so one that was displaced or cut never
\* comes back; while it holds the slot its task goes from the take over the
\* Connected event and the control writer to the published connection and never
\* back; whoever frees `active` ends that turn (handle_incoming, drop_client).
\* Nothing is said of live_connection and control_out: after the first half of a
\* cut they still name the session that was cut, and its late clears may strip a
\* successor of what it installed.
THEOREM EndpointImplementsPlayerSlot == Spec => Promise!Spec
<1>1. Init => Promise!Init
  BY DEF Init, Promise!Init, SlotHolders, SlotPhase, SlotArmed
<1>2. QED
  BY <1>1, HolderStarts, HolderKept, SlotSteps, WtIsSafe, PTL DEF Spec, Promise!Spec
=============================================================================
