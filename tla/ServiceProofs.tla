---------------------------- MODULE ServiceProofs ----------------------------
(***************************************************************************)
(* The services of HostServices, each by an inductive invariant of its     *)
(* own; where they run beside each other, a step of one is none of the     *)
(* others.                                                                 *)
(***************************************************************************)
EXTENDS HostServices, WireProofs

-----------------------------------------------------------------------------
(* A step of one service is a step of no other. *)

LEMMA ServicesTakeTurns ==
  ServicesNext =>
    /\ [PortMapNext]_portVars /\ [HealthNext]_healthVars /\ [StartupNext]_bootVars
    /\ [CoverArtNext]_artVars /\ [NegotiationNext]_offerVars /\ [InputWireNext]_wireVars
    /\ [HostNamesNext]_nameVars
  BY DEF ServicesNext, Ports, Health, FilesOf, Covers, Offers, Wire, NamesOf

\* Each service, beside the others, keeps to its own specification.
THEOREM ServicesStayApart ==
  ServicesSpec =>
    /\ PortSpec /\ HealthSpec /\ StartupSpec /\ CoverArtSpec /\ NegotiationSpec
    /\ InputWireSpec /\ HostNamesSpec
<1>1. ServicesInit => /\ PortMapInit /\ HealthInit /\ StartupInit /\ CoverArtInit
                      /\ NegotiationInit /\ InputWireInit /\ HostNamesInit
  BY DEF ServicesInit
<1>2. [ServicesNext]_servicesVars =>
        /\ [PortMapNext]_portVars /\ [HealthNext]_healthVars /\ [StartupNext]_bootVars
        /\ [CoverArtNext]_artVars /\ [NegotiationNext]_offerVars /\ [InputWireNext]_wireVars
        /\ [HostNamesNext]_nameVars
  BY ServicesTakeTurns DEF servicesVars
<1>3. QED
  BY <1>1, <1>2, PTL
  DEF ServicesSpec, PortSpec, HealthSpec, StartupSpec, CoverArtSpec, NegotiationSpec,
      InputWireSpec, HostNamesSpec

-----------------------------------------------------------------------------
(* The port mappings *)

LEMMA LongestLease == Longest \in Lifetimes /\ \A n \in Lifetimes : n \in 2..Longest
<1>1. PICK n \in Lifetimes : \A m \in Lifetimes : m <= n
  BY PortMapBounds
<1>2. Longest \in Lifetimes /\ \A m \in Lifetimes : m <= Longest
  BY <1>1 DEF Longest
<1>3. QED
  BY <1>2, PortMapBounds

\* Where the task may be and how long it then sleeps.
Tasks ==
  {t \in [at: {"top", "tcp", "renew", "reprobe"}, left: Nat,
          udp: Keys \cup {NoNonce}, tcp: Keys \cup {NoNonce}] :
     t.left <= LongestSleep(t.at)}

\* A task that sleeps has ticks left to sleep.
PortInv == PortMapTypeOK /\ (task.at \in {"renew", "reprobe"} => task.left # 0)

LEMMA PortsStart == PortMapInit => PortInv
<1> SUFFICES ASSUME PortMapInit PROVE PortInv
  OBVIOUS
<1>1. Longest \in Nat /\ Reprobe \in Nat
  BY LongestLease, PortMapBounds
<1>2. QED
  BY <1>1 DEF PortMapInit, PortInv, PortMapTypeOK, NoMappings, LongestSleep

LEMMA SentIsNonce ==
  ASSUME NEW p, NEW retained \in Keys \cup {NoNonce}, NEW k \in Sent(p, retained)
  PROVE  k \in Keys
  BY DEF Sent, Keys

\* A mapping the router makes, of a nonce the task may send.
LEMMA MappingIsKept ==
  ASSUME PortInv, NEW p \in Protos, NEW k \in Keys, NEW n \in Lifetimes,
         table' = [table EXCEPT ![p][k] = n]
  PROVE  table' \in [Protos -> [Keys -> 0..Longest]]
<1>1. n \in 0..Longest /\ table \in [Protos -> [Keys -> 0..Longest]]
  BY LongestLease DEF PortInv, PortMapTypeOK
<1>2. QED
  BY <1>1

LEMMA TriedIsNonce ==
  ASSUME PortInv, NEW k \in TryMap(task.tcp)
  PROVE  k \in Keys
<1>1. task.tcp \in Keys \cup {NoNonce} /\ ZeroNonce \in Keys
  BY DEF PortInv, PortMapTypeOK, Keys
<1>2. QED
  BY <1>1, SentIsNonce DEF TryMap, NatPmpNonce

LEMMA PortsKept == PortInv /\ [PortMapNext]_portVars => PortInv'
<1> SUFFICES ASSUME PortInv, [PortMapNext]_portVars PROVE PortInv'
  OBVIOUS
<1>1. /\ Longest \in Nat \ {0} /\ Lifetimes \subseteq 2..Longest /\ Reprobe \in Nat \ {0}
      /\ {"udp", "tcp"} = Protos /\ ZeroNonce \in Keys
  BY LongestLease, PortMapBounds DEF Protos, Keys
<1>2. /\ table \in [Protos -> [Keys -> 0..Longest]] /\ task \in Tasks
      /\ task.at \in {"renew", "reprobe"} => task.left # 0
  BY DEF PortInv, PortMapTypeOK, Tasks
<1>3. ASSUME table' \in [Protos -> [Keys -> 0..Longest]], task' \in Tasks,
             task'.at \in {"renew", "reprobe"} => task'.left # 0,
             enabled' \in BOOLEAN, router' \in Routers, status' \in {"pcp", "natpmp", "none"}
      PROVE  PortInv'
  BY <1>3 DEF PortInv, PortMapTypeOK, Tasks
<1>4. enabled \in BOOLEAN /\ router \in Routers /\ status \in {"pcp", "natpmp", "none"}
  BY DEF PortInv, PortMapTypeOK
<1>5. CASE Idle \/ Toggle
  BY <1>2, <1>3, <1>4, <1>5 DEF Idle, Toggle
<1>6. CASE MapUdp \/ NoUdp
  <2>1. task.at = "top" /\ task' = [task EXCEPT !.at = "tcp"]
        /\ UNCHANGED <<enabled, router, status>>
    BY <1>6 DEF MapUdp, NoUdp
  <2>2. task' \in Tasks /\ task'.at = "tcp"
    BY <1>2, <2>1 DEF Tasks, LongestSleep
  <2>3. table' \in [Protos -> [Keys -> 0..Longest]]
    <3>1. CASE NoUdp
      BY <1>2, <3>1 DEF NoUdp
    <3>2. CASE MapUdp
      <4>1. PICK k \in Sent("udp", task.udp), n \in Lifetimes :
              table' = [table EXCEPT !["udp"][k] = n]
        BY <3>2 DEF MapUdp
      <4>2. task.udp \in Keys \cup {NoNonce}
        BY <1>2 DEF Tasks
      <4>3. k \in Keys /\ "udp" \in Protos
        BY <1>1, <4>2, SentIsNonce
      <4>4. QED
        BY <4>1, <4>3, MappingIsKept
    <3>3. QED
      BY <1>6, <3>1, <3>2
  <2>4. QED
    BY <1>3, <1>4, <2>1, <2>2, <2>3
<1>7. CASE MapTcp
  <2>1. PICK k \in TryMap(task.tcp), n \in Lifetimes :
          /\ table' = [table EXCEPT !["tcp"][k] = n]
          /\ task' = [at |-> IF enabled THEN "renew" ELSE "top", udp |-> k, tcp |-> k,
                      left |-> IF enabled THEN RenewAfter(n) ELSE 0]
    BY <1>7 DEF MapTcp
  <2>2. k \in Keys /\ "tcp" \in Protos
    BY <1>1, <2>1, TriedIsNonce
  <2>3. RenewAfter(n) \in Nat /\ RenewAfter(n) # 0 /\ RenewAfter(n) <= Longest - 1
    BY <1>1 DEF RenewAfter
  <2>4. table' \in [Protos -> [Keys -> 0..Longest]]
    BY <2>1, <2>2, MappingIsKept
  <2>5. task' \in Tasks /\ (task'.at \in {"renew", "reprobe"} => task'.left # 0)
    <3>1. CASE enabled
      BY <2>1, <2>2, <2>3, <3>1 DEF Tasks, LongestSleep
    <3>2. CASE ~enabled
      BY <2>1, <2>2, <3>2 DEF Tasks, LongestSleep
    <3>3. QED
      BY <3>1, <3>2
  <2>6. enabled' = enabled /\ router' = router /\ status' \in {"pcp", "natpmp", "none"}
    BY <1>4, <1>7 DEF MapTcp, Routers
  <2>7. QED
    BY <1>3, <1>4, <2>4, <2>5, <2>6
<1>8. CASE NoTcp
  <2>1. task' = [task EXCEPT !.at = "reprobe", !.left = Reprobe]
        /\ enabled' = enabled /\ router' = router /\ status' = "none"
    BY <1>8 DEF NoTcp
  <2>2. task' \in Tasks /\ task'.left # 0
    <3>1. LongestSleep("reprobe") = Reprobe
      BY DEF LongestSleep
    <3>2. /\ task' \in [at: {"top", "tcp", "renew", "reprobe"}, left: Nat,
                        udp: Keys \cup {NoNonce}, tcp: Keys \cup {NoNonce}]
          /\ task'.at = "reprobe" /\ task'.left = Reprobe
      BY <1>1, <1>2, <2>1 DEF Tasks
    <3>3. task'.left <= LongestSleep(task'.at)
      BY <1>1, <3>1, <3>2
    <3>4. QED
      BY <1>1, <3>2, <3>3 DEF Tasks
  <2>3. table' \in [Protos -> [Keys -> 0..Longest]]
    <3>1. CASE table' = table
      BY <1>2, <3>1
    <3>2. CASE table' # table
      <4>1. PICK k \in TryMap(task.tcp), n \in Lifetimes : table' = [table EXCEPT !["tcp"][k] = n]
        BY <1>8, <3>2 DEF NoTcp
      <4>2. k \in Keys /\ "tcp" \in Protos
        BY <1>1, <4>1, TriedIsNonce
      <4>3. QED
        BY <4>1, <4>2, MappingIsKept
    <3>3. QED
      BY <3>1, <3>2
  <2>4. QED
    BY <1>3, <1>4, <2>1, <2>2, <2>3
<1>9. CASE Tick
  <2>1. table' \in [Protos -> [Keys -> 0..Longest]]
    <3>1. table' = [p \in Protos |-> [k \in Keys |-> IF table[p][k] = 0 THEN 0 ELSE table[p][k] - 1]]
      BY <1>9 DEF Tick
    <3>2. \A p \in Protos : \A k \in Keys : table[p][k] \in 0..Longest
      BY <1>2
    <3>3. \A p \in Protos : \A k \in Keys :
            (IF table[p][k] = 0 THEN 0 ELSE table[p][k] - 1) \in 0..Longest
      BY <1>1, <3>2
    <3>4. QED
      BY <3>1, <3>3
  <2>2. task' = Slept /\ UNCHANGED <<enabled, router, status>>
    BY <1>9 DEF Tick
  <2>3. task' \in Tasks /\ (task'.at \in {"renew", "reprobe"} => task'.left # 0)
    <3>1. CASE task.at = "top"
      BY <1>2, <2>2, <3>1 DEF Slept
    <3>2. CASE task.at # "top" /\ Woken
      <4>1. task' = [task EXCEPT !.at = "top", !.left = 0]
        BY <2>2, <3>2 DEF Slept
      <4>2. LongestSleep("top") = 0
        BY DEF LongestSleep
      <4>3. /\ task' \in [at: {"top", "tcp", "renew", "reprobe"}, left: Nat,
                          udp: Keys \cup {NoNonce}, tcp: Keys \cup {NoNonce}]
            /\ task'.at = "top" /\ task'.left = 0
        BY <1>2, <4>1 DEF Tasks
      <4>4. task'.left <= LongestSleep(task'.at)
        BY <4>2, <4>3
      <4>5. QED
        BY <4>3, <4>4 DEF Tasks
    <3>3. CASE task.at # "top" /\ ~Woken
      <4>1. task' = [task EXCEPT !.left = @ - 1] /\ task.at \in {"renew", "reprobe"}
        BY <1>9, <2>2, <3>3 DEF Tick, Slept
      <4>2. task.left \in Nat /\ task.left # 0 /\ task.left # 1
        BY <1>2, <3>3, <4>1 DEF Woken, Tasks
      <4>3. task.left - 1 \in Nat /\ task.left - 1 # 0 /\ task.left - 1 <= task.left
        BY <4>2
      <4>4. LongestSleep(task.at) \in Int
        BY <1>1 DEF LongestSleep
      <4>5. task.left <= LongestSleep(task.at)
        BY <1>2 DEF Tasks
      <4>6. task.left - 1 <= LongestSleep(task.at)
        BY <4>2, <4>3, <4>4, <4>5
      <4>7. QED
        BY <1>2, <4>1, <4>3, <4>6 DEF Tasks
    <3>4. QED
      BY <3>1, <3>2, <3>3
  <2>4. QED
    BY <1>3, <1>4, <2>1, <2>2, <2>3
<1>10. CASE RouterChanges
  <2>1. NoMappings \in [Protos -> [Keys -> 0..Longest]]
    BY <1>1 DEF NoMappings
  <2>2. QED
    BY <1>2, <1>3, <1>4, <1>10, <2>1 DEF RouterChanges
<1>11. CASE UNCHANGED portVars
  BY <1>2, <1>3, <1>4, <1>11 DEF portVars
<1>12. QED
  BY <1>5, <1>6, <1>7, <1>8, <1>9, <1>10, <1>11 DEF PortMapNext

\* Every variable of the port mapping task keeps its type: no lease outlives
\* the longest the router grants; the task wakes a tick before the longest
\* lease would end or, after a failure, no later than the pause before it tries
\* again, and sleeps nowhere else (renew_after and REPROBE_AFTER, portmap.rs).
THEOREM PortMapTypeCorrect == ServicesSpec => []PortMapTypeOK
<1>1. PortInv => PortMapTypeOK
  BY DEF PortInv
<1>2. QED
  BY <1>1, PortsStart, PortsKept, ServicesStayApart, PTL DEF PortSpec

-----------------------------------------------------------------------------
(* The names of the host *)

\* The inductive invariant: what changed before the list was made is in it.
NamesInv ==
  /\ prefix \in Prefixes \cup {NoPrefix}
  /\ since \in [Prefixes -> 0..Old] /\ listAge \in 0..Old
  /\ \A p \in Prefixes : since[p] > listAge => (p \in names <=> p = prefix)
  /\ NamesFollow

LEMMA NamesStart == HostNamesInit => NamesInv
<1> SUFFICES ASSUME HostNamesInit PROVE NamesInv
  OBVIOUS
<1>1. Old \in 0..Old
  BY RefreshNat DEF Old
<1>2. QED
  BY <1>1 DEF HostNamesInit, NamesInv, NamesFollow

LEMMA RequestKeepsNames ==
  ASSUME NamesInv, NEW v, NEW called, Request(v, called)
  PROVE  NamesInv'
<1>1. Refresh \in Nat /\ Old = Refresh + 1 /\ NoPrefix \notin Prefixes
  BY RefreshNat DEF Old
<1>2. /\ names' = ListFor(called)
      /\ listAge' = IF AsksList(called) /\ Stale THEN 0 ELSE listAge
      /\ last' = {[host |-> called, answer |-> Answer(v, called)]}
      /\ prefix' = prefix /\ since' = since /\ playName' = playName
  BY DEF Request
<1>3. listAge' \in 0..Old
  BY <1>1, <1>2 DEF NamesInv
<1>4. ASSUME NEW p \in Prefixes, since[p] > listAge'
      PROVE  p \in names' <=> p = prefix
  BY <1>1, <1>2, <1>4 DEF NamesInv, ListFor, Own
<1>5. ASSUME NEW p \in Prefixes \ {playName}, called = {p}, since[p] > Refresh
      PROVE  Answer(v, called) # "misdirected" <=> p = prefix
  <2>1. AsksList(called)
    BY <1>5 DEF AsksList
  <2>2. p \in ListFor(called) <=> p = prefix
    BY <1>1, <1>5, <2>1 DEF NamesInv, ListFor, Own, Stale
  <2>3. p \notin {"ip", "localhost", "local", "hostname", playName}
    BY <1>5, PrefixesAreNames DEF Fixed
  <2>4. IsOurs(called) <=> p \in ListFor(called)
    BY <1>5, <2>1, <2>3 DEF IsOurs
  <2>5. QED
    BY <2>2, <2>4 DEF Answer
<1>6. NamesFollow'
  BY <1>2, <1>5 DEF NamesFollow
<1>7. QED
  BY <1>2, <1>3, <1>4, <1>6 DEF NamesInv

LEMMA NamesKept == NamesInv /\ [HostNamesNext]_nameVars => NamesInv'
<1> SUFFICES ASSUME NamesInv, [HostNamesNext]_nameVars PROVE NamesInv'
  OBVIOUS
<1>1. Refresh \in Nat /\ Old = Refresh + 1
  BY RefreshNat DEF Old
<1>2. CASE \E v \in Visitors : \E called \in Hosts : Request(v, called)
  BY <1>2, RequestKeepsNames
<1>3. CASE Switch
  BY <1>3 DEF Switch, NamesInv, NamesFollow
<1>4. ASSUME NEW p \in Prefixes \cup {NoPrefix}, PrefixChanges(p) PROVE NamesInv'
  <2>1. /\ prefix' = p /\ listAge' = listAge /\ names' = names /\ last' = {}
        /\ since' = [q \in Prefixes |-> IF q \in {p, prefix} THEN 0 ELSE since[q]]
    BY <1>4 DEF PrefixChanges
  <2>2. since' \in [Prefixes -> 0..Old]
    BY <1>1, <2>1 DEF NamesInv
  <2>3. ASSUME NEW q \in Prefixes, since'[q] > listAge'
        PROVE  q \in names' <=> q = prefix'
    <3>1. q \notin {p, prefix} /\ since[q] > listAge
      BY <1>1, <2>1, <2>3 DEF NamesInv
    <3>2. QED
      BY <2>1, <3>1 DEF NamesInv
  <2>4. QED
    BY <2>1, <2>2, <2>3 DEF NamesInv, NamesFollow
<1>5. CASE NameTick
  <2>1. /\ since' = [p \in Prefixes |-> Aged(since[p])] /\ listAge' = Aged(listAge)
        /\ last' = {} /\ prefix' = prefix /\ names' = names
    BY <1>5 DEF NameTick
  <2>2. \A n \in 0..Old : Aged(n) \in 0..Old
    BY <1>1 DEF Aged
  <2>3. \A m, n \in 0..Old : Aged(m) > Aged(n) => m > n
    BY <1>1 DEF Aged
  <2>4. since' \in [Prefixes -> 0..Old] /\ listAge' \in 0..Old
    BY <2>1, <2>2 DEF NamesInv
  <2>5. ASSUME NEW p \in Prefixes, since'[p] > listAge'
        PROVE  p \in names' <=> p = prefix'
    <3>1. since[p] > listAge
      BY <2>1, <2>3, <2>5 DEF NamesInv
    <3>2. QED
      BY <2>1, <3>1 DEF NamesInv
  <2>6. QED
    BY <2>1, <2>4, <2>5 DEF NamesInv, NamesFollow
<1>6. CASE UNCHANGED nameVars
  BY <1>6 DEF nameVars, NamesInv, NamesFollow
<1>7. QED
  BY <1>2, <1>3, <1>4, <1>5, <1>6 DEF HostNamesNext

\* The host answers to the name of the address it has and no longer to one it
\* lost, Refresh ticks later (own_sslip_names, http/mod.rs).
THEOREM NamesAreCurrent == ServicesSpec => []NamesFollow
<1>1. NamesInv => NamesFollow
  BY DEF NamesInv
<1>2. QED
  BY <1>1, NamesStart, NamesKept, ServicesStayApart, PTL DEF HostNamesSpec

-----------------------------------------------------------------------------
(* The covers *)

GamesOf(b) == {b.now} \cup b.rest
Missing(g) == ~Cached(g) /\ ~MissedRecently(g)

\* The inductive invariant: the games of a batch are in flight and in no other
\* batch, and those it has not asked for were neither fetched nor missed.
BatchesInv ==
  /\ CoverArtTypeOK
  /\ \A b \in batches : /\ b.now \notin b.rest /\ GamesOf(b) \subseteq inFlight
                        /\ \A g \in b.rest : Missing(g)
                        /\ b.at = "next" => Missing(b.now)
  /\ \A b, c \in batches : b # c => GamesOf(b) \cap GamesOf(c) = {}

LEMMA BatchesStart == CoverArtInit => BatchesInv
  BY DEF CoverArtInit, BatchesInv, CoverArtTypeOK

\* A batch that takes games from nobody may replace another, or be added.
LEMMA BatchJoins ==
  ASSUME BatchesInv, NEW old \in SUBSET batches, NEW c \in Batch,
         batches' = old \cup {c}, CoverArtTypeOK',
         c.now \notin c.rest, GamesOf(c) \subseteq inFlight',
         \A g \in c.rest : Missing(g)', c.at = "next" => Missing(c.now)',
         \A b \in old :
           /\ GamesOf(b) \cap GamesOf(c) = {} /\ GamesOf(b) \subseteq inFlight'
           /\ \A g \in GamesOf(b) : Missing(g) => Missing(g)'
  PROVE  BatchesInv'
<1>1. ASSUME NEW b \in batches'
      PROVE  /\ b.now \notin b.rest /\ GamesOf(b) \subseteq inFlight'
             /\ \A g \in b.rest : Missing(g)'
             /\ b.at = "next" => Missing(b.now)'
  <2>1. CASE b = c
    BY <2>1
  <2>2. CASE b \in old
    <3>1. /\ b.now \notin b.rest /\ \A g \in b.rest : Missing(g)
          /\ b.at = "next" => Missing(b.now)
      BY <2>2 DEF BatchesInv
    <3>2. \A g \in GamesOf(b) : Missing(g) => Missing(g)'
      BY <2>2
    <3>3. b.now \in GamesOf(b) /\ b.rest \subseteq GamesOf(b)
      BY DEF GamesOf
    <3>4. QED
      BY <2>2, <3>1, <3>2, <3>3
  <2>3. QED
    BY <2>1, <2>2
<1>2. \A b, d \in batches' : b # d => GamesOf(b) \cap GamesOf(d) = {}
  BY DEF BatchesInv
<1>3. QED
  BY <1>1, <1>2 DEF BatchesInv, GamesOf

LEMMA BatchesKept == BatchesInv /\ [CoverArtNext]_artVars => BatchesInv'
<1> SUFFICES ASSUME BatchesInv, [CoverArtNext]_artVars PROVE BatchesInv'
  OBVIOUS
<1>1. /\ cover \in [Games -> {"none", "torn", "whole"}]
      /\ miss \in [Games -> {"none", "fresh", "stale"}]
      /\ inFlight \subseteq Games /\ batches \subseteq Batch
  BY DEF BatchesInv, CoverArtTypeOK
<1>2. ASSUME NEW b \in batches
      PROVE  /\ b \in Batch /\ b.now \in Games /\ b.rest \subseteq Games
             /\ b.at \in {"next", "asking", "answered"}
             /\ b.now \notin b.rest /\ GamesOf(b) \subseteq inFlight
             /\ \A g \in b.rest : Missing(g)
             /\ b.at = "next" => Missing(b.now)
             /\ \A c \in batches \ {b} : GamesOf(b) \cap GamesOf(c) = {}
             /\ \A c \in batches : GamesOf(c) \subseteq inFlight
  BY <1>1 DEF BatchesInv, Batch
<1>3. CASE Warm
  <2>1. PICK wants \in SUBSET Games :
          /\ Todo(wants) # {} /\ inFlight' = inFlight \cup Todo(wants)
          /\ \E b \in NextOf(Todo(wants)) : batches' = batches \cup {b}
    BY <1>3 DEF Warm
  <2> DEFINE T == Todo(wants)
  <2>2. T \subseteq Games /\ \A g \in T : Missing(g) /\ g \notin inFlight
    BY DEF Todo, Missing
  <2>3. PICK g, c : /\ g \in T /\ c = [now |-> g, at |-> "next", rest |-> T \ {g}]
                   /\ batches' = batches \cup {c}
    BY <2>1 DEF NextOf
  <2>4. c \in Batch /\ GamesOf(c) = T /\ c.now \notin c.rest /\ c.rest \subseteq T /\ c.now \in T
    BY <2>2, <2>3 DEF Batch, GamesOf
  <2>5. inFlight' = inFlight \cup T /\ UNCHANGED <<cover, miss>>
    BY <1>3, <2>1 DEF Warm
  <2>6. \A h : Missing(h)' <=> Missing(h)
    BY <2>5 DEF Missing, Cached, MissedRecently
  <2>7. batches \in SUBSET batches /\ batches' = batches \cup {c}
    BY <2>3
  <2> HIDE DEF T
  <2>8. CoverArtTypeOK'
    BY <1>1, <2>2, <2>4, <2>5, <2>7 DEF CoverArtTypeOK
  <2>9. \A b \in batches : /\ GamesOf(b) \cap GamesOf(c) = {} /\ GamesOf(b) \subseteq inFlight'
                           /\ \A h \in GamesOf(b) : Missing(h) => Missing(h)'
    BY <1>2, <2>2, <2>4, <2>5, <2>6
  <2>10. GamesOf(c) \subseteq inFlight' /\ (\A h \in c.rest : Missing(h)') /\ Missing(c.now)'
    BY <2>2, <2>4, <2>5, <2>6
  <2>11. QED
    BY <2>4, <2>7, <2>8, <2>9, <2>10, BatchJoins
<1>4. ASSUME NEW b \in batches, NEW at \in {"asking", "answered"}, Moves(b, at),
             inFlight' = inFlight, CoverArtTypeOK',
             \A g \in Games \ {b.now} : Missing(g) => Missing(g)'
      PROVE  BatchesInv'
  <2> DEFINE c == [b EXCEPT !.at = at]
  <2>1. c \in Batch /\ c.now = b.now /\ c.rest = b.rest /\ c.at = at /\ GamesOf(c) = GamesOf(b)
    BY <1>2 DEF Batch, GamesOf
  <2>2. batches' = (batches \ {b}) \cup {c}
    BY <1>4 DEF Moves
  <2> DEFINE old == batches \ {b}
  <2>0. old \in SUBSET batches /\ batches' = old \cup {c}
    BY <2>2
  <2> HIDE DEF c
  <2>3. \A d \in old :
          /\ GamesOf(d) \cap GamesOf(c) = {} /\ GamesOf(d) \subseteq inFlight'
          /\ \A g \in GamesOf(d) : Missing(g) => Missing(g)'
    <3> SUFFICES ASSUME NEW d \in batches \ {b}
                 PROVE  /\ GamesOf(d) \cap GamesOf(c) = {} /\ GamesOf(d) \subseteq inFlight'
                        /\ \A g \in GamesOf(d) : Missing(g) => Missing(g)'
      OBVIOUS
    <3>1. GamesOf(d) \cap GamesOf(b) = {} /\ GamesOf(d) \subseteq inFlight
      BY <1>2
    <3>2. b.now \in GamesOf(b)
      BY DEF GamesOf
    <3>3. GamesOf(d) \subseteq Games \ {b.now}
      BY <1>1, <3>1, <3>2
    <3>4. QED
      BY <1>4, <2>1, <3>1, <3>3
  <2>4. \A g \in c.rest : Missing(g)'
    BY <1>2, <1>4, <2>1
  <2>5. c.now \notin c.rest /\ GamesOf(c) \subseteq inFlight' /\ c.at # "next"
    BY <1>2, <1>4, <2>1
  <2> HIDE DEF old
  <2>6. c.at = "next" => Missing(c.now)'
    BY <2>5
  <2>7. QED
    BY <1>4, <2>0, <2>1, <2>3, <2>4, <2>5, <2>6, BatchJoins
<1>5. ASSUME NEW b \in batches, NEW at \in {"asking", "answered"}, Moves(b, at)
      PROVE  batches' \subseteq Batch
  <2>1. [b EXCEPT !.at = at] \in Batch
    BY <1>2 DEF Batch
  <2>2. QED
    BY <1>1, <1>5, <2>1 DEF Moves
<1>6. ASSUME NEW b \in batches, Ask(b) PROVE BatchesInv'
  <2>1. Moves(b, "asking") /\ UNCHANGED <<cover, miss, inFlight>>
    BY <1>6 DEF Ask
  <2>2. CoverArtTypeOK'
    BY <1>1, <1>5, <2>1 DEF CoverArtTypeOK
  <2>3. \A g : Missing(g) => Missing(g)'
    BY <2>1 DEF Missing, Cached, MissedRecently
  <2>4. QED
    BY <1>4, <2>1, <2>2, <2>3
<1>7. ASSUME NEW b \in batches, GetsCover(b) \/ GetsNone(b) PROVE BatchesInv'
  <2>1. Moves(b, "answered") /\ inFlight' = inFlight
    BY <1>7 DEF GetsCover, GetsNone
  <2>2. PICK k \in {"none", "torn", "whole"}, m \in {"none", "fresh", "stale"} :
          /\ cover' = cover \/ cover' = [cover EXCEPT ![b.now] = k]
          /\ miss' = miss \/ miss' = [miss EXCEPT ![b.now] = m]
    BY <1>7 DEF GetsCover, GetsNone
  <2>3. CoverArtTypeOK'
    BY <1>1, <1>2, <1>5, <2>1, <2>2 DEF CoverArtTypeOK
  <2>4. \A g \in Games \ {b.now} : cover'[g] = cover[g] /\ miss'[g] = miss[g]
    BY <1>1, <2>2
  <2>5. \A g \in Games \ {b.now} : Missing(g) => Missing(g)'
    BY <2>4 DEF Missing, Cached, MissedRecently
  <2>6. QED
    BY <1>4, <2>1, <2>3, <2>5
<1>8. ASSUME NEW b \in batches, Lands(b) PROVE BatchesInv'
  <2>1. inFlight' = inFlight \ {b.now} /\ UNCHANGED <<cover, miss>>
    BY <1>8 DEF Lands
  <2>2. \A h : Missing(h)' <=> Missing(h)
    BY <2>1 DEF Missing, Cached, MissedRecently
  <2>3. \A d \in batches \ {b} : GamesOf(d) \subseteq inFlight'
    <3>1. b.now \in GamesOf(b)
      BY DEF GamesOf
    <3>2. QED
      BY <1>2, <2>1, <3>1
  <2>4. CASE b.rest = {}
    <3>1. batches' = batches \ {b}
      BY <1>8, <2>4 DEF Lands
    <3>2. CoverArtTypeOK'
      BY <1>1, <2>1, <3>1 DEF CoverArtTypeOK
    <3>3. \A d \in batches' : /\ d.now \notin d.rest /\ GamesOf(d) \subseteq inFlight'
                              /\ \A g \in d.rest : Missing(g)'
                              /\ d.at = "next" => Missing(d.now)'
      BY <1>2, <2>2, <2>3, <3>1
    <3>4. \A d, e \in batches' : d # e => GamesOf(d) \cap GamesOf(e) = {}
      BY <3>1 DEF BatchesInv
    <3>5. QED
      BY <3>2, <3>3, <3>4 DEF BatchesInv, GamesOf
  <2>5. CASE b.rest # {}
    <3>1. PICK g \in b.rest :
            batches' = (batches \ {b}) \cup {[now |-> g, at |-> "next", rest |-> b.rest \ {g}]}
      BY <1>8, <2>5 DEF Lands, NextOf
    <3> DEFINE c == [now |-> g, at |-> "next", rest |-> b.rest \ {g}]
    <3>2. c \in Batch /\ GamesOf(c) = b.rest /\ c.now \notin c.rest /\ c.rest \subseteq b.rest
          /\ c.now \in b.rest
      BY <1>2 DEF Batch, GamesOf
    <3>3. batches' = (batches \ {b}) \cup {c}
      BY <3>1
    <3> DEFINE old == batches \ {b}
    <3> HIDE DEF c
    <3>4. CoverArtTypeOK'
      BY <1>1, <2>1, <3>2, <3>3 DEF CoverArtTypeOK
    <3>5. GamesOf(c) \subseteq GamesOf(b) /\ GamesOf(c) \subseteq inFlight'
      BY <1>2, <2>1, <3>2 DEF GamesOf
    <3>6. \A d \in old : /\ GamesOf(d) \cap GamesOf(c) = {} /\ GamesOf(d) \subseteq inFlight'
                         /\ \A h \in GamesOf(d) : Missing(h) => Missing(h)'
      BY <1>2, <2>2, <2>3, <3>5
    <3>7. old \in SUBSET batches /\ batches' = old \cup {c}
      BY <3>3
    <3>8. (\A h \in c.rest : Missing(h)') /\ Missing(c.now)'
      BY <1>2, <2>2, <3>2
    <3> HIDE DEF old
    <3>9. QED
      BY <3>2, <3>4, <3>5, <3>6, <3>7, <3>8, BatchJoins
  <2>6. QED
    BY <2>4, <2>5
<1>9. CASE Restart
  <2>1. inFlight' = {} /\ batches' = {} /\ miss' = miss
    BY <1>9 DEF Restart
  <2>2. cover' \in [Games -> {"none", "torn", "whole"}]
    BY <1>1, <1>9 DEF Restart
  <2>3. QED
    BY <1>1, <2>1, <2>2 DEF BatchesInv, CoverArtTypeOK
<1>10. CASE DayPasses
  <2>1. /\ miss' = [g \in Games |-> IF miss[g] = "fresh" THEN "stale" ELSE miss[g]]
        /\ UNCHANGED <<cover, inFlight, batches>>
    BY <1>10 DEF DayPasses
  <2>2. \A g \in Games : Missing(g) => Missing(g)'
    BY <1>1, <2>1 DEF Missing, Cached, MissedRecently
  <2>3. CoverArtTypeOK'
    BY <1>1, <2>1 DEF CoverArtTypeOK
  <2>4. \A b \in batches : /\ \A g \in b.rest : Missing(g)'
                           /\ b.at = "next" => Missing(b.now)'
    BY <1>2, <2>2
  <2>5. QED
    BY <2>1, <2>3, <2>4 DEF BatchesInv, GamesOf
<1>11. CASE UNCHANGED artVars
  BY <1>11 DEF artVars, BatchesInv, CoverArtTypeOK, GamesOf, Missing, Cached, MissedRecently
<1>12. QED
  BY <1>3, <1>6, <1>7, <1>8, <1>9, <1>10, <1>11 DEF CoverArtNext

\* "Repeated /api/v1/library calls do not stack fetches" (ArtCache::in_flight),
\* for any library, any number of calls and restarts of the host.
THEOREM CoversAreFetchedOnce == ServicesSpec => FetchesDoNotStack
<1>1. BatchesInv /\ [CoverArtNext]_artVars
        => [\A b \in batches : Ask(b) => ~Cached(b.now) /\ ~MissedRecently(b.now)]_artVars
  BY DEF BatchesInv, Missing, Ask
<1>2. CoverArtSpec => FetchesDoNotStack
  BY <1>1, BatchesStart, BatchesKept, PTL DEF CoverArtSpec, FetchesDoNotStack
<1>3. QED
  BY <1>2, ServicesStayApart, PTL

------------------------------------------------------------------------------
(* Health.  Once a session is a second old no stopped pipeline has a look   *)
(* left, and after the first look in it the collector says what the         *)
(* session's own thread saw.                                                *)

HealthInv ==
  /\ HealthTypeOK
  /\ pipe = "none" => stats.age = Never
  /\ stats.age > 0 => ~others.lingering
  /\ ~others.leaked /\ stats.age > 0 /\ (poller.looked \/ stats.age > 1)
       => (poller.saw = "still" <=> stats.host = "still")

LEMMA NeverIsAge == Never \in Ages(TelemetrySilence)
  BY HealthBounds DEF Never, Ages

LEMMA HealthStarts == HealthInit => HealthInv
<1> SUFFICES ASSUME HealthInit PROVE HealthInv
  OBVIOUS
<1>1. HealthTypeOK
  BY NeverIsAge DEF HealthInit, HealthTypeOK, Cleared, NewPoller
<1>2. stats.age = Never
  BY DEF HealthInit, Cleared
<1>3. QED
  BY <1>1, <1>2 DEF HealthInv, Never

LEMMA AudioBranches ==
  ASSUME HealthTypeOK PROVE AudioBranch \subseteq {"sound", "degraded", "failed"}
  BY DEF HealthTypeOK, AudioBranch, AudioHealth, BranchOutcomes

LEMMA OlderIsAge ==
  ASSUME NEW age \in Ages(TelemetrySilence)
  PROVE  /\ Older(age, TelemetrySilence) \in Ages(TelemetrySilence)
         /\ age = Never => Older(age, TelemetrySilence) = Never
         /\ age = 0 => Older(age, TelemetrySilence) = 1
         /\ age > 0 => Older(age, TelemetrySilence) > 1
  BY HealthBounds DEF Ages, Older, Never

LEMMA HealthTypeStays ==
  ASSUME HealthTypeOK, UNCHANGED <<pipe, poller, others, stats>>, delivers' \in BOOLEAN
  PROVE  HealthTypeOK'
<1> DEFINE P == [fed: BOOLEAN, saw: {"nothing yet", "still", "moving"}, looked: BOOLEAN]
           O == [lingering: BOOLEAN, leaked: BOOLEAN]
           S == [host: {"still", "repeated", "moving"}, audio: {"sound", "degraded", "failed"},
                 age: Ages(TelemetrySilence), clientAge: Ages(TelemetrySilence),
                 client: {"none", "dark", "blind", "shown"}]
<1>1. poller \in P /\ others \in O /\ stats \in S
  BY Zenon DEF HealthTypeOK
<1> HIDE DEF P, O, S
<1>2. poller' \in P /\ others' \in O /\ stats' \in S
  BY <1>1
<1>3. pipe' \in {"none", "playing", "refused"} /\ delivers' \in BOOLEAN
  BY DEF HealthTypeOK
<1>4. QED
  BY <1>2, <1>3 DEF HealthTypeOK, P, O, S

LEMMA HealthKept == HealthInv /\ [HealthNext]_healthVars => HealthInv'
<1> SUFFICES ASSUME HealthInv, [HealthNext]_healthVars PROVE HealthInv'
  OBVIOUS
<1> USE HealthBounds
<1>1. CASE StartPipeline
  <2>1. PICK h \in {"sound", "degraded", "failed"} :
          stats' = [stats EXCEPT !.audio = h, !.age = 0]
    BY <1>1, AudioBranches DEF StartPipeline, HealthInv
  <2>2. 0 \in Ages(TelemetrySilence)
    BY DEF Ages, Never
  <2>3. HealthTypeOK'
    BY <1>1, <2>1, <2>2 DEF StartPipeline, HealthInv, HealthTypeOK, NewPoller
  <2>4. pipe' # "none" /\ stats'.age = 0
    BY <1>1, <2>1 DEF StartPipeline, HealthInv, HealthTypeOK
  <2>5. QED
    BY <2>3, <2>4 DEF HealthInv
<1>2. CASE BuildFails
  <2>1. PICK h \in {"sound", "degraded", "failed"} : stats' = [stats EXCEPT !.audio = h]
    BY <1>2, AudioBranches DEF BuildFails, HealthInv
  <2>2. QED
    BY <1>2, <2>1 DEF BuildFails, HealthInv, HealthTypeOK, Never
<1>3. CASE StopSession
  <2>1. HealthTypeOK'
    BY <1>3, NeverIsAge DEF StopSession, HealthInv, HealthTypeOK, Cleared, NewPoller
  <2>2. stats'.age = Never
    BY <1>3 DEF StopSession, Cleared
  <2>3. QED
    BY <2>1, <2>2 DEF HealthInv, Never
<1>4. CASE CaptureChanges
  <2>1. UNCHANGED <<pipe, poller, others, stats>> /\ delivers' \in BOOLEAN
    BY <1>4 DEF CaptureChanges
  <2>2. HealthTypeOK'
    BY <2>1, HealthTypeStays DEF HealthInv
  <2>3. QED
    BY <2>1, <2>2 DEF HealthInv
<1>5. CASE EncodeFrame
  BY <1>5 DEF EncodeFrame, HealthInv, HealthTypeOK, Never
<1>6. CASE Look
  <2>1. PICK h \in {"still", "repeated", "moving"} : stats' = [stats EXCEPT !.host = h]
    BY <1>6 DEF Look, Readings
  <2>2. h = "still" <=> ~poller.fed
    BY <1>6, <2>1 DEF Look, Readings, HealthInv, HealthTypeOK
  <2>3. /\ poller' = [fed |-> FALSE, saw |-> IF poller.fed THEN "moving" ELSE "still",
                      looked |-> TRUE]
        /\ UNCHANGED <<pipe, delivers, others, said>>
    BY <1>6 DEF Look
  <2>4. QED
    BY <2>1, <2>2, <2>3 DEF HealthInv, HealthTypeOK, Never
<1>7. CASE LastLook
  <2>1. ~(stats.age > 0)
    BY <1>7 DEF LastLook, HealthInv
  <2>2. QED
    <3>1. PICK h \in {"still", "repeated", "moving"} : stats' = [stats EXCEPT !.host = h]
      BY <1>7 DEF LastLook
    <3>2. /\ stats' \in [host: {"still", "repeated", "moving"}, audio: {"sound", "degraded", "failed"},
                         age: Ages(TelemetrySilence), clientAge: Ages(TelemetrySilence),
                         client: {"none", "dark", "blind", "shown"}]
          /\ stats'.age = stats.age
      BY <3>1 DEF HealthInv, HealthTypeOK
    <3>3. /\ others' \in [lingering: BOOLEAN, leaked: BOOLEAN]
          /\ UNCHANGED <<pipe, delivers, poller>>
      BY <1>7 DEF LastLook, HealthInv, HealthTypeOK
    <3>4. HealthTypeOK'
      BY <3>2, <3>3 DEF HealthInv, HealthTypeOK
    <3>5. stats.age \in Int /\ ~(stats'.age > 0) /\ ~(stats'.age > 1)
      <4>1. stats.age \in Ages(TelemetrySilence)
        BY DEF HealthInv, HealthTypeOK
      <4>2. stats.age \in Int
        BY <4>1 DEF Ages, Never
      <4>3. QED
        BY <2>1, <3>2, <4>2
    <3>6. QED
      BY <3>2, <3>3, <3>4, <3>5 DEF HealthInv
<1>8. CASE LeakedLook
  BY <1>8 DEF LeakedLook, HealthInv, HealthTypeOK, Never
<1>9. CASE BusError
  <2>1. PICK h \in {"sound", "degraded", "failed"} : stats' = [stats EXCEPT !.audio = h]
    BY <1>9 DEF BusError, AudioHealth
  <2>2. /\ stats' \in [host: {"still", "repeated", "moving"}, audio: {"sound", "degraded", "failed"},
                       age: Ages(TelemetrySilence), clientAge: Ages(TelemetrySilence),
                       client: {"none", "dark", "blind", "shown"}]
        /\ stats'.age = stats.age /\ stats'.host = stats.host
    BY <2>1 DEF HealthInv, HealthTypeOK
  <2>3. UNCHANGED <<pipe, delivers, poller, others>>
    BY <1>9 DEF BusError
  <2>4. HealthTypeOK'
    BY <2>2, <2>3 DEF HealthInv, HealthTypeOK
  <2>5. QED
    BY <2>2, <2>3, <2>4 DEF HealthInv
<1>10. CASE Telemetry
  <2>1. PICK c \in {"dark", "blind", "shown"} :
          stats' = [stats EXCEPT !.client = c, !.clientAge = 0]
    BY <1>10 DEF Telemetry
  <2>2. 0 \in Ages(TelemetrySilence)
    BY DEF Ages, Never
  <2>3. UNCHANGED <<pipe, delivers, poller, others>>
    BY <1>10 DEF Telemetry
  <2>4. HealthTypeOK' /\ stats'.age = stats.age /\ stats'.host = stats.host
    BY <2>1, <2>2, <2>3 DEF HealthInv, HealthTypeOK
  <2>5. QED
    BY <2>3, <2>4 DEF HealthInv
<1>11. CASE Second
  <2>1. /\ stats.age \in Ages(TelemetrySilence) /\ stats.clientAge \in Ages(TelemetrySilence)
        /\ stats' \in [host: {"still", "repeated", "moving"}, audio: {"sound", "degraded", "failed"},
                       age: Ages(TelemetrySilence), clientAge: Ages(TelemetrySilence),
                       client: {"none", "dark", "blind", "shown"}]
        /\ stats'.age = Older(stats.age, TelemetrySilence) /\ stats'.host = stats.host
    BY <1>11, OlderIsAge DEF Second, HealthInv, HealthTypeOK
  <2>2. /\ poller' \in [fed: BOOLEAN, saw: {"nothing yet", "still", "moving"}, looked: BOOLEAN]
        /\ poller'.saw = poller.saw /\ ~poller'.looked
        /\ UNCHANGED <<pipe, delivers, others>> /\ ~others.lingering
    BY <1>11 DEF Second, HealthInv, HealthTypeOK
  <2>3. HealthTypeOK' /\ (pipe' = "none" => stats'.age = Never) /\ ~others'.lingering
    BY <2>1, <2>2, OlderIsAge DEF HealthInv, HealthTypeOK
  <2>4. ASSUME ~others'.leaked, stats'.age > 1
        PROVE  poller'.saw = "still" <=> stats'.host = "still"
    <3>1. stats.age > 0
      BY <2>1, <2>4, OlderIsAge DEF Ages, Never
    <3>2. pipe # "none"
      BY <3>1 DEF HealthInv, Never
    <3>3. poller.looked
      BY <1>11, <3>2 DEF Second
    <3>4. QED
      BY <2>1, <2>2, <2>4, <3>1, <3>3 DEF HealthInv
  <2>5. QED
    BY <2>2, <2>3, <2>4 DEF HealthInv
<1>12. CASE Watchdog
  <2>1. UNCHANGED <<pipe, delivers, poller, others, stats>>
    BY <1>12 DEF Watchdog
  <2>2. HealthTypeOK'
    <3>1. delivers' \in BOOLEAN
      BY <2>1 DEF HealthInv, HealthTypeOK
    <3>2. QED
      BY <2>1, <3>1, HealthTypeStays DEF HealthInv
  <2>3. QED
    BY <2>1, <2>2 DEF HealthInv
<1>13. CASE UNCHANGED healthVars
  <2>1. UNCHANGED <<pipe, delivers, poller, others, stats>>
    BY <1>13 DEF healthVars
  <2>2. HealthTypeOK'
    <3>1. delivers' \in BOOLEAN
      BY <2>1 DEF HealthInv, HealthTypeOK
    <3>2. QED
      BY <2>1, <3>1, HealthTypeStays DEF HealthInv
  <2>3. QED
    BY <2>1, <2>2 DEF HealthInv
<1>14. QED
  BY <1>1, <1>2, <1>3, <1>4, <1>5, <1>6, <1>7, <1>8, <1>9, <1>10, <1>11, <1>12, <1>13
  DEF HealthNext

(* NoFalseStall: a stall is said only by the watchdog, of a session past    *)
(* its start, and by then the collector holds what the session's own thread *)
(* saw last.                                                                *)
THEOREM NoStallOfOthers == ServicesSpec => NoFalseStall
<1>1. HealthInv /\ [HealthNext]_healthVars
        => [~others.leaked /\ "stalled" \in said' \ said => poller.saw = "still"]_healthVars
  <2> SUFFICES ASSUME HealthInv, [HealthNext]_healthVars,
                      ~others.leaked, "stalled" \in said' \ said
               PROVE  poller.saw = "still"
    OBVIOUS
  <2>1. Watchdog
    BY DEF healthVars, HealthNext, StartPipeline, BuildFails, StopSession, CaptureChanges,
           EncodeFrame, Look, LastLook, LeakedLook, BusError, Telemetry, Second
  <2>2. "stalled" \in Symptoms
    BY <2>1 DEF Watchdog
  <2>3. Stalled
    BY <2>2 DEF Symptoms, Rules
  <2>4. stats.age > 1 /\ stats.age > 0 /\ stats.host = "still"
    <3>1. stats.age > StartupGrace /\ stats.host = "still"
      BY <2>3 DEF Stalled, Settled
    <3>2. stats.age \in Ages(TelemetrySilence)
      BY DEF HealthInv, HealthTypeOK
    <3>3. stats.age \in Int /\ StartupGrace \in Int /\ StartupGrace > 0
      BY <3>2, HealthBounds DEF Ages, Never
    <3>4. QED
      BY <3>1, <3>3
  <2>5. QED
    BY <2>4 DEF HealthInv
<1>2. HealthSpec => []HealthInv
  BY HealthStarts, HealthKept, PTL DEF HealthSpec
<1>3. HealthSpec => NoFalseStall
  BY <1>1, <1>2, PTL DEF HealthSpec, NoFalseStall
<1>4. QED
  BY <1>3, ServicesStayApart

------------------------------------------------------------------------------
(* Startup.  What the devices pinned stays on the disk or is torn, never    *)
(* replaced; the CA's certificate and key are a pair whenever the key is    *)
(* whole; and a leaf that is served was signed with that key.               *)

Running == {"tls", "leaf", "listen", "plain", "serving"}

IdentityHolds ==
  /\ host.at \in Running => host.id \in Secrets /\ disk.identity = host.id
  /\ pinned.id # NoSecret => disk.identity \in {pinned.id, "torn"}

CaHolds ==
  /\ pinned.ca # NoSecret => disk.caCrt = pinned.ca
  /\ disk.caKey \in Secrets => disk.caCrt = disk.caKey
  /\ host.at = "leaf" => host.ca \in Secrets /\ host.ca = disk.caKey

LeafHolds ==
  /\ disk.leaf.there # "none" => disk.caKey \in Secrets /\ disk.leaf.signer = disk.caKey
  /\ host.at \in {"listen", "serving"} => disk.leaf.there = "both"
  /\ host.at = "serving" => host.leaf.signer = disk.caKey /\ host.public.signer = disk.caKey

StartupInv == StartupTypeOK /\ IdentityHolds /\ CaHolds /\ LeafHolds

LEMMA NewLeafIs ==
  ASSUME NEW a \in Addresses, NEW s \in Secrets \cup {NoSecret}
  PROVE  /\ NewLeaf(a, s) \in Leaves
         /\ NewLeaf(a, s).there = "both" /\ NewLeaf(a, s).signer = s
  BY DEF NewLeaf, Leaves

LEMMA LoadedIs ==
  ASSUME NEW l \in Leaves
  PROVE  Loaded(l) \in Served /\ Loaded(l).signer = l.signer
  BY DEF Loaded, Leaves, Served

LEMMA NoHostIs ==
  ASSUME address \in Addresses
  PROVE  /\ NoHost \in [at: {"off", "boot", "tls", "leaf", "listen", "plain", "serving"},
                        id: Secrets \cup {NoSecret}, ca: Secrets \cup {NoSecret},
                        leaf: Served, public: Served]
         /\ NoHost.at = "off"
<1> DEFINE a == CHOOSE b \in Addresses : TRUE
<1>1. a \in Addresses
  OBVIOUS
<1>2. Loaded(NewLeaf(a, NoSecret)) \in Served
  BY <1>1, NewLeafIs, LoadedIs
<1>3. QED
  BY <1>2 DEF NoHost, NoLeaf

\* What ensure_leaf leaves on the disk, whole or cut.
LEMMA IssuedIs ==
  ASSUME StartupTypeOK, NEW ca \in Secrets
  PROVE  /\ Issued(ca) \in Leaves /\ Issued(ca).there = "both"
         /\ Issued(ca).signer = ca \/ (Issued(ca) = disk.leaf)
  BY NewLeafIs DEF StartupTypeOK, Issued, Current, Identities, leaf

LEMMA CutLeafIs ==
  ASSUME StartupTypeOK, NEW ca \in Secrets, NEW l \in CutLeaves(ca)
  PROVE  /\ l \in Leaves /\ (l.signer = ca \/ l = disk.leaf)
         /\ disk.leaf.there = "both" => l.there = "both"
<1>1. disk.leaf \in Leaves /\ address \in Addresses
  BY DEF StartupTypeOK
<1>2. l \in {[NewLeaf(address, ca) EXCEPT !.there = IF disk.leaf.there = "both" THEN "both" ELSE "crt",
                                        !.pair = FALSE, !.sans = disk.leaf.sans],
             [NewLeaf(address, ca) EXCEPT !.pair = FALSE, !.sans = disk.leaf.sans],
             [NewLeaf(address, ca) EXCEPT !.sans = disk.leaf.sans], disk.leaf}
  BY DEF CutLeaves, Identities, leaf
<1>3. QED
  <2>1. CASE l = disk.leaf
    BY <1>1, <2>1
  <2>2. ASSUME NEW w \in {"both", "crt"}, disk.leaf.there = "both" => w = "both",
               \/ l = [NewLeaf(address, ca) EXCEPT !.there = w, !.pair = FALSE, !.sans = disk.leaf.sans]
               \/ l = [NewLeaf(address, ca) EXCEPT !.pair = FALSE, !.sans = disk.leaf.sans]
               \/ l = [NewLeaf(address, ca) EXCEPT !.sans = disk.leaf.sans]
        PROVE  l \in Leaves /\ l.signer = ca /\ (disk.leaf.there = "both" => l.there = "both")
    <3>1. PICK there \in {"both", "crt"}, pair \in BOOLEAN :
            /\ l = [there |-> there, pair |-> pair, due |-> FALSE, covers |-> address,
                    sans |-> disk.leaf.sans, signer |-> ca]
            /\ disk.leaf.there = "both" => there = "both"
      BY <2>2 DEF NewLeaf
    <3>2. disk.leaf.sans \in Addresses
      BY <1>1 DEF Leaves
    <3>3. QED
      BY <1>1, <3>1, <3>2 DEF Leaves
  <2>3. (IF disk.leaf.there = "both" THEN "both" ELSE "crt") \in {"both", "crt"}
    OBVIOUS
  <2>4. QED
    BY <1>2, <2>1, <2>2, <2>3

LEMMA StartupStarts == StartupInit => StartupInv
<1> SUFFICES ASSUME StartupInit PROVE StartupInv
  OBVIOUS
<1>1. PICK s \in Secrets \cup {NoSecret}, f \in {"v1", "v2"} :
        /\ disk = [config |-> "whole", identity |-> s, format |-> f, caCrt |-> s, caKey |-> s,
                   leaf |-> [NewLeaf(address, s) EXCEPT !.there = IF s = NoSecret THEN "none" ELSE @]]
        /\ pinned = [id |-> s, ca |-> s]
  BY DEF StartupInit
<1>2. address \in Addresses /\ host = NoHost
  BY DEF StartupInit
<1>3. /\ disk.leaf \in Leaves
      /\ disk.leaf.there = IF s = NoSecret THEN "none" ELSE "both"
      /\ disk.leaf.signer = s
  BY <1>1, <1>2 DEF NewLeaf, Leaves
<1>4. StartupTypeOK
  BY <1>1, <1>2, <1>3, NoHostIs DEF StartupTypeOK, Files
<1>5. QED
  BY <1>1, <1>2, <1>3, <1>4, NoHostIs, StartupConstants
  DEF StartupInv, IdentityHolds, CaHolds, LeafHolds, Running


LEMMA StartupKept == StartupInv /\ [StartupNext]_bootVars => StartupInv'
<1> SUFFICES ASSUME StartupInv, [StartupNext]_bootVars PROVE StartupInv'
  OBVIOUS
<1> USE StartupConstants DEF StartupInv
<1>1. /\ disk.identity \in Files /\ disk.caCrt \in Files /\ disk.caKey \in Files
      /\ disk.leaf \in Leaves /\ address \in Addresses
      /\ host.id \in Secrets \cup {NoSecret} /\ host.ca \in Secrets \cup {NoSecret}
      /\ host.leaf \in Served /\ host.public \in Served
      /\ pinned.id \in Secrets \cup {NoSecret} /\ pinned.ca \in Files
  BY DEF StartupTypeOK
\* A process that ended asks nothing of the disk.
<1>2. ASSUME Exit, UNCHANGED <<pinned, address>>, StartupTypeOK => StartupTypeOK',
             disk'.identity \in {disk.identity, "torn"},
             pinned.ca # NoSecret => disk'.caCrt = pinned.ca,
             disk'.caKey \in Secrets => disk'.caCrt = disk'.caKey,
             disk'.leaf.there # "none" => disk'.caKey \in Secrets /\ disk'.leaf.signer = disk'.caKey
      PROVE  StartupInv'
  BY <1>2, <1>1, NoHostIs DEF Exit, IdentityHolds, CaHolds, LeafHolds, Running
<1>3. ASSUME Exit, UNCHANGED <<disk, pinned, address>> PROVE StartupInv'
  <2>1. StartupTypeOK'
    BY <1>1, <1>3, NoHostIs DEF StartupTypeOK, Exit
  <2>2. QED
    BY <1>2, <1>3, <2>1 DEF CaHolds, LeafHolds
<1>4. CASE Launch
  BY <1>4 DEF Launch, OneInstance, StartupTypeOK, IdentityHolds, CaHolds, LeafHolds, Running
<1>5. CASE PersistSetting
  <2>1. PICK c \in {"short", "torn"} : disk' = [disk EXCEPT !.config = c]
    BY <1>5 DEF PersistSetting
  <2>2. UNCHANGED <<pinned, address>> /\ (Exit \/ UNCHANGED host)
    BY <1>5 DEF PersistSetting
  <2>3. /\ disk'.identity = disk.identity /\ disk'.caCrt = disk.caCrt /\ disk'.caKey = disk.caKey
        /\ disk'.leaf = disk.leaf
        /\ StartupTypeOK'
    BY <1>1, <2>1, <2>2, NoHostIs DEF StartupTypeOK, Exit
  <2>4. CASE Exit
    BY <1>2, <2>2, <2>3, <2>4 DEF CaHolds, LeafHolds
  <2>5. CASE UNCHANGED host
    BY <2>2, <2>3, <2>5 DEF IdentityHolds, CaHolds, LeafHolds
  <2>6. QED
    BY <2>2, <2>4, <2>5
<1>6. CASE LoadIdentity
  BY <1>6, <1>1 DEF LoadIdentity, StartupTypeOK, IdentityHolds, CaHolds, LeafHolds, Running
<1>7. CASE CreateIdentity
  <2>1. PICK s \in Secrets : /\ disk' = [disk EXCEPT !.identity = s, !.format = "v2"]
                             /\ host' = [host EXCEPT !.at = "tls", !.id = s]
    BY <1>7 DEF CreateIdentity
  <2>2. pinned.id = NoSecret /\ UNCHANGED <<pinned, address>>
    BY <1>7 DEF CreateIdentity, IdentityHolds
  <2>3. StartupTypeOK'
    BY <1>1, <2>1, <2>2 DEF StartupTypeOK, Files
  <2>4. QED
    BY <1>1, <2>1, <2>2, <2>3 DEF StartupTypeOK, IdentityHolds, CaHolds, LeafHolds, Running
<1>8. CASE IdentityWriteCut
  <2>1. /\ disk' = [disk EXCEPT !.identity = "torn"] /\ Exit /\ UNCHANGED <<pinned, address>>
    BY <1>8 DEF IdentityWriteCut
  <2>2. /\ disk'.identity = "torn" /\ disk'.caCrt = disk.caCrt /\ disk'.caKey = disk.caKey
        /\ disk'.leaf = disk.leaf
        /\ StartupTypeOK'
    BY <1>1, <2>1, NoHostIs DEF StartupTypeOK, Exit, Files
  <2>3. QED
    BY <1>2, <2>1, <2>2 DEF CaHolds, LeafHolds
<1>9. CASE IdentityUnreadable \/ Dies
  BY <1>3, <1>9 DEF IdentityUnreadable, Dies
<1>10. CASE LoadCa
  BY <1>1, <1>10 DEF LoadCa, CaLoads, StartupTypeOK, IdentityHolds, CaHolds, LeafHolds, Running
<1>11. CASE NoCa
  BY <1>1, <1>11 DEF NoCa, StartupTypeOK, IdentityHolds, CaHolds, LeafHolds, Running
\* Nothing was pinned and no leaf issued of a CA that is missing.
<1>12. ASSUME CaMissing
       PROVE  /\ disk.caCrt = NoSecret /\ disk.caKey = NoSecret
              /\ pinned.ca = NoSecret /\ disk.leaf.there = "none"
  BY <1>1, <1>12 DEF CaMissing, Incomplete, CaHolds, LeafHolds
<1>13. CASE CreateCa
  <2>1. /\ disk.caCrt = NoSecret /\ disk.caKey = NoSecret
        /\ pinned.ca = NoSecret /\ disk.leaf.there = "none"
        /\ UNCHANGED <<pinned, address>> /\ host.at = "tls"
    <3>1. CaMissing /\ host.at = "tls" /\ UNCHANGED <<pinned, address>>
      <4>1. CaMissing /\ host.at = "tls"
        BY <1>13 DEF CreateCa
      <4>2. pinned' = pinned /\ address' = address
        BY <1>13, Zenon DEF CreateCa
      <4>3. QED
        BY <4>1, <4>2
    <3>2. QED
      BY <1>12, <3>1
  <2>2. PICK s \in Secrets \ {pinned.ca, disk.caCrt} :
          \/ /\ disk' = [disk EXCEPT !.caCrt = s, !.caKey = s]
             /\ host' = [host EXCEPT !.at = "leaf", !.ca = s]
          \/ /\ \/ disk' \in {disk, [disk EXCEPT !.caCrt = "torn"]}
                \/ disk' = [disk EXCEPT !.caCrt = s]
                \/ disk' = [disk EXCEPT !.caCrt = s, !.caKey = "torn"]
             /\ Exit \/ host' = [host EXCEPT !.at = "plain"]
    BY <1>13 DEF CreateCa
  <2>3. PICK crt \in Files, key \in Files :
          /\ disk' = [disk EXCEPT !.caCrt = crt, !.caKey = key]
          /\ key \in Secrets => crt = key
          /\ \/ key = s /\ host' = [host EXCEPT !.at = "leaf", !.ca = s]
             \/ Exit \/ host' = [host EXCEPT !.at = "plain"]
    <3>1. disk = [disk EXCEPT !.caCrt = disk.caCrt, !.caKey = disk.caKey]
      BY DEF StartupTypeOK
    <3>2. \A x : [disk EXCEPT !.caCrt = x] = [disk EXCEPT !.caCrt = x, !.caKey = disk.caKey]
      BY DEF StartupTypeOK
    <3>3. s \in Files /\ "torn" \in Files /\ NoSecret \in Files
      BY DEF Files
    <3>4. QED
      BY <2>1, <2>2, <3>1, <3>2, <3>3
  <2>4. /\ disk'.identity = disk.identity /\ disk'.caCrt = crt /\ disk'.caKey = key
        /\ disk'.leaf = disk.leaf
    BY <2>3 DEF StartupTypeOK
  <2>5. StartupTypeOK'
    BY <2>1, <2>3, NoHostIs DEF StartupTypeOK, Exit
  <2>6. CASE Exit
    BY <1>2, <2>1, <2>3, <2>4, <2>5, <2>6
  <2>7. CASE key = s /\ host' = [host EXCEPT !.at = "leaf", !.ca = s]
    BY <2>1, <2>3, <2>4, <2>5, <2>7 DEF StartupTypeOK, IdentityHolds, CaHolds, LeafHolds, Running
  <2>8. CASE host' = [host EXCEPT !.at = "plain"]
    BY <2>1, <2>3, <2>4, <2>5, <2>8 DEF StartupTypeOK, IdentityHolds, CaHolds, LeafHolds, Running
  <2>9. QED
    BY <2>3, <2>6, <2>7, <2>8

\* A step that only puts another leaf on the disk.
<1>14. ASSUME NEW l \in Leaves, disk' = [disk EXCEPT !.leaf = l]
       PROVE  /\ disk'.identity = disk.identity /\ disk'.caCrt = disk.caCrt
              /\ disk'.caKey = disk.caKey /\ disk'.leaf = l
              /\ disk' \in [config: {"whole", "short", "torn"}, identity: Files,
                            format: {"v1", "v2"}, caCrt: Files, caKey: Files, leaf: Leaves]
  BY <1>14 DEF StartupTypeOK
<1>15. CASE EnsureLeaf
  <2> DEFINE l == Issued(host.ca)
  <2>1. /\ disk' = [disk EXCEPT !.leaf = l] /\ host' = [host EXCEPT !.at = "listen"]
        /\ UNCHANGED <<pinned, address>> /\ host.at = "leaf"
    BY <1>15 DEF EnsureLeaf
  <2>2. host.ca \in Secrets /\ host.ca = disk.caKey
    BY <2>1 DEF CaHolds
  <2>3. l \in Leaves /\ l.there = "both" /\ l.signer = disk.caKey
    BY <2>2, IssuedIs DEF LeafHolds
  <2> HIDE DEF l
  <2>4. StartupTypeOK'
    BY <1>14, <2>1, <2>3 DEF StartupTypeOK
  <2>5. QED
    BY <1>14, <2>1, <2>2, <2>3, <2>4 DEF StartupTypeOK, IdentityHolds, CaHolds, LeafHolds, Running
<1>16. ASSUME NEW ca \in Secrets, ca = disk.caKey, NEW l \in CutLeaves(ca)
       PROVE  /\ l \in Leaves
              /\ l.there # "none" => l.signer = disk.caKey
              /\ disk.leaf.there = "both" => l.there = "both" /\ l.signer = disk.caKey
  BY <1>16, CutLeafIs DEF LeafHolds
<1>17. CASE LeafCut
  <2>1. host.ca \in Secrets /\ host.ca = disk.caKey /\ host.at = "leaf"
    BY <1>17 DEF LeafCut, CaHolds
  <2>2. PICK l \in CutLeaves(host.ca) :
          /\ disk' = [disk EXCEPT !.leaf = l]
          /\ \/ Exit
             \/ host' = [host EXCEPT !.at = IF l.there = "both" THEN "listen" ELSE "plain"]
    BY <1>17 DEF LeafCut
  <2>3. UNCHANGED <<pinned, address>>
    BY <1>17 DEF LeafCut
  <2>4. l \in Leaves /\ (l.there # "none" => l.signer = disk.caKey)
    BY <1>16, <2>1, <2>2
  <2>5. StartupTypeOK'
    BY <1>1, <1>14, <2>2, <2>3, <2>4, NoHostIs DEF StartupTypeOK, Exit
  <2>6. CASE Exit
    BY <1>2, <1>14, <2>1, <2>2, <2>3, <2>4, <2>5, <2>6 DEF CaHolds
  <2>7. CASE ~Exit
    BY <1>14, <2>1, <2>2, <2>3, <2>4, <2>5, <2>7
    DEF StartupTypeOK, IdentityHolds, CaHolds, LeafHolds, Running
  <2>8. QED
    BY <2>6, <2>7
<1>18. CASE Listen
  <2>1. UNCHANGED <<disk, pinned, address>> /\ host.at = "listen"
    BY <1>18 DEF Listen
  <2>2. CASE Exit
    BY <1>3, <2>1, <2>2
  <2>3. CASE host' = [host EXCEPT !.at = "serving", !.leaf = Loaded(disk.leaf),
                                  !.public = Loaded(disk.leaf)]
    <3>1. Loaded(disk.leaf) \in Served /\ Loaded(disk.leaf).signer = disk.caKey
      BY <1>1, <2>1, LoadedIs DEF LeafHolds
    <3>2. QED
      BY <2>1, <2>3, <3>1 DEF StartupTypeOK, IdentityHolds, CaHolds, LeafHolds, Running
  <2>4. QED
    BY <1>18, <2>2, <2>3 DEF Listen, leaf
\* What the renewal of a leaf leaves behind, whole or cut.
<1>19. ASSUME NEW l \in Leaves, l.there = "both", l.signer = disk.caKey, host.at = "serving",
              disk' = [disk EXCEPT !.leaf = l], Exit \/ host' = Reload(l),
              UNCHANGED <<pinned, address>>
       PROVE  StartupInv'
  <2>1. disk.caKey \in Secrets
    BY <1>19 DEF LeafHolds
  <2>2. Loaded(l) \in Served /\ Loaded(l).signer = disk.caKey
    BY <1>19, LoadedIs
  <2>3. StartupTypeOK'
    BY <1>1, <1>14, <1>19, <2>2, NoHostIs DEF StartupTypeOK, Exit, Reload
  <2>4. CASE Exit
    BY <1>2, <1>14, <1>19, <2>1, <2>3, <2>4 DEF CaHolds
  <2>5. CASE host' = Reload(l)
    <3>1. /\ host'.at = "serving" /\ host'.id = host.id
          /\ host'.leaf.signer = disk.caKey /\ host'.public.signer = disk.caKey
      BY <1>19, <2>2, <2>5 DEF Reload, StartupTypeOK, LeafHolds
    <3>2. QED
      BY <1>14, <1>19, <2>1, <2>3, <3>1 DEF IdentityHolds, CaHolds, LeafHolds, Running
  <2>6. QED
    BY <1>19, <2>4, <2>5
<1>20. CASE Renew
  <2> DEFINE l == Issued(disk.caKey)
  <2>1. /\ disk' = [disk EXCEPT !.leaf = l] /\ host' = Reload(l)
        /\ UNCHANGED <<pinned, address>> /\ host.at = "serving" /\ disk.caKey \in Secrets
    BY <1>20 DEF Renew, CaLoads
  <2>2. l \in Leaves /\ l.there = "both" /\ l.signer = disk.caKey
    BY <2>1, IssuedIs DEF LeafHolds
  <2>3. QED
    BY <1>19, <2>1, <2>2
<1>21. CASE RenewCut
  <2>1. disk.caKey \in Secrets /\ host.at = "serving" /\ disk.leaf.there = "both"
    BY <1>21 DEF RenewCut, CaLoads, LeafHolds
  <2>2. PICK l \in CutLeaves(disk.caKey) :
          disk' = [disk EXCEPT !.leaf = l] /\ (Exit \/ host' = Reload(l))
    BY <1>21 DEF RenewCut
  <2>3. l \in Leaves /\ l.there = "both" /\ l.signer = disk.caKey
    BY <1>16, <2>1, <2>2
  <2>4. UNCHANGED <<pinned, address>>
    BY <1>21 DEF RenewCut
  <2>5. QED
    BY <1>19, <2>1, <2>2, <2>3, <2>4
<1>22. CASE Setup
  <2>1. UNCHANGED <<host, pinned, address>> /\ host.at \in {"off", "plain", "serving"}
    BY <1>22 DEF Setup
  <2>2. CASE CaLoads /\ disk' = [disk EXCEPT !.leaf = Issued(disk.caKey)]
    <3> DEFINE l == Issued(disk.caKey)
    <3>1. disk' = [disk EXCEPT !.leaf = l] /\ disk.caKey \in Secrets
      BY <2>2 DEF CaLoads
    <3>2. l \in Leaves /\ l.there = "both" /\ l.signer = disk.caKey
      BY <3>1, IssuedIs DEF LeafHolds
    <3> HIDE DEF l
    <3>3. StartupTypeOK'
      BY <1>14, <2>1, <3>1, <3>2 DEF StartupTypeOK
    <3>4. QED
      BY <1>14, <2>1, <3>1, <3>2, <3>3 DEF IdentityHolds, CaHolds, LeafHolds
  <2>3. CASE CaMissing /\ \E s \in Secrets \ {pinned.ca, disk.caCrt} :
               disk' = [disk EXCEPT !.caCrt = s, !.caKey = s, !.leaf = Issued(s)]
    <3>1. PICK s \in Secrets : disk' = [disk EXCEPT !.caCrt = s, !.caKey = s, !.leaf = Issued(s)]
      BY <2>3
    <3>2. pinned.ca = NoSecret /\ disk.leaf.there = "none"
      BY <1>12, <2>3
    <3>3. Issued(s) \in Leaves /\ Issued(s).there = "both" /\ Issued(s).signer = s
      BY <3>2, IssuedIs
    <3>4. /\ disk'.identity = disk.identity /\ disk'.caCrt = s /\ disk'.caKey = s
          /\ disk'.leaf = Issued(s)
      BY <3>1 DEF StartupTypeOK
    <3>5. StartupTypeOK'
      BY <2>1, <3>1, <3>3 DEF StartupTypeOK, Files
    <3>6. host.at # "serving"
      BY <3>2 DEF LeafHolds
    <3>7. QED
      BY <2>1, <3>2, <3>3, <3>4, <3>5, <3>6 DEF IdentityHolds, CaHolds, LeafHolds
  <2>4. QED
    BY <1>22, <2>2, <2>3 DEF Setup
<1>23. CASE DevicePairs
  BY <1>23, <1>1 DEF DevicePairs, StartupTypeOK, IdentityHolds, CaHolds, LeafHolds, Running
<1>24. CASE DeviceTrustsCa
  BY <1>24, <1>1 DEF DeviceTrustsCa, StartupTypeOK, IdentityHolds, CaHolds, LeafHolds, Running
<1>25. CASE AddressChanges
  BY <1>25 DEF AddressChanges, StartupTypeOK, IdentityHolds, CaHolds, LeafHolds
<1>26. CASE MonthsPass
  <2>1. /\ disk' = [disk EXCEPT !.leaf.due = TRUE] /\ UNCHANGED <<pinned, address>>
        /\ host' = [host EXCEPT !.leaf.due = TRUE, !.public.due = TRUE]
    BY <1>26 DEF MonthsPass
  <2>2. StartupTypeOK'
    BY <2>1 DEF StartupTypeOK, Leaves, Served
  <2>3. /\ disk'.identity = disk.identity /\ disk'.caCrt = disk.caCrt /\ disk'.caKey = disk.caKey
        /\ disk'.leaf.there = disk.leaf.there /\ disk'.leaf.signer = disk.leaf.signer
        /\ host'.at = host.at /\ host'.id = host.id /\ host'.ca = host.ca
        /\ host'.leaf.signer = host.leaf.signer /\ host'.public.signer = host.public.signer
    BY <2>1 DEF StartupTypeOK, Leaves, Served
  <2>4. QED
    BY <2>1, <2>2, <2>3 DEF IdentityHolds, CaHolds, LeafHolds
<1>27. CASE UNCHANGED bootVars
  BY <1>27 DEF bootVars, StartupTypeOK, IdentityHolds, CaHolds, LeafHolds
<1>28. QED
  BY <1>4, <1>5, <1>6, <1>7, <1>8, <1>9, <1>10, <1>11, <1>13, <1>15, <1>17, <1>18, <1>20,
     <1>21, <1>22, <1>23, <1>24, <1>25, <1>26, <1>27 DEF StartupNext

(* TrustStays, for any number of starts, crashes and renewals.  A secret is *)
(* never drawn twice: CreateIdentity and CreateCa exclude what is pinned.   *)
THEOREM RestartsKeepTrust == ServicesSpec => []TrustStays
<1>1. StartupInv => TrustStays
  BY StartupConstants
  DEF StartupInv, IdentityHolds, CaHolds, LeafHolds, Running, TrustStays
<1>2. StartupSpec => []StartupInv
  BY StartupStarts, StartupKept, PTL DEF StartupSpec
<1>3. QED
  BY <1>1, <1>2, ServicesStayApart, PTL

------------------------------------------------------------------------------
(* Negotiation.  Whatever is asked for, a configuration has a picture large *)
(* enough that the policy's maximum stays above the floor of 600 kbps, and  *)
(* a provisional one carries the asked cap until the capabilities come.     *)

\* What a hello may ask for, and what fits the bounds of clamp_mode.
Asks == [w: Nat, h: Nat, fps: Nat, cap: Optional(Nat), target: {"desktop", "game"}]
Fits(m) ==
  640 <= m.w /\ m.w <= 3840 /\ 360 <= m.h /\ m.h <= 2160 /\ 15 <= m.fps /\ m.fps <= 240
Fitting == {m \in Asks : Fits(m)}

LEMMA ChooseOne == ASSUME NEW x PROVE (CHOOSE y \in {x} : TRUE) = x
  OBVIOUS

LEMMA EvenIs ==
  ASSUME NEW n \in Nat
  PROVE  /\ Even(n) \in Nat /\ Even(n) <= n
         /\ \A k \in {320, 180} : n >= 2 * k => Even(n) >= 2 * k
  BY DEF Even

LEMMA ProductGrows ==
  ASSUME NEW a \in Nat, NEW b \in Nat, NEW c \in Nat, NEW d \in Nat, a >= c, b >= d
  PROVE  a * b \in Nat /\ a * b >= c * d
<1>1. a * b >= c * b /\ c * b >= c * d
  OBVIOUS
<1>2. QED
  BY <1>1

LEMMA Quotient ==
  ASSUME NEW x \in Nat, NEW n \in Nat, n > 0, NEW k \in Nat, x <= k * n
  PROVE  x \div n \in Nat /\ x \div n <= k
<1> DEFINE q == x \div n
           r == x % n
<1>1. q \in Nat /\ r \in 0..(n - 1) /\ x = n * q + r
  OBVIOUS
<1> HIDE DEF q, r
<1>2. ASSUME q >= k + 1 PROVE FALSE
  <2>1. q * n >= (k + 1) * n
    BY <1>1, <1>2, ProductGrows
  <2>2. (k + 1) * n = k * n + n /\ q * n = n * q
    BY <1>1
  <2>3. k * n \in Nat /\ n * q \in Nat
    BY <1>1
  <2>4. QED
    BY <1>1, <2>1, <2>2, <2>3
<1>3. q \in Nat /\ q <= k
  BY <1>1, <1>2
<1>4. QED
  BY <1>3 DEF q

LEMMA PixelRateIs ==
  ASSUME NEW m \in Fitting
  PROVE  PixelRate(m) \in Nat /\ PixelRate(m) >= 3456000
<1>1. /\ m.w \in Nat /\ m.h \in Nat /\ m.fps \in Nat
      /\ m.w >= 640 /\ m.h >= 360 /\ m.fps >= 15
  BY DEF Fitting, Fits, Asks
<1> DEFINE n == m.w * m.h
<1>2. n \in Nat /\ n >= 640 * 360
  BY <1>1, ProductGrows
<1> HIDE DEF n
<1>3. n >= 230400
  BY <1>2
<1>4. n * m.fps \in Nat /\ n * m.fps >= 230400 * 15
  BY <1>1, <1>2, <1>3, ProductGrows
<1>5. QED
  BY <1>4 DEF PixelRate, n

LEMMA PolicyIs ==
  ASSUME NEW codec \in Codecs, NEW m \in Fitting
  PROVE  /\ PolicyMax(codec, m) \in Nat /\ PolicyMax(codec, m) >= 600
         /\ PolicyStart(codec, m) \in Nat /\ PolicyStart(codec, m) >= 4000
<1> DEFINE q == PixelRate(m)
<1>1. q \in Nat /\ q >= 3456000
  BY PixelRateIs
<1> HIDE DEF q
<1>2. Times(q, 5, 31104) \in Nat /\ Times(q, 5, 31104) >= 353
  BY <1>1 DEF Times
<1>3. Times(q, 7, 62208) \in Nat /\ Times(q, 7, 62208) >= 353
  BY <1>1 DEF Times
<1>4. Scaled(codec, m) \in Nat /\ Scaled(codec, m) >= 353
  BY <1>2, <1>3 DEF Scaled, q
<1>5. (Scaled(codec, m) * 17) \div 10 \in Nat /\ (Scaled(codec, m) * 17) \div 10 >= 600
  BY <1>4
<1>6. AtLeast(Scaled(codec, m), 4000) \in Nat /\ AtLeast(Scaled(codec, m), 4000) >= 4000
  BY <1>4 DEF AtLeast
<1>7. QED
  BY <1>5, <1>6 DEF PolicyMax, PolicyStart, TableMax, TableStart

LEMMA WithinIs ==
  ASSUME NEW n \in Nat, NEW low \in Nat, NEW high \in Nat, low <= high
  PROVE  /\ Within(n, low, high) \in low..high /\ Within(n, low, high) \in Nat
         /\ \A k \in Nat : low <= k /\ n <= k => Within(n, low, high) <= k
  BY DEF Within

LEMMA MaxRateIs ==
  ASSUME NEW codec \in Codecs, NEW m \in Fitting
  PROVE  /\ MaxRate(codec, m) \in Nat /\ MaxRate(codec, m) >= 600
         /\ \A c \in m.cap : MaxRate(codec, m) = Within(c, 2000, 120000)
<1>1. CASE m.cap = {}
  BY <1>1, PolicyIs DEF MaxRate
<1>2. CASE m.cap # {}
  <2>1. PICK c \in Nat : m.cap = {c}
    BY <1>2 DEF Fitting, Asks, Optional
  <2>2. {Within(d, 2000, 120000) : d \in m.cap} = {Within(c, 2000, 120000)}
    BY <2>1
  <2>3. MaxRate(codec, m) = Within(c, 2000, 120000)
    BY <1>2, <2>2, ChooseOne DEF MaxRate
  <2>4. QED
    BY <2>1, <2>3, WithinIs
<1>3. QED
  BY <1>1, <1>2

\* A configuration that can be served: the rates are in order.
Configs ==
  {c \in [codec: Codecs, w: Nat, h: Nat, fps: Nat, target: {"desktop", "game"},
          backend: {"pending", "hardware"}, max: Nat, min: {600}, start: Nat] :
     Fits(c) /\ 600 <= c.start /\ c.start <= c.max /\ c.start <= 6000}

LEMMA BuildIs ==
  ASSUME NEW codec \in Codecs, NEW m \in Fitting, NEW backend \in {"pending", "hardware"}
  PROVE  /\ BuildConfig(codec, m, backend) \in Configs
         /\ LET c == BuildConfig(codec, m, backend)
            IN /\ c.codec = codec /\ c.w = m.w /\ c.h = m.h /\ c.fps = m.fps
               /\ c.target = m.target /\ c.backend = backend
               /\ \A k \in m.cap : c.max = Within(k, 2000, 120000)
<1> DEFINE high == MaxRate(codec, m)
           rate == AtMost(AtMost(PolicyStart(codec, m), high), 6000)
<1>1. high \in Nat /\ high >= 600
  BY MaxRateIs
<1>2. rate \in Nat /\ rate >= 600 /\ rate <= high /\ rate <= 6000
  BY <1>1, PolicyIs DEF AtMost
<1>3. BuildConfig(codec, m, backend) =
        [codec |-> codec, w |-> m.w, h |-> m.h, fps |-> m.fps, target |-> m.target,
         backend |-> backend, max |-> high, min |-> 600, start |-> rate]
  BY DEF BuildConfig
<1>4. \A k \in m.cap : high = Within(k, 2000, 120000)
  BY MaxRateIs
<1> HIDE DEF high, rate
<1>5. QED
  BY <1>1, <1>2, <1>3, <1>4 DEF Configs, Fitting, Asks, Fits

\* The bounds of clamp_mode are even, so rounding down to even keeps them.
LEMMA SizeIs ==
  ASSUME NEW n \in Nat
  PROVE  /\ Even(Within(n, 640, 3840)) \in Nat /\ 640 <= Even(Within(n, 640, 3840)) /\ Even(Within(n, 640, 3840)) <= 3840
         /\ Even(Within(n, 360, 2160)) \in Nat /\ 360 <= Even(Within(n, 360, 2160)) /\ Even(Within(n, 360, 2160)) <= 2160
         /\ n <= 960 => Even(Within(n, 640, 3840)) <= 960
         /\ n <= 540 => Even(Within(n, 360, 2160)) <= 540
         /\ n = 960 => Even(Within(n, 640, 3840)) = 960
         /\ n = 540 => Even(Within(n, 360, 2160)) = 540
<1>1. /\ Within(n, 640, 3840) \in Nat /\ Within(n, 640, 3840) >= 640 /\ Within(n, 640, 3840) <= 3840
      /\ n <= 960 => Within(n, 640, 3840) <= 960
      /\ n = 960 => Within(n, 640, 3840) = 960
  BY DEF Within
<1>2. /\ Within(n, 360, 2160) \in Nat /\ Within(n, 360, 2160) >= 360 /\ Within(n, 360, 2160) <= 2160
      /\ n <= 540 => Within(n, 360, 2160) <= 540
      /\ n = 540 => Within(n, 360, 2160) = 540
  BY DEF Within
<1>3. Even(960) = 960 /\ Even(540) = 540
  BY DEF Even
<1>4. /\ Even(Within(n, 640, 3840)) \in Nat /\ Even(Within(n, 640, 3840)) >= 640
      /\ Even(Within(n, 640, 3840)) <= Within(n, 640, 3840)
  BY <1>1, EvenIs
<1>5. /\ Even(Within(n, 360, 2160)) \in Nat /\ Even(Within(n, 360, 2160)) >= 360
      /\ Even(Within(n, 360, 2160)) <= Within(n, 360, 2160)
  BY <1>2, EvenIs
<1>6. n = 960 => Even(Within(n, 640, 3840)) = 960
  BY <1>1, <1>3
<1>7. n = 540 => Even(Within(n, 360, 2160)) = 540
  BY <1>2, <1>3
<1>8. /\ Even(Within(n, 640, 3840)) \in Nat /\ 640 <= Even(Within(n, 640, 3840)) /\ Even(Within(n, 640, 3840)) <= 3840
      /\ n <= 960 => Even(Within(n, 640, 3840)) <= 960
  BY <1>1, <1>4
<1>9. /\ Even(Within(n, 360, 2160)) \in Nat /\ 360 <= Even(Within(n, 360, 2160)) /\ Even(Within(n, 360, 2160)) <= 2160
      /\ n <= 540 => Even(Within(n, 360, 2160)) <= 540
  BY <1>2, <1>5
<1>10. QED
  BY <1>6, <1>7, <1>8, <1>9

LEMMA ClampIs ==
  ASSUME NEW m \in Asks
  PROVE  /\ ClampMode(m) \in Fitting
         /\ SizeKept(ClampMode(m), m) /\ ClampMode(m).fps = Within(m.fps, 15, 240)
         /\ ClampMode(m).cap = m.cap /\ ClampMode(m).target = m.target
<1> DEFINE w == Even(Within(m.w, 640, 3840))
           h == Even(Within(m.h, 360, 2160))
           f == Within(m.fps, 15, 240)
           c == ClampMode(m)
<1>1. m.w \in Nat /\ m.h \in Nat /\ m.fps \in Nat
  BY DEF Asks
<1>2. w \in Nat /\ 640 <= w /\ w <= 3840
  BY <1>1, SizeIs
<1>9. h \in Nat /\ 360 <= h /\ h <= 2160
  BY <1>1, SizeIs
<1>3. f \in Nat /\ 15 <= f /\ f <= 240
  BY <1>1 DEF Within
<1>4. c = [m EXCEPT !.w = w, !.h = h, !.fps = f]
  BY DEF ClampMode
<1>5. w = Even(Within(m.w, 640, 3840)) /\ h = Even(Within(m.h, 360, 2160)) /\ f = Within(m.fps, 15, 240)
  OBVIOUS
<1> HIDE DEF w, h, f, c
<1>6. /\ c \in Asks /\ c.w = w /\ c.h = h /\ c.fps = f
      /\ c.cap = m.cap /\ c.target = m.target
  <2>1. w \in Nat /\ h \in Nat /\ f \in Nat
    BY <1>2, <1>3, <1>9
  <2>2. QED
    BY <1>4, <2>1 DEF Asks
<1>7. c \in Fitting
  BY <1>2, <1>3, <1>6, <1>9 DEF Fitting, Fits
<1>8. SizeKept(c, m)
  BY <1>5, <1>6 DEF SizeKept
<1>10. QED
  BY <1>5, <1>6, <1>7, <1>8 DEF c

\* A preview's mode is a tile of the desktop at no more than 2500 kbps.
LEMMA PreviewIs ==
  ASSUME NEW m \in Asks
  PROVE  /\ PreviewMode(m) \in Asks
         /\ PreviewMode(m).w <= 960 /\ PreviewMode(m).h <= 540
         /\ PreviewMode(m).fps = AtMost(m.fps, 30)
         /\ IF m.w <= 960 /\ m.h <= 540
            THEN PreviewMode(m).w = m.w /\ PreviewMode(m).h = m.h
            ELSE PreviewMode(m).w = 960 \/ PreviewMode(m).h = 540
         /\ PreviewMode(m).target = "desktop"
         /\ \E k \in Nat : /\ PreviewMode(m).cap = {k} /\ k <= 2500
                           /\ \A c \in m.cap : k = AtMost(c, 2500)
<1> DEFINE narrow == 960 * m.h <= 540 * m.w
           large == m.w > 960 \/ m.h > 540
           w == IF ~large THEN m.w ELSE IF narrow THEN 960 ELSE Even((m.w * 540) \div m.h)
           h == IF ~large THEN m.h ELSE IF narrow THEN Even((m.h * 960) \div m.w) ELSE 540
           f == AtMost(m.fps, 30)
           caps == {AtMost(c, 2500) : c \in IF m.cap = {} THEN {2500} ELSE m.cap}
<1>1. m.w \in Nat /\ m.h \in Nat /\ m.fps \in Nat
  BY DEF Asks
<1>2. w \in Nat /\ w <= 960
  <2>1. CASE large /\ ~narrow
    <3>1. m.h > 0 /\ m.w * 540 <= 960 * m.h /\ m.w * 540 \in Nat
      BY <1>1, <2>1
    <3>2. (m.w * 540) \div m.h \in Nat /\ (m.w * 540) \div m.h <= 960
      BY <1>1, <3>1, Quotient
    <3>3. QED
      BY <2>1, <3>2, EvenIs
  <2>2. QED
    BY <1>1, <2>1
<1>3. h \in Nat /\ h <= 540
  <2>1. CASE large /\ narrow
    <3>1. m.w > 0 /\ m.h * 960 <= 540 * m.w /\ m.h * 960 \in Nat
      BY <1>1, <2>1
    <3>2. (m.h * 960) \div m.w \in Nat /\ (m.h * 960) \div m.w <= 540
      BY <1>1, <3>1, Quotient
    <3>3. QED
      BY <2>1, <3>2, EvenIs
  <2>2. QED
    BY <1>1, <2>1
<1>4. f \in Nat /\ f = AtMost(m.fps, 30)
  BY <1>1 DEF AtMost
<1>5. PICK k \in Nat : caps = {k} /\ k <= 2500 /\ \A c \in m.cap : k = AtMost(c, 2500)
  <2>1. CASE m.cap = {}
    <3>1. caps = {2500}
      BY <2>1 DEF AtMost
    <3>2. QED
      BY <2>1, <3>1
  <2>2. CASE m.cap # {}
    <3>1. PICK c \in Nat : m.cap = {c}
      BY <2>2 DEF Asks, Optional
    <3>2. caps = {AtMost(c, 2500)}
      BY <3>1
    <3>3. AtMost(c, 2500) \in Nat /\ AtMost(c, 2500) <= 2500
      BY DEF AtMost
    <3>4. QED
      BY <3>1, <3>2, <3>3
  <2>3. QED
    BY <2>1, <2>2
<1>6. PreviewMode(m) = [m EXCEPT !.w = w, !.h = h, !.fps = f, !.cap = caps, !.target = "desktop"]
  BY DEF PreviewMode
<1>7. caps \in Optional(Nat)
  BY <1>5 DEF Optional
<1>10. IF m.w <= 960 /\ m.h <= 540 THEN w = m.w /\ h = m.h ELSE w = 960 \/ h = 540
  BY <1>1
<1> HIDE DEF w, h, f, caps
<1>8. /\ PreviewMode(m) \in Asks
      /\ PreviewMode(m).w = w /\ PreviewMode(m).h = h /\ PreviewMode(m).fps = f
      /\ PreviewMode(m).cap = caps /\ PreviewMode(m).target = "desktop"
  BY <1>2, <1>3, <1>4, <1>6, <1>7 DEF Asks
<1>9. QED
  BY <1>2, <1>3, <1>4, <1>5, <1>8, <1>10

LEMMA ProvisionalIs ==
  ASSUME NEW m \in Asks
  PROVE  /\ ProvisionalConfig(m) \in Configs
         /\ ProvisionalConfig(m).backend = "pending"
         /\ ProvisionalConfig(m).target = m.target
         /\ SizeKept(ProvisionalConfig(m), m)
         /\ ProvisionalConfig(m).fps = Within(m.fps, 15, 240)
         /\ \A k \in m.cap : ProvisionalConfig(m).max = Within(k, 2000, 120000)
<1>1. ClampMode(m) \in Fitting /\ "H265" \in Codecs
  BY ClampIs DEF Codecs
<1>2. /\ ProvisionalConfig(m) \in Configs /\ ProvisionalConfig(m).backend = "pending"
      /\ ProvisionalConfig(m).w = ClampMode(m).w /\ ProvisionalConfig(m).h = ClampMode(m).h
      /\ ProvisionalConfig(m).fps = ClampMode(m).fps
      /\ ProvisionalConfig(m).target = ClampMode(m).target
      /\ \A k \in ClampMode(m).cap : ProvisionalConfig(m).max = Within(k, 2000, 120000)
  BY <1>1, BuildIs DEF ProvisionalConfig
<1>3. SizeKept(ProvisionalConfig(m), m)
  BY <1>2, ClampIs DEF SizeKept
<1>4. QED
  BY <1>2, <1>3, ClampIs

\* An operator's default size may lie outside clamp_mode's bounds; a
\* configuration of that size is known by its size alone.
Unsized(c) == ~Sized(c) /\ c.w = DefaultWidth /\ c.h = DefaultHeight
Known(c) == c \in Configs \/ Unsized(c)

\* What capabilities copy of a configuration, whatever its size.
LEMMA SettledCopies ==
  ASSUME NEW codec, NEW base
  PROVE  /\ SettledConfig(codec, base).codec = codec
         /\ SettledConfig(codec, base).w = base.w /\ SettledConfig(codec, base).h = base.h
         /\ SettledConfig(codec, base).fps = base.fps
         /\ SettledConfig(codec, base).target = base.target
  BY DEF SettledConfig, BuildConfig

\* What the capabilities make of a configuration that was there before.
LEMMA SettledIs ==
  ASSUME NEW codec \in Codecs, NEW base \in Configs
  PROVE  /\ SettledConfig(codec, base) \in Configs
         /\ base.backend = "pending" =>
              SettledConfig(codec, base).max = Within(base.max, 2000, 120000)
<1> DEFINE m == [w |-> base.w, h |-> base.h, fps |-> base.fps, cap |-> AskedCap(base),
                 target |-> base.target]
<1>1. AskedCap(base) \in Optional(Nat) /\ (base.backend = "pending" => AskedCap(base) = {base.max})
  BY DEF AskedCap, Optional, Configs
<1>2. m \in Fitting
  BY <1>1 DEF Fitting, Configs, Asks, Fits
<1>3. /\ m.w = base.w /\ m.h = base.h /\ m.fps = base.fps /\ m.cap = AskedCap(base)
      /\ m.target = base.target
  OBVIOUS
<1>4. SettledConfig(codec, base) = BuildConfig(codec, m, "hardware")
  BY DEF SettledConfig
<1> HIDE DEF m
<1>5. QED
  BY <1>1, <1>2, <1>3, <1>4, BuildIs

LEMMA KnownSettles ==
  ASSUME NEW codec \in Codecs, NEW base, Known(base)
  PROVE  Known(SettledConfig(codec, base))
<1>1. CASE base \in Configs
  BY <1>1, SettledIs DEF Known
<1>2. CASE Unsized(base)
  BY <1>2, SettledCopies DEF Known, Unsized, Sized
<1>3. QED
  BY <1>1, <1>2 DEF Known

LEMMA DefaultIs ==
  ASSUME NEW codec \in Codecs
  PROVE  Known(DefaultConfig(codec)) /\ DefaultConfig(codec).target = "desktop"
<1> DEFINE m == [w |-> DefaultWidth, h |-> DefaultHeight, fps |-> DefaultRate,
                 cap |-> {}, target |-> "desktop"]
           c == DefaultConfig(codec)
<1>1. c = BuildConfig(codec, m, "hardware")
  BY DEF DefaultConfig
<1>2. c.w = DefaultWidth /\ c.h = DefaultHeight /\ c.target = "desktop"
  BY <1>1 DEF BuildConfig
<1>3. CASE Sized(c)
  <2>1. m \in Fitting
    <3>1. /\ DefaultWidth \in Nat /\ 640 <= DefaultWidth /\ DefaultWidth <= 3840
          /\ DefaultHeight \in Nat /\ 360 <= DefaultHeight /\ DefaultHeight <= 2160
      BY <1>2, <1>3, AskedFor DEF Sized
    <3>2. DefaultRate \in Nat /\ 15 <= DefaultRate /\ DefaultRate <= 240
      BY AskedFor
    <3>3. {} \in Optional(Nat)
      BY DEF Optional
    <3>4. QED
      BY <3>1, <3>2, <3>3 DEF Fitting, Asks, Fits
  <2> HIDE DEF m, c
  <2>2. c \in Configs
    BY <1>1, <2>1, BuildIs
  <2>3. QED
    BY <1>2, <2>2 DEF Known, c
<1>4. CASE ~Sized(c)
  BY <1>2, <1>4 DEF Known, Unsized
<1>5. QED
  BY <1>3, <1>4

LEMMA ChosenIs ==
  ASSUME NEW tells \in Said, Usable(tells) # {}
  PROVE  Chosen(tells) \in Usable(tells) /\ Chosen(tells) \in Codecs
  BY DEF Said, Usable, Chosen, Codecs


\* What is known of the session's configuration between two messages.
ConfigInv ==
  /\ link \in {"none", "player", "preview"}
  /\ config = {} \/ \E c : Known(c) /\ config = {c}
  /\ link = "preview" /\ ~crossed => \A c \in config : c.target = "desktop"
  /\ asked \subseteq Modes
  /\ \A m \in asked : ~crossed /\ config = {ProvisionalConfig(Admitted(m))}

OfferInv == ConfigInv /\ OfferFits /\ AskIsKept

LEMMA OfferStarts == NegotiationInit => OfferInv
  BY DEF NegotiationInit, OfferInv, ConfigInv, OfferFits, AskIsKept

LEMMA ModesAreAsks == Modes \subseteq Asks
<1>1. ASSUME NEW m \in Modes PROVE m \in Asks
  <2>1. m.cap \in Optional(Caps)
    BY DEF Modes
  <2>2. m.cap \in Optional(Nat)
    BY <2>1, AskedFor DEF Optional
  <2>3. m.w \in Widths /\ m.h \in Heights /\ m.fps \in Rates /\ m.target \in {"desktop", "game"}
    BY DEF Modes
  <2>4. m.w \in Nat /\ m.h \in Nat /\ m.fps \in Nat
    <3>1. Widths \subseteq Nat /\ Heights \subseteq Nat /\ Rates \subseteq Nat
      BY AskedFor
    <3>2. m.w \in Nat
      BY <2>3, <3>1
    <3>3. m.h \in Nat
      BY <2>3, <3>1
    <3>4. m.fps \in Nat
      BY <2>3, <3>1
    <3>5. QED
      BY <3>2, <3>3, <3>4
  <2>5. m = [w |-> m.w, h |-> m.h, fps |-> m.fps, cap |-> m.cap, target |-> m.target]
    BY DEF Modes
  <2>6. QED
    BY <2>2, <2>3, <2>4, <2>5 DEF Asks
<1>2. QED
  BY <1>1

LEMMA AdmittedIs ==
  ASSUME ConfigInv, NEW m \in Modes
  PROVE  /\ Admitted(m) \in Asks
         /\ link = "preview" => Admitted(m).target = "desktop"
  BY ModesAreAsks, PreviewIs DEF Admitted

LEMMA ChoiceIs ==
  ASSUME ConfigInv, NEW tells \in Said, Usable(tells) # {}
  PROVE  /\ Known(ChooseConfig(tells))
         /\ ChooseConfig(tells).codec = Chosen(tells)
         /\ link = "preview" /\ ~crossed => ChooseConfig(tells).target = "desktop"
         /\ \A base : config = {base} => ChooseConfig(tells) = SettledConfig(Chosen(tells), base)
<1> DEFINE base == IF config = {} THEN DefaultConfig(Chosen(tells)) ELSE CHOOSE c \in config : TRUE
<1>1. Chosen(tells) \in Codecs
  BY ChosenIs
<1>2. Known(base) /\ (link = "preview" /\ ~crossed => base.target = "desktop")
  <2>1. CASE config = {}
    BY <1>1, <2>1, DefaultIs
  <2>2. CASE config # {}
    <3>1. PICK c : Known(c) /\ config = {c}
      BY <2>2 DEF ConfigInv
    <3>2. base = c
      BY <3>1, ChooseOne
    <3>3. QED
      BY <3>1, <3>2 DEF ConfigInv
  <2>3. QED
    BY <2>1, <2>2
<1>3. \A b : config = {b} => base = b
  BY ChooseOne
<1>4. ChooseConfig(tells) = SettledConfig(Chosen(tells), base)
  BY DEF ChooseConfig
<1> HIDE DEF base
<1>5. Known(ChooseConfig(tells))
  BY <1>1, <1>2, <1>4, KnownSettles
<1>6. ChooseConfig(tells).codec = Chosen(tells) /\ ChooseConfig(tells).target = base.target
  BY <1>4, SettledCopies
<1>7. QED
  BY <1>2, <1>3, <1>4, <1>5, <1>6

\* A first offer after a hello keeps what was asked.
LEMMA OfferKeepsAsk ==
  ASSUME ConfigInv, NEW tells \in Said, Usable(tells) # {}, NEW m \in asked
  PROVE  IF link = "preview" THEN PreviewServed(ChooseConfig(tells), m)
                             ELSE PlayerServed(ChooseConfig(tells), m)
<1> DEFINE a == Admitted(m)
           p == ProvisionalConfig(a)
           o == ChooseConfig(tells)
<1>1. m \in Modes /\ m \in Asks /\ config = {p}
  BY ModesAreAsks DEF ConfigInv
<1>2. a \in Asks
  BY <1>1, AdmittedIs
<1>3. /\ p \in Configs /\ p.backend = "pending" /\ p.target = a.target
      /\ SizeKept(p, a) /\ p.fps = Within(a.fps, 15, 240)
      /\ \A k \in a.cap : p.max = Within(k, 2000, 120000)
  BY <1>2, ProvisionalIs
<1>4. o = SettledConfig(Chosen(tells), p) /\ Chosen(tells) \in Codecs
  BY <1>1, ChoiceIs, ChosenIs
<1>5. /\ o.w = p.w /\ o.h = p.h /\ o.fps = p.fps /\ o.target = p.target
      /\ o.max = Within(p.max, 2000, 120000)
  BY <1>3, <1>4, SettledIs, SettledCopies
<1>6. link = "preview" => a = PreviewMode(m)
  BY DEF Admitted
<1>7. link # "preview" => a = m
  BY DEF Admitted
<1>8. SizeKept(o, a)
  BY <1>3, <1>5 DEF SizeKept
<1> HIDE DEF a, p, o
\* The cap passes the host's bounds twice.
<1>9. \A k \in Nat : Within(Within(k, 2000, 120000), 2000, 120000) = Within(k, 2000, 120000)
  BY DEF Within
<1>10. \A k \in a.cap : k \in Nat /\ o.max = Within(k, 2000, 120000)
  <2>1. \A k \in a.cap : k \in Nat
    BY <1>2 DEF Asks, Optional
  <2>2. QED
    BY <1>3, <1>5, <1>9, <2>1
<1>11. CASE link = "preview"
  <2>1. PICK k \in Nat : a.cap = {k} /\ k <= 2500 /\ \A c \in m.cap : k = AtMost(c, 2500)
    BY <1>1, <1>6, <1>11, PreviewIs
  <2>2. o.max = Within(k, 2000, 120000)
    BY <1>10, <2>1
  <2>3. o.max <= 2500 /\ \A c \in m.cap : o.max = Within(AtMost(c, 2500), 2000, 120000)
    BY <2>1, <2>2 DEF Within
  <2>4. /\ a.w <= 960 /\ a.h <= 540 /\ a.fps = AtMost(m.fps, 30) /\ a.target = "desktop"
        /\ IF m.w <= 960 /\ m.h <= 540 THEN a.w = m.w /\ a.h = m.h ELSE a.w = 960 \/ a.h = 540
    BY <1>1, <1>6, <1>11, PreviewIs
  <2>5. a.w \in Nat /\ a.h \in Nat
    BY <1>2 DEF Asks
  <2>6. /\ o.w = Even(Within(a.w, 640, 3840)) /\ o.h = Even(Within(a.h, 360, 2160))
    BY <1>8 DEF SizeKept
  <2>7. o.w <= 960 /\ o.h <= 540
    <3>1. Even(Within(a.w, 640, 3840)) <= 960
      BY <2>4, <2>5, SizeIs
    <3>2. Even(Within(a.h, 360, 2160)) <= 540
      BY <2>4, <2>5, SizeIs
    <3>3. QED
      BY <2>6, <3>1, <3>2
  <2>8. a.w = 960 \/ a.h = 540 => o.w >= 958 \/ o.h >= 538
    BY <2>5, <2>6, SizeIs
  <2>9. IF m.w <= 960 /\ m.h <= 540 THEN SizeKept(o, m) ELSE o.w >= 958 \/ o.h >= 538
    <3>1. CASE m.w <= 960 /\ m.h <= 540
      BY <2>4, <2>6, <3>1 DEF SizeKept
    <3>2. CASE ~(m.w <= 960 /\ m.h <= 540)
      BY <2>4, <2>8, <3>2
    <3>3. QED
      BY <3>1, <3>2
  <2>10. o.fps = Within(AtMost(m.fps, 30), 15, 240) /\ o.target = "desktop"
    BY <1>3, <1>5, <2>4
  <2>11. PreviewServed(o, m)
    BY <2>3, <2>7, <2>9, <2>10 DEF PreviewServed
  <2>12. QED
    BY <1>11, <2>11 DEF o
<1>12. CASE link # "preview"
  <2>1. PlayerServed(o, m)
    BY <1>3, <1>5, <1>7, <1>8, <1>10, <1>12 DEF PlayerServed
  <2>2. QED
    BY <1>12, <2>1 DEF o
<1>13. QED
  BY <1>11, <1>12

\* No ask of a preview starts a game.
LEMMA GamesAreNotPreviewed ==
  ASSUME OfferInv, NEW tells \in Said, Usable(tells) # {}, StartsGame(tells)
  PROVE  "preview" \notin starts'
<1>1. link = "preview" /\ ~crossed => ChooseConfig(tells).target = "desktop"
  BY ChoiceIs DEF OfferInv
<1>2. "preview" \notin starts
  BY DEF OfferInv, AskIsKept
<1>3. QED
  BY <1>1, <1>2 DEF StartsGame

\* What a displaced link may leave in its successor's session.
LEMMA LateIs ==
  ASSUME OfferInv, Late, link' # "none"
  PROVE  \E c : Known(c) /\ config' = {c}
<1>1. ASSUME NEW c \in Foreign PROVE c \in Configs
  <2>1. PICK m \in Modes : c = ProvisionalConfig(m) \/ c = ProvisionalConfig(PreviewMode(m))
    BY <1>1 DEF Foreign
  <2>2. m \in Asks /\ PreviewMode(m) \in Asks
    BY ModesAreAsks, PreviewIs
  <2>3. QED
    BY <2>1, <2>2, ProvisionalIs
<1>2. CASE \E c \in Foreign : config' = {c}
  BY <1>1, <1>2 DEF Known
<1>3. ASSUME NEW codec \in Codecs, NEW c \in Bases(codec), config' = {SettledConfig(codec, c)}
      PROVE  \E d : Known(d) /\ config' = {d}
  <2>1. \A d : d \in config => Known(d)
    BY DEF OfferInv, ConfigInv
  <2>2. Known(DefaultConfig(codec))
    BY DefaultIs
  <2>3. \A d \in Foreign : Known(d)
    BY <1>1 DEF Known
  <2>4. \A d : Known(d) => Known(SettledConfig(codec, d))
    BY KnownSettles
  <2>5. c \in config \/ c = DefaultConfig(codec) \/ c \in Foreign
        \/ \E d \in Foreign : c = SettledConfig(codec, d)
    BY DEF Bases
  <2>6. Known(c)
    BY <2>1, <2>2, <2>3, <2>4, <2>5
  <2>7. QED
    BY <1>3, <2>4, <2>6
<1>4. QED
  BY <1>2, <1>3 DEF Late, Ends

LEMMA OfferKept == OfferInv /\ [NegotiationNext]_offerVars => OfferInv'
<1> SUFFICES ASSUME OfferInv, [NegotiationNext]_offerVars PROVE OfferInv'
  OBVIOUS
<1>1. ASSUME config' = {}, asked' = {}, offer' = {}, "preview" \notin starts',
             link' \in {"none", "player", "preview"}
      PROVE  OfferInv'
  BY <1>1 DEF OfferInv, ConfigInv, OfferFits, AskIsKept
<1>2. CASE Claim \/ LinkEnds
  <2>1. "preview" \notin starts'
    BY <1>2 DEF Claim, LinkEnds, OfferInv, AskIsKept
  <2>2. QED
    BY <1>1, <1>2, <2>1 DEF Claim, LinkEnds, Ends
<1>3. ASSUME NEW tells \in Said, NoCommonCodec(tells) \/ StartFails(tells)
      PROVE  OfferInv'
  <2>1. "preview" \notin starts'
    BY <1>3, GamesAreNotPreviewed DEF NoCommonCodec, StartFails, OfferInv, AskIsKept
  <2>2. QED
    BY <1>1, <1>3, <2>1 DEF NoCommonCodec, StartFails, Ends
<1>4. ASSUME NEW m \in Modes, Hello(m) PROVE OfferInv'
  <2>1. /\ config' = {ProvisionalConfig(Admitted(m))} /\ asked' = {m} /\ offer' = {}
        /\ crossed' = FALSE /\ link' = link /\ starts' = starts
    BY <1>4 DEF Hello
  <2>2. PICK p : p = ProvisionalConfig(Admitted(m))
    OBVIOUS
  <2>3. p \in Configs /\ (link = "preview" => p.target = "desktop")
    BY <2>2, AdmittedIs, ProvisionalIs DEF OfferInv
  <2>4. Admitted(m)' = Admitted(m)
    BY <2>1 DEF Admitted
  <2>5. ConfigInv'
    <3>1. link' \in {"none", "player", "preview"}
      BY <2>1 DEF OfferInv, ConfigInv
    <3>2. \A n \in asked' : ~crossed' /\ config' = {ProvisionalConfig(Admitted(n)')}
      BY <2>1, <2>4
    <3>3. Known(p) /\ config' = {p}
      BY <2>1, <2>2, <2>3 DEF Known
    <3>4. asked' \subseteq Modes /\ (link' = "preview" => \A c \in config' : c.target = "desktop")
      BY <2>1, <2>2, <2>3
    <3>5. QED
      BY <3>1, <3>2, <3>3, <3>4 DEF ConfigInv
  <2>6. OfferFits' /\ AskIsKept'
    BY <2>1 DEF OfferInv, OfferFits, AskIsKept
  <2>7. QED
    BY <2>5, <2>6 DEF OfferInv
<1>5. ASSUME NEW tells \in Said, Capabilities(tells) PROVE OfferInv'
  <2>1. PICK o : o = ChooseConfig(tells)
    OBVIOUS
  <2>2. /\ config' = {o} /\ asked' = {} /\ link' = link /\ crossed' = crossed
        /\ Usable(tells) # {} /\ StartsGame(tells)
        /\ offer' = {[said |-> tells, ask |-> asked, config |-> o]}
    BY <1>5, <2>1 DEF Capabilities
  <2>3. ConfigInv
    BY DEF OfferInv
  <2>4. /\ Known(o) /\ o.codec = Chosen(tells)
        /\ link = "preview" /\ ~crossed => o.target = "desktop"
    BY <2>1, <2>2, <2>3, ChoiceIs
  <2>5. ConfigInv'
    BY <2>2, <2>3, <2>4 DEF ConfigInv
  <2>6. OfferFits'
    <3>1. o.codec \in tells.listed /\ (tells.hinted => o.codec \in tells.decodes)
      BY <2>2, <2>4, ChosenIs DEF Usable
    <3>2. ASSUME o \in Configs
          PROVE  Sized(o) /\ o.min <= o.start /\ o.start <= o.max /\ o.start <= 6000
                 /\ ClampIsDefined(o)
      <4>1. /\ o.min = 600 /\ o.start \in Nat /\ o.max \in Nat
            /\ 600 <= o.start /\ o.start <= o.max /\ o.start <= 6000
        BY <3>2 DEF Configs
      <4>2. ClampIsDefined(o)
        BY <4>1 DEF ClampIsDefined, CeilingOf, AtLeast
      <4>3. Sized(o)
        <5>1. o.w \in Nat /\ o.h \in Nat /\ Fits(o)
          BY <3>2 DEF Configs
        <5>2. QED
          BY <5>1 DEF Fits, Sized
      <4>4. QED
        BY <4>1, <4>2, <4>3
    <3>3. QED
      BY <2>2, <2>4, <3>1, <3>2 DEF OfferFits, Known, Unsized
  <2>7. AskIsKept'
    <3>1. \A m \in asked : IF link = "preview" THEN PreviewServed(o, m) ELSE PlayerServed(o, m)
      BY <2>1, <2>2, <2>3, OfferKeepsAsk
    <3>2. "preview" \notin starts'
      BY <2>2, GamesAreNotPreviewed
    <3>3. QED
      BY <2>2, <3>1, <3>2 DEF AskIsKept
  <2>8. QED
    BY <2>5, <2>6, <2>7 DEF OfferInv
<1>6. CASE Late
  <2>1. "preview" \notin starts'
    BY <1>6 DEF Late, OfferInv, AskIsKept
  <2>2. link' = "none" \/ link' # "none"
    OBVIOUS
  <2>3. CASE Ends
    BY <1>1, <2>1, <2>3 DEF Ends
  <2>4. CASE ~Ends
    <3>1. link' = link /\ asked' = {} /\ offer' = {} /\ crossed' = TRUE /\ link # "none"
      BY <1>6, <2>4 DEF Late
    <3>2. \E c : Known(c) /\ config' = {c}
      BY <1>6, <3>1, LateIs
    <3>3. ConfigInv'
      BY <3>1, <3>2 DEF OfferInv, ConfigInv
    <3>4. QED
      BY <2>1, <3>1, <3>3 DEF OfferInv, OfferFits, AskIsKept
  <2>5. QED
    BY <2>3, <2>4
<1>7. CASE UNCHANGED offerVars
  <2>1. /\ link' = link /\ config' = config /\ asked' = asked /\ offer' = offer
        /\ starts' = starts /\ crossed' = crossed
    BY <1>7 DEF offerVars
  <2>2. ConfigInv'
    BY <2>1 DEF OfferInv, ConfigInv, Admitted
  <2>3. OfferFits' /\ AskIsKept'
    BY <2>1 DEF OfferInv, OfferFits, AskIsKept
  <2>4. QED
    BY <2>2, <2>3 DEF OfferInv
<1>8. QED
  BY <1>2, <1>3, <1>4, <1>5, <1>6, <1>7 DEF NegotiationNext

\* OfferFits: no order of hellos and capabilities, of any size, rate or cap,
\* leads to an offer the client cannot take or, but for an operator's default
\* size outside clamp_mode's bounds, to bounds the controller's clamp would
\* panic on.
THEOREM OffersFit == ServicesSpec => []OfferFits
<1>1. NegotiationSpec => []OfferInv
  BY OfferStarts, OfferKept, PTL DEF NegotiationSpec
<1>2. OfferInv => OfferFits
  BY DEF OfferInv
<1>3. QED
  BY <1>1, <1>2, ServicesStayApart, PTL

\* AskIsKept: the first offer after a hello, with no displaced link's message
\* in between, has the size, rate, cap and target it asked for as near as the
\* host goes, a preview's those of a tile of the desktop; and no ask of a
\* preview starts a game.
THEOREM AskIsServed == ServicesSpec => []AskIsKept
<1>1. NegotiationSpec => []OfferInv
  BY OfferStarts, OfferKept, PTL DEF NegotiationSpec
<1>2. OfferInv => AskIsKept
  BY DEF OfferInv
<1>3. QED
  BY <1>1, <1>2, ServicesStayApart, PTL

\* HeardIsWritten: however the input's stream is cut into reads, beside the
\* other services too, the host hears the packets the browser wrote, and of a
\* line the stream ends inside nothing but the packet after those.
THEOREM InputIsHeard == ServicesSpec => []HeardIsWritten
BY HostHearsWhatIsWritten, ServicesStayApart, PTL

==============================================================================
