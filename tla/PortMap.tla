------------------------------- MODULE PortMap -------------------------------
(***************************************************************************)
(* The task that keeps the router's ports open for remote access (run in   *)
(* crates/host/src/portmap.rs): one mapping for the page (TCP), one for    *)
(* the video (UDP).  A tick is the 30 s the task sleeps between two looks  *)
(* at the remote-access switch; the router forgets a mapping when its      *)
(* lease runs out or when it restarts.                                     *)
(***************************************************************************)
EXTENDS Naturals

CONSTANTS
  Nonces,     \* what rand::random yields
  ZeroNonce,  \* the nonce reported for a NAT-PMP lease
  NoNonce,    \* None
  Lifetimes,  \* ticks of a lease
  Reprobe     \* ticks of REPROBE_AFTER

ASSUME PortMapBounds ==
  /\ Lifetimes \subseteq Nat \ {0, 1} /\ Reprobe \in Nat \ {0}
  /\ \E n \in Lifetimes : \A m \in Lifetimes : m <= n
  /\ ZeroNonce \notin Nonces /\ NoNonce \notin Nonces \cup {ZeroNonce}

VARIABLES
  enabled,  \* the remote-access switch
  router,   \* what it speaks: "pcp", "natpmp"; "silent" when it does not answer
  table,    \* its mappings: of each protocol and nonce, the ticks left
  task,     \* where the task is, ticks it still sleeps, the nonces it retains
  status    \* MappingStatus.method

portVars == <<enabled, router, table, task, status>>

Protos == {"udp", "tcp"}
Keys == Nonces \cup {ZeroNonce}
Routers == {"pcp", "natpmp", "silent"}
Longest == CHOOSE n \in Lifetimes : \A m \in Lifetimes : m <= n

(* The longest the task still sleeps: a lease less its margin, a reprobe.   *)
LongestSleep(at) == IF at = "renew" THEN Longest - 1 ELSE IF at = "reprobe" THEN Reprobe ELSE 0

PortMapTypeOK ==
  /\ enabled \in BOOLEAN /\ router \in Routers
  /\ table \in [Protos -> [Keys -> 0..Longest]]
  /\ task \in [at: {"top", "tcp", "renew", "reprobe"}, left: Nat,
               udp: Keys \cup {NoNonce}, tcp: Keys \cup {NoNonce}]
  /\ task.left <= LongestSleep(task.at)
  /\ status \in {"pcp", "natpmp", "none"}

NoMappings == [p \in Protos |-> [k \in Keys |-> 0]]

PortMapInit ==
  /\ enabled \in BOOLEAN /\ router \in Routers /\ table = NoMappings
  /\ task = [at |-> "top", left |-> 0, udp |-> NoNonce, tcp |-> NoNonce]
  /\ status = "none"

Mapped(p) == \E k \in Keys : table[p][k] > 0

------------------------------------------------------------------------------
(* One pass: the switch, the video's port, the page's port.                 *)

Idle ==
  /\ task.at = "top" /\ ~enabled /\ status' = "none"
  /\ UNCHANGED <<enabled, router, table, task>>

(* retained.unwrap_or_else(rand::random): a new nonce is one the router     *)
(* does not hold.                                                           *)
Sent(p, retained) ==
  IF retained = NoNonce THEN {k \in Nonces : table[p][k] = 0} ELSE {retained}

(* try_map_udp: PCP only, best effort; no lease is a warning in the log.    *)
MapUdp ==
  /\ task.at = "top" /\ enabled /\ router = "pcp" /\ task' = [task EXCEPT !.at = "tcp"]
  /\ \E k \in Sent("udp", task.udp), n \in Lifetimes :
       table' = [table EXCEPT !["udp"][k] = n]
  /\ UNCHANGED <<enabled, router, status>>

(* The router does not speak PCP, refuses, or the request is lost.          *)
NoUdp ==
  /\ task.at = "top" /\ enabled /\ task' = [task EXCEPT !.at = "tcp"]
  /\ UNCHANGED <<enabled, router, table, status>>

(* renew_after: 30 s before the lease ends, at least 30 s.                  *)
RenewAfter_AtExpiry(n) == n
RenewAfter(n) == IF n > 1 THEN n - 1 ELSE 1

(* A NAT-PMP mapping has no nonce; its lease is given the zero one.         *)
NatPmpNonce == ZeroNonce

TryMap(retained) == IF router = "pcp" THEN Sent("tcp", retained) ELSE {NatPmpNonce}

(* Both retained nonces become this lease's.                                *)
MapTcp ==
  /\ task.at = "tcp" /\ router # "silent"
  /\ \E k \in TryMap(task.tcp), n \in Lifetimes :
       /\ table' = [table EXCEPT !["tcp"][k] = n]
       /\ task' = [at |-> IF enabled THEN "renew" ELSE "top", udp |-> k, tcp |-> k,
                   left |-> IF enabled THEN RenewAfter(n) ELSE 0]
  /\ status' = router
  /\ UNCHANGED <<enabled, router>>

(* The router refuses, the request is lost, or the answer is and the router *)
(* holds a mapping the host does not know of.                               *)
NoTcp ==
  /\ task.at = "tcp"
  /\ \/ table' = table
     \/ /\ router # "silent"
        /\ \E k \in TryMap(task.tcp), n \in Lifetimes : table' = [table EXCEPT !["tcp"][k] = n]
  /\ task' = [task EXCEPT !.at = "reprobe", !.left = Reprobe] /\ status' = "none"
  /\ UNCHANGED <<enabled, router>>

(* 30 s pass.  The renewal wait looks at the switch after each, the         *)
(* reprobe wait does not look.                                              *)
Woken == task.left = 1 \/ (task.at = "renew" /\ ~enabled)

Slept ==
  IF task.at = "top" THEN task
  ELSE IF Woken THEN [task EXCEPT !.at = "top", !.left = 0]
  ELSE [task EXCEPT !.left = @ - 1]

Tick ==
  /\ task.at \in {"renew", "reprobe"} \/ (~enabled /\ status = "none" /\ task.at = "top")
  /\ table' = [p \in Protos |-> [k \in Keys |-> IF table[p][k] = 0 THEN 0 ELSE table[p][k] - 1]]
  /\ task' = Slept
  /\ UNCHANGED <<enabled, router, status>>

------------------------------------------------------------------------------
(* The operator's switch and the router.                                    *)

Toggle ==
  /\ enabled' = ~enabled
  /\ UNCHANGED <<router, table, task, status>>

RouterChanges ==
  /\ router' \in Routers /\ table' \in {table, NoMappings}
  /\ UNCHANGED <<enabled, task, status>>

PortMapNext == Idle \/ MapUdp \/ NoUdp \/ MapTcp \/ NoTcp \/ Tick \/ Toggle \/ RouterChanges

PortSpec == PortMapInit /\ [][PortMapNext]_portVars

(* The task is a tokio loop, every wait of which has a timeout.             *)
PortFairness ==
  /\ WF_portVars(Idle) /\ WF_portVars(MapUdp \/ NoUdp) /\ WF_portVars(MapTcp \/ NoTcp)
  /\ WF_portVars(Tick)

PortFairSpec == PortSpec /\ PortFairness

------------------------------------------------------------------------------
(* "Renew near the lease's actual expiry" (run): with the switch on and a   *)
(* PCP router that from some time on neither restarts nor fails to answer,  *)
(* whatever restarts, refusals and lost answers left in its table and in    *)
(* the task before, the page's port stays open for good.                    *)
(* The video's port is only open again and again: the page's lease decides  *)
(* when both are renewed, and the video's may be the shorter one.           *)
RemoteReaches ==
  (<>[](enabled /\ router = "pcp") /\ <>[][~(RouterChanges \/ NoUdp \/ NoTcp)]_portVars)
    => <>[]Mapped("tcp") /\ []<>Mapped("udp")
==============================================================================
