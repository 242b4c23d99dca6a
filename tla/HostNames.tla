------------------------------ MODULE HostNames -------------------------------
(***************************************************************************)
(* Which requests the pages' listener answers                               *)
(* (crates/host/src/http/mod.rs, endpoint.rs): the layers in front of the  *)
(* handlers, and the names the host takes for its own, of which one, the   *)
(* sslip.io name of its global address, follows the provider's prefix      *)
(* through a list that is refreshed at most every Refresh ticks (30 s).    *)
(* A prefix stands for the address in it and for that address's name.      *)
(***************************************************************************)
EXTENDS Integers

CONSTANTS Prefixes, NoPrefix, Refresh


VARIABLES
  prefix,    \* the machine's global address, NoPrefix for none
  since,     \* ticks since the machine got or lost each address, up to a bound
  playName,  \* the name in HttpState::play_url, fixed at the start
  names,     \* own_sslip_names' list
  listAge,   \* ticks since it was made, up to a bound
  remote,    \* HttpState::remote_access
  last       \* history: the last request and its answer, none or one

nameVars == <<prefix, since, playName, names, listAge, remote, last>>

Old == Refresh + 1
Aged(n) == IF n = Old THEN Old ELSE n + 1

Fixed == {"ip", "localhost", "local", "hostname", "domain"}
Names == Fixed \cup Prefixes \cup {"foreign"}

ASSUME RefreshNat == Refresh \in Nat /\ NoPrefix \notin Prefixes

(* The name of a global address is none of the host's other names.          *)
ASSUME PrefixesAreNames == Prefixes \cap (Fixed \cup {"foreign"}) = {}

(* Who asks: a browser or a native client on the LAN or from outside, the   *)
(* dashboard on the host itself, a page of another site, with what they     *)
(* send of Origin and Sec-Fetch-Site.                                       *)
Visitor(peer, origin, site, route) == [peer |-> peer, origin |-> origin, site |-> site, route |-> route]
Visitors ==
  {Visitor("lan", "absent", "absent", "page"), Visitor("lan", "same", "same-origin", "api"),
   Visitor("lan", "other", "cross-site", "api"), Visitor("internet", "absent", "absent", "page"),
   Visitor("internet", "other", "same-origin", "api"), Visitor("internet", "absent", "absent", "admin"),
   Visitor("loopback", "same", "same-origin", "admin"), Visitor("loopback", "other", "absent", "admin")}

(* advertised_origin: a configured domain, else the name of the address,    *)
(* else <host>.local.                                                       *)
PlayName(p, domain) == IF domain THEN "domain" ELSE IF p # NoPrefix THEN p ELSE "local"

HostNamesInit ==
  /\ prefix \in Prefixes \cup {NoPrefix} /\ since = [p \in Prefixes |-> Old]
  /\ \E domain \in BOOLEAN : playName = PlayName(prefix, domain)
  /\ names = {} /\ listAge = Old /\ remote \in BOOLEAN /\ last = {}

(* host: what the URI's authority or the Host header names, none or one.    *)
(* The list is looked at for a sslip.io name that is not the play page's.   *)
Hosts == {{}} \cup {{n} : n \in Names}
AsksList(host) == host # {} /\ host \subseteq Prefixes \ {playName}
Stale_Never == names = {}
Stale == listAge > Refresh
Own == {prefix} \ {NoPrefix}
ListFor(host) == IF AsksList(host) /\ Stale THEN Own ELSE names

(* host_allowlist, by host_is_ours.  "domain" is the host's if configured.  *)
IsOurs(host) ==
  \/ host = {}
  \/ host \subseteq {"ip", "localhost", "local", "hostname", playName}
  \/ AsksList(host) /\ host \subseteq ListFor(host)

(* The layers behind it, and the guard of the admin routes.                 *)
SameOrigin(v) ==
  v.site # "cross-site" /\ (v.origin \in {"absent", "same"} \/ v.site = "same-origin")
PassesGate(v) == remote \/ v.peer \in {"loopback", "lan"}
PassesHeaders(v) == v.route = "page" \/ SameOrigin(v)
PassesAdmin(v, host) ==
  v.route = "admin" => v.peer = "loopback" /\ host = {"localhost"} /\ SameOrigin(v)

Answer(v, host) ==
  IF ~IsOurs(host) THEN "misdirected"
  ELSE IF PassesGate(v) /\ PassesHeaders(v) /\ PassesAdmin(v, host) THEN "handled" ELSE "forbidden"

Request(v, host) ==
  /\ names' = ListFor(host)
  /\ listAge' = IF AsksList(host) /\ Stale THEN 0 ELSE listAge
  /\ last' = {[host |-> host, answer |-> Answer(v, host)]}
  /\ UNCHANGED <<prefix, since, playName, remote>>

(* The tray's switch.                                                       *)
Switch == remote' = ~remote /\ last' = {} /\ UNCHANGED <<prefix, since, playName, names, listAge>>

PrefixChanges(p) ==
  /\ p # prefix /\ prefix' = p
  /\ since' = [q \in Prefixes |-> IF q \in {p, prefix} THEN 0 ELSE since[q]]
  /\ last' = {} /\ UNCHANGED <<playName, names, listAge, remote>>

NameTick ==
  /\ since' = [p \in Prefixes |-> Aged(since[p])] /\ listAge' = Aged(listAge)
  /\ last' = {} /\ UNCHANGED <<prefix, playName, names, remote>>

HostNamesNext ==
  \/ \E v \in Visitors : \E host \in Hosts : Request(v, host)
  \/ \E p \in Prefixes \cup {NoPrefix} : PrefixChanges(p)
  \/ Switch \/ NameTick

HostNamesSpec == HostNamesInit /\ [][HostNamesNext]_nameVars

------------------------------------------------------------------------------
(* The host answers to the name of the address it has, and no longer to one *)
(* it lost, once Refresh ticks have passed, however the requests that       *)
(* refresh the list fall between the changes of the address; only the name  *)
(* its own play page shows stays for good.                                  *)
NamesFollow ==
  \A r \in last : \A p \in Prefixes \ {playName} :
    r.host = {p} /\ since[p] > Refresh => (r.answer # "misdirected" <=> p = prefix)
==============================================================================
