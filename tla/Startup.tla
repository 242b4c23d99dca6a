------------------------------- MODULE Startup -------------------------------
(***************************************************************************)
(* The host's life on its own disk: configuration, identity, local CA and  *)
(* the leaf certificate of the page (crates/host/src/main.rs, config.rs,   *)
(* identity/mod.rs, tls.rs, http/mod.rs), from one start to the next.  A   *)
(* file is written in place: a crash or an error may leave it torn.        *)
(***************************************************************************)
CONSTANTS
  Secrets,    \* what the random number generator yields
  NoSecret,
  Addresses   \* the machine's global IPv6 address, of which the SANs are made

ASSUME StartupConstants == NoSecret \notin Secrets \cup {"torn"} /\ "torn" \notin Secrets

VARIABLES
  disk,     \* the files
  host,     \* how far the process is, its keys, the leaf each HTTPS listener serves
  pinned,   \* the host key and the CA that the operator's devices were given
  address

bootVars == <<disk, host, pinned, address>>

Files == Secrets \cup {NoSecret, "torn"}  \* NoSecret: no such file
Leaves == [there: {"none", "crt", "both"}, pair: BOOLEAN, due: BOOLEAN,
           covers: Addresses, sans: Addresses, signer: Secrets \cup {NoSecret}]
Served == [covers: Addresses, due: BOOLEAN, signer: Secrets \cup {NoSecret}]

StartupTypeOK ==
  /\ disk \in [config: {"whole", "short", "torn"}, identity: Files, format: {"v1", "v2"},
               caCrt: Files, caKey: Files, leaf: Leaves]
  /\ host \in [at: {"off", "boot", "tls", "leaf", "listen", "plain", "serving"},
               id: Secrets \cup {NoSecret}, ca: Secrets \cup {NoSecret},
               leaf: Served, public: Served]
  /\ pinned \in [id: Secrets \cup {NoSecret}, ca: Files]
  /\ address \in Addresses

NewLeaf(a, s) ==
  [there |-> "both", pair |-> TRUE, due |-> FALSE, covers |-> a, sans |-> a, signer |-> s]

Loaded(l) == [covers |-> l.covers, due |-> l.due, signer |-> l.signer]

NoLeaf == Loaded(NewLeaf(CHOOSE a \in Addresses : TRUE, NoSecret))

(* leaf: the IPv4 listener's rustls_cfg; public: what the [::] listener's   *)
(* DualResolver falls back to.                                              *)
NoHost == [at |-> "off", id |-> NoSecret, ca |-> NoSecret, leaf |-> NoLeaf, public |-> NoLeaf]

(* A new machine, or one that an earlier release served from.               *)
StartupInit ==
  /\ address \in Addresses /\ host = NoHost
  /\ \E s \in Secrets \cup {NoSecret}, f \in {"v1", "v2"} :
       /\ disk = [config |-> "whole", identity |-> s, format |-> f, caCrt |-> s, caKey |-> s,
                  leaf |-> [NewLeaf(address, s) EXCEPT !.there = IF s = NoSecret THEN "none" ELSE @]]
       /\ pinned = [id |-> s, ca |-> s]

------------------------------------------------------------------------------
(* The start: each step may also end the process (a crash, an error that    *)
(* main returns).                                                           *)

Exit == host' = NoHost

(* Config::load.  What is left of a torn file does not parse, or parses as  *)
(* a shorter one.                                                           *)
ConfigLoads == disk.config # "torn"

(* claim_instance: a second launch opens the dashboard of the first.        *)
OneInstance == host.at = "off"

Launch ==
  /\ OneInstance /\ ConfigLoads /\ host' = [host EXCEPT !.at = "boot"]
  /\ UNCHANGED <<disk, pinned, address>>

(* persist_bool and persist_audio_capture_device, a crash in their write    *)
(* included; neither touches a file it cannot parse.                        *)
PersistSetting ==
  /\ host.at \in {"plain", "serving"} /\ ConfigLoads
  /\ \E c \in {"short", "torn"} : disk' = [disk EXCEPT !.config = c]
  /\ Exit \/ UNCHANGED host
  /\ UNCHANGED <<pinned, address>>

(* The identity of the old format is written back in the new one.           *)
LoadIdentity ==
  /\ host.at = "boot" /\ disk.identity \in Secrets
  /\ disk' = [disk EXCEPT !.format = "v2"]
  /\ host' = [host EXCEPT !.at = "tls", !.id = disk.identity]
  /\ UNCHANGED <<pinned, address>>

CreateIdentity ==
  /\ host.at = "boot" /\ disk.identity = NoSecret
  /\ \E s \in Secrets \ {pinned.id} :
       /\ disk' = [disk EXCEPT !.identity = s, !.format = "v2"]
       /\ host' = [host EXCEPT !.at = "tls", !.id = s]
  /\ UNCHANGED <<pinned, address>>

IdentityWriteCut ==
  /\ host.at = "boot" /\ disk.identity # "torn" /\ (disk.identity = NoSecret \/ disk.format = "v1")
  /\ disk' = [disk EXCEPT !.identity = "torn"] /\ Exit
  /\ UNCHANGED <<pinned, address>>

(* An unreadable identity is never replaced.                                *)
IdentityUnreadable ==
  /\ host.at = "boot" /\ disk.identity = "torn" /\ Exit
  /\ UNCHANGED <<disk, pinned, address>>

(* One of the CA's two files without the other.                             *)
Incomplete_Never == FALSE
Incomplete == (disk.caCrt = NoSecret) # (disk.caKey = NoSecret)

(* The certificate is read as text; only the key must parse.                *)
CaLoads == ~Incomplete /\ disk.caCrt # NoSecret /\ disk.caKey \in Secrets

CaMissing == ~Incomplete /\ NoSecret \in {disk.caCrt, disk.caKey}

LoadCa ==
  /\ host.at = "tls" /\ CaLoads /\ host' = [host EXCEPT !.at = "leaf", !.ca = disk.caKey]
  /\ UNCHANGED <<disk, pinned, address>>

CreateCa ==
  /\ host.at = "tls" /\ CaMissing
  /\ \E s \in Secrets \ {pinned.ca, disk.caCrt} :
       \/ /\ disk' = [disk EXCEPT !.caCrt = s, !.caKey = s]
          /\ host' = [host EXCEPT !.at = "leaf", !.ca = s]
       \/ /\ \/ disk' \in {disk, [disk EXCEPT !.caCrt = "torn"]}
             \/ disk' = [disk EXCEPT !.caCrt = s]
             \/ disk' = [disk EXCEPT !.caCrt = s, !.caKey = "torn"]
          /\ Exit \/ host' = [host EXCEPT !.at = "plain"]
  /\ UNCHANGED <<pinned, address>>

(* resolve_tls: without a CA the host runs without HTTPS.                   *)
NoCa ==
  /\ host.at = "tls" /\ ~CaLoads /\ ~CaMissing /\ host' = [host EXCEPT !.at = "plain"]
  /\ UNCHANGED <<disk, pinned, address>>

------------------------------------------------------------------------------
(* ensure_leaf: certificate, key and SAN list, written in this order.       *)

leaf == disk.leaf

(* certificate_identities: all but the address is fixed.                    *)
Identities == address

Current_IgnoresSans == leaf.there = "both" /\ ~leaf.due
Current == leaf.there = "both" /\ leaf.sans = Identities /\ ~leaf.due

Issued(ca) == IF Current THEN leaf ELSE NewLeaf(Identities, ca)

(* What a write that was cut leaves behind: of the certificate or before    *)
(* the key was whole; of the SAN list; nothing at all.                      *)
CutLeaves(ca) ==
  IF Current THEN {}
  ELSE {[NewLeaf(Identities, ca) EXCEPT !.there = IF leaf.there = "both" THEN "both" ELSE "crt",
                                     !.pair = FALSE, !.sans = leaf.sans],
        [NewLeaf(Identities, ca) EXCEPT !.pair = FALSE, !.sans = leaf.sans],
        [NewLeaf(Identities, ca) EXCEPT !.sans = leaf.sans], leaf} \ {Issued(ca)}

EnsureLeaf ==
  /\ host.at = "leaf"
  /\ disk' = [disk EXCEPT !.leaf = Issued(host.ca)] /\ host' = [host EXCEPT !.at = "listen"]
  /\ UNCHANGED <<pinned, address>>

(* A leaf that cannot be reissued is served as it is found.                 *)
LeafCut ==
  /\ host.at = "leaf"
  /\ \E l \in CutLeaves(host.ca) :
       /\ disk' = [disk EXCEPT !.leaf = l]
       /\ \/ Exit
          \/ host' = [host EXCEPT !.at = IF l.there = "both" THEN "listen" ELSE "plain"]
  /\ UNCHANGED <<pinned, address>>

(* serve: a pair that does not fit ends the process, and so does a port     *)
(* that is taken.  Each of the two listeners loads it for itself.           *)
Listen ==
  /\ host.at = "listen"
  /\ IF leaf.pair
     THEN host' = [host EXCEPT !.at = "serving", !.leaf = Loaded(leaf), !.public = Loaded(leaf)]
     ELSE Exit
  /\ UNCHANGED <<disk, pinned, address>>

Dies ==
  /\ host.at # "off" /\ Exit
  /\ UNCHANGED <<disk, pinned, address>>

(* Every 12 h (RENEW_INTERVAL), for the IPv4 listener only; a pair that     *)
(* does not fit is not loaded.                                              *)
Reload(l) == IF l.pair THEN [host EXCEPT !.leaf = Loaded(l)] ELSE host

Renew ==
  /\ host.at = "serving" /\ CaLoads
  /\ disk' = [disk EXCEPT !.leaf = Issued(disk.caKey)] /\ host' = Reload(Issued(disk.caKey))
  /\ UNCHANGED <<pinned, address>>

RenewCut ==
  /\ host.at = "serving" /\ CaLoads
  /\ \E l \in CutLeaves(disk.caKey) :
       disk' = [disk EXCEPT !.leaf = l] /\ (Exit \/ host' = Reload(l))
  /\ UNCHANGED <<pinned, address>>

(* --trust-ca, the installer's and the operator's, beside a host that is    *)
(* not in the middle of the same steps.                                     *)
Setup ==
  /\ host.at \in {"off", "plain", "serving"}
  /\ \/ CaLoads /\ disk' = [disk EXCEPT !.leaf = Issued(disk.caKey)]
     \/ /\ CaMissing
        /\ \E s \in Secrets \ {pinned.ca, disk.caCrt} :
             disk' = [disk EXCEPT !.caCrt = s, !.caKey = s, !.leaf = Issued(s)]
  /\ UNCHANGED <<host, pinned, address>>

------------------------------------------------------------------------------
(* The devices, the provider and time.                                      *)

(* A device pairs over HTTPS and is answered with the host's key.           *)
DevicePairs ==
  /\ host.at = "serving" /\ pinned.id = NoSecret /\ pinned' = [pinned EXCEPT !.id = host.id]
  /\ UNCHANGED <<disk, host, address>>

(* GET /ca.crt answers without HTTPS too, with what is on the disk.         *)
DeviceTrustsCa ==
  /\ host.at \in {"plain", "serving"} /\ pinned.ca = NoSecret /\ disk.caCrt \in Secrets
  /\ pinned' = [pinned EXCEPT !.ca = disk.caCrt]
  /\ UNCHANGED <<disk, host, address>>

AddressChanges ==
  /\ address' \in Addresses \ {address}
  /\ UNCHANGED <<disk, host, pinned>>

MonthsPass ==
  /\ disk' = [disk EXCEPT !.leaf.due = TRUE]
  /\ host' = [host EXCEPT !.leaf.due = TRUE, !.public.due = TRUE]
  /\ UNCHANGED <<pinned, address>>

StartupNext ==
  \/ Launch \/ PersistSetting \/ LoadIdentity \/ CreateIdentity \/ IdentityWriteCut
  \/ IdentityUnreadable \/ LoadCa \/ CreateCa \/ NoCa \/ EnsureLeaf \/ LeafCut \/ Listen \/ Dies
  \/ Renew \/ RenewCut \/ Setup \/ DevicePairs \/ DeviceTrustsCa \/ AddressChanges \/ MonthsPass

StartupSpec == StartupInit /\ [][StartupNext]_bootVars

(* The renewal task is a tokio interval.                                    *)
StartupFairness == WF_bootVars(Renew \/ RenewCut)

StartupFairSpec == StartupSpec /\ StartupFairness

------------------------------------------------------------------------------
(* "Restore it instead of replacing trust" (HostIdentity::load_or_create,   *)
(* load_or_create_ca): whatever crashes and failed writes a start or a      *)
(* renewal met, the page is served, over IPv4 and IPv6, by the identity and *)
(* under the CA that the devices were given.                                *)
TrustStays ==
  host.at = "serving" =>
    /\ pinned.id \in {NoSecret, host.id}
    /\ pinned.ca \in {NoSecret, host.leaf.signer} /\ pinned.ca \in {NoSecret, host.public.signer}

(* "Regenerates when missing, near expiry, or the SAN set changed"          *)
(* (ensure_leaf): over IPv4, a host that keeps serving comes to serve a     *)
(* leaf for the address the machine has come to have, and a fresh one after *)
(* every aging.  A write cut before its SAN list may leave a list that      *)
(* already names the address beside another leaf: that host follows when    *)
(* the leaf nears its expiry, and not before.  The [::] listener keeps the  *)
(* leaf of its start.                                                       *)
NeverCut == leaf.pair /\ leaf.sans = leaf.covers

HostFollowsAddress ==
  (<>[](host.at = "serving") /\ <>[][~AddressChanges /\ ~RenewCut]_bootVars
     /\ ([]NeverCut \/ []<>leaf.due))
    => <>[](host.leaf.covers = address) /\ []<>~host.leaf.due
==============================================================================
