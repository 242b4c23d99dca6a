-------------------------------- MODULE Trust --------------------------------
(***************************************************************************)
(* Who may play: the requests that pair a browser, let it sign in and put  *)
(* it out again, interleaved (crates/host/src/http/api.rs, the device      *)
(* challenge of http/signal.rs), over the pairing manager, the controller  *)
(* list (identity/acl.rs) and the invitations (identity/pairing_invite.rs).*)
(* A call of Pairing or InviteStore is one step.  The controller list is   *)
(* changed under its lock and written to controllers.json after the lock   *)
(* is gone, so that is two.  What the link does once its device is known   *)
(* is in Signaling, and so is drop_stream.                                 *)
(***************************************************************************)
EXTENDS Pairing, TLC

CONSTANTS
  Requests,    \* bound: requests the host serves at one time
  Codes,       \* invitations
  None

ASSUME NoneIsNothing == None \notin Tokens \cup Codes

VARIABLES
  acl,       \* ControllerAcl: what is known of each device key
  aclFile,   \* controllers.json
  invite,    \* InviteStore
  task,      \* where each request is
  cookie     \* the session cookie each browser holds

vars == <<pairingVars, acl, aclFile, invite, task, cookie>>

Standing == {"unknown", "active", "revoked"}
Lists == [Devices -> Standing]
Steps == {"mint", "add", "save", "bind", "check", "enrol", "look", "known", "touch",
          "forget", "end", "cut", "revokeAll", "askFirst", "openFirst"}
Task == [at: Steps \cup {"idle"}, then: Steps \cup {"idle"}, d: Devices \cup {None},
         t: Tokens \cup {None}, list: Lists \cup {None}, code: Codes \cup {None}]
Idle == [at |-> "idle", then |-> "idle", d |-> None, t |-> None, list |-> None,
         code |-> None]

TypeOK ==
  /\ PairingTypeOK
  /\ acl \in Lists /\ aclFile \in Lists
  /\ invite \in [Codes -> {"none", "asked", "open", "used"}]
  /\ task \in [Requests -> Task]
  /\ cookie \in [Devices -> Tokens \cup {None}]

Init ==
  /\ PairingInit
  /\ acl = [d \in Devices |-> "unknown"] /\ aclFile = acl
  /\ invite = [c \in Codes |-> "none"]
  /\ task = [r \in Requests |-> Idle]
  /\ cookie = [d \in Devices |-> None]

------------------------------------------------------------------------------
(* Requests.  Go moves one; Change is a change of the controller list: the  *)
(* request carries the copy it made under the lock to the write.            *)

At(r, s) == task[r].at = s
Go(r, s) == task' = [task EXCEPT ![r] = IF s = "idle" THEN Idle ELSE [@ EXCEPT !.at = s]]
Start(r, s, d, t, c) ==
  /\ At(r, "idle")
  /\ task' = [task EXCEPT ![r] = [Idle EXCEPT !.at = s, !.d = d, !.t = t, !.code = c]]

Change(r, list, then) ==
  /\ acl' = list
  /\ task' = [task EXCEPT ![r] = [@ EXCEPT !.at = "save", !.then = then, !.list = list]]

Save(r) ==
  /\ At(r, "save") /\ aclFile' = task[r].list
  /\ LET k == task[r]
     IN task' = [task EXCEPT ![r] = IF k.then = "idle" THEN Idle
                   ELSE [k EXCEPT !.at = k.then, !.then = "idle", !.list = None]]
  /\ UNCHANGED <<pairingVars, acl, invite, cookie>>

InUse(t) ==
  \/ t \in store.tokens
  \/ \E d \in Devices : cookie[d] = t
  \/ \E r \in Requests : task[r].t = t

------------------------------------------------------------------------------
(* POST pair: by PIN or by invitation, then pair_success: the key goes into *)
(* the list, is bound to the session, and the cookie goes out - which the   *)
(* browser may never get.                                                   *)

PairByPin(r) ==
  \E d \in Devices, t \in Tokens :
    /\ ~InUse(t) /\ RightPin(t)
    /\ Start(r, "add", d, t, None)
    /\ UNCHANGED <<acl, aclFile, invite, cookie>>

(* InviteStore::consume.                                                    *)
Consumed_Stays(c) == invite
Consumed(c) == [invite EXCEPT ![c] = "used"]

PairByInvite(r) ==
  \E d \in Devices, c \in Codes :
    /\ invite[c] = "open" /\ invite' = Consumed(c)
    /\ Start(r, "mint", d, None, c)
    /\ UNCHANGED <<pairingVars, acl, aclFile, cookie>>

Mint(r) ==
  \E t \in Tokens :
    /\ At(r, "mint") /\ ~InUse(t) /\ MintSession(t)
    /\ task' = [task EXCEPT ![r].at = "add", ![r].t = t]
    /\ UNCHANGED <<acl, aclFile, invite, cookie>>

Add(r) ==
  /\ At(r, "add")
  /\ Change(r, [acl EXCEPT ![task[r].d] = "active"], "bind")
  /\ UNCHANGED <<pairingVars, aclFile, invite, cookie>>

Bind(r) ==
  /\ At(r, "bind") /\ BindController(task[r].t, task[r].d)
  /\ cookie' \in {cookie, [cookie EXCEPT ![task[r].d] = task[r].t]}
  /\ Go(r, "idle")
  /\ UNCHANGED <<acl, aclFile, invite>>

------------------------------------------------------------------------------
(* A signaling link: the session is valid, then the device proves its key.  *)
(* A Home Screen app comes with the cookie of its browser and a key of its  *)
(* own (verify_device): on the local network it is enrolled.                *)

SignIn(r) ==
  \E d, owner \in Devices :
    /\ cookie[owner] \in store.tokens
    /\ Start(r, "check", d, cookie[owner], None)
    /\ UNCHANGED <<pairingVars, acl, aclFile, invite, cookie>>

Check(r) ==
  LET d == task[r].d
      keys == store.bound[task[r].t]
  IN /\ At(r, "check")
     /\ \E lan \in BOOLEAN :
          Go(r, IF acl[d] = "active" /\ (lan \/ keys = <<>> \/ Holds(task[r].t, d))
                THEN "known"
                ELSE IF acl[d] = "unknown" /\ lan THEN "enrol" ELSE "idle")
     /\ UNCHANGED <<pairingVars, acl, aclFile, invite, cookie>>

Enrol(r) ==
  /\ At(r, "enrol")
  /\ Change(r, [acl EXCEPT ![task[r].d] = "active"], "look")
  /\ UNCHANGED <<pairingVars, aclFile, invite, cookie>>

(* The enrolled key is looked up once more: it may have been revoked.       *)
LookUp(r) ==
  /\ At(r, "look") /\ Go(r, IF acl[task[r].d] = "active" THEN "known" ELSE "idle")
  /\ UNCHANGED <<pairingVars, acl, aclFile, invite, cookie>>

BindKnown(r) ==
  /\ At(r, "known") /\ BindController(task[r].t, task[r].d) /\ Go(r, "touch")
  /\ UNCHANGED <<acl, aclFile, invite, cookie>>

(* Only last_seen_unix changes in the list, which is written all the same.  *)
Touch(r) ==
  /\ At(r, "touch") /\ Change(r, acl, "idle")
  /\ UNCHANGED <<pairingVars, aclFile, invite, cookie>>

------------------------------------------------------------------------------
(* Ways out.                                                                *)

(* POST logout: the key, if the browser names it and it is bound to the     *)
(* session, is forgotten.                                                   *)
Logout(r) ==
  \E d \in Devices, named \in BOOLEAN :
    /\ cookie[d] \in store.tokens
    /\ Start(r, IF named /\ Holds(cookie[d], d) THEN "forget" ELSE "end", d, cookie[d], None)
    /\ UNCHANGED <<pairingVars, acl, aclFile, invite, cookie>>

RevokedList(d) == [acl EXCEPT ![d] = "revoked"]

(* ControllerAcl::revoke: of an active key, or nothing.                     *)
Forget(r, then) ==
  IF acl[task[r].d] = "active"
  THEN Change(r, RevokedList(task[r].d), then)
  ELSE Go(r, then) /\ UNCHANGED acl

LogoutForgets(r) ==
  /\ At(r, "forget") /\ Forget(r, "end")
  /\ UNCHANGED <<pairingVars, aclFile, invite, cookie>>

LogoutEnds(r) ==
  /\ At(r, "end") /\ Revoke({task[r].t})
  /\ cookie' = [cookie EXCEPT ![task[r].d] = IF @ = task[r].t THEN None ELSE @]
  /\ Go(r, "idle")
  /\ UNCHANGED <<acl, aclFile, invite>>

(* POST admin/controllers/revoke: the key, then every session it used.      *)
AdminRevoke(r) ==
  \E d \in Devices :
    /\ At(r, "idle") /\ acl[d] = "active" /\ acl' = RevokedList(d)
    /\ task' = [task EXCEPT ![r] = [Idle EXCEPT !.at = "save", !.then = "cut", !.d = d,
                                                !.list = acl']]
    /\ UNCHANGED <<pairingVars, aclFile, invite, cookie>>

AdminCut(r) ==
  /\ At(r, "cut") /\ Revoke(SessionsOf(task[r].d)) /\ Go(r, "idle")
  /\ UNCHANGED <<acl, aclFile, invite, cookie>>

(* "Un-pair all": every session, then every key.                            *)
RevokeAll(r) ==
  /\ Revoke(store.tokens)
  /\ Start(r, "revokeAll", None, None, None)
  /\ UNCHANGED <<acl, aclFile, invite, cookie>>

RevokeKeys(r) ==
  /\ At(r, "revokeAll")
  /\ Change(r, [d \in Devices |-> IF acl[d] = "unknown" THEN "unknown" ELSE "revoked"], "idle")
  /\ UNCHANGED <<pairingVars, aclFile, invite, cookie>>

------------------------------------------------------------------------------
(* Invitations.  Whether the first device is asked for is decided before    *)
(* the invitation is made; making one drops the used ones and, past         *)
(* MAX_LIVE_INVITES, the oldest.                                            *)

AskInvite(r) ==
  /\ Start(r, IF \A d \in Devices : acl[d] # "active" THEN "askFirst" ELSE "openFirst",
           None, None, None)
  /\ UNCHANGED <<pairingVars, acl, aclFile, invite, cookie>>

CreateInvite(r) ==
  \E c \in Codes :
    /\ At(r, "askFirst") \/ At(r, "openFirst")
    /\ \A q \in Requests : task[q].code # c
    /\ invite' = [k \in Codes |-> IF k = c THEN (IF At(r, "askFirst") THEN "asked" ELSE "open")
                                  ELSE IF invite[k] = "used" THEN "none" ELSE invite[k]]
    /\ Go(r, "idle")
    /\ UNCHANGED <<pairingVars, acl, aclFile, cookie>>

Approve ==
  \E c \in Codes :
    /\ invite[c] = "asked" /\ invite' = [invite EXCEPT ![c] = "open"]
    /\ UNCHANGED <<pairingVars, acl, aclFile, task, cookie>>

InviteExpires ==
  \E c \in Codes :
    /\ invite[c] \in {"asked", "open"} /\ invite' = [invite EXCEPT ![c] = "none"]
    /\ UNCHANGED <<pairingVars, acl, aclFile, task, cookie>>

------------------------------------------------------------------------------
(* A restart: requests and invitations are gone, the files are read.        *)
HostRestart ==
  /\ Restart
  /\ acl' = aclFile /\ invite' = [c \in Codes |-> "none"]
  /\ task' = [r \in Requests |-> Idle]
  /\ UNCHANGED <<aclFile, cookie>>

Manager ==
  /\ Housekeeping \/ \E t \in Tokens : ExpireSession(t)
  /\ UNCHANGED <<acl, aclFile, invite, task, cookie>>

RequestStep(r) ==
  \/ PairByPin(r) \/ PairByInvite(r) \/ Mint(r) \/ Add(r) \/ Save(r) \/ Bind(r)
  \/ SignIn(r) \/ Check(r) \/ Enrol(r) \/ LookUp(r) \/ BindKnown(r) \/ Touch(r)
  \/ Logout(r) \/ LogoutForgets(r) \/ LogoutEnds(r)
  \/ AdminRevoke(r) \/ AdminCut(r) \/ RevokeAll(r) \/ RevokeKeys(r)
  \/ AskInvite(r) \/ CreateInvite(r)

Next ==
  \/ \E r \in Requests : RequestStep(r)
  \/ Manager \/ Approve \/ InviteExpires \/ HostRestart

Spec == Init /\ [][Next]_vars

------------------------------------------------------------------------------
(* "Revoking a device also takes away its cookie" (revoke_controller_       *)
(* sessions): as long as a browser's cookie is valid its key is bound to    *)
(* the session, whatever restarts and evictions did, so it can - unless the *)
(* session has all the keys it remembers (bind_controller: "a handful of    *)
(* keys at most").                                                          *)
CookieIsBound ==
  \A d \in Devices :
    cookie[d] \in store.tokens =>
      Holds(cookie[d], d) \/ Len(store.bound[cookie[d]]) = MaxKeys

(* "One-shot" (InviteStore::consume): an invitation lets one request in.    *)
InviteOnce ==
  \A r, q \in Requests : r # q /\ task[r].code # None => task[r].code # task[q].code

(* "The token we are about to hand to a browser can never be the one        *)
(* evicted" (Inner::insert_session), by the step that issues it: a          *)
(* revocation or another pairing may take it before the answer goes out.    *)
NewcomerStays ==
  [][\A r \in Requests :
       task'[r].at = "add" /\ task[r].at # "add" => task'[r].t \in store'.tokens]_vars

(* Wrong PINs are forgiven by a right one or by the owner only: no restart, *)
(* expiry or invitation does it (SessionFile::pin_failures).                *)
LockoutHolds ==
  [][store'.failures < store.failures => RotatePin \/ \E t \in Tokens : RightPin(t)]_vars

Symmetry == Permutations(Requests) \cup Permutations(Devices) \cup Permutations(Tokens) \cup Permutations(Pins)
==============================================================================
