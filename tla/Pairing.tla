------------------------------- MODULE Pairing -------------------------------
(***************************************************************************)
(* The pairing manager (crates/host/src/pairing/mod.rs): the PIN, the      *)
(* count of wrong ones, the browser sessions and the device keys bound to  *)
(* them.  Every call is one region of its lock, the write of sessions.json *)
(* included, so one action is one call.  Ages are not told apart: a PIN or *)
(* a session may turn out to have outlived its lifetime whenever the code  *)
(* looks, and any session may be as old as the oldest.                     *)
(***************************************************************************)
EXTENDS Naturals, Sequences, FiniteSets

CONSTANTS
  Tokens, Devices, Pins,
  MaxSessions,    \* MAX_SESSIONS
  MaxKeys,        \* MAX_KEYS_PER_SESSION
  MaxAttempts,    \* max_attempts: wrong PINs in one rate window
  LockoutAfter,   \* lockout_after: wrong PINs since the last success
  Lifetimes       \* pin_ttl_secs and session_ttl_secs are not 0

ASSUME PairingBounds ==
  /\ MaxSessions \in Nat \ {0} /\ MaxKeys \in Nat \ {0}
  /\ MaxAttempts \in Nat \ {0} /\ LockoutAfter \in Nat
  /\ Lifetimes \in BOOLEAN /\ IsFiniteSet(Tokens) /\ Cardinality(Pins) > 1

VARIABLES
  store,      \* pin, pin_failures, sessions and bindings in memory
  file,       \* the same in sessions.json
  attempts    \* wrong PINs in the rate window: of the host, of one /64

pairingVars == <<store, file, attempts>>

Store == [pin: Pins, failures: 0..LockoutAfter, tokens: SUBSET Tokens,
          bound: [Tokens -> Seq(Devices)]]
Scopes == {"host", "source"}

PairingTypeOK ==
  /\ store \in Store /\ file \in Store
  /\ Cardinality(store.tokens) <= MaxSessions
  /\ \A t \in Tokens : Len(store.bound[t]) <= MaxKeys
  /\ attempts \in [Scopes -> 0..MaxAttempts]

PairingInit ==
  /\ store \in [pin: Pins, failures: {0}, tokens: {{}}, bound: [Tokens -> {<<>>}]]
  /\ file = store
  /\ attempts = [s \in Scopes |-> 0]

------------------------------------------------------------------------------
(* Inner::persist: bindings follow their sessions out, then the file.       *)
Follow_None(s) == s
Follow(s) ==
  [s EXCEPT !.bound = [t \in Tokens |-> IF t \in s.tokens THEN s.bound[t] ELSE <<>>]]

Saved_NoFailures(s) == [Follow(s) EXCEPT !.failures = 0]
Saved_NoBindings(s) == [Follow(s) EXCEPT !.bound = [t \in Tokens |-> <<>>]]
Saved(s) == Follow(s)

Persist(s) == store' = Follow(s) /\ file' = Saved(s)

(* rotate_if_expired: the PIN from here on.                                 *)
InForce(pin) == IF Lifetimes THEN Pins ELSE {pin}

(* What prune_to may leave of a set of sessions: the ones past their life-  *)
(* time go, then the oldest, down to the cap.                               *)
Pruned(tokens, cap) ==
  {kept \in SUBSET tokens :
     /\ Cardinality(kept) <= cap
     /\ Lifetimes \/ kept = tokens \/ Cardinality(kept) = cap}

(* Inner::insert_session: it makes room first.                              *)
Inserted(tokens, t) == {kept \cup {t} : kept \in Pruned(tokens, MaxSessions - 1)}

(* A session and, as rotate_pin_on_pair is set, a new PIN.                  *)
Issue(t, s) ==
  \E kept \in Inserted(store.tokens, t), p \in Pins \ {s.pin} :
    Persist([s EXCEPT !.tokens = kept, !.pin = p])

------------------------------------------------------------------------------
(* The calls.                                                               *)

Locked == LockoutAfter > 0 /\ store.failures >= LockoutAfter
RateLimited == \E s \in Scopes : attempts[s] >= MaxAttempts

(* current_pin, and try_pair when it refuses before it looks at the PIN.    *)
CurrentPin ==
  /\ \E p \in InForce(store.pin) \ {store.pin} : Persist([store EXCEPT !.pin = p])
  /\ UNCHANGED attempts

RotatePin ==
  /\ \E p \in Pins \ {store.pin} : Persist([store EXCEPT !.pin = p, !.failures = 0])
  /\ UNCHANGED attempts

(* try_pair.                                                                *)
Failures == IF LockoutAfter = 0 THEN 0 ELSE store.failures + 1

WrongPin ==
  /\ ~Locked /\ ~RateLimited
  /\ attempts' = [s \in Scopes |-> attempts[s] + 1]
  /\ \E p \in InForce(store.pin) : Persist([store EXCEPT !.pin = p, !.failures = Failures])

RightPin(t) ==
  /\ ~Locked /\ ~RateLimited
  /\ attempts' = [attempts EXCEPT !["source"] = 0]
  /\ \E p \in InForce(store.pin) : Issue(t, [store EXCEPT !.pin = p, !.failures = 0])

MintSession(t) ==
  /\ Issue(t, store)
  /\ UNCHANGED attempts

(* validate_session, of a session past its lifetime.                        *)
ExpireSession(t) ==
  /\ Lifetimes /\ t \in store.tokens
  /\ Persist([store EXCEPT !.tokens = @ \ {t}])
  /\ UNCHANGED attempts

(* revoke, revoke_all and the end of revoke_controller_sessions.            *)
Revoke(ts) ==
  /\ IF ts \cap store.tokens # {}
     THEN Persist([store EXCEPT !.tokens = @ \ ts])
     ELSE UNCHANGED <<store, file>>
  /\ UNCHANGED attempts

Holds(t, d) == \E i \in DOMAIN store.bound[t] : store.bound[t][i] = d

SessionsOf(d) == {t \in Tokens : Holds(t, d)}

Remembered(keys) == IF Len(keys) > MaxKeys THEN Tail(keys) ELSE keys

BindController(t, d) ==
  /\ IF t \in store.tokens /\ ~Holds(t, d)
     THEN Persist([store EXCEPT !.bound[t] = Remembered(Append(@, d))])
     ELSE UNCHANGED <<store, file>>
  /\ UNCHANGED attempts

------------------------------------------------------------------------------
WindowEnds ==
  /\ \E s \in Scopes : attempts[s] > 0 /\ attempts' = [attempts EXCEPT ![s] = 0]
  /\ UNCHANGED <<store, file>>

(* The process starts again (PairingManager::new): the rate windows start   *)
(* afresh, the rest comes from the file.                                    *)
Restart ==
  /\ \E p \in InForce(file.pin), kept \in Pruned(file.tokens, MaxSessions) :
       IF p # file.pin \/ kept # file.tokens
       THEN Persist([file EXCEPT !.pin = p, !.tokens = kept])
       ELSE store' = file /\ UNCHANGED file
  /\ attempts' = [s \in Scopes |-> 0]

Housekeeping == CurrentPin \/ RotatePin \/ WrongPin \/ WindowEnds

------------------------------------------------------------------------------
(* A session forgets its device keys when it ends: a token that comes back  *)
(* carries nobody's keys (Inner::persist).                                  *)
BindingsFollow == \A t \in Tokens \ store.tokens : store.bound[t] = <<>>
==============================================================================
